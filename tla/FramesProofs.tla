---------------------------- MODULE FramesProofs ----------------------------
(***************************************************************************)
(* What a client encodes, the server decodes: the arguments of a method    *)
(* (loads and dumps, serialization.py), the properties of a content header *)
(* (method.py), and frames, whole or in part (frame.py).                   *)
(*                                                                         *)
(* dumps keeps up to eight bits until something else follows them; loads   *)
(* keeps what is left of the byte they came in.  The proof runs over both  *)
(* loops at once: Stored says what stands in the buffer of what dumps has  *)
(* so far, Follows where loads is when it has read as many arguments.      *)
(***************************************************************************)
EXTENDS SerializationProofs, AmqpClient

\* The letters of the formats (serialization.py:243-295).
Letters == {"b", "o", "B", "l", "L", "s", "S", "F"}

\* No format of the program has nine bits in a row.
EightBits(format) == \A n \in 1 .. Len(format) - 8 : \E i \in n .. n + 8 : format[i] # "b"

-----------------------------------------------------------------------------
(* Numbers, strs and dicts *)

\* A number of the struct module (serialization.py:252-267).
LEMMA NumberAt ==
    ASSUME NEW buf \in Seq(Byte), NEW o \in Nat, NEW width \in Nat,
           NEW val \in Nat, Fits(val, width), At(buf, o, pack(val, width))
    PROVE  unpack(Bytes(buf, o, width)) = val
<1>1. pack(val, width) \in Seq(Byte) /\ Len(pack(val, width)) = width
  BY PackType
<1>2. Bytes(buf, o, width) = pack(val, width)
  BY <1>1, AtBytes
<1> QED BY <1>2, UnpackPack

\* What dumps does at each letter but b (serialization.py:353-384).
LEMMA DumpCases ==
    ASSUME NEW val
    PROVE  /\ Dumped("o", val) = pack(val, 1)
           /\ Dumped("B", val) = pack(val, 2)
           /\ Dumped("l", val) = pack(val, 4)
           /\ Dumped("L", val) = pack(val, 8)
           /\ Dumped("s", val) = pack(Len(val), 1) \o val
           /\ Dumped("S", val) = Sized(val)
           /\ Dumped("F", val) = write_table(write_item[MaxDepth], val)
  BY DEF Dumped

\* What the loop of loads keeps (serialization.py:243-312) is not what is raised.
LEMMA StateNotRaised ==
    \A v, o, b, c :
        [values |-> v, offset |-> o, bits |-> b, bitcount |-> c] # UnicodeDecodeError
<1> TAKE v, o, b, c
<1> DEFINE r == [values |-> v, offset |-> o, bits |-> b, bitcount |-> c]
<1>1. /\ DOMAIN r = {"values", "offset", "bits", "bitcount"}
      /\ DOMAIN UnicodeDecodeError = {"name"}
  BY DEF UnicodeDecodeError
<1>2. "values" \notin {"name"}
  OBVIOUS
<1> HIDE DEF r
<1> QED BY <1>1, <1>2

\* What the loop of loads does at each letter (serialization.py:244-295), unless an earlier
\* one has raised.
LEMMA LoadCases ==
    ASSUME NEW buf, NEW r
    PROVE  r # UnicodeDecodeError =>
           /\ LoadOne(buf, r, "o") = Loaded(r, unpack(Bytes(buf, r.offset, 1)), 1)
           /\ LoadOne(buf, r, "B") = Loaded(r, unpack(Bytes(buf, r.offset, 2)), 2)
           /\ LoadOne(buf, r, "l") = Loaded(r, unpack(Bytes(buf, r.offset, 4)), 4)
           /\ LoadOne(buf, r, "L") = Loaded(r, unpack(Bytes(buf, r.offset, 8)), 8)
           /\ LoadOne(buf, r, "s") =
                LET size == unpack(Bytes(buf, r.offset, 1))
                IN LoadText(r, Bytes(buf, r.offset + 1, size), 1 + size)
           /\ LoadOne(buf, r, "S") =
                LET size == unpack(Bytes(buf, r.offset, 4))
                IN LoadText(r, Bytes(buf, r.offset + 4, size), 4 + size)
           /\ LoadOne(buf, r, "F") =
                LoadDict(r, SizedTable(read_item(buf), buf, r.offset))
           /\ LoadOne(buf, r, "b") = LoadBit(buf, r)
<1>0. HAVE r # UnicodeDecodeError
<1>1. LoadOne(buf, r, "o") = Loaded(r, unpack(Bytes(buf, r.offset, 1)), 1)
  BY <1>0 DEF LoadOne
<1>2. LoadOne(buf, r, "B") = Loaded(r, unpack(Bytes(buf, r.offset, 2)), 2)
  BY <1>0 DEF LoadOne
<1>3. LoadOne(buf, r, "l") = Loaded(r, unpack(Bytes(buf, r.offset, 4)), 4)
  BY <1>0 DEF LoadOne
<1>4. LoadOne(buf, r, "L") = Loaded(r, unpack(Bytes(buf, r.offset, 8)), 8)
  BY <1>0 DEF LoadOne
<1>5. LoadOne(buf, r, "s") =
        LET size == unpack(Bytes(buf, r.offset, 1))
        IN LoadText(r, Bytes(buf, r.offset + 1, size), 1 + size)
  BY <1>0 DEF LoadOne
<1>6. LoadOne(buf, r, "S") =
        LET size == unpack(Bytes(buf, r.offset, 4))
        IN LoadText(r, Bytes(buf, r.offset + 4, size), 4 + size)
  BY <1>0 DEF LoadOne
<1>7. LoadOne(buf, r, "F") = LoadDict(r, SizedTable(read_item(buf), buf, r.offset))
  BY <1>0 DEF LoadOne, SizedTable
<1>8. LoadOne(buf, r, "b") = LoadBit(buf, r)
  BY <1>0 DEF LoadOne
<1> QED BY <1>1, <1>2, <1>3, <1>4, <1>5, <1>6, <1>7, <1>8

\* A short string (serialization.py:272-277, 368-374).
LEMMA ShortAt ==
    ASSUME NEW buf \in Seq(Byte), NEW o \in Nat, NEW val \in Keys,
           At(buf, o, pack(Len(val), 1) \o val)
    PROVE  /\ pack(Len(val), 1) \o val \in Seq(Byte)
           /\ Len(pack(Len(val), 1) \o val) = 1 + Len(val)
           /\ unpack(Bytes(buf, o, 1)) = Len(val)
           /\ Bytes(buf, o + 1, Len(val)) = val
<1> DEFINE l == Len(val)
           h == pack(l, 1)
<1>1. val \in Seq(Byte) /\ l \in Byte /\ l \in Nat
  BY SMTT(60) DEF Keys, Str, Byte
<1> HIDE DEF l
<1>2. Fits(l, 1) /\ h \in Seq(Byte) /\ Len(h) = 1
  <2>1. l \in Int /\ 1 \in Nat
    BY <1>1
  <2>2. h \in Seq(Byte) /\ Len(h) = 1
    BY <2>1, PackType
  <2>3. Fits(l, 1)
    BY <1>1, FitsByte
  <2> QED BY <2>2, <2>3
<1>3. At(buf, o, h \o val)
  BY DEF l
<1> HIDE DEF h
<1>4. At(buf, o, h) /\ At(buf, o + 1, val)
  BY <1>1, <1>2, <1>3, AtConcat
<1>5. unpack(Bytes(buf, o, 1)) = l
  BY <1>1, <1>2, <1>4, NumberAt DEF h
<1>6. Bytes(buf, o + 1, Len(val)) = val
  BY <1>1, <1>4, AtBytes
<1>7. h \o val \in Seq(Byte) /\ Len(h \o val) = 1 + Len(val)
  BY <1>1, <1>2, ConcatProperties, ZenonT(60)
<1> QED BY <1>5, <1>6, <1>7 DEF l, h

\* The items at every offset, for the tables of loads (serialization.py:284-295).
LEMMA ItemsReady ==
    ASSUME NEW buf \in Seq(Byte), Fits(Len(buf), 4)
    PROVE  Ready(read_item(buf), buf, Len(buf), Items[MaxDepth], write_item[MaxDepth])
<1>1. PICK read : IsReadItem(read, buf)
  BY ReadItemDef
<1>2. Len(buf) \in 0 .. Len(buf) /\ MaxDepth \in 0 .. MaxDepth
  BY LenProperties, DepthAssumption
<1>3. Reads(read[Len(buf)], buf, Len(buf), Items[MaxDepth], write_item[MaxDepth])
  BY <1>1, <1>2, NestedRead
<1>4. \A x \in Items[MaxDepth] : Len(write_item[MaxDepth][x]) # 0
  BY <1>2, WriteItemType DEF Written
<1>5. read[Len(buf)] = read_item(buf)
  BY <1>1 DEF IsReadItem
<1> QED BY <1>3, <1>4, <1>5 DEF Ready

\* Bytes where a text is due (serialization.py:279-283): the letter S takes any, and the
\* response of AMQPLAIN need not be the form of a str.
Illegible(p, val) == p = "S" /\ ~Utf8(val)

\* What dumps writes for an argument that is no bit, loads reads at once
\* (serialization.py:252-295, 353-384), or raises.
LEMMA ArgumentAt ==
    ASSUME NEW buf \in Seq(Byte), Fits(Len(buf), 4), NEW r, r.offset \in Nat,
           r # UnicodeDecodeError, NEW p, NEW val, Taken(p, val), p # "b"
    PROVE  /\ Dumped(p, val) \in Seq(Byte)
           /\ At(buf, r.offset, Dumped(p, val)) =>
                LoadOne(buf, r, p) = IF Illegible(p, val) THEN UnicodeDecodeError
                                     ELSE Loaded(r, val, Len(Dumped(p, val)))
<1> DEFINE o == r.offset
           d == Dumped(p, val)
           Read == LoadOne(buf, r, p) = IF Illegible(p, val) THEN UnicodeDecodeError
                                        ELSE Loaded(r, val, Len(d))
           Goal == d \in Seq(Byte) /\ (At(buf, o, d) => Read)
<1>0. o \in Nat /\ (p # "S" => ~Illegible(p, val))
  BY DEF Illegible
<1>1. ASSUME NEW width \in Nat, val \in Nat, Fits(val, width), d = pack(val, width),
             LoadOne(buf, r, p) = Loaded(r, unpack(Bytes(buf, o, width)), width)
      PROVE  p # "S" => Goal
  <2>1. d \in Seq(Byte) /\ Len(d) = width
    BY <1>1, PackType
  <2>2. ASSUME At(buf, o, d) PROVE unpack(Bytes(buf, o, width)) = val
    BY <1>0, <1>1, <2>2, NumberAt
  <2>3. ASSUME p # "S", At(buf, o, d) PROVE Read
    BY <1>0, <1>1, <2>1, <2>2, <2>3
  <2> QED BY <2>1, <2>3
<1>2. CASE p = "o"
  BY <1>1, <1>2, DumpCases, LoadCases DEF Taken
<1>3. CASE p = "B"
  BY <1>1, <1>3, DumpCases, LoadCases DEF Taken
<1>4. CASE p = "l"
  BY <1>1, <1>4, DumpCases, LoadCases DEF Taken
<1>5. CASE p = "L"
  BY <1>1, <1>5, DumpCases, LoadCases DEF Taken
<1>6. CASE p = "s"
  <2>1. val \in Keys /\ d = pack(Len(val), 1) \o val
    BY <1>6, DumpCases DEF Taken
  <2>2. d \in Seq(Byte)
    BY <2>1, PackType, FitsByte DEF Keys, Str
  <2>3. ASSUME At(buf, o, d) PROVE LoadOne(buf, r, p) = Loaded(r, val, Len(d))
    <3>1. /\ unpack(Bytes(buf, o, 1)) = Len(val) /\ Bytes(buf, o + 1, Len(val)) = val
          /\ Len(d) = 1 + Len(val)
      BY <1>0, <2>1, <2>3, ShortAt
    <3>2. LoadOne(buf, r, p) = LoadText(r, Bytes(buf, o + 1, Len(val)), 1 + Len(val))
      BY <1>6, <3>1, LoadCases
    <3>3. Utf8(val)
      BY <2>1 DEF Keys, Str
    <3> QED BY <3>1, <3>2, <3>3 DEF LoadText
  <2> QED BY <1>0, <1>6, <2>2, <2>3
<1>7. CASE p = "S"
  <2>1. val \in Seq(Byte) /\ d = Sized(val)
    BY <1>7, DumpCases DEF Taken
  <2>2. d \in Seq(Byte) /\ Len(d) = 4 + Len(val)
    BY <2>1, SizedType
  <2>3. ASSUME At(buf, o, d) PROVE Read
    <3>1. unpack(Bytes(buf, o, 4)) = Len(val) /\ At(buf, o + 4, val)
      BY <1>0, <2>1, <2>3, AtSized
    <3>2. Bytes(buf, o + 4, Len(val)) = val
      BY <1>0, <2>1, <3>1, AtBytes
    <3>3. LoadOne(buf, r, p) = LoadText(r, Bytes(buf, o + 4, Len(val)), 4 + Len(val))
      BY <1>7, <3>1, LoadCases
    <3> QED BY <1>7, <2>2, <3>2, <3>3 DEF LoadText, Illegible
  <2> QED BY <2>2, <2>3
<1>8. CASE p = "F"
  <2> DEFINE items == Items[MaxDepth]
             w == write_item[MaxDepth]
             item == read_item(buf)
             n == Len(buf)
             t == SizedTable(item, buf, o)
  <2>1. val \in Dicts(items) /\ d = write_table(w, val)
    BY <1>8, DumpCases DEF Taken
  <2>2. w \in [items -> Seq(Byte)] /\ n \in Nat /\ Ready(item, buf, n, items, w)
    BY DepthAssumption, ItemsReady, WriteItemType, LenProperties DEF Written
  <2>3. LoadOne(buf, r, p) = LoadDict(r, t)
    BY <1>8, LoadCases
  <2> HIDE DEF items, w, item, o, n
  <2>4. d \in Seq(Byte)
    BY <2>1, <2>2, TableType
  <2>5. ASSUME At(buf, o, d) PROVE LoadOne(buf, r, p) = Loaded(r, val, Len(d))
    <3> DEFINE a == Len(d)
    <3>1. a \in Nat /\ o + a <= n
      BY <2>4, <2>5, LenProperties DEF At, n
    <3>2. At(buf, o, write_table(w, val)) /\ a = Len(write_table(w, val))
      BY <2>1, <2>5
    <3> HIDE DEF a, d
    <3>3. Len(write_table(w, val)) <= n + 4
      BY <1>0, <2>2, <3>1, <3>2
    <3>4. t = [val |-> val, offset |-> o + Len(write_table(w, val))]
      <4> HIDE DEF t
      <4> QED BY <1>0, <2>1, <2>2, <3>2, <3>3, TableAt DEF t
    <3>5. t.val = val /\ t.offset - o = a /\ t # UnicodeDecodeError
      <4> HIDE DEF t
      <4> QED BY <1>0, <3>1, <3>2, <3>4, ReadNotRaised
    <3>6. LoadOne(buf, r, p) = Loaded(r, t.val, t.offset - r.offset)
      <4> HIDE DEF t
      <4> QED BY <2>3, <3>5 DEF LoadDict
    <3> HIDE DEF t
    <3> QED BY <3>5, <3>6 DEF a, o
  <2> QED BY <1>0, <1>8, <2>4, <2>5 DEF o
<1> QED BY <1>2, <1>3, <1>4, <1>5, <1>6, <1>7, <1>8 DEF Taken

-----------------------------------------------------------------------------
(* Bits *)

\* What a byte with 0, 1, .. 8 bits in it is less than.
Weight == <<1, 2, 4, 8, 16, 32, 64, 128, 256>>

\* What is less is the rest of itself (serialization.py:249).
LEMMA WeightMod ==
    ASSUME NEW c \in 0 .. 8, NEW y \in 0 .. Weight[c + 1] - 1
    PROVE  y \in Nat /\ y % Weight[c + 1] = y
<1>1. c \in 0 .. 3 \/ c \in 4 .. 6 \/ c \in 7 .. 8
  OBVIOUS
<1>2. CASE c \in 0 .. 3
  BY <1>2 DEF Weight
<1>3. CASE c \in 4 .. 6
  BY <1>3 DEF Weight
<1>4. CASE c \in 7 .. 8
  BY <1>4 DEF Weight
<1> QED BY <1>1, <1>2, <1>3, <1>4

\* z is a byte with val on top of the c bits y; b is one that has them, and maybe more.
OnTop(c, b, y, z, val) ==
    /\ z \in 0 .. Weight[c + 2] - 1 /\ z \in Byte
    /\ b % Weight[c + 2] = z =>
          /\ b % Weight[c + 1] = y
          /\ ((b \div Weight[c + 1]) % 2 = 1) = val
          /\ b \div Weight[c + 2] = (b \div Weight[c + 1]) \div 2

\* dumps puts a bit on top (serialization.py:351), and loads finds it there, and what is
\* under it (serialization.py:249-250).
LEMMA BitOnTop ==
    ASSUME NEW c \in 0 .. 7, NEW b \in Byte, NEW y \in 0 .. Weight[c + 1] - 1,
           NEW val \in BOOLEAN
    PROVE  OnTop(c, b, y, y + (IF val THEN Bit[c + 1] ELSE 0), val)
<1>1. CASE c = 0
  BY <1>1 DEF OnTop, Weight, Bit, Byte
<1>2. CASE c = 1
  BY <1>2 DEF OnTop, Weight, Bit, Byte
<1>3. CASE c = 2
  BY <1>3 DEF OnTop, Weight, Bit, Byte
<1>4. CASE c = 3
  BY <1>4 DEF OnTop, Weight, Bit, Byte
<1>5. CASE c = 4
  BY <1>5 DEF OnTop, Weight, Bit, Byte
<1>6. CASE c = 5
  BY <1>6 DEF OnTop, Weight, Bit, Byte
<1>7. CASE c = 6
  BY <1>7 DEF OnTop, Weight, Bit, Byte
<1>8. CASE c = 7
  BY <1>8 DEF OnTop, Weight, Bit, Byte
<1> QED BY <1>1, <1>2, <1>3, <1>4, <1>5, <1>6, <1>7, <1>8

-----------------------------------------------------------------------------
(* A turn of both loops *)

\* What dumps keeps: its bytes, and at most eight bits of the next one.
Keeps(w) ==
    /\ w.out \in Seq(Byte) /\ w.bitcount \in 0 .. 8
    /\ w.bitcount = 0 => w.bits = <<>>
    /\ w.bitcount > 0 => \E y \in 0 .. Weight[w.bitcount + 1] - 1 : y \in Byte /\ w.bits = <<y>>

\* What stands at o in buf of what dumps has so far: the byte of its last bits may hold more.
Stored(buf, o, w) ==
    /\ At(buf, o, w.out)
    /\ w.bitcount > 0 =>
          /\ o + Len(w.out) < Len(buf)
          /\ <<buf[o + Len(w.out) + 1] % Weight[w.bitcount + 1]>> = w.bits

\* Where loads is in the same buffer.
Follows(buf, o, w, r) ==
    LET at == o + Len(w.out) IN
    /\ r # UnicodeDecodeError
    /\ IF w.bitcount = 0 THEN r.offset = at /\ r.bitcount = 0
       ELSE /\ r.offset = at + 1 /\ r.bitcount = 7
            /\ r.bits = buf[at + 1] \div Weight[w.bitcount + 1]

\* What _flushbits (serialization.py:316-320) writes, after the bytes before it.
LEMMA FlushAt ==
    ASSUME NEW buf \in Seq(Byte), NEW o \in Nat, NEW w, Keeps(w)
    PROVE  /\ w.out \o w.bits \in Seq(Byte)
           /\ At(buf, o, w.out \o w.bits) => Stored(buf, o, w)
           /\ \A r : Follows(buf, o, w, r) => r.offset = o + Len(w.out \o w.bits)
<1> DEFINE u == w.out
           v == w.bits
           c == w.bitcount
           a == Len(u)
<1>1. u \in Seq(Byte) /\ c \in 0 .. 8 /\ a \in Nat
  BY LenProperties DEF Keeps
<1>2. CASE c = 0
  <2>1. v = <<>> /\ u \o v = u
    <3>1. v = <<>>
      BY <1>2 DEF Keeps
    <3> HIDE DEF u, v
    <3> QED BY <1>1, <3>1, ConcatEmptySeq
  <2>2. At(buf, o, u \o v) => Stored(buf, o, w)
    BY <1>2, <2>1 DEF Stored
  <2>3. ASSUME NEW r, Follows(buf, o, w, r) PROVE r.offset = o + a
    BY <1>2, <2>3 DEF Follows
  <2> HIDE DEF u, v, c
  <2> QED BY <1>1, <2>1, <2>2, <2>3 DEF u, v
<1>3. CASE c > 0
  <2>1. PICK y \in 0 .. Weight[c + 1] - 1 : y \in Byte /\ v = <<y>>
    BY <1>3 DEF Keeps
  <2>2. v \in Seq(Byte) /\ Len(v) = 1 /\ v[1] = y
    BY <2>1
  <2>3. u \o v \in Seq(Byte) /\ Len(u \o v) = a + 1
    <3> HIDE DEF u, v
    <3>1. u \in Seq(Byte) /\ v \in Seq(Byte) /\ Len(v) = 1
      BY <1>1, <2>2
    <3>2. u \o v \in Seq(Byte) /\ Len(u \o v) = Len(u) + Len(v)
      BY <3>1, ConcatProperties, Zenon
    <3> QED BY <3>1, <3>2 DEF a
  <2>4. y % Weight[c + 1] = y
    <3> HIDE DEF c
    <3> QED BY <1>1, <2>1, WeightMod
  <2>5. ASSUME At(buf, o, u \o v) PROVE Stored(buf, o, w)
    <3>1. At(buf, o, u) /\ At(buf, o + a, v)
      BY <1>1, <2>2, <2>5, AtConcat
    <3>2. buf[o + a + 1] = y /\ o + a < Len(buf)
      <4> DEFINE l == Len(buf)
      <4> HIDE DEF u, v, a
      <4>1. (o + a) + 1 <= l /\ buf[(o + a) + 1] = v[1] /\ l \in Nat
        BY <2>2, <3>1, LenProperties DEF At
      <4> HIDE DEF l
      <4>2. o + a + 1 = (o + a) + 1 /\ o + a < l
        BY <1>1, <4>1
      <4> QED BY <2>2, <4>1, <4>2 DEF l
    <3> QED BY <2>1, <2>4, <3>1, <3>2 DEF Stored
  <2>6. ASSUME NEW r, Follows(buf, o, w, r) PROVE r.offset = o + a + 1
    BY <1>1, <1>3, <2>6 DEF Follows
  <2> HIDE DEF u, v, a
  <2>7. o + Len(u \o v) = o + a + 1
    BY <1>1, <2>3
  <2> QED BY <2>3, <2>5, <2>6, <2>7 DEF u, v
<1>4. c = 0 \/ c > 0
  BY <1>1
<1> HIDE DEF c
<1> QED BY <1>2, <1>3, <1>4

\* A bit, in both loops (serialization.py:244-251, 346-352).
LEMMA BitTurn ==
    ASSUME NEW buf \in Seq(Byte), NEW o \in Nat, NEW w, Keeps(w), w.bitcount # 8,
           NEW val \in BOOLEAN
    PROVE  LET d == DumpBit(w, val)
           IN /\ Keeps(d) /\ d.bitcount = w.bitcount + 1
              /\ Stored(buf, o, d) =>
                    /\ Stored(buf, o, w)
                    /\ \A r : Follows(buf, o, w, r) =>
                          /\ LoadBit(buf, r).values = Append(r.values, val)
                          /\ Follows(buf, o, d, LoadBit(buf, r))
<1> DEFINE d == DumpBit(w, val)
           c == w.bitcount
           a == Len(w.out)
           b == buf[o + a + 1]
<1>1. w.out \in Seq(Byte) /\ c \in 0 .. 7 /\ a \in Nat
  BY LenProperties DEF Keeps
<1>2. \E y \in 0 .. Weight[c + 1] - 1 :
        /\ d.bits = <<y + (IF val THEN Bit[c + 1] ELSE 0)>>
        /\ c = 0 => w.bits = <<>>
        /\ c > 0 => w.bits = <<y>>
  <2>1. c % 8 = c
    BY <1>1
  <2>2. CASE c = 0
    <3>1. w.bits = <<>> /\ Append(<<>>, 0) = <<0>>
      <4>1. w.bits = <<>>
        BY <2>2 DEF Keeps
      <4> QED BY <4>1
    <3>2. d.bits = [<<0>> EXCEPT ![1] = @ + (IF val THEN Bit[c + 1] ELSE 0)]
      BY <2>1, <2>2, <3>1 DEF DumpBit
    <3>3. d.bits = <<0 + (IF val THEN Bit[c + 1] ELSE 0)>>
      BY <3>2
    <3>4. 0 \in 0 .. Weight[c + 1] - 1
      BY <2>2 DEF Weight
    <3> QED BY <2>2, <3>1, <3>3, <3>4
  <2>3. CASE c > 0
    <3>1. PICK y \in 0 .. Weight[c + 1] - 1 : w.bits = <<y>>
      BY <2>3 DEF Keeps
    <3>2. d.bits = [<<y>> EXCEPT ![1] = @ + (IF val THEN Bit[c + 1] ELSE 0)]
      BY <2>1, <2>3, <3>1 DEF DumpBit
    <3>3. d.bits = <<y + (IF val THEN Bit[c + 1] ELSE 0)>>
      BY <3>2
    <3> QED BY <2>3, <3>1, <3>3
  <2> QED BY <1>1, <2>2, <2>3
<1>3. PICK y \in 0 .. Weight[c + 1] - 1 :
        /\ d.bits = <<y + (IF val THEN Bit[c + 1] ELSE 0)>>
        /\ c = 0 => w.bits = <<>>
        /\ c > 0 => w.bits = <<y>>
  BY <1>2
<1> DEFINE z == y + (IF val THEN Bit[c + 1] ELSE 0)
<1>4. \A x \in Byte : OnTop(c, x, y, z, val)
  <2> HIDE DEF c
  <2> QED BY <1>1, BitOnTop
<1>5. d.bits = <<z>>
  BY <1>3
<1>6. d.out = w.out /\ d.bitcount = c + 1
  BY DEF DumpBit
<1> HIDE DEF z, d
<1>7. (c + 1) + 1 = c + 2 /\ c + 1 \in 0 .. 8 /\ c + 1 > 0
  BY <1>1
<1>8. Keeps(d)
  <2>1. z \in 0 .. Weight[c + 2] - 1 /\ z \in Byte
    <3>1. 0 \in Byte
      BY DEF Byte
    <3> QED BY <1>4, <3>1 DEF OnTop
  <2>2. z \in 0 .. Weight[(c + 1) + 1] - 1
    BY <1>7, <2>1
  <2> QED BY <1>1, <1>5, <1>6, <1>7, <2>1, <2>2 DEF Keeps
<1>9. ASSUME Stored(buf, o, d)
      PROVE  /\ Stored(buf, o, w)
             /\ \A r : Follows(buf, o, w, r) =>
                   /\ LoadBit(buf, r).values = Append(r.values, val)
                   /\ Follows(buf, o, d, LoadBit(buf, r))
  <2>1. At(buf, o, w.out) /\ o + a < Len(buf) /\ <<b % Weight[c + 2]>> = <<z>>
    BY <1>5, <1>6, <1>7, <1>9 DEF Stored
  <2>2. o + a + 1 \in 1 .. Len(buf)
    BY <1>1, <2>1, LenProperties
  <2>3. b \in Byte
    BY <2>2, ElementOfSeq
  <2>4. b % Weight[c + 2] = z
    BY <2>1
  <2>5. /\ b % Weight[c + 1] = y
        /\ ((b \div Weight[c + 1]) % 2 = 1) = val
        /\ b \div Weight[c + 2] = (b \div Weight[c + 1]) \div 2
    BY <1>4, <2>3, <2>4 DEF OnTop
  <2>6. Stored(buf, o, w)
    <3>1. c > 0 => <<b % Weight[c + 1]>> = w.bits
      <4> HIDE DEF b, c
      <4> QED BY <1>1, <1>3, <2>5
    <3> QED BY <2>1, <3>1 DEF Stored
  <2>7. ASSUME NEW r, Follows(buf, o, w, r)
        PROVE  /\ LoadBit(buf, r).values = Append(r.values, val)
               /\ Follows(buf, o, d, LoadBit(buf, r))
    <3> DEFINE bits == IF r.bitcount = 0 THEN buf[r.offset + 1] ELSE r.bits
               next == IF r.bitcount = 0 THEN r.offset + 1 ELSE r.offset
    <3>1. LoadBit(buf, r) = [values |-> Append(r.values, bits % 2 = 1), offset |-> next,
                             bits |-> bits \div 2, bitcount |-> 7]
      BY DEF LoadBit
    <3>2. bits = b \div Weight[c + 1] /\ next = o + a + 1
      <4>1. CASE c = 0
        <5>1. r.offset = o + a /\ r.bitcount = 0
          BY <2>7, <4>1 DEF Follows
        <5>2. Weight[c + 1] = 1
          BY <4>1 DEF Weight
        <5> HIDE DEF a, b
        <5>3. b \div 1 = b
          BY <2>3 DEF Byte
        <5> QED BY <5>1, <5>2, <5>3 DEF b
      <4>2. CASE c # 0
        BY <2>7, <4>2 DEF Follows
      <4> QED BY <4>1, <4>2
    <3> HIDE DEF bits, next
    <3>3. (bits % 2 = 1) = val /\ bits \div 2 = b \div Weight[c + 2]
      BY <2>5, <3>2
    <3>4. LoadBit(buf, r).values = Append(r.values, val)
      BY <3>1, <3>3
    <3>5. Follows(buf, o, d, LoadBit(buf, r))
      <4>1. LoadBit(buf, r) # UnicodeDecodeError
        BY <3>1, StateNotRaised
      <4> QED BY <1>1, <1>6, <1>7, <3>1, <3>2, <3>3, <4>1 DEF Follows
    <3> QED BY <3>4, <3>5
  <2> QED BY <2>6, <2>7
<1> QED BY <1>6, <1>8, <1>9 DEF d

\* What loads does with an argument: it follows dumps, which is at d, or raises.
Answers(buf, o, d, r, p, val) ==
    IF Illegible(p, val) THEN LoadOne(buf, r, p) = UnicodeDecodeError
    ELSE /\ LoadOne(buf, r, p).values = Append(r.values, val)
         /\ Follows(buf, o, d, LoadOne(buf, r, p))

\* Anything else, in both loops (serialization.py:252-295, 353-384).
LEMMA OtherTurn ==
    ASSUME NEW buf \in Seq(Byte), Fits(Len(buf), 4), NEW o \in Nat, NEW w, Keeps(w),
           NEW p, NEW val, Taken(p, val), p # "b"
    PROVE  LET d == DumpOne(w, p, val)
           IN /\ Keeps(d) /\ d.bitcount = 0
              /\ Stored(buf, o, d) =>
                    /\ Stored(buf, o, w)
                    /\ \A r : Follows(buf, o, w, r) => Answers(buf, o, d, r, p, val)
<1> DEFINE d == DumpOne(w, p, val)
           u == w.out \o w.bits
           v == Dumped(p, val)
           a == Len(u)
           e == Len(v)
<1>1. /\ u \in Seq(Byte) /\ a \in Nat
      /\ At(buf, o, u) => Stored(buf, o, w)
      /\ \A r : Follows(buf, o, w, r) => r.offset = o + a
  BY FlushAt, LenProperties
<1>2. v \in Seq(Byte) /\ e \in Nat
  <2> DEFINE r == [values |-> 0, offset |-> 0, bits |-> 0, bitcount |-> 0]
  <2>1. r.offset \in Nat /\ r # UnicodeDecodeError
    BY StateNotRaised
  <2> HIDE DEF r
  <2>2. v \in Seq(Byte)
    BY <2>1, ArgumentAt
  <2> QED BY <2>2, LenProperties
<1>3. d.out = u \o v /\ d.bits = <<>> /\ d.bitcount = 0
  BY DEF DumpOne, flushbits
<1> HIDE DEF d, u, v
<1>4. u \o v \in Seq(Byte) /\ Len(u \o v) = a + e
  BY <1>1, <1>2, ConcatProperties
<1>5. Keeps(d)
  BY <1>3, <1>4 DEF Keeps
<1>6. ASSUME Stored(buf, o, d)
      PROVE  /\ Stored(buf, o, w)
             /\ \A r : Follows(buf, o, w, r) => Answers(buf, o, d, r, p, val)
  <2>1. At(buf, o, u) /\ At(buf, o + a, v)
    <3>1. At(buf, o, u \o v)
      BY <1>3, <1>6 DEF Stored
    <3> QED BY <1>1, <1>2, <3>1, AtConcat
  <2>2. ASSUME NEW r, Follows(buf, o, w, r) PROVE Answers(buf, o, d, r, p, val)
    <3> DEFINE l == LoadOne(buf, r, p)
    <3> HIDE DEF a, e
    <3>1. r.offset = o + a /\ r.offset \in Nat /\ r # UnicodeDecodeError
      BY <1>1, <2>2 DEF Follows
    <3>2. l = IF Illegible(p, val) THEN UnicodeDecodeError ELSE Loaded(r, val, e)
      <4>1. At(buf, r.offset, v)
        BY <2>1, <3>1
      <4> QED BY <3>1, <4>1, ArgumentAt DEF v, e
    <3>3. CASE Illegible(p, val)
      BY <3>2, <3>3 DEF Answers
    <3>4. CASE ~Illegible(p, val)
      <4>1. l = Loaded(r, val, e)
        BY <3>2, <3>4
      <4> HIDE DEF l
      <4>2. /\ l.values = Append(r.values, val) /\ l.offset = o + a + e
            /\ l.bitcount = 0 /\ l # UnicodeDecodeError
        BY <3>1, <4>1, StateNotRaised DEF Loaded
      <4>3. o + Len(d.out) = o + a + e
        BY <1>1, <1>2, <1>3, <1>4 DEF a, e
      <4>4. Follows(buf, o, d, l)
        BY <1>3, <4>2, <4>3 DEF Follows
      <4> QED BY <3>4, <4>2, <4>4 DEF Answers, l
    <3> QED BY <3>3, <3>4
  <2> QED BY <1>1, <2>1, <2>2
<1> QED BY <1>3, <1>5, <1>6 DEF d

-----------------------------------------------------------------------------
(* The loops *)

\* What dumps has after each argument (serialization.py:323-392).
IsDump(w, format, values) ==
    /\ w[0] = [out |-> <<>>, bits |-> <<>>, bitcount |-> 0]
    /\ \A n \in 1 .. Len(values) : w[n] = DumpOne(w[n - 1], format[n], values[n])
    /\ dumps(format, values) = flushbits(w[Len(values)]).out

\* What loads has after each letter (serialization.py:218-313).
IsLoad(r, format, buf, offset) ==
    /\ r[0] = [values |-> <<>>, offset |-> offset, bits |-> 0, bitcount |-> 0]
    /\ \A n \in 1 .. Len(format) : r[n] = LoadOne(buf, r[n - 1], format[n])
    /\ load(format, buf, offset) = r[Len(format)]

\* dumps takes its arguments one after the other (serialization.py:344).
LEMMA DumpLoop ==
    ASSUME NEW format, NEW S, NEW values \in Seq(S)
    PROVE  \E w : IsDump(w, format, values)
<1> DEFINE m == Len(values)
           start == [out |-> <<>>, bits |-> <<>>, bitcount |-> 0]
           Turn(n, x) == DumpOne(x, format[n], values[n])
           Rec(f, k) == f = [n \in 0 .. k |-> IF n = 0 THEN start ELSE Turn(n, f[n - 1])]
           T == {k \in Nat : \E f : Rec(f, k)}
<1>1. dumps(format, values) = flushbits((CHOOSE f : Rec(f, m))[m]).out
  BY DEF dumps
<1>2. m \in Nat
  BY LenProperties
<1> HIDE DEF Turn, m, start
<1>3. 0 \in T
  <2>1. Rec([n \in 0 .. 0 |-> start], 0)
    OBVIOUS
  <2> QED BY <2>1
<1>4. ASSUME NEW k \in Nat, k \in T PROVE k + 1 \in T
  <2>1. PICK f : Rec(f, k)
    BY <1>4
  <2> DEFINE g == [n \in 0 .. k + 1 |-> IF n = k + 1 THEN Turn(k + 1, f[k]) ELSE f[n]]
  <2>2. Rec(g, k + 1)
    BY <2>1
  <2> HIDE DEF g
  <2> QED BY <2>2
<1>5. Nat \subseteq T
  <2> HIDE DEF T
  <2> QED BY <1>3, <1>4, SetInduction
<1> DEFINE w == CHOOSE f : Rec(f, m)
<1>6. Rec(w, m)
  BY <1>2, <1>5
<1>7. dumps(format, values) = flushbits(w[m]).out
  BY <1>1
<1> HIDE DEF w
<1>8. w[0] = start /\ \A n \in 1 .. m : w[n] = Turn(n, w[n - 1])
  BY <1>2, <1>6
<1>9. IsDump(w, format, values)
  BY <1>7, <1>8 DEF IsDump, Turn, m, start
<1> QED BY <1>9

\* loads takes the letters one after the other (serialization.py:243).
LEMMA LoadLoop ==
    ASSUME NEW S, NEW format \in Seq(S), NEW buf, NEW offset
    PROVE  \E r : IsLoad(r, format, buf, offset)
<1> DEFINE m == Len(format)
           start == [values |-> <<>>, offset |-> offset, bits |-> 0, bitcount |-> 0]
           Turn(n, x) == LoadOne(buf, x, format[n])
           Rec(f, k) == f = [n \in 0 .. k |-> IF n = 0 THEN start ELSE Turn(n, f[n - 1])]
           T == {k \in Nat : \E f : Rec(f, k)}
<1>1. load(format, buf, offset) = (CHOOSE f : Rec(f, m))[m]
  BY DEF load
<1>2. m \in Nat
  BY LenProperties
<1> HIDE DEF Turn, m, start
<1>3. 0 \in T
  <2>1. Rec([n \in 0 .. 0 |-> start], 0)
    OBVIOUS
  <2> QED BY <2>1
<1>4. ASSUME NEW k \in Nat, k \in T PROVE k + 1 \in T
  <2>1. PICK f : Rec(f, k)
    BY <1>4
  <2> DEFINE g == [n \in 0 .. k + 1 |-> IF n = k + 1 THEN Turn(k + 1, f[k]) ELSE f[n]]
  <2>2. Rec(g, k + 1)
    BY <2>1
  <2> HIDE DEF g
  <2> QED BY <2>2
<1>5. Nat \subseteq T
  <2> HIDE DEF T
  <2> QED BY <1>3, <1>4, SetInduction
<1> DEFINE r == CHOOSE f : Rec(f, m)
<1>6. Rec(r, m)
  BY <1>2, <1>5
<1>7. load(format, buf, offset) = r[m]
  BY <1>1
<1> HIDE DEF r
<1>8. r[0] = start /\ \A n \in 1 .. m : r[n] = Turn(n, r[n - 1])
  BY <1>2, <1>6
<1>9. IsLoad(r, format, buf, offset)
  BY <1>7, <1>8 DEF IsLoad, Turn, m, start
<1> QED BY <1>9

\* What dumps can be given: an argument for each letter.
Arguments(format, values) ==
    /\ Len(values) = Len(format) /\ EightBits(format)
    /\ \A n \in 1 .. Len(format) : Taken(format[n], values[n])

\* The bits that dumps keeps are those of the letters just before (serialization.py:352).
BitsKept(w, format, n) ==
    /\ Keeps(w[n]) /\ w[n].bitcount <= n
    /\ \A i \in n + 1 - w[n].bitcount .. n : format[i] = "b"

\* A turn of both loops, whatever the letter.
Turns(w, format, values, buf, o, n) ==
    Stored(buf, o, w[n]) =>
        /\ Stored(buf, o, w[n - 1])
        /\ \A r : Follows(buf, o, w[n - 1], r) =>
              Answers(buf, o, w[n], r, format[n], values[n])

\* dumps and loads go through their arguments in step (serialization.py:243, 344).
LEMMA InStep ==
    ASSUME NEW buf \in Seq(Byte), Fits(Len(buf), 4), NEW o \in Nat,
           NEW format \in Seq(Letters), NEW S, NEW values \in Seq(S),
           Arguments(format, values), NEW w, IsDump(w, format, values),
           NEW n \in 1 .. Len(values), BitsKept(w, format, n - 1)
    PROVE  BitsKept(w, format, n) /\ Turns(w, format, values, buf, o, n)
<1> DEFINE m == Len(values)
           u == w[n - 1]
           d == w[n]
           p == format[n]
           val == values[n]
           c == u.bitcount
<1>1. m \in Nat /\ n \in Nat /\ n >= 1 /\ n <= m /\ (n - 1) + 1 = n /\ m = Len(format)
  BY LenProperties DEF Arguments
<1>2. /\ d = DumpOne(u, p, val) /\ Taken(p, val) /\ Keeps(u)
      /\ c <= n - 1 /\ c \in 0 .. 8
      /\ \A i \in n - c .. n - 1 : format[i] = "b"
  <2>1. d = DumpOne(u, p, val)
    BY DEF IsDump
  <2>2. Taken(p, val)
    BY <1>1 DEF Arguments
  <2>3. Keeps(u) /\ c <= n - 1 /\ \A i \in (n - 1) + 1 - c .. n - 1 : format[i] = "b"
    BY DEF BitsKept
  <2>4. c \in 0 .. 8
    BY <2>3 DEF Keeps
  <2> HIDE DEF c
  <2>5. (n - 1) + 1 - c = n - c
    BY <1>1, <2>4
  <2> QED BY <2>1, <2>2, <2>3, <2>4, <2>5
<1> HIDE DEF u, d, p, val, m
<1>3. CASE p = "b"
  <2>1. c # 8
    <3> SUFFICES ASSUME c = 8 PROVE FALSE
      OBVIOUS
    <3>1. n - 8 \in 1 .. Len(format) - 8
      BY <1>1, <1>2
    <3>2. PICK i \in n - 8 .. (n - 8) + 8 : format[i] # "b"
      BY <3>1 DEF EightBits, Arguments
    <3>3. i \in n - 8 .. n - 1 \/ i = n
      BY <1>1, <3>2
    <3> QED BY <1>2, <1>3, <3>2, <3>3 DEF p
  <2>2. /\ val \in BOOLEAN /\ d = DumpBit(u, val) /\ ~Illegible(p, val)
        /\ \A r : Follows(buf, o, u, r) => LoadOne(buf, r, p) = LoadBit(buf, r)
    BY <1>2, <1>3, LoadCases DEF Taken, DumpOne, Illegible, Follows
  <2>3. /\ Keeps(d) /\ d.bitcount = c + 1
        /\ Stored(buf, o, d) =>
              /\ Stored(buf, o, u)
              /\ \A r : Follows(buf, o, u, r) =>
                    /\ LoadBit(buf, r).values = Append(r.values, val)
                    /\ Follows(buf, o, d, LoadBit(buf, r))
    BY <1>2, <2>1, <2>2, BitTurn
  <2>4. d.bitcount <= n /\ \A i \in n + 1 - d.bitcount .. n : format[i] = "b"
    <3>1. c + 1 <= n
      <4>1. c \in Nat /\ c <= n - 1
        BY <1>2
      <4> HIDE DEF c
      <4> QED BY <1>1, <4>1
    <3>2. ASSUME NEW i \in n + 1 - (c + 1) .. n PROVE format[i] = "b"
      <4> HIDE DEF c
      <4>1. i \in n - c .. n - 1 \/ i = n
        BY <1>1, <1>2, <3>2
      <4> QED BY <1>2, <1>3, <4>1 DEF p
    <3> QED BY <2>3, <3>1, <3>2
  <2>5. BitsKept(w, format, n)
    BY <2>3, <2>4 DEF BitsKept, d
  <2>6. Turns(w, format, values, buf, o, n)
    BY <2>2, <2>3 DEF Turns, Answers, d, u, p, val
  <2> QED BY <2>5, <2>6
<1>4. CASE p # "b"
  <2>1. /\ Keeps(d) /\ d.bitcount = 0
        /\ Stored(buf, o, d) =>
              /\ Stored(buf, o, u)
              /\ \A r : Follows(buf, o, u, r) => Answers(buf, o, d, r, p, val)
    BY <1>2, <1>4, OtherTurn
  <2>2. BitsKept(w, format, n)
    BY <1>1, <2>1 DEF BitsKept, d
  <2>3. Turns(w, format, values, buf, o, n)
    BY <2>1 DEF Turns, d, u, p, val
  <2> QED BY <2>2, <2>3
<1> QED BY <1>3, <1>4

\* An empty buffer has a length that four bytes hold (serialization.py:267).
LEMMA FitsNone == Fits(Len(<<>>), 4)
<1> DEFINE s == Shifted(0, 4)
<1>1. s[0] = 0 /\ \A k \in 1 .. 4 : s[k] = s[k - 1] \div 256
  BY ShiftedDef, 0 \in Int, 4 \in Nat
<1> HIDE DEF s
<1>2. s[1] = 0 /\ s[2] = s[1] \div 256 /\ s[3] = s[2] \div 256 /\ s[4] = s[3] \div 256
  BY <1>1, 1 \in 1 .. 4, 2 \in 1 .. 4, 3 \in 1 .. 4, 4 \in 1 .. 4
<1>3. s[4] = 0
  BY <1>2
<1>4. Len(<<>>) = 0
  OBVIOUS
<1> QED BY <1>3, <1>4 DEF Fits, s

\* After each argument (serialization.py:344-384).
LEMMA DumpKeeps ==
    ASSUME NEW format \in Seq(Letters), NEW S, NEW values \in Seq(S),
           Arguments(format, values), NEW w, IsDump(w, format, values)
    PROVE  \A n \in 0 .. Len(values) : BitsKept(w, format, n)
<1> DEFINE m == Len(values)
<1>2. <<>> \in Seq(Byte) /\ Fits(Len(<<>>), 4) /\ 0 \in Nat
  BY FitsNone
<1>3. m \in Nat /\ m = Len(format) /\ values = [i \in 1 .. m |-> values[i]]
  BY LenProperties DEF Arguments
<1> HIDE DEF m
<1>4. \A n \in 0 .. m : BitsKept(w, format, n)
  <2> DEFINE T == {n \in Nat : n <= m => BitsKept(w, format, n)}
  <2>1. 0 \in T
    <3>1. w[0] = [out |-> <<>>, bits |-> <<>>, bitcount |-> 0]
      BY DEF IsDump
    <3>2. Keeps(w[0]) /\ w[0].bitcount = 0
      BY <3>1 DEF Keeps
    <3> QED BY <3>2 DEF BitsKept
  <2>2. ASSUME NEW n \in Nat, n \in T PROVE n + 1 \in T
    <3> SUFFICES ASSUME n + 1 <= m PROVE BitsKept(w, format, n + 1)
      OBVIOUS
    <3>1. n + 1 \in 1 .. m /\ BitsKept(w, format, (n + 1) - 1)
      BY <1>3, <2>2
    <3> QED BY <1>2, <3>1, InStep DEF m
  <2>3. Nat \subseteq T
    <3> HIDE DEF T
    <3> QED BY <2>1, <2>2, SetInduction
  <2> QED BY <1>3, <2>3
<1> QED BY <1>4 DEF m

\* dumps writes bytes (serialization.py:384-392).
LEMMA DumpsType ==
    ASSUME NEW format \in Seq(Letters), NEW S, NEW values \in Seq(S),
           Arguments(format, values)
    PROVE  dumps(format, values) \in Seq(Byte)
<1>1. PICK w : IsDump(w, format, values)
  BY DumpLoop
<1> DEFINE m == Len(values)
           v == w[m]
<1>2. Keeps(v)
  <2>1. m \in 0 .. m
    BY LenProperties
  <2> QED BY <1>1, <2>1, DumpKeeps DEF BitsKept
<1>3. dumps(format, values) = v.out \o v.bits
  BY <1>1 DEF IsDump, flushbits
<1> HIDE DEF v
<1>4. <<>> \in Seq(Byte) /\ 0 \in Nat
  OBVIOUS
<1> QED BY <1>2, <1>3, <1>4, FlushAt

\* Every argument is what the decoder takes it for.
Legible(format, values) == \A n \in 1 .. Len(values) : ~Illegible(format[n], values[n])

\* loads reads the arguments that dumps wrote (serialization.py:218-313, 323-392), wherever
\* they stand in a buffer whose length four bytes hold and whatever follows them; it
\* raises when bytes were written where it decodes a text.
THEOREM ArgumentsRoundTrip ==
    ASSUME NEW format \in Seq(Letters), NEW S, NEW values \in Seq(S),
           Arguments(format, values),
           NEW buf \in Seq(Byte), Fits(Len(buf), 4), NEW o \in Nat,
           At(buf, o, dumps(format, values))
    PROVE  IF Legible(format, values)
           THEN /\ load(format, buf, o) # UnicodeDecodeError
                /\ load(format, buf, o).values = values
           ELSE load(format, buf, o) = UnicodeDecodeError
<1> DEFINE m == Len(values)
<1>1. PICK w : IsDump(w, format, values)
  BY DumpLoop
<1>2. PICK r : IsLoad(r, format, buf, o)
  BY LoadLoop
<1>3. m \in Nat /\ m = Len(format) /\ values = [i \in 1 .. m |-> values[i]]
  BY LenProperties DEF Arguments
<1> HIDE DEF m
<1>4. \A n \in 0 .. m : BitsKept(w, format, n)
  BY <1>1, DumpKeeps DEF m
<1>5. \A n \in 1 .. m : Turns(w, format, values, buf, o, n)
  <2> SUFFICES ASSUME NEW n \in 1 .. m PROVE Turns(w, format, values, buf, o, n)
    OBVIOUS
  <2>1. BitsKept(w, format, n - 1)
    BY <1>3, <1>4
  <2> QED BY <1>1, <2>1, InStep DEF m
<1>6. Stored(buf, o, w[m])
  <2>1. At(buf, o, w[m].out \o w[m].bits)
    BY <1>1 DEF IsDump, flushbits, m
  <2>2. Keeps(w[m])
    BY <1>3, <1>4 DEF BitsKept
  <2> QED BY <2>1, <2>2, FlushAt
<1>7. \A n \in 0 .. m : Stored(buf, o, w[n])
  <2> DEFINE T == {k \in Nat : k <= m => Stored(buf, o, w[m - k])}
  <2>1. 0 \in T
    BY <1>3, <1>6
  <2>2. ASSUME NEW k \in Nat, k \in T PROVE k + 1 \in T
    <3> SUFFICES ASSUME k + 1 <= m PROVE Stored(buf, o, w[m - (k + 1)])
      OBVIOUS
    <3>1. m - k \in 1 .. m /\ m - (k + 1) = (m - k) - 1 /\ Stored(buf, o, w[m - k])
      BY <1>3, <2>2
    <3> QED BY <1>5, <3>1 DEF Turns
  <2>3. Nat \subseteq T
    <3> HIDE DEF T
    <3> QED BY <2>1, <2>2, SetInduction
  <2> SUFFICES ASSUME NEW n \in 0 .. m PROVE Stored(buf, o, w[n])
    OBVIOUS
  <2>4. m - n \in Nat /\ m - n <= m /\ m - (m - n) = n
    BY <1>3
  <2> QED BY <2>3, <2>4
<1> DEFINE First(n) == [i \in 1 .. n |-> values[i]]
           Plain(n) == \A i \in 1 .. n : ~Illegible(format[i], values[i])
           State(n) == IF Plain(n) THEN Follows(buf, o, w[n], r[n]) /\ r[n].values = First(n)
                       ELSE r[n] = UnicodeDecodeError
<1>8. \A n \in 0 .. m : State(n)
  <2> DEFINE T == {n \in Nat : n <= m => State(n)}
  <2>1. 0 \in T
    <3>1. /\ w[0] = [out |-> <<>>, bits |-> <<>>, bitcount |-> 0]
          /\ r[0] = [values |-> <<>>, offset |-> o, bits |-> 0, bitcount |-> 0]
      BY <1>1, <1>2 DEF IsDump, IsLoad
    <3>2. Follows(buf, o, w[0], r[0])
      BY <3>1, StateNotRaised DEF Follows
    <3>3. r[0].values = First(0)
      BY <3>1
    <3> QED BY <3>2, <3>3
  <2>2. ASSUME NEW n \in Nat, n \in T PROVE n + 1 \in T
    <3> SUFFICES ASSUME n + 1 <= m PROVE State(n + 1)
      OBVIOUS
    <3>1. n + 1 \in 1 .. m /\ n + 1 \in 0 .. m /\ (n + 1) - 1 = n /\ n <= m
      BY <1>3
    <3>2. State(n)
      BY <2>2, <3>1
    <3>3. r[n + 1] = LoadOne(buf, r[n], format[n + 1])
      BY <1>2, <1>3, <3>1 DEF IsLoad
    <3>4. Plain(n + 1) = (Plain(n) /\ ~Illegible(format[n + 1], values[n + 1]))
      <4> DEFINE P(i) == ~Illegible(format[i], values[i])
      <4> HIDE DEF P
      <4>1. (\A i \in 1 .. n + 1 : P(i)) <=> (\A i \in 1 .. n : P(i)) /\ P(n + 1)
        OBVIOUS
      <4> QED BY <4>1, Zenon DEF P
    <3>5. CASE Plain(n)
      <4>1. Follows(buf, o, w[n], r[n]) /\ r[n].values = First(n)
        BY <3>2, <3>5
      <4>2. Turns(w, format, values, buf, o, n + 1) /\ Stored(buf, o, w[n + 1])
        BY <1>5, <1>7, <3>1
      <4> HIDE DEF First, Plain
      <4>3. Answers(buf, o, w[n + 1], r[n], format[n + 1], values[n + 1])
        BY <3>1, <4>1, <4>2 DEF Turns
      <4>4. Append(First(n), values[n + 1]) = First(n + 1)
        <5>1. \A i \in 1 .. n + 1 : values[i] \in S
          BY <1>3, <3>1 DEF m
        <5>2. First(n) \in Seq(S) /\ Len(First(n)) = n /\ \A i \in 1 .. n : First(n)[i] = values[i]
          BY <5>1 DEF First
        <5> DEFINE a == Append(First(n), values[n + 1])
        <5>3. /\ a = [i \in 1 .. n + 1 |-> a[i]] /\ a[n + 1] = values[n + 1]
              /\ \A i \in 1 .. n : a[i] = First(n)[i]
          <6> HIDE DEF First
          <6> DEFINE f == First(n)
                     e == values[n + 1]
          <6>1. f \in Seq(S) /\ e \in S /\ Len(f) = n
            BY <3>1, <5>1, <5>2
          <6> HIDE DEF f, e
          <6>2. /\ Append(f, e) \in Seq(S) /\ Len(Append(f, e)) = n + 1
                /\ Append(f, e)[n + 1] = e /\ \A i \in 1 .. n : Append(f, e)[i] = f[i]
            BY <6>1, AppendProperties
          <6>3. a = Append(f, e)
            BY DEF f, e
          <6> HIDE DEF a
          <6>4. a \in Seq(S) /\ Len(a) = n + 1
            BY <6>2, <6>3
          <6>5. a = [i \in 1 .. n + 1 |-> a[i]]
            BY <6>4
          <6> QED BY <6>2, <6>3, <6>5 DEF a, f, e
        <5> HIDE DEF a
        <5>4. \A i \in 1 .. n + 1 : a[i] = values[i]
          <6> SUFFICES ASSUME NEW i \in 1 .. n + 1 PROVE a[i] = values[i]
            OBVIOUS
          <6>1. i \in 1 .. n \/ i = n + 1
            BY <3>1
          <6> HIDE DEF First
          <6> QED BY <5>2, <5>3, <6>1
        <5>5. a = First(n + 1)
          BY <5>3, <5>4 DEF First
        <5> QED BY <5>5 DEF a
      <4>5. CASE Illegible(format[n + 1], values[n + 1])
        BY <3>3, <3>4, <4>3, <4>5 DEF Answers
      <4>6. CASE ~Illegible(format[n + 1], values[n + 1])
        <5>1. /\ r[n + 1].values = Append(First(n), values[n + 1])
              /\ Follows(buf, o, w[n + 1], r[n + 1])
          BY <3>3, <4>1, <4>3, <4>6 DEF Answers
        <5> QED BY <3>4, <3>5, <4>4, <4>6, <5>1
      <4> QED BY <4>5, <4>6
    <3>6. CASE ~Plain(n)
      <4>1. r[n] = UnicodeDecodeError
        BY <3>2, <3>6
      <4>2. r[n + 1] = UnicodeDecodeError
        BY <3>3, <4>1 DEF LoadOne
      <4> QED BY <3>4, <3>6, <4>2
    <3> QED BY <3>5, <3>6
  <2>3. Nat \subseteq T
    <3> HIDE DEF T
    <3> QED BY <2>1, <2>2, SetInduction
  <2>4. \A n \in 0 .. m : n \in Nat /\ n <= m
    BY <1>3
  <2> HIDE DEF State
  <2> QED BY <2>3, <2>4
<1>9. State(m) /\ Plain(m) = Legible(format, values) /\ First(m) = values
  <2>1. State(m)
    <3>1. m \in 0 .. m
      BY <1>3
    <3> HIDE DEF State
    <3> QED BY <1>8, <3>1
  <2>2. Plain(m) = Legible(format, values)
    BY DEF Legible, m
  <2>3. First(m) = values
    BY <1>3
  <2> HIDE DEF State, Plain, First
  <2> QED BY <2>1, <2>2, <2>3
<1>10. load(format, buf, o) = r[m]
  BY <1>2, <1>3 DEF IsLoad
<1> HIDE DEF First, Plain
<1> QED BY <1>9, <1>10 DEF Follows

-----------------------------------------------------------------------------
(* Content headers *)

\* What the loops over a table of properties have found after each entry
\* (method.py:86-89, sender.py:511-516).
IsSelected(f, table, names) ==
    /\ f[0] = <<>>
    /\ \A n \in 1 .. Len(table) :
          f[n] = IF table[n][1] \in names THEN Append(f[n - 1], table[n]) ELSE f[n - 1]
    /\ Selected(table, names) = f[Len(table)]

\* The sums of their masks (sender.py:514).
IsFlags(f, table, names) ==
    /\ f[0] = 0
    /\ \A n \in 1 .. Len(table) :
          f[n] = IF table[n][1] \in names THEN f[n - 1] + table[n][3] ELSE f[n - 1]
    /\ Flags(table, names) = f[Len(table)]

\* The loop over the entries (method.py:86-89, sender.py:511-516).
LEMMA SelectedLoop ==
    ASSUME NEW table, Len(table) \in Nat, NEW names
    PROVE  \E f : IsSelected(f, table, names)
<1> DEFINE m == Len(table)
           Turn(n, x) == IF table[n][1] \in names THEN Append(x, table[n]) ELSE x
           Rec(f, k) == f = [n \in 0 .. k |-> IF n = 0 THEN <<>> ELSE Turn(n, f[n - 1])]
           T == {k \in Nat : \E f : Rec(f, k)}
<1>1. Selected(table, names) = (CHOOSE f : Rec(f, m))[m]
  BY DEF Selected
<1>2. m \in Nat
  OBVIOUS
<1> HIDE DEF Turn, m
<1>3. 0 \in T
  <2>1. Rec([n \in 0 .. 0 |-> <<>>], 0)
    OBVIOUS
  <2> QED BY <2>1
<1>4. ASSUME NEW k \in Nat, k \in T PROVE k + 1 \in T
  <2>1. PICK f : Rec(f, k)
    BY <1>4
  <2> DEFINE g == [n \in 0 .. k + 1 |-> IF n = k + 1 THEN Turn(k + 1, f[k]) ELSE f[n]]
  <2>2. Rec(g, k + 1)
    BY <2>1
  <2> HIDE DEF g
  <2> QED BY <2>2
<1>5. Nat \subseteq T
  <2> HIDE DEF T
  <2> QED BY <1>3, <1>4, SetInduction
<1> DEFINE f == CHOOSE f : Rec(f, m)
<1>6. Rec(f, m)
  BY <1>2, <1>5
<1>7. Selected(table, names) = f[m]
  BY <1>1
<1> HIDE DEF f
<1>8. f[0] = <<>> /\ \A n \in 1 .. m : f[n] = Turn(n, f[n - 1])
  BY <1>2, <1>6
<1>9. IsSelected(f, table, names)
  BY <1>7, <1>8 DEF IsSelected, Turn, m
<1> QED BY <1>9

\* The sum goes along (sender.py:514).
LEMMA FlagsLoop ==
    ASSUME NEW table, Len(table) \in Nat, NEW names
    PROVE  \E f : IsFlags(f, table, names)
<1> DEFINE m == Len(table)
           Turn(n, x) == IF table[n][1] \in names THEN x + table[n][3] ELSE x
           Rec(f, k) == f = [n \in 0 .. k |-> IF n = 0 THEN 0 ELSE Turn(n, f[n - 1])]
           T == {k \in Nat : \E f : Rec(f, k)}
<1>1. Flags(table, names) = (CHOOSE f : Rec(f, m))[m]
  BY DEF Flags
<1>2. m \in Nat
  OBVIOUS
<1> HIDE DEF Turn, m
<1>3. 0 \in T
  <2>1. Rec([n \in 0 .. 0 |-> 0], 0)
    OBVIOUS
  <2> QED BY <2>1
<1>4. ASSUME NEW k \in Nat, k \in T PROVE k + 1 \in T
  <2>1. PICK f : Rec(f, k)
    BY <1>4
  <2> DEFINE g == [n \in 0 .. k + 1 |-> IF n = k + 1 THEN Turn(k + 1, f[k]) ELSE f[n]]
  <2>2. Rec(g, k + 1)
    BY <2>1
  <2> HIDE DEF g
  <2> QED BY <2>2
<1>5. Nat \subseteq T
  <2> HIDE DEF T
  <2> QED BY <1>3, <1>4, SetInduction
<1> DEFINE f == CHOOSE f : Rec(f, m)
<1>6. Rec(f, m)
  BY <1>2, <1>5
<1>7. Flags(table, names) = f[m]
  BY <1>1
<1> HIDE DEF f
<1>8. f[0] = 0 /\ \A n \in 1 .. m : f[n] = Turn(n, f[n - 1])
  BY <1>2, <1>6
<1>9. IsFlags(f, table, names)
  BY <1>7, <1>8 DEF IsFlags, Turn, m
<1> QED BY <1>9

\* What is found are entries of the table with one of the names, and all of them.
Found(s, table, names, n) ==
    /\ s \in Seq({table[m] : m \in 1 .. Len(table)})
    /\ \A i \in 1 .. Len(s) : \E m \in 1 .. n : s[i] = table[m] /\ table[m][1] \in names
    /\ \A m \in 1 .. n : table[m][1] \in names => \E i \in 1 .. Len(s) : s[i] = table[m]

\* The loop passes over nothing else (method.py:87, sender.py:512).
LEMMA SelectedFound ==
    ASSUME NEW table, Len(table) \in Nat, NEW names
    PROVE  Found(Selected(table, names), table, names, Len(table))
<1> DEFINE k == Len(table)
           E == {table[m] : m \in 1 .. k}
<1>1. PICK f : IsSelected(f, table, names)
  BY SelectedLoop
<1> DEFINE T == {n \in Nat : n <= k => Found(f[n], table, names, n)}
<1>2. 0 \in T
  <2>1. f[0] = <<>>
    BY <1>1 DEF IsSelected
  <2>2. <<>> \in Seq(E) /\ Len(<<>>) = 0
    OBVIOUS
  <2>3. Found(f[0], table, names, 0)
    BY <2>1, <2>2 DEF Found
  <2> QED BY <2>3
<1>3. ASSUME NEW n \in Nat, n \in T PROVE n + 1 \in T
  <2> SUFFICES ASSUME n + 1 <= k PROVE Found(f[n + 1], table, names, n + 1)
    OBVIOUS
  <2> DEFINE s == f[n]
             e == table[n + 1]
             l == Len(s)
  <2>1. n + 1 \in 1 .. k /\ (n + 1) - 1 = n /\ n <= k
    OBVIOUS
  <2>2. /\ s \in Seq(E)
        /\ \A i \in 1 .. l : \E m \in 1 .. n : s[i] = table[m] /\ table[m][1] \in names
        /\ \A m \in 1 .. n : table[m][1] \in names => \E i \in 1 .. l : s[i] = table[m]
    BY <1>3, <2>1 DEF Found
  <2>3. f[n + 1] = IF e[1] \in names THEN Append(s, e) ELSE s
    BY <1>1, <2>1 DEF IsSelected
  <2>4. e \in E /\ l \in Nat
    BY <2>1, <2>2, LenProperties
  <2>5. \A m : m \in 1 .. n + 1 <=> m \in 1 .. n \/ m = n + 1
    OBVIOUS
  <2>6. CASE e[1] \in names
    <3> DEFINE t == Append(s, e)
    <3>1. /\ t \in Seq(E) /\ Len(t) = l + 1 /\ t[l + 1] = e
          /\ \A i \in 1 .. l : t[i] = s[i]
      <4> HIDE DEF E, e, s
      <4> QED BY <2>2, <2>4, AppendProperties DEF l
    <3>2. f[n + 1] = t
      BY <2>3, <2>6
    <3> HIDE DEF E, e, s, t, l
    <3>3. \A i \in 1 .. l + 1 : i \in 1 .. l \/ i = l + 1
      BY <2>4
    <3>4. 1 .. l \subseteq 1 .. l + 1 /\ l + 1 \in 1 .. l + 1
      BY <2>4
    <3>5. ASSUME NEW i \in 1 .. l + 1
          PROVE  \E m \in 1 .. n + 1 : t[i] = table[m] /\ table[m][1] \in names
      <4>1. CASE i \in 1 .. l
        BY <2>2, <2>5, <3>1, <4>1
      <4>2. CASE i = l + 1
        <5>1. n + 1 \in 1 .. n + 1
          OBVIOUS
        <5> QED BY <2>6, <3>1, <4>2, <5>1 DEF e
      <4> QED BY <3>3, <4>1, <4>2
    <3>6. \A m \in 1 .. n + 1 : table[m][1] \in names => \E i \in 1 .. l + 1 : t[i] = table[m]
      BY <2>2, <2>5, <3>1, <3>4 DEF e
    <3>7. Found(t, table, names, n + 1)
      BY <3>1, <3>5, <3>6 DEF Found, E
    <3> QED BY <3>2, <3>7
  <2>7. CASE e[1] \notin names
    <3>1. f[n + 1] = s
      BY <2>3, <2>7
    <3> HIDE DEF E, s, l
    <3>2. \A i \in 1 .. l : \E m \in 1 .. n + 1 : s[i] = table[m] /\ table[m][1] \in names
      BY <2>2, <2>5
    <3>3. \A m \in 1 .. n + 1 : table[m][1] \in names => \E i \in 1 .. l : s[i] = table[m]
      BY <2>2, <2>5, <2>7
    <3>4. Found(s, table, names, n + 1)
      BY <2>2, <3>2, <3>3 DEF Found, E, l
    <3> QED BY <3>1, <3>4
  <2> QED BY <2>6, <2>7
<1>4. Nat \subseteq T
  <2> HIDE DEF T
  <2> QED BY <1>2, <1>3, SetInduction
<1>5. Found(f[k], table, names, k)
  BY <1>4
<1> QED BY <1>1, <1>5 DEF IsSelected

\* The table has fourteen entries under names of their own (method.py:49-64).
LEMMA PropertyTable ==
    /\ Len(PROPERTIES) = 14 /\ DOMAIN PROPERTIES = 1 .. 14
    /\ \A m, n \in 1 .. 14 : PROPERTIES[m][1] = PROPERTIES[n][1] => m = n
    /\ \A n \in 1 .. 14 : PROPERTIES[n][2] \in {"s", "F", "o", "L"}
<1>1. Len(PROPERTIES) = 14 /\ DOMAIN PROPERTIES = 1 .. 14
  BY DEF PROPERTIES
<1>2. ASSUME NEW n \in 1 .. 14 PROVE PROPERTIES[n][2] \in {"s", "F", "o", "L"}
  BY SMTT(30) DEF PROPERTIES
<1>3. ASSUME NEW m \in 1 .. 14, NEW n \in 1 .. 14, PROPERTIES[m][1] = PROPERTIES[n][1]
      PROVE  m = n
  BY <1>3, SMTT(30) DEF PROPERTIES
<1> QED BY <1>1, <1>2, <1>3

\* A bit of a number is what its mask leaves of the quotient (method.py:87).
LEMMA BitOfSum ==
    ASSUME NEW w \in {32768, 16384, 8192, 4096, 2048, 1024, 512, 256, 128, 64, 32, 16, 8, 4},
           NEW q \in Nat, NEW b \in {0, 1}, NEW r \in Nat, r < w,
           NEW s, s = w * (2 * q + b) + r
    PROVE  (s \div w) % 2 = b
<1>1. CASE w = 32768
  BY <1>1, SMT
<1>2. CASE w = 16384
  BY <1>2, SMT
<1>3. CASE w = 8192
  BY <1>3, SMT
<1>4. CASE w = 4096
  BY <1>4, SMT
<1>5. CASE w = 2048
  BY <1>5, SMT
<1>6. CASE w = 1024
  BY <1>6, SMT
<1>7. CASE w = 512
  BY <1>7, SMT
<1>8. CASE w = 256
  BY <1>8, SMT
<1>9. CASE w = 128
  BY <1>9, SMT
<1>10. CASE w = 64
  BY <1>10, SMT
<1>11. CASE w = 32
  BY <1>11, SMT
<1>12. CASE w = 16
  BY <1>12, SMT
<1>13. CASE w = 8
  BY <1>13, SMT
<1>14. CASE w = 4
  BY <1>14, SMT
<1> QED BY <1>1, <1>2, <1>3, <1>4, <1>5, <1>6, <1>7, <1>8, <1>9, <1>10, <1>11, <1>12, <1>13, <1>14

\* Each mask is a bit of its own in the sum (method.py:87, sender.py:514).
LEMMA MaskInSum ==
    ASSUME NEW names
    PROVE  LET s == Flags(PROPERTIES, names)
           IN /\ s \in Nat /\ s < 65536
              /\ \A n \in 1 .. 14 :
                    ((s \div PROPERTIES[n][3]) % 2 = 1) <=> PROPERTIES[n][1] \in names
<1>1. PICK f : IsFlags(f, PROPERTIES, names)
  <2>1. Len(PROPERTIES) \in Nat
    BY PropertyTable
  <2> QED BY <2>1, FlagsLoop
<1> DEFINE b == [n \in 1 .. 14 |-> IF PROPERTIES[n][1] \in names THEN 1 ELSE 0]
           m(n) == PROPERTIES[n][3]
           s == Flags(PROPERTIES, names)
<1>2. \A n \in 1 .. 14 : b[n] \in {0, 1} /\ (b[n] = 1 <=> PROPERTIES[n][1] \in names)
  OBVIOUS
<1>3. f[0] = 0 /\ s = f[14]
  BY <1>1, PropertyTable DEF IsFlags
<1>4. ASSUME NEW n \in 1 .. 14, f[n - 1] \in Int, m(n) \in Int
      PROVE  f[n] = f[n - 1] + m(n) * b[n]
  <2>1. f[n] = IF PROPERTIES[n][1] \in names THEN f[n - 1] + m(n) ELSE f[n - 1]
    BY <1>1, PropertyTable DEF IsFlags
  <2>2. CASE PROPERTIES[n][1] \in names
    BY <1>4, <2>1, <2>2
  <2>3. CASE PROPERTIES[n][1] \notin names
    BY <1>4, <2>1, <2>3
  <2> QED BY <2>2, <2>3
<1>5. m(1) = 32768
  BY SMT DEF PROPERTIES
<1>6. m(2) = 16384
  BY SMT DEF PROPERTIES
<1>7. m(3) = 8192
  BY SMT DEF PROPERTIES
<1>8. m(4) = 4096
  BY SMT DEF PROPERTIES
<1>9. m(5) = 2048
  BY SMT DEF PROPERTIES
<1>10. m(6) = 1024
  BY SMT DEF PROPERTIES
<1>11. m(7) = 512
  BY SMT DEF PROPERTIES
<1>12. m(8) = 256
  BY SMT DEF PROPERTIES
<1>13. m(9) = 128
  BY SMT DEF PROPERTIES
<1>14. m(10) = 64
  BY SMT DEF PROPERTIES
<1>15. m(11) = 32
  BY SMT DEF PROPERTIES
<1>16. m(12) = 16
  BY SMT DEF PROPERTIES
<1>17. m(13) = 8
  BY SMT DEF PROPERTIES
<1>18. m(14) = 4
  BY SMT DEF PROPERTIES
<1> HIDE DEF b, m, s
<1>19. /\ \A n \in 1 .. 14 : m(n) \in {32768, 16384, 8192, 4096, 2048, 1024, 512, 256, 128,
                                         64, 32, 16, 8, 4}
       /\ \A n \in 1 .. 13 : m(n) = 2 * m(n + 1)
  <2>1. ASSUME NEW n \in 1 .. 14
        PROVE  m(n) \in {32768, 16384, 8192, 4096, 2048, 1024, 512, 256, 128, 64, 32, 16, 8, 4}
    BY <1>5, <1>6, <1>7, <1>8, <1>9, <1>10, <1>11, <1>12, <1>13, <1>14, <1>15, <1>16, <1>17, <1>18, SMT
  <2>2. ASSUME NEW n \in 1 .. 13 PROVE m(n) = 2 * m(n + 1)
    BY <1>5, <1>6, <1>7, <1>8, <1>9, <1>10, <1>11, <1>12, <1>13, <1>14, <1>15, <1>16, <1>17, <1>18, SMT
  <2> QED BY <2>1, <2>2
<1>20. \A n \in 1 .. 14 : m(n) \in Nat /\ m(n) > 1
  BY <1>19, SMT
\* The masks before are multiples of twice this one.
<1>21. \A n \in 1 .. 14 : \E q \in Nat : f[n - 1] = 2 * (m(n) * q)
  <2> DEFINE T == {n \in Nat : n < 14 => \E q \in Nat : f[n] = 2 * (m(n + 1) * q)}
  <2>1. 0 \in T
    <3>1. m(0 + 1) \in Nat
      BY <1>20
    <3>2. 2 * (m(0 + 1) * 0) = 0
      BY <3>1
    <3> QED BY <1>3, <3>2
  <2>2. ASSUME NEW n \in Nat, n \in T PROVE n + 1 \in T
    <3> SUFFICES ASSUME n + 1 < 14
                 PROVE  \E q \in Nat : f[n + 1] = 2 * (m(n + 1 + 1) * q)
      OBVIOUS
    <3>1. PICK q \in Nat : f[n] = 2 * (m(n + 1) * q)
      BY <2>2
    <3> DEFINE w == m(n + 1)
               v == m(n + 1 + 1)
               c == b[n + 1]
    <3>2. w \in Nat /\ v \in Nat /\ w = 2 * v /\ c \in {0, 1}
      <4>1. n + 1 \in 1 .. 13 /\ n + 1 \in 1 .. 14 /\ n + 1 + 1 \in 1 .. 14
        OBVIOUS
      <4> QED BY <1>2, <1>19, <1>20, <4>1
    <3>3. f[n + 1] = f[n] + w * c
      <4>1. n + 1 \in 1 .. 14 /\ (n + 1) - 1 = n
        OBVIOUS
      <4>2. f[n] \in Int
        BY <3>1, <3>2
      <4> QED BY <1>4, <3>2, <4>1, <4>2
    <3> HIDE DEF w, v, c
    <3>4. f[n + 1] = 2 * (v * (2 * q + c))
      <4>1. f[n + 1] = 2 * (w * q) + w * c
        BY <3>1, <3>3 DEF w
      <4>2. CASE c = 0
        BY <3>2, <4>1, <4>2
      <4>3. CASE c = 1
        BY <3>2, <4>1, <4>3
      <4> QED BY <3>2, <4>2, <4>3
    <3>5. 2 * q + c \in Nat
      BY <3>2
    <3> QED BY <3>4, <3>5 DEF v
  <2>3. Nat \subseteq T
    <3> HIDE DEF T
    <3> QED BY <2>1, <2>2, SetInduction
  <2>4. ASSUME NEW n \in 1 .. 14 PROVE \E q \in Nat : f[n - 1] = 2 * (m(n) * q)
    <3>1. n - 1 \in Nat /\ n - 1 < 14 /\ (n - 1) + 1 = n
      OBVIOUS
    <3> QED BY <2>3, <3>1
  <2> QED BY <2>4
<1>22. \A n \in 0 .. 14 : f[n] \in Nat
  <2>1. ASSUME NEW n \in 0 .. 13 PROVE f[n] \in Nat
    <3>1. n + 1 \in 1 .. 14 /\ (n + 1) - 1 = n
      OBVIOUS
    <3>2. PICK q \in Nat : f[n] = 2 * (m(n + 1) * q)
      BY <1>21, <3>1
    <3>3. m(n + 1) \in Nat
      BY <1>20, <3>1
    <3> QED BY <3>2, <3>3
  <2>2. f[14] \in Nat
    <3>1. f[13] \in Nat
      BY <2>1
    <3>2. f[14] = f[13] + m(14) * b[14]
      <4>1. 14 \in 1 .. 14 /\ 14 - 1 = 13 /\ f[13] \in Int /\ m(14) \in Int
        BY <1>20, <3>1
      <4> QED BY <1>4, <4>1
    <3>3. b[14] \in {0, 1}
      BY <1>2
    <3> QED BY <3>1, <3>2, <3>3, <1>18
  <2>3. \A n \in 0 .. 14 : n \in 0 .. 13 \/ n = 14
    OBVIOUS
  <2> QED BY <2>1, <2>2, <2>3
<1>23. \A n \in 1 .. 14 : f[n] = f[n - 1] + m(n) * b[n]
  <2>1. ASSUME NEW n \in 1 .. 14 PROVE f[n] = f[n - 1] + m(n) * b[n]
    <3>1. n - 1 \in 0 .. 14
      OBVIOUS
    <3>2. f[n - 1] \in Int /\ m(n) \in Int
      BY <1>20, <1>22, <3>1
    <3> QED BY <1>4, <3>2
  <2> QED BY <2>1
\* The masks behind add up to less than this one.
<1>24. \A n \in 1 .. 14 : s - f[n] \in Nat /\ s - f[n] < m(n)
  <2> DEFINE T == {k \in Nat : k < 14 => s - f[14 - k] \in Nat /\ s - f[14 - k] < m(14 - k)}
  <2>1. 0 \in T
    BY <1>3, <1>18, <1>22
  <2>2. ASSUME NEW k \in Nat, k \in T PROVE k + 1 \in T
    <3> SUFFICES ASSUME k + 1 < 14
                 PROVE  s - f[14 - (k + 1)] \in Nat /\ s - f[14 - (k + 1)] < m(14 - (k + 1))
      OBVIOUS
    <3> DEFINE n == 14 - k
    <3>1. n \in 1 .. 14 /\ n - 1 = 14 - (k + 1) /\ n - 1 \in 1 .. 13 /\ n - 1 \in 0 .. 14
          /\ (n - 1) + 1 = n /\ n \in 0 .. 14
      OBVIOUS
    <3>2. s - f[n] \in Nat /\ s - f[n] < m(n)
      BY <2>2
    <3> HIDE DEF n
    <3>3. f[n] = f[n - 1] + m(n) * b[n] /\ f[n - 1] \in Nat /\ f[n] \in Nat /\ b[n] \in {0, 1}
      BY <1>2, <1>22, <1>23, <3>1
    <3>4. m(n - 1) = 2 * m(n) /\ m(n) \in Nat
      BY <1>19, <1>20, <3>1
    <3>5. s \in Nat
      BY <1>3, <1>22
    <3>6. s - f[n - 1] \in Nat /\ s - f[n - 1] < m(n - 1)
      <4>1. CASE b[n] = 0
        BY <3>2, <3>3, <3>4, <3>5, <4>1
      <4>2. CASE b[n] = 1
        BY <3>2, <3>3, <3>4, <3>5, <4>2
      <4> QED BY <3>3, <4>1, <4>2
    <3> QED BY <3>1, <3>6
  <2>3. Nat \subseteq T
    <3> HIDE DEF T
    <3> QED BY <2>1, <2>2, SetInduction
  <2>4. ASSUME NEW n \in 1 .. 14 PROVE s - f[n] \in Nat /\ s - f[n] < m(n)
    <3>1. 14 - n \in Nat /\ 14 - n < 14 /\ 14 - (14 - n) = n
      OBVIOUS
    <3> QED BY <2>3, <3>1
  <2> QED BY <2>4
<1>25. ASSUME NEW n \in 1 .. 14 PROVE (s \div m(n)) % 2 = b[n]
  <2>1. PICK q \in Nat : f[n - 1] = 2 * (m(n) * q)
    BY <1>21
  <2> DEFINE w == m(n)
             c == b[n]
             r == s - f[n]
  <2>2. /\ w \in {32768, 16384, 8192, 4096, 2048, 1024, 512, 256, 128, 64, 32, 16, 8, 4}
        /\ w \in Nat /\ c \in {0, 1} /\ r \in Nat /\ r < w
    BY <1>2, <1>19, <1>20, <1>24
  <2>3. f[n] = 2 * (w * q) + w * c /\ s \in Nat /\ f[n] \in Nat
    BY <1>3, <1>22, <1>23, <2>1
  <2>4. s = f[n] + r
    BY <2>3
  <2> HIDE DEF w, c, r
  <2>5. s = w * (2 * q + c) + r
    <3>1. CASE c = 0
      BY <2>2, <2>3, <2>4, <3>1
    <3>2. CASE c = 1
      BY <2>2, <2>3, <2>4, <3>2
    <3> QED BY <2>2, <3>1, <3>2
  <2>6. (s \div w) % 2 = c
    BY <2>2, <2>5, BitOfSum
  <2> QED BY <2>6 DEF w, c
<1>26. s \in Nat /\ s < 65536
  <2>1. s - f[1] \in Nat /\ s - f[1] < 32768 /\ f[1] = f[0] + m(1) * b[1] /\ b[1] \in {0, 1}
    <3>1. 1 \in 1 .. 14 /\ 1 - 1 = 0
      OBVIOUS
    <3> QED BY <1>2, <1>5, <1>23, <1>24, <3>1
  <2>2. s \in Nat /\ f[1] \in Nat
    BY <1>3, <1>22
  <2>3. CASE b[1] = 0
    BY <1>3, <1>5, <2>1, <2>2, <2>3, SMT
  <2>4. CASE b[1] = 1
    BY <1>3, <1>5, <2>1, <2>2, <2>4, SMT
  <2> QED BY <2>1, <2>3, <2>4
<1>27. \A n \in 1 .. 14 : ((s \div m(n)) % 2 = 1) <=> PROPERTIES[n][1] \in names
  BY <1>2, <1>25
<1> QED BY <1>26, <1>27, SMT DEF s, m

\* The methods that a client sends: none is called as a frame of another type is
\* (method.py:323-343, frame.py:55-83).
ClientNames ==
    {"START_OK", "TUNE_OK", "OPEN", "CLOSE", "CHANNEL_OPEN", "CHANNEL_CLOSE",
     "EXCHANGE_DECLARE", "QUEUE_DECLARE", "QUEUE_BIND", "BASIC_QOS", "BASIC_CONSUME",
     "BASIC_CANCEL", "BASIC_PUBLISH", "BASIC_ACK", "BASIC_NACK"}

\* The two ends name the same methods (method.py:323-343).
LEMMA MethodNames == DOMAIN ClientMethod = ClientNames /\ DOMAIN Decoders = ClientNames
<1>1. DOMAIN ClientMethod = ClientNames
  BY DEF ClientMethod, ClientNames
<1>2. DOMAIN Decoders = ClientNames
  BY DEF Decoders, ClientNames
<1> QED BY <1>1, <1>2

\* What the properties of a content header can be (method.py:66-98).
HeaderArgs(args) ==
    /\ args = [body_size |-> args.body_size, properties |-> args.properties]
    /\ args.body_size \in Nat /\ Fits(args.body_size, 8)
    /\ args.properties = [k \in DOMAIN args.properties |-> args.properties[k]]
    /\ \A k \in DOMAIN args.properties :
          \E n \in 1 .. 14 :
             PROPERTIES[n][1] = k /\ Taken(PROPERTIES[n][2], args.properties[k])

\* The four kinds of frames (frame.py:52-83).
LEMMA EncodableCases ==
    ASSUME NEW name, NEW args, EncodableArgs(name, args)
    PROVE  \/ name = "HEARTBEAT" /\ args = <<>>
           \/ name = "HEADER" /\ HeaderArgs(args)
           \/ name = "BODY" /\ args = [content |-> args.content] /\ args.content \in Seq(Byte)
           \/ /\ name \in ClientNames
              /\ args = [k \in ToSet(ClientMethod[name].args) |-> args[k]]
              /\ \A i \in DOMAIN ClientMethod[name].args :
                    Taken(ClientMethod[name].format[i], args[ClientMethod[name].args[i]])
<1>1. DOMAIN PROPERTIES = 1 .. 14
  BY PropertyTable
<1> QED BY <1>1, MethodNames, Zenon DEF EncodableArgs, HeaderArgs

\* The formats and the values that a content header is written with (sender.py:509-518).
HeaderFormat(names) ==
    [i \in DOMAIN Selected(PROPERTIES, names) |-> Selected(PROPERTIES, names)[i][2]]
HeaderValues(props) ==
    [i \in DOMAIN Selected(PROPERTIES, DOMAIN props) |->
        props[Selected(PROPERTIES, DOMAIN props)[i][1]]]

\* The entries that are selected are fit for dumps (sender.py:511-516).
LEMMA HeaderArguments ==
    ASSUME NEW args, HeaderArgs(args)
    PROVE  LET props == args.properties
               names == DOMAIN props
               set == Selected(PROPERTIES, names)
               S == {props[k] : k \in names}
           IN /\ DOMAIN set = 1 .. Len(set) /\ Len(set) \in Nat
              /\ \A i \in 1 .. Len(set) : set[i][1] \in names
              /\ \A k \in names : \E i \in 1 .. Len(set) : set[i][1] = k
              /\ HeaderFormat(names) \in Seq(Letters)
              /\ HeaderValues(props) \in Seq(S)
              /\ Arguments(HeaderFormat(names), HeaderValues(props))
              /\ Legible(HeaderFormat(names), HeaderValues(props))
<1> DEFINE props == args.properties
           names == DOMAIN props
           set == Selected(PROPERTIES, names)
           S == {props[k] : k \in names}
           E == {PROPERTIES[m] : m \in 1 .. 14}
           l == Len(set)
           format == HeaderFormat(names)
           values == HeaderValues(props)
<1>1. Len(PROPERTIES) = 14 /\ Len(PROPERTIES) \in Nat
  BY PropertyTable
<1>2. /\ set \in Seq(E)
      /\ \A i \in 1 .. l : \E m \in 1 .. 14 : set[i] = PROPERTIES[m] /\ PROPERTIES[m][1] \in names
      /\ \A m \in 1 .. 14 : PROPERTIES[m][1] \in names => \E i \in 1 .. l : set[i] = PROPERTIES[m]
  <2>1. Found(set, PROPERTIES, names, 14)
    BY <1>1, SelectedFound
  <2> HIDE DEF set
  <2> QED BY <1>1, <2>1 DEF Found
<1>3. DOMAIN set = 1 .. l /\ l \in Nat
  <2> HIDE DEF set, E
  <2> QED BY <1>2, LenProperties
<1>4. format = [i \in 1 .. l |-> set[i][2]] /\ values = [i \in 1 .. l |-> props[set[i][1]]]
  BY <1>3 DEF HeaderFormat, HeaderValues
<1> HIDE DEF set, format, values
<1>5. \A i \in 1 .. l : set[i][1] \in names
  BY <1>2
<1>6. \A k \in names : \E m \in 1 .. 14 :
         PROPERTIES[m][1] = k /\ Taken(PROPERTIES[m][2], props[k])
  BY DEF HeaderArgs
<1>7. \A k \in names : \E i \in 1 .. l : set[i][1] = k
  <2> SUFFICES ASSUME NEW k \in names PROVE \E i \in 1 .. l : set[i][1] = k
    OBVIOUS
  <2>1. PICK m \in 1 .. 14 : PROPERTIES[m][1] = k
    BY <1>6
  <2>2. PICK i \in 1 .. l : set[i] = PROPERTIES[m]
    BY <1>2, <2>1
  <2> QED BY <2>1, <2>2
<1>8. \A i \in 1 .. l : format[i] \in {"s", "F", "o", "L"} /\ Taken(format[i], values[i])
  <2> SUFFICES ASSUME NEW i \in 1 .. l
               PROVE  format[i] \in {"s", "F", "o", "L"} /\ Taken(format[i], values[i])
    OBVIOUS
  <2>1. PICK m \in 1 .. 14 : set[i] = PROPERTIES[m] /\ PROPERTIES[m][1] \in names
    BY <1>2
  <2>2. PICK n \in 1 .. 14 : /\ PROPERTIES[n][1] = PROPERTIES[m][1]
                             /\ Taken(PROPERTIES[n][2], props[PROPERTIES[m][1]])
    BY <1>6, <2>1
  <2>3. n = m
    BY <2>2, PropertyTable
  <2>4. format[i] = PROPERTIES[m][2] /\ values[i] = props[PROPERTIES[m][1]]
    BY <1>4, <2>1
  <2>5. PROPERTIES[m][2] \in {"s", "F", "o", "L"}
    BY PropertyTable
  <2> QED BY <2>2, <2>3, <2>4, <2>5
<1>9. format \in Seq(Letters) /\ Len(format) = l
  <2>1. ASSUME NEW i \in 1 .. l PROVE set[i][2] \in Letters
    <3>1. format[i] = set[i][2] /\ format[i] \in {"s", "F", "o", "L"}
      BY <1>4, <1>8
    <3> QED BY <3>1 DEF Letters
  <2> QED BY <1>3, <1>4, <2>1
<1>10. values \in Seq(S) /\ Len(values) = l
  <2>1. \A i \in 1 .. l : props[set[i][1]] \in S
    BY <1>5
  <2> HIDE DEF S
  <2> QED BY <1>3, <1>4, <2>1
<1>11. EightBits(format)
  <2> SUFFICES ASSUME NEW n \in 1 .. l - 8 PROVE \E i \in n .. n + 8 : format[i] # "b"
    BY <1>9 DEF EightBits
  <2>1. n \in 1 .. l /\ n \in n .. n + 8
    BY <1>3
  <2>2. format[n] # "b"
    BY <1>8, <2>1
  <2> QED BY <2>1, <2>2
<1>12. Arguments(format, values)
  BY <1>8, <1>9, <1>10, <1>11 DEF Arguments
<1>13. Legible(format, values)
  BY <1>8, <1>10 DEF Legible, Illegible
<1> QED BY <1>3, <1>5, <1>7, <1>9, <1>10, <1>12, <1>13 DEF set, format, values

\* Flags that are the masks of some names say which they are (method.py:86-89).
LEMMA FlagsFlagged ==
    ASSUME NEW names, \A k \in names : \E n \in 1 .. 14 : PROPERTIES[n][1] = k
    PROVE  Flagged(Flags(PROPERTIES, names)) = names
<1> DEFINE s == Flags(PROPERTIES, names)
           F == Flagged(s)
<1>1. \A n \in 1 .. 14 : ((s \div PROPERTIES[n][3]) % 2 = 1) <=> PROPERTIES[n][1] \in names
  BY MaskInSum
<1>2. DOMAIN PROPERTIES = 1 .. 14
  BY PropertyTable
<1> HIDE DEF s
<1>3. F = {PROPERTIES[n][1] : n \in {m \in 1 .. 14 : (s \div PROPERTIES[m][3]) % 2 = 1}}
  BY <1>2 DEF Flagged
<1> HIDE DEF F
<1>4. ASSUME NEW k \in F PROVE k \in names
  BY <1>1, <1>3
<1>5. ASSUME NEW k \in names PROVE k \in F
  <2>1. PICK n \in 1 .. 14 : PROPERTIES[n][1] = k
    OBVIOUS
  <2>2. (s \div PROPERTIES[n][3]) % 2 = 1
    BY <1>1, <2>1
  <2> QED BY <1>3, <2>1, <2>2
<1>6. F = names
  BY <1>4, <1>5
<1> QED BY <1>6 DEF F, s

\* The fixed part of a content header, and what follows it (sender.py:498-518).
HeaderAt(buf, args) ==
    /\ At(buf, 4, pack(args.body_size, 8))
    /\ At(buf, 12, pack(Flags(PROPERTIES, DOMAIN args.properties), 2))
    /\ At(buf, 14, dumps(HeaderFormat(DOMAIN args.properties), HeaderValues(args.properties)))

\* Where a client puts the parts of a content header.
LEMMA HeaderLayout ==
    ASSUME NEW args, HeaderArgs(args)
    PROVE  ClientHeader(args) \in Seq(Byte) /\ HeaderAt(ClientHeader(args), args)
<1> DEFINE a == <<0, 60, 0, 0>>
           b == pack(args.body_size, 8)
           c == pack(Flags(PROPERTIES, DOMAIN args.properties), 2)
           d == dumps(HeaderFormat(DOMAIN args.properties), HeaderValues(args.properties))
           h == ClientHeader(args)
<1>1. a \in Seq(Byte) /\ Len(a) = 4
  BY DEF Byte
<1>2. b \in Seq(Byte) /\ Len(b) = 8
  <2>1. args.body_size \in Int /\ 8 \in Nat
    BY DEF HeaderArgs
  <2> QED BY <2>1, PackType
<1>3. c \in Seq(Byte) /\ Len(c) = 2
  <2>1. Flags(PROPERTIES, DOMAIN args.properties) \in Int /\ 2 \in Nat
    BY MaskInSum
  <2> QED BY <2>1, PackType
<1>4. d \in Seq(Byte)
  BY HeaderArguments, DumpsType
<1>5. h = a \o b \o c \o d
  BY DEF ClientHeader, HeaderFormat, HeaderValues
<1> HIDE DEF a, b, c, d
<1>6. a \o b \in Seq(Byte) /\ Len(a \o b) = 12
  <2>1. a \o b \in Seq(Byte) /\ Len(a \o b) = Len(a) + Len(b)
    BY <1>1, <1>2, ConcatProperties, Zenon
  <2> QED BY <1>1, <1>2, <2>1
<1>7. (a \o b) \o c \in Seq(Byte) /\ Len((a \o b) \o c) = 14
  <2>1. (a \o b) \o c \in Seq(Byte) /\ Len((a \o b) \o c) = Len(a \o b) + Len(c)
    BY <1>3, <1>6, ConcatProperties, Zenon
  <2> QED BY <1>3, <1>6, <2>1
<1>8. h \in Seq(Byte)
  BY <1>4, <1>5, <1>7, ConcatProperties
<1>9. At(h, 0, ((a \o b) \o c) \o d)
  <2>1. ASSUME NEW w \in Seq(Byte), NEW v, v = w PROVE At(v, 0, w)
    BY <2>1 DEF At
  <2> QED BY <1>5, <1>8, <2>1
<1> HIDE DEF h
<1>10. At(h, 0, (a \o b) \o c) /\ At(h, 14, d)
  <2>1. At(h, 0, (a \o b) \o c) /\ At(h, 0 + Len((a \o b) \o c), d)
    BY <1>4, <1>7, <1>8, <1>9, AtConcat, 0 \in Nat
  <2> QED BY <1>7, <2>1
<1>11. At(h, 0, a \o b) /\ At(h, 12, c)
  <2>1. At(h, 0, a \o b) /\ At(h, 0 + Len(a \o b), c)
    BY <1>3, <1>6, <1>8, <1>10, AtConcat, 0 \in Nat
  <2> QED BY <1>6, <2>1
<1>12. At(h, 4, b)
  <2>1. At(h, 0 + Len(a), b)
    BY <1>1, <1>2, <1>8, <1>11, AtConcat, 0 \in Nat
  <2> QED BY <1>1, <2>1
<1> QED BY <1>8, <1>10, <1>11, <1>12 DEF HeaderAt, b, c, d, h

\* A content header is decoded as it was encoded, whichever properties it has
\* (method.py:66-98).
THEOREM HeaderRoundTrip ==
    ASSUME NEW args, HeaderArgs(args), Fits(Len(ClientHeader(args)), 4)
    PROVE  Header(ClientHeader(args)) = [name |-> "HEADER", args |-> args]
<1> DEFINE props == args.properties
           names == DOMAIN props
           set == Selected(PROPERTIES, names)
           S == {props[k] : k \in names}
           flags == Flags(PROPERTIES, names)
           buf == ClientHeader(args)
           values == HeaderValues(props)
<1>1. buf \in Seq(Byte) /\ HeaderAt(buf, args)
  BY HeaderLayout
<1>2. /\ DOMAIN set = 1 .. Len(set) /\ Len(set) \in Nat
      /\ \A i \in 1 .. Len(set) : set[i][1] \in names
      /\ \A k \in names : \E i \in 1 .. Len(set) : set[i][1] = k
      /\ HeaderFormat(names) \in Seq(Letters)
      /\ values \in Seq(S)
      /\ Arguments(HeaderFormat(names), values)
      /\ Legible(HeaderFormat(names), values)
  BY HeaderArguments, Zenon
<1>3. unpack(Bytes(buf, 4, 8)) = args.body_size
  BY <1>1, NumberAt, 4 \in Nat, 8 \in Nat DEF HeaderAt, HeaderArgs
<1>4. flags \in Nat /\ Fits(flags, 2)
  <2>1. flags \in Nat /\ flags < 65536
    BY MaskInSum, SMT
  <2> HIDE DEF flags
  <2>2. flags <= 65535
    BY <2>1, SMT
  <2> QED BY <2>1, <2>2, FitsShort, SMT
<1>5. unpack(Bytes(buf, 12, 2)) = flags
  BY <1>1, <1>4, NumberAt, 12 \in Nat, 2 \in Nat DEF HeaderAt
<1>6. Flagged(flags) = names
  BY FlagsFlagged DEF HeaderArgs
<1>7. /\ load(HeaderFormat(names), buf, 14) # UnicodeDecodeError
      /\ load(HeaderFormat(names), buf, 14).values = values
  BY <1>1, <1>2, ArgumentsRoundTrip, 14 \in Nat DEF HeaderAt
<1>8. Header(buf) = [name |-> "HEADER",
                     args |-> [body_size |-> args.body_size,
                               properties |-> [k \in names |->
                                  values[CHOOSE i \in DOMAIN set : set[i][1] = k]]]]
  <2> DEFINE H(n, v, z) ==
               [name |-> "HEADER",
                args |-> [body_size |-> z,
                          properties |-> [k \in n |->
                             v[CHOOSE i \in DOMAIN Selected(PROPERTIES, n) :
                                 Selected(PROPERTIES, n)[i][1] = k]]]]
             Read(n) == load(HeaderFormat(n), buf, 14)
             N == Flagged(unpack(Bytes(buf, 12, 2)))
  <2>1. Header(buf) = IF Read(N) = UnicodeDecodeError THEN Read(N)
                      ELSE H(N, Read(N).values, unpack(Bytes(buf, 4, 8)))
    BY DEF Header, HeaderFormat
  <2>2. N = names
    BY <1>5, <1>6
  <2> HIDE DEF H, Read, N
  <2>3. Read(names) # UnicodeDecodeError /\ Read(names).values = values
    BY <1>7 DEF Read
  <2>4. Header(buf) = H(names, values, args.body_size)
    BY <1>3, <2>1, <2>2, <2>3
  <2> QED BY <2>4 DEF H
<1>9. values = [i \in DOMAIN set |-> props[set[i][1]]]
  BY DEF HeaderValues
<1> HIDE DEF set, values, buf
<1>10. ASSUME NEW k \in names
       PROVE  values[CHOOSE i \in DOMAIN set : set[i][1] = k] = props[k]
  <2>1. \E i \in DOMAIN set : set[i][1] = k
    BY <1>2
  <2> DEFINE i == CHOOSE i \in DOMAIN set : set[i][1] = k
  <2>2. i \in DOMAIN set /\ set[i][1] = k
    BY <2>1
  <2> HIDE DEF i
  <2>3. values[i] = props[k]
    BY <1>9, <2>2
  <2> QED BY <2>3 DEF i
<1>11. props = [k \in names |-> props[k]]
  BY DEF HeaderArgs
<1>12. [k \in names |-> values[CHOOSE i \in DOMAIN set : set[i][1] = k]] = props
  BY <1>10, <1>11
<1>13. args = [body_size |-> args.body_size, properties |-> props]
  BY DEF HeaderArgs
<1> QED BY <1>8, <1>12, <1>13 DEF buf

\* The letters of some arguments, and the names they are under (method.py:114-320).
Fields(format, keys) ==
    LET m == Len(format)
    IN /\ m \in 0 .. 9 /\ format \in Seq(Letters) /\ (m = 9 => format[1] # "b")
       /\ Len(keys) = m /\ DOMAIN keys = 1 .. m
       /\ \A i, j \in 1 .. m : keys[i] = keys[j] => i = j

\* A method as both ends know it: connection.close is not decoded (method.py:189-191).
Agree(name) ==
    LET l == ClientMethod[name]
        d == Decoders[name]
    IN /\ Fields(l.format, l.args)
       /\ \E c, m \in Byte : l.id = <<0, c, 0, m>> /\ d.id = MethodID(c, m)
       /\ IF name = "CLOSE" THEN d.format = <<>> /\ d.keys = <<>>
          ELSE d.format = l.format /\ d.keys = l.args

\* Such a method, with what stands in the tables.
LEMMA AgreeBy ==
    ASSUME NEW name, NEW c \in Byte, NEW m \in Byte, NEW format, NEW keys,
           Fields(format, keys),
           ClientMethod[name] = Layout(c, m, format, keys),
           Decoders[name] = IF name = "CLOSE" THEN Decoder(c, m, <<>>, <<>>)
                            ELSE Decoder(c, m, format, keys)
    PROVE  Agree(name)
<1>1. ClientMethod[name].id = <<0, c, 0, m>> /\ ClientMethod[name].format = format
      /\ ClientMethod[name].args = keys
  BY DEF Layout
<1>2. Decoders[name].id = MethodID(c, m)
  BY DEF Decoder
<1>3. IF name = "CLOSE" THEN Decoders[name].format = <<>> /\ Decoders[name].keys = <<>>
      ELSE Decoders[name].format = format /\ Decoders[name].keys = keys
  BY DEF Decoder
<1> QED BY <1>1, <1>2, <1>3 DEF Agree

\* The tables of the two ends agree (method.py:114-320).
LEMMA TablesAgree == \A name \in ClientNames : Agree(name)
<1>1. Agree("START_OK")
  <2> DEFINE f == <<"F", "s", "S", "s">>
             k == <<"peer-properties", "mechanism", "response", "locale">>
  <2>1. Fields(f, k)
    BY SMT DEF Fields, Letters
  <2>2. ClientMethod["START_OK"] = Layout(10, 11, f, k)
    BY DEF ClientMethod
  <2>3. Decoders["START_OK"] = Decoder(10, 11, f, k)
    BY DEF Decoders
  <2>4. 10 \in Byte /\ 11 \in Byte
    BY SMT DEF Byte
  <2> HIDE DEF f, k
  <2> QED BY <2>1, <2>2, <2>3, <2>4, AgreeBy
<1>2. Agree("TUNE_OK")
  <2> DEFINE f == <<"B", "l", "B">>
             k == <<"channel-max", "frame-max", "heartbeat">>
  <2>1. Fields(f, k)
    BY SMT DEF Fields, Letters
  <2>2. ClientMethod["TUNE_OK"] = Layout(10, 31, f, k)
    BY DEF ClientMethod
  <2>3. Decoders["TUNE_OK"] = Decoder(10, 31, f, k)
    BY DEF Decoders
  <2>4. 10 \in Byte /\ 31 \in Byte
    BY SMT DEF Byte
  <2> HIDE DEF f, k
  <2> QED BY <2>1, <2>2, <2>3, <2>4, AgreeBy
<1>3. Agree("OPEN")
  <2> DEFINE f == <<"s", "s", "b">>
             k == <<"vhost", "capabilities", "insist">>
  <2>1. Fields(f, k)
    BY SMT DEF Fields, Letters
  <2>2. ClientMethod["OPEN"] = Layout(10, 40, f, k)
    BY DEF ClientMethod
  <2>3. Decoders["OPEN"] = Decoder(10, 40, f, k)
    BY DEF Decoders
  <2>4. 10 \in Byte /\ 40 \in Byte
    BY SMT DEF Byte
  <2> HIDE DEF f, k
  <2> QED BY <2>1, <2>2, <2>3, <2>4, AgreeBy
<1>4. Agree("CLOSE")
  <2> DEFINE f == <<"B", "s", "B", "B">>
             k == <<"reply-code", "reply-text", "class-id", "method-id">>
  <2>1. Fields(f, k)
    BY SMT DEF Fields, Letters
  <2>2. ClientMethod["CLOSE"] = Layout(10, 50, f, k)
    BY DEF ClientMethod
  <2>3. Decoders["CLOSE"] = Decoder(10, 50, <<>>, <<>>)
    BY DEF Decoders
  <2>4. 10 \in Byte /\ 50 \in Byte
    BY SMT DEF Byte
  <2> HIDE DEF f, k
  <2> QED BY <2>1, <2>2, <2>3, <2>4, AgreeBy
<1>5. Agree("CHANNEL_OPEN")
  <2> DEFINE f == <<"s">>
             k == <<"reserved-1">>
  <2>1. Fields(f, k)
    BY SMT DEF Fields, Letters
  <2>2. ClientMethod["CHANNEL_OPEN"] = Layout(20, 10, f, k)
    BY DEF ClientMethod
  <2>3. Decoders["CHANNEL_OPEN"] = Decoder(20, 10, f, k)
    BY DEF Decoders
  <2>4. 20 \in Byte /\ 10 \in Byte
    BY SMT DEF Byte
  <2> HIDE DEF f, k
  <2> QED BY <2>1, <2>2, <2>3, <2>4, AgreeBy
<1>6. Agree("CHANNEL_CLOSE")
  <2> DEFINE f == <<"B", "s", "B", "B">>
             k == <<"reply-code", "reply-text", "class-id", "method-id">>
  <2>1. Fields(f, k)
    BY SMT DEF Fields, Letters
  <2>2. ClientMethod["CHANNEL_CLOSE"] = Layout(20, 40, f, k)
    BY DEF ClientMethod
  <2>3. Decoders["CHANNEL_CLOSE"] = Decoder(20, 40, f, k)
    BY DEF Decoders
  <2>4. 20 \in Byte /\ 40 \in Byte
    BY SMT DEF Byte
  <2> HIDE DEF f, k
  <2> QED BY <2>1, <2>2, <2>3, <2>4, AgreeBy
<1>7. Agree("EXCHANGE_DECLARE")
  <2> DEFINE f == <<"B", "s", "s", "b", "b", "b", "b", "b", "F">>
             k == <<"reserved-1", "exchange-name", "type", "passive", "durable",
                  "auto-delete", "internal", "no-wait", "arguments">>
  <2>1. Fields(f, k)
    BY SMT DEF Fields, Letters
  <2>2. ClientMethod["EXCHANGE_DECLARE"] = Layout(40, 10, f, k)
    BY DEF ClientMethod
  <2>3. Decoders["EXCHANGE_DECLARE"] = Decoder(40, 10, f, k)
    BY DEF Decoders
  <2>4. 40 \in Byte /\ 10 \in Byte
    BY SMT DEF Byte
  <2> HIDE DEF f, k
  <2> QED BY <2>1, <2>2, <2>3, <2>4, AgreeBy
<1>8. Agree("QUEUE_DECLARE")
  <2> DEFINE f == <<"B", "s", "b", "b", "b", "b", "b", "F">>
             k == <<"reserved-1", "queue-name", "passive", "durable", "exclusive",
                  "auto-delete", "no-wait", "arguments">>
  <2>1. Fields(f, k)
    BY SMT DEF Fields, Letters
  <2>2. ClientMethod["QUEUE_DECLARE"] = Layout(50, 10, f, k)
    BY DEF ClientMethod
  <2>3. Decoders["QUEUE_DECLARE"] = Decoder(50, 10, f, k)
    BY DEF Decoders
  <2>4. 50 \in Byte /\ 10 \in Byte
    BY SMT DEF Byte
  <2> HIDE DEF f, k
  <2> QED BY <2>1, <2>2, <2>3, <2>4, AgreeBy
<1>9. Agree("QUEUE_BIND")
  <2> DEFINE f == <<"B", "s", "s", "s", "b", "F">>
             k == <<"reserved-1", "queue-name", "exchange-name", "routing-key", "no-wait",
                  "arguments">>
  <2>1. Fields(f, k)
    BY SMT DEF Fields, Letters
  <2>2. ClientMethod["QUEUE_BIND"] = Layout(50, 20, f, k)
    BY DEF ClientMethod
  <2>3. Decoders["QUEUE_BIND"] = Decoder(50, 20, f, k)
    BY DEF Decoders
  <2>4. 50 \in Byte /\ 20 \in Byte
    BY SMT DEF Byte
  <2> HIDE DEF f, k
  <2> QED BY <2>1, <2>2, <2>3, <2>4, AgreeBy
<1>10. Agree("BASIC_QOS")
  <2> DEFINE f == <<"l", "B", "b">>
             k == <<"prefetch-size", "prefetch-count", "global">>
  <2>1. Fields(f, k)
    BY SMT DEF Fields, Letters
  <2>2. ClientMethod["BASIC_QOS"] = Layout(60, 10, f, k)
    BY DEF ClientMethod
  <2>3. Decoders["BASIC_QOS"] = Decoder(60, 10, f, k)
    BY DEF Decoders
  <2>4. 60 \in Byte /\ 10 \in Byte
    BY SMT DEF Byte
  <2> HIDE DEF f, k
  <2> QED BY <2>1, <2>2, <2>3, <2>4, AgreeBy
<1>11. Agree("BASIC_CONSUME")
  <2> DEFINE f == <<"B", "s", "s", "b", "b", "b", "b", "F">>
             k == <<"reserved-1", "queue-name", "consumer-tag", "no-local", "no-ack",
                  "exclusive", "no-wait", "arguments">>
  <2>1. Fields(f, k)
    BY SMT DEF Fields, Letters
  <2>2. ClientMethod["BASIC_CONSUME"] = Layout(60, 20, f, k)
    BY DEF ClientMethod
  <2>3. Decoders["BASIC_CONSUME"] = Decoder(60, 20, f, k)
    BY DEF Decoders
  <2>4. 60 \in Byte /\ 20 \in Byte
    BY SMT DEF Byte
  <2> HIDE DEF f, k
  <2> QED BY <2>1, <2>2, <2>3, <2>4, AgreeBy
<1>12. Agree("BASIC_CANCEL")
  <2> DEFINE f == <<"s", "b">>
             k == <<"consumer-tag", "no-wait">>
  <2>1. Fields(f, k)
    BY SMT DEF Fields, Letters
  <2>2. ClientMethod["BASIC_CANCEL"] = Layout(60, 30, f, k)
    BY DEF ClientMethod
  <2>3. Decoders["BASIC_CANCEL"] = Decoder(60, 30, f, k)
    BY DEF Decoders
  <2>4. 60 \in Byte /\ 30 \in Byte
    BY SMT DEF Byte
  <2> HIDE DEF f, k
  <2> QED BY <2>1, <2>2, <2>3, <2>4, AgreeBy
<1>13. Agree("BASIC_PUBLISH")
  <2> DEFINE f == <<"B", "s", "s", "b", "b">>
             k == <<"reserved-1", "exchange-name", "routing-key", "mandatory", "immediate">>
  <2>1. Fields(f, k)
    BY SMT DEF Fields, Letters
  <2>2. ClientMethod["BASIC_PUBLISH"] = Layout(60, 40, f, k)
    BY DEF ClientMethod
  <2>3. Decoders["BASIC_PUBLISH"] = Decoder(60, 40, f, k)
    BY DEF Decoders
  <2>4. 60 \in Byte /\ 40 \in Byte
    BY SMT DEF Byte
  <2> HIDE DEF f, k
  <2> QED BY <2>1, <2>2, <2>3, <2>4, AgreeBy
<1>14. Agree("BASIC_ACK")
  <2> DEFINE f == <<"L", "b">>
             k == <<"delivery-tag", "multiple">>
  <2>1. Fields(f, k)
    BY SMT DEF Fields, Letters
  <2>2. ClientMethod["BASIC_ACK"] = Layout(60, 80, f, k)
    BY DEF ClientMethod
  <2>3. Decoders["BASIC_ACK"] = Decoder(60, 80, f, k)
    BY DEF Decoders
  <2>4. 60 \in Byte /\ 80 \in Byte
    BY SMT DEF Byte
  <2> HIDE DEF f, k
  <2> QED BY <2>1, <2>2, <2>3, <2>4, AgreeBy
<1>15. Agree("BASIC_NACK")
  <2> DEFINE f == <<"L", "b", "b">>
             k == <<"delivery-tag", "multiple", "requeue">>
  <2>1. Fields(f, k)
    BY SMT DEF Fields, Letters
  <2>2. ClientMethod["BASIC_NACK"] = Layout(60, 120, f, k)
    BY DEF ClientMethod
  <2>3. Decoders["BASIC_NACK"] = Decoder(60, 120, f, k)
    BY DEF Decoders
  <2>4. 60 \in Byte /\ 120 \in Byte
    BY SMT DEF Byte
  <2> HIDE DEF f, k
  <2> QED BY <2>1, <2>2, <2>3, <2>4, AgreeBy
<1> QED BY <1>1, <1>2, <1>3, <1>4, <1>5, <1>6, <1>7, <1>8, <1>9, <1>10, <1>11, <1>12, <1>13, <1>14, <1>15 DEF ClientNames

\* The four bytes of a method's number (frame.py:54).
LEMMA UnpackMethod ==
    ASSUME NEW c \in Byte, NEW m \in Byte
    PROVE  unpack(<<0, c, 0, m>>) = MethodID(c, m)
<1> DEFINE b == <<0, c, 0, m>>
<1>1. b \in Seq(Int) /\ Len(b) = 4 /\ b[1] = 0 /\ b[2] = c /\ b[3] = 0 /\ b[4] = m
      /\ c \in Int /\ m \in Int
  BY DEF Byte
<1> HIDE DEF b
<1>2. PICK f : /\ f[0] = 0 /\ f[Len(b)] = unpack(b)
               /\ \A k \in 1 .. Len(b) : f[k] = 256 * f[k - 1] + b[k]
               /\ f \in [0 .. Len(b) -> Int]
  <2>1. b \in Seq(Int)
    BY <1>1
  <2> QED BY <2>1, UnpackDef, Zenon
<1>3. 1 \in 1 .. 4 /\ 2 \in 1 .. 4 /\ 3 \in 1 .. 4 /\ 4 \in 1 .. 4
      /\ 1 - 1 = 0 /\ 2 - 1 = 1 /\ 3 - 1 = 2 /\ 4 - 1 = 3
  OBVIOUS
<1>4. f[1] = 0 /\ f[2] = c /\ f[3] = 256 * c /\ f[4] = 65536 * c + m
  <2>1. f[1] = 0
    BY <1>1, <1>2, <1>3
  <2>2. f[2] = c
    BY <1>1, <1>2, <1>3, <2>1
  <2>3. f[3] = 256 * c
    BY <1>1, <1>2, <1>3, <2>2, SMT
  <2>4. f[4] = 65536 * c + m
    BY <1>1, <1>2, <1>3, <2>3, SMT
  <2> QED BY <2>1, <2>2, <2>3, <2>4
<1>5. unpack(b) = 65536 * c + m
  BY <1>1, <1>2, <1>4, SMT
<1> QED BY <1>5, SMT DEF b, MethodID

\* No two methods have the same number (method.py:323-343).
LEMMA MethodNumbers ==
    \A n, m \in ClientNames : Decoders[n].id = Decoders[m].id => n = m
<1>1. Decoders["START_OK"].id = 655371
  BY SMT DEF Decoders, Decoder, MethodID
<1>2. Decoders["TUNE_OK"].id = 655391
  BY SMT DEF Decoders, Decoder, MethodID
<1>3. Decoders["OPEN"].id = 655400
  BY SMT DEF Decoders, Decoder, MethodID
<1>4. Decoders["CLOSE"].id = 655410
  BY SMT DEF Decoders, Decoder, MethodID
<1>5. Decoders["CHANNEL_OPEN"].id = 1310730
  BY SMT DEF Decoders, Decoder, MethodID
<1>6. Decoders["CHANNEL_CLOSE"].id = 1310760
  BY SMT DEF Decoders, Decoder, MethodID
<1>7. Decoders["EXCHANGE_DECLARE"].id = 2621450
  BY SMT DEF Decoders, Decoder, MethodID
<1>8. Decoders["QUEUE_DECLARE"].id = 3276810
  BY SMT DEF Decoders, Decoder, MethodID
<1>9. Decoders["QUEUE_BIND"].id = 3276820
  BY SMT DEF Decoders, Decoder, MethodID
<1>10. Decoders["BASIC_QOS"].id = 3932170
  BY SMT DEF Decoders, Decoder, MethodID
<1>11. Decoders["BASIC_CONSUME"].id = 3932180
  BY SMT DEF Decoders, Decoder, MethodID
<1>12. Decoders["BASIC_CANCEL"].id = 3932190
  BY SMT DEF Decoders, Decoder, MethodID
<1>13. Decoders["BASIC_PUBLISH"].id = 3932200
  BY SMT DEF Decoders, Decoder, MethodID
<1>14. Decoders["BASIC_ACK"].id = 3932240
  BY SMT DEF Decoders, Decoder, MethodID
<1>15. Decoders["BASIC_NACK"].id = 3932280
  BY SMT DEF Decoders, Decoder, MethodID
<1> QED BY <1>1, <1>2, <1>3, <1>4, <1>5, <1>6, <1>7, <1>8, <1>9, <1>10, <1>11, <1>12, <1>13, <1>14, <1>15, SMT DEF ClientNames

\* The bytes at the start of a method say which one it is (frame.py:54).
LEMMA MethodKnown ==
    ASSUME NEW name \in ClientNames
    PROVE  /\ ClientMethod[name].id \in Seq(Byte) /\ Len(ClientMethod[name].id) = 4
           /\ ID_TO_METHOD[unpack(ClientMethod[name].id)] = name
<1>1. PICK c \in Byte, m \in Byte : /\ ClientMethod[name].id = <<0, c, 0, m>>
                                    /\ Decoders[name].id = MethodID(c, m)
  BY TablesAgree DEF Agree
<1>2. <<0, c, 0, m>> \in Seq(Byte) /\ Len(<<0, c, 0, m>>) = 4
  BY DEF Byte
<1>3. unpack(ClientMethod[name].id) = Decoders[name].id
  BY <1>1, UnpackMethod
<1> DEFINE id == Decoders[name].id
           n == CHOOSE n \in DOMAIN Decoders : Decoders[n].id = id
<1>4. DOMAIN Decoders = ClientNames
  BY MethodNames
<1>5. ID_TO_METHOD[id] = n
  <2>1. id \in {Decoders[k].id : k \in DOMAIN Decoders}
    BY <1>4
  <2> QED BY <2>1 DEF ID_TO_METHOD
<1>6. n \in ClientNames /\ Decoders[n].id = id
  BY <1>4
<1> HIDE DEF n
<1>7. n = name
  BY <1>6, MethodNumbers
<1> QED BY <1>1, <1>2, <1>3, <1>5, <1>7

\* The arguments of a method, and the bytes of its payload.
MethodArgs(name, args) ==
    /\ name \in ClientNames
    /\ args = [k \in ToSet(ClientMethod[name].args) |-> args[k]]
    /\ \A i \in DOMAIN ClientMethod[name].args :
          Taken(ClientMethod[name].format[i], args[ClientMethod[name].args[i]])
MethodValues(name, args) ==
    [i \in DOMAIN ClientMethod[name].args |-> args[ClientMethod[name].args[i]]]
MethodBytes(name, args) ==
    ClientMethod[name].id \o dumps(ClientMethod[name].format, MethodValues(name, args))

\* The arguments of a method are fit for dumps, and stand behind its number (frame.py:54-64).
LEMMA MethodLayout ==
    ASSUME NEW name, NEW args, MethodArgs(name, args)
    PROVE  LET l == ClientMethod[name]
               values == MethodValues(name, args)
               S == {args[k] : k \in ToSet(l.args)}
               buf == MethodBytes(name, args)
           IN /\ l.format \in Seq(Letters) /\ values \in Seq(S) /\ Arguments(l.format, values)
              /\ buf \in Seq(Byte) /\ At(buf, 0, l.id)
              /\ At(buf, 4, dumps(l.format, values))
<1> DEFINE l == ClientMethod[name]
           format == l.format
           keys == l.args
           m == Len(format)
           values == MethodValues(name, args)
           S == {args[k] : k \in ToSet(keys)}
           out == dumps(format, values)
           buf == MethodBytes(name, args)
<1>1. name \in ClientNames
  BY DEF MethodArgs
<1>2. Fields(format, keys)
  BY <1>1, TablesAgree DEF Agree
<1> HIDE DEF format, keys
<1>3. /\ m \in 0 .. 9 /\ format \in Seq(Letters) /\ (m = 9 => format[1] # "b")
      /\ Len(keys) = m /\ DOMAIN keys = 1 .. m
  BY <1>2 DEF Fields
<1> HIDE DEF m
<1>4. values = [i \in 1 .. m |-> args[keys[i]]]
  BY <1>3 DEF MethodValues, keys
<1>5. \A i \in 1 .. m : Taken(format[i], values[i])
  <2>1. \A i \in 1 .. m : Taken(format[i], args[keys[i]])
    BY <1>3 DEF MethodArgs, keys, format
  <2> HIDE DEF values
  <2> QED BY <1>4, <2>1
<1> HIDE DEF values
<1>6. values \in Seq(S) /\ Len(values) = m
  <2>1. \A i \in 1 .. m : args[keys[i]] \in S
    BY <1>3 DEF ToSet
  <2> HIDE DEF S
  <2>2. m \in Nat
    BY <1>3
  <2> QED BY <1>4, <2>1, <2>2
<1>7. EightBits(format)
  <2> SUFFICES ASSUME NEW n \in 1 .. m - 8 PROVE \E i \in n .. n + 8 : format[i] # "b"
    BY DEF EightBits, m
  <2>1. m = 9 /\ n = 1 /\ 1 \in n .. n + 8
    BY <1>3
  <2> QED BY <1>3, <2>1
<1>8. Arguments(format, values)
  BY <1>5, <1>6, <1>7 DEF Arguments, m
<1> HIDE DEF S
<1>9. out \in Seq(Byte)
  BY <1>3, <1>6, <1>8, DumpsType
<1>10. l.id \in Seq(Byte) /\ Len(l.id) = 4
  BY <1>1, MethodKnown
<1>11. buf = l.id \o out
  BY DEF MethodBytes, values, format
<1> HIDE DEF l, out, buf
<1>12. buf \in Seq(Byte)
  BY <1>9, <1>10, <1>11, ConcatProperties
<1>13. At(buf, 0, l.id \o out)
  <2>1. ASSUME NEW w \in Seq(Byte), NEW v, v = w PROVE At(v, 0, w)
    BY <2>1 DEF At
  <2> QED BY <1>11, <1>12, <2>1
<1>14. At(buf, 0, l.id) /\ At(buf, 4, out)
  <2>1. At(buf, 0, l.id) /\ At(buf, 0 + Len(l.id), out)
    BY <1>9, <1>10, <1>12, <1>13, AtConcat, 0 \in Nat
  <2> QED BY <1>10, <2>1
<1> QED BY <1>3, <1>6, <1>8, <1>12, <1>14 DEF buf, out, values, format, S, keys, l

\* Where an argument is looked up (method.py:114-320): two of exchange.declare are one
\* place too early.
LEMMA PlaceFound ==
    ASSUME NEW name \in ClientNames, name # "CLOSE",
           NEW key \in ToSet(ClientMethod[name].args),
           ~(name = "EXCHANGE_DECLARE" /\ key \in Misplaced)
    PROVE  /\ Place(name, key) \in DOMAIN ClientMethod[name].args
           /\ ClientMethod[name].args[Place(name, key)] = key
<1> DEFINE keys == Decoders[name].keys
           i == CHOOSE i \in DOMAIN keys : keys[i] = key
<1>1. keys = ClientMethod[name].args
  BY TablesAgree DEF Agree
<1>2. \E j \in DOMAIN keys : keys[j] = key
  BY <1>1 DEF ToSet
<1>3. i \in DOMAIN keys /\ keys[i] = key
  BY <1>2
<1>4. Place(name, key) = i
  BY DEF Place
<1> HIDE DEF i
<1> QED BY <1>1, <1>3, <1>4

\* Bytes that the server decodes as a text: the response of a login (method.py:114-123).
Readable(name, args) == name = "START_OK" => Utf8(args["response"])

\* No other method has a long string (method.py:126-320).
LEMMA ResponseAlone ==
    /\ ClientMethod["START_OK"].format = <<"F", "s", "S", "s">>
    /\ ClientMethod["START_OK"].args
          = <<"peer-properties", "mechanism", "response", "locale">>
    /\ \A name \in ClientNames \ {"START_OK"} :
          \A i \in DOMAIN ClientMethod[name].format : ClientMethod[name].format[i] # "S"
<1> DEFINE Without(name) ==
             \A i \in DOMAIN ClientMethod[name].format : ClientMethod[name].format[i] # "S"
<1>0. /\ ClientMethod["START_OK"].format = <<"F", "s", "S", "s">>
      /\ ClientMethod["START_OK"].args
            = <<"peer-properties", "mechanism", "response", "locale">>
  BY SMT DEF ClientMethod, Layout
<1>1. Without("TUNE_OK")
  BY SMT DEF ClientMethod, Layout
<1>2. Without("OPEN")
  BY SMT DEF ClientMethod, Layout
<1>3. Without("CLOSE")
  BY SMT DEF ClientMethod, Layout
<1>4. Without("CHANNEL_OPEN")
  BY SMT DEF ClientMethod, Layout
<1>5. Without("CHANNEL_CLOSE")
  BY SMT DEF ClientMethod, Layout
<1>6. Without("EXCHANGE_DECLARE")
  BY SMT DEF ClientMethod, Layout
<1>7. Without("QUEUE_DECLARE")
  BY SMT DEF ClientMethod, Layout
<1>8. Without("QUEUE_BIND")
  BY SMT DEF ClientMethod, Layout
<1>9. Without("BASIC_QOS")
  BY SMT DEF ClientMethod, Layout
<1>10. Without("BASIC_CONSUME")
  BY SMT DEF ClientMethod, Layout
<1>11. Without("BASIC_CANCEL")
  BY SMT DEF ClientMethod, Layout
<1>12. Without("BASIC_PUBLISH")
  BY SMT DEF ClientMethod, Layout
<1>13. Without("BASIC_ACK")
  BY SMT DEF ClientMethod, Layout
<1>14. Without("BASIC_NACK")
  BY SMT DEF ClientMethod, Layout
<1>15. ASSUME NEW name \in ClientNames \ {"START_OK"} PROVE Without(name)
  <2> HIDE DEF Without
  <2> QED BY <1>1, <1>2, <1>3, <1>4, <1>5, <1>6, <1>7,
            <1>8, <1>9, <1>10, <1>11, <1>12, <1>13, <1>14, Zenon DEF ClientNames
<1> QED BY <1>0, <1>15

\* The arguments of a method are legible when the response is (serialization.py:115).
LEMMA LegibleMethod ==
    ASSUME NEW name, NEW args, MethodArgs(name, args)
    PROVE  Legible(ClientMethod[name].format, MethodValues(name, args))
           <=> Readable(name, args)
<1> DEFINE format == ClientMethod[name].format
           values == MethodValues(name, args)
           keys == ClientMethod[name].args
           m == Len(format)
<1>1. name \in ClientNames
  BY DEF MethodArgs
<1>2. /\ m \in Nat /\ DOMAIN keys = 1 .. m /\ DOMAIN format = 1 .. m
      /\ values = [i \in 1 .. m |-> args[keys[i]]]
  <2>1. Fields(format, keys)
    BY <1>1, TablesAgree DEF Agree
  <2> HIDE DEF format, keys
  <2>2. DOMAIN keys = 1 .. m /\ m \in Nat /\ DOMAIN format = 1 .. m
    BY <2>1 DEF Fields
  <2> QED BY <2>2 DEF MethodValues, keys
<1>3. Len(values) = m
  <2> HIDE DEF m, keys, values
  <2> QED BY <1>2
<1>4. CASE name = "START_OK"
  <2>1. /\ format = <<"F", "s", "S", "s">>
        /\ keys = <<"peer-properties", "mechanism", "response", "locale">>
    BY <1>4, ResponseAlone
  <2> HIDE DEF format, keys, values
  <2>2. /\ m = 4 /\ \A i \in 1 .. 4 : format[i] = "S" <=> i = 3
        /\ values[3] = args["response"]
    BY <1>2, <2>1
  <2> HIDE DEF m
  <2>3. Legible(format, values) <=> Utf8(args["response"])
    BY <1>3, <2>2 DEF Legible, Illegible
  <2> QED BY <1>4, <2>3 DEF Readable, format, values
<1>5. CASE name # "START_OK"
  <2>1. \A i \in 1 .. m : format[i] # "S"
    BY <1>1, <1>2, <1>5, ResponseAlone
  <2> HIDE DEF format, values, m
  <2>2. Legible(format, values)
    BY <1>3, <2>1 DEF Legible, Illegible
  <2> QED BY <1>5, <2>2 DEF Readable, format, values
<1> QED BY <1>4, <1>5

\* What a decoded method is, is not what is raised (method.py:190, 323-343).
LEMMA MethodNotRaised == \A n, a : [name |-> n, args |-> a] # UnicodeDecodeError
<1> TAKE n, a
<1> DEFINE r == [name |-> n, args |-> a]
<1>1. DOMAIN r = {"name", "args"} /\ DOMAIN UnicodeDecodeError = {"name"}
  BY DEF UnicodeDecodeError
<1>2. "args" \notin {"name"}
  OBVIOUS
<1> HIDE DEF r
<1> QED BY <1>1, <1>2

\* Nothing that is looked at of the arguments is decoded differently from what was
\* encoded (method.py:114-320); a response that is no text raises.
THEOREM MethodRoundTrip ==
    ASSUME NEW name, NEW args, MethodArgs(name, args),
           Fits(Len(MethodBytes(name, args)), 4), NEW chan
    PROVE  LET m == Method(MethodBytes(name, args))
           IN IF Readable(name, args)
              THEN /\ m # UnicodeDecodeError /\ m.name = name
                   /\ Seen([name |-> name, chan |-> chan, args |-> m.args])
                      = Seen([name |-> name, chan |-> chan, args |-> args])
              ELSE m = UnicodeDecodeError
<1> DEFINE buf == MethodBytes(name, args)
           l == ClientMethod[name]
           d == Decoders[name]
           values == MethodValues(name, args)
           S == {args[k] : k \in ToSet(l.args)}
           r == load(d.format, buf, 4)
           read == r.values
           m == Method(buf)
<1>1. name \in ClientNames
  BY DEF MethodArgs
<1>2. /\ l.format \in Seq(Letters) /\ values \in Seq(S) /\ Arguments(l.format, values)
      /\ buf \in Seq(Byte) /\ At(buf, 0, l.id)
      /\ At(buf, 4, dumps(l.format, values))
  BY MethodLayout, Zenon
<1> HIDE DEF values, S, buf
<1>3. ID_TO_METHOD[unpack(Bytes(buf, 0, 4))] = name
  <2>1. l.id \in Seq(Byte) /\ Len(l.id) = 4 /\ ID_TO_METHOD[unpack(l.id)] = name
    BY <1>1, MethodKnown
  <2>2. Bytes(buf, 0, 4) = l.id
    <3>1. Bytes(buf, 0, Len(l.id)) = l.id
      BY <1>2, <2>1, AtBytes, 0 \in Nat
    <3> QED BY <2>1, <3>1
  <2> QED BY <2>1, <2>2
<1>4. m = IF r = UnicodeDecodeError THEN r
          ELSE [name |-> name, args |-> [k \in ToSet(d.keys) |-> read[Place(name, k)]]]
  <2> DEFINE R(n) == load(Decoders[n].format, buf, 4)
             M(n) == IF R(n) = UnicodeDecodeError THEN R(n)
                     ELSE [name |-> n,
                           args |-> [k \in ToSet(Decoders[n].keys) |->
                                        R(n).values[Place(n, k)]]]
             N == ID_TO_METHOD[unpack(Bytes(buf, 0, 4))]
  <2>1. m = M(N)
    BY DEF Method
  <2> HIDE DEF M, N, m
  <2>2. m = M(name)
    BY <1>3, <2>1 DEF N
  <2> QED BY <2>2 DEF M
<1> HIDE DEF m, read, r
<1>11. Legible(l.format, values) <=> Readable(name, args)
  BY LegibleMethod DEF values
<1>12. r # UnicodeDecodeError => m # UnicodeDecodeError
  BY <1>4, MethodNotRaised
<1>5. DOMAIN Unread = {"CLOSE", "EXCHANGE_DECLARE"}
      /\ Unread["CLOSE"] = ToSet(ClientMethod["CLOSE"].args)
      /\ Unread["EXCHANGE_DECLARE"] = Misplaced
  BY DEF Unread
<1>6. CASE name = "CLOSE"
  <2>0. r # UnicodeDecodeError
    <3>1. d.format = <<>>
      BY <1>1, <1>6, TablesAgree DEF Agree
    <3>2. r = [values |-> <<>>, offset |-> 4, bits |-> 0, bitcount |-> 0]
      <4>1. <<>> \in Seq({}) /\ Len(<<>>) = 0
        OBVIOUS
      <4>2. PICK g : IsLoad(g, <<>>, buf, 4)
        BY <4>1, LoadLoop
      <4> QED BY <3>1, <4>1, <4>2 DEF IsLoad, r
    <3> QED BY <3>2, StateNotRaised
  <2>1. ToSet(d.keys) = {}
    BY <1>1, <1>6, TablesAgree DEF Agree, ToSet
  <2>2. DOMAIN m.args = {} /\ DOMAIN args = ToSet(l.args)
    BY <1>4, <2>0, <2>1 DEF MethodArgs
  <2>3. ASSUME NEW a, DOMAIN a \ Unread["CLOSE"] = {}
        PROVE  Seen([name |-> name, chan |-> chan, args |-> a])
               = [name |-> name, chan |-> chan, args |-> [k \in {} |-> a[k]]]
    BY <1>5, <1>6, <2>3 DEF Seen
  <2>4. ASSUME NEW a, NEW b PROVE [k \in {} |-> a[k]] = [k \in {} |-> b[k]]
    OBVIOUS
  <2>5. DOMAIN args \ Unread["CLOSE"] = {} /\ DOMAIN m.args \ Unread["CLOSE"] = {}
    BY <1>5, <1>6, <2>2
  <2>6. [k \in {} |-> m.args[k]] = [k \in {} |-> args[k]]
    BY <2>4
  <2>7. Readable(name, args) /\ m.name = name
    BY <1>4, <1>6, <2>0 DEF Readable
  <2> QED BY <1>12, <2>0, <2>3, <2>5, <2>6, <2>7 DEF m, buf
<1>7. CASE name # "CLOSE" /\ Readable(name, args)
  <2>1. d.format = l.format /\ d.keys = l.args
    BY <1>1, <1>7, TablesAgree DEF Agree
  <2>2. r # UnicodeDecodeError /\ read = values
    BY <1>2, <1>7, <1>11, <2>1, ArgumentsRoundTrip, 4 \in Nat DEF read, r, buf
  <2>3. DOMAIN m.args = ToSet(l.args) /\ DOMAIN args = ToSet(l.args)
    BY <1>4, <2>1, <2>2 DEF MethodArgs
  <2>4. ASSUME NEW k \in ToSet(l.args), ~(name = "EXCHANGE_DECLARE" /\ k \in Misplaced)
        PROVE  m.args[k] = args[k]
    <3>1. Place(name, k) \in DOMAIN l.args /\ l.args[Place(name, k)] = k
      BY <1>1, <1>7, <2>4, PlaceFound
    <3>2. values[Place(name, k)] = args[k]
      BY <3>1 DEF values, MethodValues
    <3> QED BY <1>4, <2>1, <2>2, <3>2
  <2>5. CASE name = "EXCHANGE_DECLARE"
    <3> DEFINE R(a) == [k \in ToSet(l.args) \ Misplaced |-> a[k]]
    <3>1. ASSUME NEW a, DOMAIN a = ToSet(l.args)
          PROVE  Seen([name |-> name, chan |-> chan, args |-> a])
                 = [name |-> name, chan |-> chan, args |-> R(a)]
      BY <1>5, <2>5, <3>1 DEF Seen
    <3>2. R(m.args) = R(args)
      BY <2>4
    <3> HIDE DEF R
    <3>3. Seen([name |-> name, chan |-> chan, args |-> m.args])
          = [name |-> name, chan |-> chan, args |-> R(m.args)]
      BY <2>3, <3>1
    <3>4. Seen([name |-> name, chan |-> chan, args |-> args])
          = [name |-> name, chan |-> chan, args |-> R(args)]
      BY <2>3, <3>1
    <3>5. m.name = name
      BY <1>4, <2>2
    <3> QED BY <1>7, <1>12, <2>2, <3>2, <3>3, <3>4, <3>5 DEF m, buf
  <2>6. CASE name # "EXCHANGE_DECLARE"
    <3>1. m.args = [k \in ToSet(l.args) |-> m.args[k]]
      BY <1>4, <2>1, <2>2
    <3>2. args = [k \in ToSet(l.args) |-> args[k]]
      BY DEF MethodArgs
    <3>3. m.args = args
      BY <2>4, <2>6, <3>1, <3>2
    <3>4. m.name = name
      BY <1>4, <2>2
    <3> QED BY <1>7, <1>12, <2>2, <3>3, <3>4 DEF m, buf
  <2> QED BY <2>5, <2>6
<1>8. CASE name # "CLOSE" /\ ~Readable(name, args)
  <2>1. d.format = l.format
    BY <1>1, <1>8, TablesAgree DEF Agree
  <2>2. r = UnicodeDecodeError
    BY <1>2, <1>8, <1>11, <2>1, ArgumentsRoundTrip, 4 \in Nat DEF r, buf
  <2> QED BY <1>4, <1>8, <2>2 DEF m, buf
<1> QED BY <1>6, <1>7, <1>8

-----------------------------------------------------------------------------
(* Frames *)

\* More bytes behind it change nothing of what stands in a buffer (protocol.py:103).
LEMMA AtFront ==
    ASSUME NEW u \in Seq(Byte), NEW v \in Seq(Byte), NEW o \in Nat, NEW w \in Seq(Byte),
           At(u, o, w)
    PROVE  At(u \o v, o, w)
<1> DEFINE d == u \o v
<1>1. /\ Len(d) = Len(u) + Len(v) /\ Len(u) \in Nat /\ Len(v) \in Nat /\ Len(w) \in Nat
      /\ \A i \in 1 .. Len(u) : d[i] = u[i]
  OBVIOUS
<1> HIDE DEF d
<1>2. o + Len(w) <= Len(u) /\ \A i \in 1 .. Len(w) : u[o + i] = w[i]
  BY DEF At
<1>3. ASSUME NEW i \in 1 .. Len(w) PROVE d[o + i] = w[i]
  <2>1. o + i \in 1 .. Len(u)
    BY <1>1, <1>2
  <2> QED BY <1>1, <1>2, <2>1
<1>4. o + Len(w) <= Len(d)
  BY <1>1, <1>2
<1> QED BY <1>3, <1>4 DEF At, d

\* The parts of a frame, where they stand (frame.py:24-50).
FrameAt(data, type, channel, payload) ==
    /\ At(data, 0, <<type>>) /\ At(data, 1, pack(channel, 2))
    /\ At(data, 3, pack(Len(payload), 4)) /\ At(data, 7, payload)
    /\ At(data, 7 + Len(payload), <<FRAME_END>>)

\* Where a client puts them.
LEMMA FrameLayout ==
    ASSUME NEW type \in Byte, NEW channel \in Nat, NEW payload \in Seq(Byte)
    PROVE  LET e == ClientFrame(type, channel, payload)
           IN /\ e \in Seq(Byte) /\ Len(e) = 8 + Len(payload)
              /\ FrameAt(e, type, channel, payload)
<1> DEFINE a == <<type>>
           b == pack(channel, 2)
           c == pack(Len(payload), 4)
           z == <<FRAME_END>>
           e == ClientFrame(type, channel, payload)
           ab == a \o b
           abc == ab \o c
           abcp == abc \o payload
           n == Len(payload)
<1>1. a \in Seq(Byte) /\ Len(a) = 1
  OBVIOUS
<1>2. z \in Seq(Byte) /\ Len(z) = 1
  BY DEF FRAME_END, Byte
<1>3. n \in Nat /\ n \in Int /\ 2 \in Nat /\ 4 \in Nat /\ channel \in Int
  OBVIOUS
<1>4. b \in Seq(Byte) /\ Len(b) = 2 /\ c \in Seq(Byte) /\ Len(c) = 4
  BY <1>3, PackType
<1>5. e = abcp \o z
  BY DEF ClientFrame
<1> HIDE DEF a, b, c, z, n
<1>6. ab \in Seq(Byte) /\ Len(ab) = 3
  <2>1. ab \in Seq(Byte) /\ Len(ab) = Len(a) + Len(b)
    BY <1>1, <1>4, ConcatProperties, Zenon
  <2> QED BY <1>1, <1>4, <2>1
<1> HIDE DEF ab
<1>7. abc \in Seq(Byte) /\ Len(abc) = 7
  <2>1. abc \in Seq(Byte) /\ Len(abc) = Len(ab) + Len(c)
    BY <1>4, <1>6, ConcatProperties, Zenon
  <2> QED BY <1>4, <1>6, <2>1
<1> HIDE DEF abc
<1>8. abcp \in Seq(Byte) /\ Len(abcp) = 7 + n
  <2>1. abcp \in Seq(Byte) /\ Len(abcp) = Len(abc) + Len(payload)
    BY <1>7, ConcatProperties, Zenon
  <2> QED BY <1>7, <2>1 DEF n
<1> HIDE DEF abcp
<1>9. e \in Seq(Byte) /\ Len(e) = 8 + n
  <2>1. e \in Seq(Byte) /\ Len(e) = Len(abcp) + Len(z)
    BY <1>2, <1>5, <1>8, ConcatProperties, Zenon
  <2> QED BY <1>2, <1>3, <1>8, <2>1
<1>10. At(e, 0, abcp \o z)
  <2>1. ASSUME NEW w \in Seq(Byte), NEW v, v = w PROVE At(v, 0, w)
    BY <2>1 DEF At
  <2> QED BY <1>5, <1>9, <2>1
<1> HIDE DEF e
<1>11. At(e, 0, abcp) /\ At(e, 7 + n, z)
  <2>1. At(e, 0, abcp) /\ At(e, 0 + Len(abcp), z)
    BY <1>2, <1>8, <1>9, <1>10, AtConcat, 0 \in Nat
  <2>2. 0 + Len(abcp) = 7 + n
    BY <1>3, <1>8
  <2> QED BY <2>1, <2>2
<1>12. At(e, 0, abc) /\ At(e, 7, payload)
  <2>1. At(e, 0, abc) /\ At(e, 0 + Len(abc), payload)
    BY <1>7, <1>9, <1>11, AtConcat, 0 \in Nat DEF abcp
  <2> QED BY <1>7, <2>1
<1>13. At(e, 0, ab) /\ At(e, 3, c)
  <2>1. At(e, 0, ab) /\ At(e, 0 + Len(ab), c)
    BY <1>4, <1>6, <1>9, <1>12, AtConcat, 0 \in Nat DEF abc
  <2> QED BY <1>6, <2>1
<1>14. At(e, 0, a) /\ At(e, 1, b)
  <2>1. At(e, 0, a) /\ At(e, 0 + Len(a), b)
    BY <1>1, <1>4, <1>9, <1>13, AtConcat, 0 \in Nat DEF ab
  <2> QED BY <1>1, <2>1
<1> QED BY <1>9, <1>11, <1>12, <1>13, <1>14 DEF FrameAt, a, b, c, z, n, e

\* They do so in front of other frames.
LEMMA FrameFront ==
    ASSUME NEW type \in Byte, NEW channel \in Nat, NEW payload \in Seq(Byte),
           NEW e \in Seq(Byte), FrameAt(e, type, channel, payload), NEW rest \in Seq(Byte)
    PROVE  FrameAt(e \o rest, type, channel, payload)
<1>1. <<type>> \in Seq(Byte) /\ <<FRAME_END>> \in Seq(Byte)
  BY DEF FRAME_END, Byte
<1>2. 0 \in Nat /\ 1 \in Nat /\ 3 \in Nat /\ 7 \in Nat /\ 7 + Len(payload) \in Nat
      /\ 2 \in Nat /\ 4 \in Nat /\ channel \in Int /\ Len(payload) \in Int
  OBVIOUS
<1>3. pack(channel, 2) \in Seq(Byte) /\ pack(Len(payload), 4) \in Seq(Byte)
  BY <1>2, PackType
<1> QED BY <1>1, <1>2, <1>3, AtFront DEF FrameAt

\* What read_frame looks at of a frame (frame.py:24-50).
LEMMA FrameParts ==
    ASSUME NEW data \in Seq(Byte), NEW type \in Byte, NEW channel \in Nat,
           NEW payload \in Seq(Byte), FrameAt(data, type, channel, payload),
           Fits(channel, 2), Fits(Len(payload), 4)
    PROVE  /\ frame_size(data) = 8 + Len(payload) /\ frame_size(data) <= Len(data)
           /\ ~(Len(data) < FRAME_HEADER_SIZE)
           /\ data[frame_size(data)] = FRAME_END /\ data[1] = type
           /\ unpack(Bytes(data, 1, 2)) = channel
           /\ Payload(data) = payload
<1> DEFINE n == Len(payload)
<1>1. n \in Nat /\ Len(data) \in Nat
  OBVIOUS
<1> HIDE DEF n
<1>2. unpack(Bytes(data, 1, 2)) = channel
  BY NumberAt, 1 \in Nat, 2 \in Nat DEF FrameAt
<1>3. unpack(Bytes(data, 3, 4)) = n
  BY <1>1, NumberAt, 3 \in Nat, 4 \in Nat DEF FrameAt, n
<1>4. frame_size(data) = 8 + n
  BY <1>1, <1>3 DEF frame_size, FRAME_HEADER_SIZE, FRAME_END_SIZE
<1>5. (7 + n) + 1 <= Len(data) /\ data[(7 + n) + 1] = FRAME_END
  <2>1. Len(<<FRAME_END>>) = 1 /\ <<FRAME_END>>[1] = FRAME_END /\ 1 \in 1 .. 1
    OBVIOUS
  <2> QED BY <2>1 DEF FrameAt, At, n
<1>6. data[1] = type
  <2>1. Len(<<type>>) = 1 /\ <<type>>[1] = type /\ 1 \in 1 .. 1 /\ 0 + 1 = 1
    OBVIOUS
  <2> QED BY <2>1 DEF FrameAt, At
<1>7. (7 + n) + 1 = 8 + n /\ (8 + n) - 1 = 7 + n
  BY <1>1
<1>8. Payload(data) = payload
  <2>1. Bytes(data, 7, n) = payload
    BY AtBytes, 7 \in Nat DEF FrameAt, n
  <2> QED BY <1>4, <1>7, <2>1 DEF Payload, Bytes, FRAME_HEADER_SIZE
<1>9. ~(Len(data) < FRAME_HEADER_SIZE)
  BY <1>1, <1>5 DEF FRAME_HEADER_SIZE
<1> QED BY <1>2, <1>4, <1>5, <1>6, <1>7, <1>8, <1>9 DEF n

\* Such a frame is found, whatever follows it (frame.py:44-83).
LEMMA FrameCases ==
    ASSUME NEW data \in Seq(Byte), NEW type \in Byte, NEW channel \in Nat,
           NEW payload \in Seq(Byte), FrameAt(data, type, channel, payload),
           Fits(channel, 2), Fits(Len(payload), 4)
    PROVE  LET On(chan, f) == IF f = UnicodeDecodeError THEN f
                              ELSE [name |-> f.name, chan |-> chan, args |-> f.args,
                                    size |-> 8 + Len(payload)]
           IN /\ type = 1 => read_frame(data) = On(channel, Method(payload))
              /\ type = 8 => read_frame(data) = On(0, [name |-> "HEARTBEAT", args |-> <<>>])
              /\ type = 2 => read_frame(data) = On(channel, Header(payload))
              /\ type = 3 => read_frame(data) = On(channel, Body(payload))
<1>1. /\ frame_size(data) = 8 + Len(payload) /\ ~(frame_size(data) > Len(data))
      /\ ~(Len(data) < FRAME_HEADER_SIZE)
      /\ data[frame_size(data)] = FRAME_END /\ data[1] = type
      /\ unpack(Bytes(data, 1, 2)) = channel
      /\ Payload(data) = payload
  <2>1. /\ frame_size(data) = 8 + Len(payload) /\ frame_size(data) <= Len(data)
        /\ ~(Len(data) < FRAME_HEADER_SIZE)
        /\ data[frame_size(data)] = FRAME_END /\ data[1] = type
        /\ unpack(Bytes(data, 1, 2)) = channel
        /\ Payload(data) = payload
    BY FrameParts, Zenon
  <2>2. 8 + Len(payload) \in Nat /\ Len(data) \in Nat
    OBVIOUS
  <2>3. ~(frame_size(data) > Len(data))
    <3> DEFINE s == frame_size(data)
               l == Len(data)
    <3>1. s \in Nat /\ l \in Nat /\ s <= l
      BY <2>1, <2>2, Zenon
    <3> HIDE DEF s, l
    <3>2. ~(s > l)
      BY <3>1
    <3> QED BY <3>2 DEF s, l
  <2> QED BY <2>1, <2>3
<1> QED BY <1>1 DEF read_frame

\* What the four kinds of frames carry (frame.py:52-83).
LEMMA FrameKinds ==
    ASSUME NEW f, EncodableArgs(f.name, f.args)
    PROVE  LET p == ClientPayload(f)
               t == FrameType(f.name)
           IN \/ f.name = "HEARTBEAT" /\ f.args = <<>> /\ t = 8 /\ p = <<>>
              \/ f.name = "HEADER" /\ HeaderArgs(f.args) /\ t = 2 /\ p = ClientHeader(f.args)
              \/ /\ f.name = "BODY" /\ t = 3 /\ p = f.args.content
                 /\ f.args = [content |-> f.args.content] /\ f.args.content \in Seq(Byte)
              \/ /\ MethodArgs(f.name, f.args) /\ t = 1 /\ p = MethodBytes(f.name, f.args)
                 /\ f.name \notin {"HEARTBEAT", "HEADER", "BODY"}
                 /\ f.name \notin {"None", "InvalidFrameError", "UnicodeDecodeError"}
<1> DEFINE p == ClientPayload(f)
           t == FrameType(f.name)
<1>0. \A n \in {"HEARTBEAT", "HEADER", "BODY"} : n \notin DOMAIN ClientMethod
  BY MethodNames DEF ClientNames
<1>1. CASE f.name = "HEARTBEAT" /\ f.args = <<>>
  <2>1. t = 8
    BY <1>0, <1>1 DEF FrameType
  <2>2. p = <<>>
    BY <1>0, <1>1 DEF ClientPayload
  <2> QED BY <1>1, <2>1, <2>2, Zenon
<1>2. CASE f.name = "HEADER" /\ HeaderArgs(f.args)
  <2>1. t = 2
    BY <1>0, <1>2 DEF FrameType
  <2>2. p = ClientHeader(f.args)
    BY <1>0, <1>2 DEF ClientPayload
  <2> QED BY <1>2, <2>1, <2>2, Zenon
<1>3. CASE f.name = "BODY" /\ f.args = [content |-> f.args.content] /\ f.args.content \in Seq(Byte)
  <2>1. t = 3
    BY <1>0, <1>3 DEF FrameType
  <2>2. p = f.args.content
    BY <1>0, <1>3 DEF ClientPayload
  <2> QED BY <1>3, <2>1, <2>2, Zenon
<1>4. CASE f.name \in ClientNames /\ MethodArgs(f.name, f.args)
  <2>1. /\ f.name \notin {"HEARTBEAT", "HEADER", "BODY"}
        /\ f.name \notin {"None", "InvalidFrameError", "UnicodeDecodeError"}
    BY <1>4 DEF ClientNames
  <2>2. f.name \in DOMAIN ClientMethod
    BY <1>4, MethodNames
  <2>3. t = 1
    BY <2>1, <2>2 DEF FrameType
  <2>4. p = MethodBytes(f.name, f.args)
    BY <2>1, <2>2 DEF ClientPayload, MethodBytes, MethodValues
  <2> QED BY <1>4, <2>1, <2>3, <2>4
<1> QED BY <1>1, <1>2, <1>3, <1>4, EncodableCases, Zenon DEF MethodArgs

\* A frame that can be encoded: its parts, and its channel in two bytes (frame.py:31).
LEMMA EncodableType ==
    ASSUME NEW f, Encodable(f)
    PROVE  /\ f = [name |-> f.name, chan |-> f.chan, args |-> f.args]
           /\ f.chan \in Nat /\ Fits(f.chan, 2) /\ (f.name = "HEARTBEAT" => f.chan = 0)
           /\ EncodableArgs(f.name, f.args) /\ Fits(Len(ClientPayload(f)), 4)
           /\ ClientPayload(f) \in Seq(Byte) /\ FrameType(f.name) \in {1, 2, 3, 8}
           /\ FrameType(f.name) \in Byte
<1>1. /\ f = [name |-> f.name, chan |-> f.chan, args |-> f.args]
      /\ f.chan \in Nat /\ Fits(f.chan, 2) /\ (f.name = "HEARTBEAT" => f.chan = 0)
      /\ EncodableArgs(f.name, f.args) /\ Fits(Len(ClientPayload(f)), 4)
  BY Zenon DEF Encodable
<1>4. ClientPayload(f) \in Seq(Byte)
  <2>1. <<>> \in Seq(Byte)
    OBVIOUS
  <2>2. HeaderArgs(f.args) => ClientHeader(f.args) \in Seq(Byte)
    BY HeaderLayout
  <2>3. MethodArgs(f.name, f.args) => MethodBytes(f.name, f.args) \in Seq(Byte)
    BY MethodLayout
  <2> QED BY <1>1, <2>1, <2>2, <2>3, FrameKinds, Zenon
<1>5. FrameType(f.name) \in {1, 2, 3, 8}
  BY <1>1, FrameKinds, Zenon
<1>6. FrameType(f.name) \in Byte
  BY <1>5 DEF Byte
<1> QED BY <1>1, <1>4, <1>5, <1>6

\* The bytes of a frame.
LEMMA EncodeType ==
    ASSUME NEW f, Encodable(f)
    PROVE  /\ Encode(f) \in Seq(Byte) /\ Len(Encode(f)) = 8 + Len(ClientPayload(f))
           /\ FrameAt(Encode(f), FrameType(f.name), f.chan, ClientPayload(f))
  BY EncodableType, FrameLayout DEF Encode

\* The first frame of a buffer is found with what its sender gave it, whatever follows
\* it, and its size is that of its bytes (frame.py:22-85, protocol.py:103-110).  Only
\* the response of a login can raise.
THEOREM FrameRead ==
    ASSUME NEW f, Encodable(f), NEW rest \in Seq(Byte)
    PROVE  LET r == read_frame(Encode(f) \o rest)
           IN IF Readable(f.name, f.args)
              THEN /\ r.name = f.name
                   /\ r.name \notin {"None", "InvalidFrameError", "UnicodeDecodeError"}
                   /\ r.chan = f.chan /\ r.size = Len(Encode(f))
                   /\ Seen([name |-> r.name, chan |-> r.chan, args |-> r.args]) = Seen(f)
              ELSE r = UnicodeDecodeError
<1> DEFINE data == Encode(f) \o rest
           p == ClientPayload(f)
           t == FrameType(f.name)
           size == 8 + Len(p)
           r == read_frame(data)
<1>1. /\ f = [name |-> f.name, chan |-> f.chan, args |-> f.args]
      /\ f.chan \in Nat /\ Fits(f.chan, 2) /\ (f.name = "HEARTBEAT" => f.chan = 0)
      /\ EncodableArgs(f.name, f.args) /\ Fits(Len(p), 4)
      /\ p \in Seq(Byte) /\ t \in Byte
  BY EncodableType
<1>2. Encode(f) \in Seq(Byte) /\ Len(Encode(f)) = size /\ FrameAt(Encode(f), t, f.chan, p)
  BY EncodeType
<1>3. data \in Seq(Byte) /\ FrameAt(data, t, f.chan, p)
  <2> HIDE DEF p, t
  <2> QED BY <1>1, <1>2, FrameFront, ConcatProperties
<1> HIDE DEF data
<1>4. LET On(chan, g) == IF g = UnicodeDecodeError THEN g
                         ELSE [name |-> g.name, chan |-> chan, args |-> g.args, size |-> size]
      IN /\ t = 1 => r = On(f.chan, Method(p))
         /\ t = 8 => r = On(0, [name |-> "HEARTBEAT", args |-> <<>>])
         /\ t = 2 => r = On(f.chan, Header(p))
         /\ t = 3 => r = On(f.chan, Body(p))
  <2> HIDE DEF p, t
  <2> QED BY <1>1, <1>3, FrameCases DEF size
<1>5. \/ f.name = "HEARTBEAT" /\ f.args = <<>> /\ t = 8
      \/ f.name = "HEADER" /\ HeaderArgs(f.args) /\ t = 2 /\ p = ClientHeader(f.args)
      \/ f.name = "BODY" /\ t = 3 /\ p = f.args.content /\ f.args = [content |-> f.args.content]
      \/ /\ MethodArgs(f.name, f.args) /\ t = 1 /\ p = MethodBytes(f.name, f.args)
         /\ f.name \notin {"HEARTBEAT", "HEADER", "BODY"}
         /\ f.name \notin {"None", "InvalidFrameError", "UnicodeDecodeError"}
  BY <1>1, FrameKinds, Zenon
<1> DEFINE seen == [name |-> r.name, chan |-> r.chan, args |-> r.args]
<1> HIDE DEF p, t, size, r
<1> DEFINE Same ==  /\ r.name = f.name
                    /\ r.name \notin {"None", "InvalidFrameError", "UnicodeDecodeError"}
                    /\ r.chan = f.chan /\ r.size = size /\ Seen(seen) = Seen(f)
<1> SUFFICES IF Readable(f.name, f.args) THEN Same ELSE r = UnicodeDecodeError
  BY <1>2 DEF r, data
<1>10. f.name # "START_OK" => Readable(f.name, f.args)
  BY DEF Readable
<1>6. CASE f.name = "HEARTBEAT" /\ f.args = <<>> /\ t = 8
  <2>1. r = [name |-> "HEARTBEAT", chan |-> 0, args |-> <<>>, size |-> size]
    BY <1>4, <1>6, MethodNotRaised
  <2>2. seen = f
    BY <1>1, <1>6, <2>1
  <2> HIDE DEF seen
  <2> QED BY <1>1, <1>6, <1>10, <2>1, <2>2
<1>7. CASE f.name = "HEADER" /\ HeaderArgs(f.args) /\ t = 2 /\ p = ClientHeader(f.args)
  <2>1. Header(p) = [name |-> "HEADER", args |-> f.args]
    BY <1>1, <1>7, HeaderRoundTrip
  <2>2. r = [name |-> "HEADER", chan |-> f.chan, args |-> f.args, size |-> size]
    BY <1>4, <1>7, <2>1, MethodNotRaised
  <2>3. seen = f
    BY <1>1, <1>7, <2>2
  <2> HIDE DEF seen
  <2> QED BY <1>7, <1>10, <2>2, <2>3
<1>8. CASE /\ f.name = "BODY" /\ t = 3 /\ p = f.args.content
           /\ f.args = [content |-> f.args.content]
  <2>1. Body(p) = [name |-> "BODY", args |-> f.args]
    BY <1>8 DEF Body
  <2>2. r = [name |-> "BODY", chan |-> f.chan, args |-> f.args, size |-> size]
    BY <1>4, <1>8, <2>1, MethodNotRaised
  <2>3. seen = f
    BY <1>1, <1>8, <2>2
  <2> HIDE DEF seen
  <2> QED BY <1>8, <1>10, <2>2, <2>3
<1>9. CASE /\ MethodArgs(f.name, f.args) /\ t = 1 /\ p = MethodBytes(f.name, f.args)
           /\ f.name \notin {"HEARTBEAT", "HEADER", "BODY"}
           /\ f.name \notin {"None", "InvalidFrameError", "UnicodeDecodeError"}
  <2> DEFINE m == Method(p)
  <2>0. IF Readable(f.name, f.args)
        THEN /\ m # UnicodeDecodeError /\ m.name = f.name
             /\ Seen([name |-> f.name, chan |-> f.chan, args |-> m.args])
                = Seen([name |-> f.name, chan |-> f.chan, args |-> f.args])
        ELSE m = UnicodeDecodeError
    BY <1>1, <1>9, MethodRoundTrip
  <2>5. CASE ~Readable(f.name, f.args)
    BY <1>4, <1>9, <2>0, <2>5
  <2> SUFFICES ASSUME Readable(f.name, f.args) PROVE Same
    BY <2>5
  <2>1. /\ m # UnicodeDecodeError /\ m.name = f.name
        /\ Seen([name |-> f.name, chan |-> f.chan, args |-> m.args])
           = Seen([name |-> f.name, chan |-> f.chan, args |-> f.args])
    BY <2>0
  <2>2. r = [name |-> m.name, chan |-> f.chan, args |-> m.args, size |-> size]
    BY <1>4, <1>9, <2>1
  <2>3. seen = [name |-> f.name, chan |-> f.chan, args |-> m.args]
    BY <2>1, <2>2
  <2>4. Seen(seen) = Seen(f)
    BY <1>1, <2>1, <2>3
  <2> HIDE DEF seen, m
  <2> QED BY <1>9, <2>1, <2>2, <2>4
<1> QED BY <1>5, <1>6, <1>7, <1>8, <1>9

\* The beginning of a frame waits for the rest (frame.py:25-42).
THEOREM PartWaits ==
    ASSUME NEW f, Encodable(f), NEW n \in Nat, n < Len(Encode(f))
    PROVE  read_frame(SubSeq(Encode(f), 1, n)) = NoFrame
<1> DEFINE e == Encode(f)
           d == SubSeq(e, 1, n)
           p == ClientPayload(f)
<1>1. e \in Seq(Byte) /\ Len(e) = 8 + Len(p) /\ FrameAt(e, FrameType(f.name), f.chan, p)
  BY EncodeType
<1>2. p \in Seq(Byte) /\ Fits(Len(p), 4)
  BY EncodableType
<1> HIDE DEF e, p
<1>3. Len(p) \in Nat /\ Len(e) \in Nat /\ n < Len(e)
  BY <1>1, <1>2 DEF e
<1>4. d \in Seq(Byte) /\ Len(d) = n /\ \A i \in 1 .. n : d[i] = e[i]
  BY <1>1, <1>3
<1> HIDE DEF d
<1>5. CASE n < 7
  BY <1>4, <1>5 DEF read_frame, FRAME_HEADER_SIZE, d, e
<1>6. CASE n >= 7
  <2> DEFINE c == pack(Len(p), 4)
  <2>1. c \in Seq(Byte) /\ Len(c) = 4
    <3>1. Len(p) \in Int /\ 4 \in Nat
      BY <1>3
    <3> QED BY <3>1, PackType
  <2>2. At(e, 3, c)
    BY <1>1 DEF FrameAt
  <2> HIDE DEF c
  <2>3. At(d, 3, c)
    <3>1. ASSUME NEW i \in 1 .. 4 PROVE d[3 + i] = c[i]
      <4>1. 3 + i \in 1 .. n /\ e[3 + i] = c[i]
        BY <1>6, <2>1, <2>2 DEF At
      <4> QED BY <1>4, <4>1
    <3>2. 3 + Len(c) <= Len(d)
      BY <1>4, <1>6, <2>1
    <3> QED BY <2>1, <3>1, <3>2 DEF At
  <2>4. unpack(Bytes(d, 3, 4)) = Len(p)
    BY <1>2, <1>3, <1>4, <2>3, NumberAt, 3 \in Nat, 4 \in Nat DEF c
  <2>5. frame_size(d) = Len(e)
    BY <1>1, <1>3, <2>4 DEF frame_size, FRAME_HEADER_SIZE, FRAME_END_SIZE
  <2>6. frame_size(d) > Len(d) /\ ~(Len(d) < FRAME_HEADER_SIZE)
    BY <1>3, <1>4, <1>6, <2>5 DEF FRAME_HEADER_SIZE
  <2> QED BY <2>6 DEF read_frame, d, e
<1> QED BY <1>5, <1>6
=============================================================================

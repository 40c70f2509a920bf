--------------------------- MODULE Serialization ---------------------------
(***************************************************************************)
(* The two halves of serialization.py: dumps, which turns the arguments of *)
(* a method into bytes, and loads, which reads them back.  A format is the *)
(* sequence of its letters.  A str is the sequence of the bytes of its     *)
(* UTF-8 form, and bytes that are not the form of one do not decode.       *)
(* Offsets count from 0, as in the source.                                 *)
(*                                                                         *)
(* A value of a table or an array is a pair with its Python type:          *)
(*     str, bool, int, dict, list, None, float, datetime, Decimal.         *)
(* A dict is the sequence of its <<key, value>> pairs in insertion order.  *)
(* The value of a float, a datetime or a Decimal is its packed form.       *)
(* Buffers that end before their last value does are not modelled.         *)
(***************************************************************************)
EXTENDS Integers, Sequences, SequencesExt

CONSTANT MaxDepth   \* bound: nesting of the tables and arrays that are written

ASSUME DepthAssumption == MaxDepth \in Nat \ {0}

Byte == 0 .. 255

\* The n bytes of buf from offset on.
Bytes(buf, offset, n) == SubSeq(buf, offset + 1, offset + n)

-----------------------------------------------------------------------------
(* struct: big-endian integers, two's complement *)

\* n without its last 0, 1, .. width bytes.
Shifted(n, width) ==
    LET shifted[k \in 0 .. width] == IF k = 0 THEN n ELSE shifted[k - 1] \div 256
    IN shifted

pack(n, width) == [i \in 1 .. width |-> Shifted(n, width)[width - i] % 256]

\* What pack takes of the width, unsigned and signed; it raises on the rest.
Fits(n, width) == Shifted(n, width)[width] = 0
FitsSigned(n, width) == Shifted(n, width)[width - 1] \div 128 \in {-1, 0}

unpack(bytes) ==
    LET value[n \in 0 .. Len(bytes)] ==
            IF n = 0 THEN 0 ELSE 256 * value[n - 1] + bytes[n]
    IN value[Len(bytes)]

unpack_signed(bytes) ==
    IF bytes[1] < 128 THEN unpack(bytes)
    ELSE -1 - unpack([i \in DOMAIN bytes |-> 255 - bytes[i]])

-----------------------------------------------------------------------------
(* str: UTF-8 with `surrogatepass', which takes surrogates as any other        *)
(* character of three bytes.                                                   *)

\* How many bytes a character takes that begins with b; 0 when none does.
Width(b) ==
    CASE b < 128        -> 1
      [] b \in 194 .. 223 -> 2
      [] b \in 224 .. 239 -> 3
      [] b \in 240 .. 244 -> 4
      [] OTHER          -> 0

\* What may come second: not what another character writes in fewer bytes, and
\* nothing above U+10FFFF.
Second(b) ==
    CASE b = 224 -> 160 .. 191
      [] b = 240 -> 144 .. 191
      [] b = 244 -> 128 .. 143
      [] OTHER   -> 128 .. 191

CharAt(s, i) ==
    LET last == i + Width(s[i]) - 1 IN
    /\ last \in i .. Len(s)
    /\ \A k \in i + 1 .. last : s[k] \in IF k = i + 1 THEN Second(s[i]) ELSE 128 .. 191

\* Each byte belongs to a character, which begins at most three bytes before.
Utf8(s) ==
    \A i \in DOMAIN s : \E back \in 0 .. 3 :
        back < i /\ back < Width(s[i - back]) /\ CharAt(s, i - back)

Str == {s \in Seq(Byte) : Utf8(s)}

\* What is raised in place of a str.
UnicodeDecodeError == [name |-> "UnicodeDecodeError"]

-----------------------------------------------------------------------------
(* Items of tables and arrays *)

Code == [S |-> 83, t |-> 116, F |-> 70, A |-> 65, V |-> 86,
         b |-> 98, B |-> 66, U |-> 85, s |-> 115, u |-> 117,
         I |-> 73, i |-> 105, L |-> 76, l |-> 108,
         f |-> 102, d |-> 100, D |-> 68, T |-> 84]

\* The width of each integer type, and those that are read as signed.
IntWidth ==
    [code \in {Code.b, Code.B, Code.U, Code.s, Code.u, Code.I, Code.i, Code.L, Code.l} |->
        CASE code \in {Code.b, Code.B} -> 1
          [] code \in {Code.U, Code.s, Code.u} -> 2
          [] code \in {Code.I, Code.i} -> 4
          [] code \in {Code.L, Code.l} -> 8]

SignedItem == {Code.B, Code.U, Code.s, Code.I, Code.L}

unpack_int(code, bytes) ==
    IF code \in SignedItem THEN unpack_signed(bytes) ELSE unpack(bytes)

PackedItem ==
    [code \in {Code.f, Code.d, Code.D, Code.T} |->
        CASE code = Code.f -> <<"float", 4>>
          [] code = Code.d -> <<"float", 8>>
          [] code = Code.D -> <<"Decimal", 5>>
          [] code = Code.T -> <<"datetime", 8>>]

Value(py, v) == <<py, v>>

\* The values that can be written, by how deep tables and arrays nest in them.
Typed(py, vs) == {py} \X vs

Scalars ==
    Typed("str", Str) \cup Typed("bool", BOOLEAN)
    \cup Typed("int", {n \in Int : FitsSigned(n, 8)}) \cup {Value("None", <<>>)}
    \cup Typed("float", [1 .. 8 -> Byte]) \cup Typed("Decimal", [1 .. 5 -> Byte])
    \cup Typed("datetime", [1 .. 8 -> Byte])

Keys == {k \in Str : Len(k) \in Byte}

Dicts(items) ==
    {d \in Seq(Keys \X items) : \A m, n \in DOMAIN d : d[m][1] = d[n][1] => m = n}

Lists(items) == Seq(items)

Items[n \in 0 .. MaxDepth] ==
    IF n = 0 THEN Scalars
    ELSE Scalars \cup Typed("dict", Dicts(Items[n - 1]))
         \cup Typed("list", Lists(Items[n - 1]))

\* d[key] = v
Assign(d, key, v) ==
    IF \E n \in DOMAIN d : d[n][1] = key
    THEN [n \in DOMAIN d |-> IF d[n][1] = key THEN <<key, v>> ELSE d[n]]
    ELSE Append(d, <<key, v>>)

\* The loop over the keys of a table, and over the values of an array: where it is,
\* and what it has read.  `item' is the item at each offset, with the offset behind it.
\* An error ends the loop.
read_table(item, buf, offset, limit) ==
    LET loop[k \in 0 .. limit - offset] ==
            IF k = 0 THEN [val |-> <<>>, offset |-> offset]
            ELSE LET r == loop[k - 1]
                     keylen == buf[r.offset + 1]
                     key == Bytes(buf, r.offset + 1, keylen)
                     i == item[r.offset + 1 + keylen]
                 IN IF r = UnicodeDecodeError THEN r
                    ELSE IF r.offset >= limit THEN r
                    ELSE IF ~Utf8(key) \/ i = UnicodeDecodeError THEN UnicodeDecodeError
                    ELSE [val |-> Assign(r.val, key, i.val), offset |-> i.offset]
    IN loop[limit - offset]

read_array(item, buf, offset, limit) ==
    LET loop[k \in 0 .. limit - offset] ==
            IF k = 0 THEN [val |-> <<>>, offset |-> offset]
            ELSE LET r == loop[k - 1]
                     i == item[r.offset]
                 IN IF r = UnicodeDecodeError THEN r
                    ELSE IF r.offset >= limit THEN r
                    ELSE IF i = UnicodeDecodeError THEN UnicodeDecodeError
                    ELSE [val |-> Append(r.val, i.val), offset |-> i.offset]
    IN loop[limit - offset]

\* The item at an offset, where `item' gives those that nest in it.
ReadItem(item, buf, offset) ==
    LET code == buf[offset + 1]
        at == offset + 1
        size == unpack(Bytes(buf, at, 4))
        Read(py, v, width) == [val |-> Value(py, v), offset |-> at + width]
        Text(v) == IF Utf8(v) THEN Read("str", v, 4 + size) ELSE UnicodeDecodeError
        Nest(py, r) == IF r = UnicodeDecodeError THEN r
                       ELSE [val |-> Value(py, r.val), offset |-> r.offset]
    IN
    CASE code = Code.S -> Text(Bytes(buf, at + 4, size))
      [] code \in DOMAIN IntWidth ->
            Read("int", unpack_int(code, Bytes(buf, at, IntWidth[code])), IntWidth[code])
      [] code \in DOMAIN PackedItem ->
            Read(PackedItem[code][1], Bytes(buf, at, PackedItem[code][2]),
                 PackedItem[code][2])
      [] code = Code.F -> Nest("dict", read_table(item, buf, at + 4, at + 4 + size))
      [] code = Code.A -> Nest("list", read_array(item, buf, at + 4, at + 4 + size))
      [] code = Code.t -> Read("bool", buf[at + 1] # 0, 1)
      [] code = Code.V -> Read("None", <<>>, 0)

\* n: how deep it may nest, which is less than the buffer is long.
read_item(buf) ==
    LET read[n \in 0 .. Len(buf)] ==
            LET item == IF n = 0 THEN <<>> ELSE read[n - 1]
            IN [offset \in 0 .. Len(buf) - 1 |-> ReadItem(item, buf, offset)]
    IN read[Len(buf)]

Sized(data) == pack(Len(data), 4) \o data

\* `item' gives the bytes of the values in the table or array.
write_table(item, d) ==
    Sized(FlattenSeq([n \in DOMAIN d |-> <<Len(d[n][1])>> \o d[n][1] \o item[d[n][2]]]))

write_array(item, l) == Sized(FlattenSeq([n \in DOMAIN l |-> item[l[n]]]))

\* The integers that take eight bytes.
Long(n) == n > 2147483647 \/ n < -2147483647

WriteItem(item, x) ==
    LET py == x[1]
        v == x[2]
    IN
    CASE py = "str"  -> <<Code.S>> \o Sized(v)
      [] py = "bool" -> <<Code.t, IF v THEN 1 ELSE 0>>
      [] py = "int"  -> IF Long(v) THEN <<Code.L>> \o pack(v, 8)
                        ELSE <<Code.I>> \o pack(v, 4)
      [] py = "float"    -> <<Code.d>> \o v
      [] py = "Decimal"  -> <<Code.D>> \o v
      [] py = "datetime" -> <<Code.T>> \o v
      [] py = "dict" -> <<Code.F>> \o write_table(item, v)
      [] py = "list" -> <<Code.A>> \o write_array(item, v)
      [] py = "None" -> <<Code.V>>

write_item[n \in 0 .. MaxDepth] ==
    LET item == IF n = 0 THEN <<>> ELSE write_item[n - 1]
    IN [x \in Items[n] |-> WriteItem(item, x)]

-----------------------------------------------------------------------------
(* loads.  The letters f, A and T occur in no format of the program. *)

Loaded(r, val, width) ==
    [values |-> Append(r.values, val), offset |-> r.offset + width,
     bits |-> 0, bitcount |-> 0]

\* Regression: the byte is not shifted between two bits.
LoadBit_unshifted(buf, r) ==
    LET bits == IF r.bitcount = 0 THEN buf[r.offset + 1] ELSE r.bits IN
    [values |-> Append(r.values, bits % 2 = 1),
     offset |-> IF r.bitcount = 0 THEN r.offset + 1 ELSE r.offset,
     bits |-> bits, bitcount |-> 7]

\* bitcount is set to 8 at every bit, so no second byte is read after the eighth.
LoadBit(buf, r) ==
    LET bits == IF r.bitcount = 0 THEN buf[r.offset + 1] ELSE r.bits IN
    [values |-> Append(r.values, bits % 2 = 1),
     offset |-> IF r.bitcount = 0 THEN r.offset + 1 ELSE r.offset,
     bits |-> bits \div 2, bitcount |-> 7]

LoadText(r, val, width) ==
    IF Utf8(val) THEN Loaded(r, val, width) ELSE UnicodeDecodeError

LoadDict(r, d) ==
    IF d = UnicodeDecodeError THEN d ELSE Loaded(r, d.val, d.offset - r.offset)

\* The turn of the loop for one letter, unless an earlier one has raised.
LoadOne(buf, r, p) ==
    LET size(width) == unpack(Bytes(buf, r.offset, width))
        Num(width) == Loaded(r, size(width), width)
        Text(width) == LoadText(r, Bytes(buf, r.offset + width, size(width)),
                                width + size(width))
    IN
    IF r = UnicodeDecodeError THEN r
    ELSE CASE p = "b" -> LoadBit(buf, r)
           [] p = "o" -> Num(1)
           [] p = "B" -> Num(2)
           [] p = "l" -> Num(4)
           [] p = "L" -> Num(8)
           [] p = "s" -> Text(1)
           [] p = "S" -> Text(4)
           [] p = "F" -> LoadDict(r, read_table(read_item(buf), buf, r.offset + 4,
                                                r.offset + 4 + size(4)))

\* The values, with what the loop keeps beside them; or what is raised.
load(format, buf, offset) ==
    LET r[n \in 0 .. Len(format)] ==
            IF n = 0 THEN [values |-> <<>>, offset |-> offset, bits |-> 0, bitcount |-> 0]
            ELSE LoadOne(buf, r[n - 1], format[n])
    IN r[Len(format)]

\* The values alone, where nothing is raised: no caller uses the offset.
loads(format, buf, offset) == load(format, buf, offset).values

-----------------------------------------------------------------------------
(* dumps *)

flushbits(w) == [out |-> w.out \o w.bits, bits |-> <<>>, bitcount |-> 0]

Bit == <<1, 2, 4, 8, 16, 32, 64, 128>>

DumpBit(w, val) ==
    LET shift == w.bitcount % 8
        bits == IF shift = 0 THEN Append(w.bits, 0) ELSE w.bits
    IN [out |-> w.out,
        bits |-> [bits EXCEPT ![Len(bits)] = @ + (IF val THEN Bit[shift + 1] ELSE 0)],
        bitcount |-> w.bitcount + 1]

\* A number, a str or a dict, as bytes.
Dumped(p, val) ==
    CASE p = "o" -> pack(val, 1)
      [] p = "B" -> pack(val, 2)
      [] p = "l" -> pack(val, 4)
      [] p = "L" -> pack(val, 8)
      [] p = "s" -> pack(Len(val), 1) \o val
      [] p = "S" -> Sized(val)
      [] p = "F" -> write_table(write_item[MaxDepth], val)

\* What dumps takes at each letter: pack raises on other numbers and lengths.
Taken(p, val) ==
    \/ p = "b" /\ val \in BOOLEAN
    \/ p = "o" /\ val \in Nat /\ Fits(val, 1)
    \/ p = "B" /\ val \in Nat /\ Fits(val, 2)
    \/ p = "l" /\ val \in Nat /\ Fits(val, 4)
    \/ p = "L" /\ val \in Nat /\ Fits(val, 8)
    \/ p = "s" /\ val \in Keys
    \/ p = "S" /\ val \in Seq(Byte)
    \/ p = "F" /\ val \in Dicts(Items[MaxDepth])

DumpOne(w, p, val) ==
    IF p = "b" THEN DumpBit(w, val)
    ELSE [flushbits(w) EXCEPT !.out = @ \o Dumped(p, val)]

dumps(format, values) ==
    LET w[n \in 0 .. Len(values)] ==
            IF n = 0 THEN [out |-> <<>>, bits |-> <<>>, bitcount |-> 0]
            ELSE DumpOne(w[n - 1], format[n], values[n])
    IN flushbits(w[Len(values)]).out
=============================================================================

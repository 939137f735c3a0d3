---------------------------- MODULE CoderProofs ----------------------------
(***************************************************************************)
(* The coders of an index stream invert: unpacking restores the packed     *)
(* bits, for every count, width and chunk size, and the rANS decoder       *)
(* retraces the encoder, for every stream, precision and word size.        *)
(***************************************************************************)
EXTENDS IndexPacking, RansCoder, ArithmeticTheorems

\* Of an index and a weight below the width there is one bit, and it is found
\* again by dividing its position by the width.
LEMMA DivUnique ==
  ASSUME NEW a \in Nat, NEW b \in Nat \ {0}, NEW q \in Nat, NEW r \in 0 .. b - 1,
         a = q * b + r
  PROVE  a \div b = q /\ a % b = r
  BY SMT

\* What _pack_indices divides by the width has a quotient and a rest.
LEMMA DivMod ==
  ASSUME NEW a \in Nat, NEW b \in Nat \ {0}
  PROVE  a \div b \in Nat /\ a % b \in 0 .. b - 1 /\ a = (a \div b) * b + (a % b)
<1> DEFINE q == a \div b
           r == a % b
<1>1. r \in 0 .. b - 1
  OBVIOUS
<1>2. q \in Nat
  OBVIOUS
<1>3. a = b * q + r
  BY SMT
<1> HIDE DEF q, r
<1>4. a = q * b + r
  BY <1>1, <1>2, <1>3
<1>5. QED
  BY <1>1, <1>2, <1>4 DEF q, r

\* Bytes rounds up to whole bytes.
LEMMA BytesRound ==
  ASSUME NEW b \in Nat
  PROVE  /\ Bytes(b) \in Nat /\ 8 * Bytes(b) - b \in 0 .. 7
         /\ b % 8 = 0 => 8 * Bytes(b) = b
  BY DEF Bytes

\* A multiple of eight indices ends at a byte, whatever the width.
LEMMA ByteAligned ==
  ASSUME NEW m \in Nat, NEW b \in Nat, m % 8 = 0
  PROVE  (m * b) % 8 = 0
<1> DEFINE z == m \div 8
<1>1. m = 8 * z /\ z \in Nat
  OBVIOUS
<1> HIDE DEF z
<1>2. m * b = 8 * (z * b) /\ z * b \in Nat
  BY <1>1
<1>3. QED
  BY <1>2

\* The smaller of two numbers.
LEMMA MinOfTwo ==
  ASSUME NEW a \in Nat, NEW b \in Nat
  PROVE  Min({a, b}) = IF a <= b THEN a ELSE b
  BY DEF Min

\* More indices take more bits.
LEMMA MoreBits ==
  ASSUME NEW k \in Nat, NEW m \in Nat, NEW b \in Nat, k <= m
  PROVE  k * b \in Nat /\ m * b \in Nat /\ k * b <= m * b
<1> DEFINE d == m - k
<1>1. d \in Nat /\ m = k + d
  OBVIOUS
<1> HIDE DEF d
<1>2. m * b = k * b + d * b /\ k * b \in Nat /\ d * b \in Nat
  BY <1>1
<1>3. QED
  BY <1>2

-----------------------------------------------------------------------------
PackArgsOK ==
  /\ count \in Counts /\ width \in Widths /\ planes \in BOOLEAN
  /\ writeChunk \in Chunks /\ readChunk \in Chunks

\* The packed stream once the first m indices are in it.
PackedTo(m) ==
  packed = [b \in 0 .. PackedSize - 1 |->
              IF b < m * Bits THEN Bit(b \div Bits, width - 1 - (b % Bits)) ELSE Pad]

\* The indices once the first m are read; the low plane is there from the
\* start.
ReadTo(m) ==
  indices = [k \in 0 .. count - 1 |-> [w \in 0 .. width - 1 |->
               IF w < LowBits \/ k < m THEN Bit(k, w) ELSE Pad]]

\* Both sides stop between two chunks at a multiple of eight indices, hence at
\* a byte, or at the end.
PackingInv ==
  /\ PackArgsOK
  /\ row \in 0 .. count /\ (row < count => row % 8 = 0)
  /\ packer \in {"pack", "unpack", "unpacked"}
  /\ packer = "pack" =>
       /\ PackedTo(row)
       /\ IF row < count THEN 8 * end = row * Bits ELSE end = Bytes(count * Bits)
       /\ end \in Nat
       /\ indices = [k \in 0 .. count - 1 |-> [w \in 0 .. width - 1 |-> Pad]]
       /\ Bits = 0 => row = 0
  /\ packer # "pack" =>
       PackedTo(count) /\ end = Bytes(count * Bits) /\ ReadTo(row)
  /\ packer = "unpacked" => row = count \/ Bits = 0

\* The arguments are numbers, and the planes split the width.
LEMMA ArgsNat ==
  ASSUME PackArgsOK
  PROVE  /\ count \in Nat \ {0} /\ width \in Nat \ {0}
         /\ writeChunk \in Nat \ {0} /\ writeChunk % 8 = 0
         /\ readChunk \in Nat \ {0} /\ readChunk % 8 = 0
         /\ LowBits \in Nat /\ Bits \in Nat /\ Bits <= width
         /\ LowBits + Bits = width
         /\ count * Bits \in Nat
<1>1. count \in Nat \ {0} /\ width \in Nat \ {0}
  BY PackingAssumption DEF PackArgsOK
<1>2. /\ writeChunk \in Nat \ {0} /\ writeChunk % 8 = 0
      /\ readChunk \in Nat \ {0} /\ readChunk % 8 = 0
  BY PackingAssumption DEF PackArgsOK
<1>3. Min({8, width}) \in Nat /\ Min({8, width}) <= width
  BY <1>1, MinOfTwo
<1>4. LowBits \in Nat /\ LowBits <= width
  BY <1>1, <1>3 DEF LowBits
<1>5. Bits \in Nat /\ Bits <= width /\ LowBits + Bits = width
  BY <1>1, <1>4 DEF Bits
<1>6. count * Bits \in Nat
  BY <1>1, <1>5
<1>7. QED
  BY <1>1, <1>2, <1>4, <1>5, <1>6

\* A chunk is a multiple of eight indices, or the last one.
LEMMA ChunkRows ==
  ASSUME NEW m \in Nat, NEW c \in Nat \ {0}, NEW cnt \in Nat,
         m < cnt, m % 8 = 0, c % 8 = 0
  PROVE  /\ Min({c, cnt - m}) \in Nat \ {0} /\ m + Min({c, cnt - m}) <= cnt
         /\ m + Min({c, cnt - m}) < cnt =>
              Min({c, cnt - m}) % 8 = 0 /\ (m + Min({c, cnt - m})) % 8 = 0
<1> DEFINE rows == Min({c, cnt - m})
<1>1. cnt - m \in Nat /\ cnt - m > 0
  OBVIOUS
<1>2. rows = IF c <= cnt - m THEN c ELSE cnt - m
  BY <1>1, MinOfTwo
<1> HIDE DEF rows
<1>3. rows \in Nat \ {0} /\ m + rows <= cnt
  BY <1>1, <1>2
<1>4. ASSUME m + rows < cnt
      PROVE  rows % 8 = 0 /\ (m + rows) % 8 = 0
  <2>1. rows = c
    BY <1>1, <1>2, <1>4
  <2>2. QED
    BY <2>1
<1>5. QED
  BY <1>3, <1>4 DEF rows

\* The bit at a position of a stream of indices of b bits.
BitAt(k, b) == Bit(k \div b, width - 1 - (k % b))

\* The bits of a chunk are those of the whole stream, shifted to its first
\* index.
LEMMA BitShift ==
  ASSUME NEW m \in Nat, NEW b \in Nat \ {0}, NEW k \in Nat, m * b <= k
  PROVE  Bit(m + ((k - m * b) \div b), width - 1 - ((k - m * b) % b)) = BitAt(k, b)
<1> DEFINE d == k - m * b
           q == d \div b
           r == d % b
<1>1. d \in Nat /\ k = m * b + d
  OBVIOUS
<1>2. q \in Nat /\ r \in 0 .. b - 1 /\ d = q * b + r
  BY <1>1, DivMod
<1> HIDE DEF d, q, r
<1>3. m + q \in Nat /\ k = (m + q) * b + r
  BY <1>1, <1>2
<1>4. k \div b = m + q /\ k % b = r
  BY <1>2, <1>3, DivUnique
<1>5. QED
  BY <1>4 DEF BitAt, q, r, d

\* One chunk of _pack_indices: its bits land behind those of the chunks before
\* it, although each chunk is packed as if it were the first.
LEMMA PackChunkInv == ASSUME PackingInv, PackChunk PROVE PackingInv'
<1> DEFINE rows == Min({writeChunk, count - row})
           lo   == row * Bits
           len  == rows * Bits
           size == 8 * Bytes(rows * Bits)
<1>0. /\ count \in Nat \ {0} /\ width \in Nat \ {0} /\ Bits \in Nat \ {0}
      /\ row \in Nat /\ row < count /\ row % 8 = 0 /\ PackArgsOK
      /\ packer = "pack" /\ PackedTo(row) /\ 8 * end = lo /\ end \in Nat
      /\ indices = [k \in 0 .. count - 1 |-> [w \in 0 .. width - 1 |-> Pad]]
  BY ArgsNat DEF PackChunk, PackingInv
<1>1. /\ rows \in Nat \ {0} /\ row + rows <= count
      /\ row + rows < count => rows % 8 = 0 /\ (row + rows) % 8 = 0
  <2>1. writeChunk \in Nat \ {0} /\ writeChunk % 8 = 0
    BY <1>0, ArgsNat
  <2>2. QED
    BY <1>0, <2>1, ChunkRows
<1>2. /\ packed' = [k \in DOMAIN packed |->
             IF k - 8 * end \in 0 .. len - 1
               THEN Bit(row + ((k - 8 * end) \div Bits), width - 1 - ((k - 8 * end) % Bits))
               ELSE IF k - 8 * end \in 0 .. size - 1 THEN Pad ELSE packed[k]]
      /\ end' = end + size \div 8 /\ row' = row + rows
      /\ UNCHANGED <<count, width, planes, writeChunk, readChunk, packer, indices>>
  BY DEF PackChunk, packArgs
<1> HIDE DEF rows
<1>3. UNCHANGED <<Bits, LowBits, PackedSize>> /\ PackArgsOK'
  BY <1>0, <1>2 DEF Bits, LowBits, PackedSize, PackArgsOK
<1>4. /\ len \in Nat /\ lo \in Nat /\ row' * Bits = lo + len
      /\ Bytes(len) \in Nat /\ 8 * Bytes(len) - len \in 0 .. 7
      /\ size = 8 * Bytes(len)
  BY <1>0, <1>1, <1>2, BytesRound
<1>5. /\ packed = [k \in 0 .. PackedSize - 1 |-> IF k < lo THEN BitAt(k, Bits) ELSE Pad]
      /\ DOMAIN packed = 0 .. PackedSize - 1
  BY <1>0 DEF PackedTo, BitAt
<1>a. row \in Nat /\ Bits \in Nat \ {0} /\ lo = row * Bits /\ PackedSize \in Nat
  <2>1. count * Bits \in Nat
    BY <1>0, ArgsNat
  <2>2. Bytes(count * Bits) \in Nat
    BY <2>1, BytesRound
  <2>3. PackedSize \in Nat
    BY <2>2 DEF PackedSize
  <2>4. QED
    BY <1>0, <2>3
<1> HIDE DEF lo
<1>b. \A k \in Nat : lo <= k =>
        Bit(row + ((k - lo) \div Bits), width - 1 - ((k - lo) % Bits)) = BitAt(k, Bits)
  BY <1>a, BitShift
<1> HIDE DEF len, size
<1>6. PackedTo(row)'
  <2> SUFFICES packed' = [k \in 0 .. PackedSize - 1 |->
                            IF k < lo + len THEN BitAt(k, Bits) ELSE Pad]
    BY <1>2, <1>3, <1>4 DEF PackedTo, BitAt, Bit, Pad
  <2>1. ASSUME NEW k \in 0 .. PackedSize - 1, lo <= k
        PROVE  Bit(row + ((k - lo) \div Bits), width - 1 - ((k - lo) % Bits)) = BitAt(k, Bits)
    BY <1>a, <1>b, <2>1
  <2>2. packed' = [k \in 0 .. PackedSize - 1 |->
             IF k - lo \in 0 .. len - 1
               THEN Bit(row + ((k - lo) \div Bits), width - 1 - ((k - lo) % Bits))
               ELSE IF k - lo \in 0 .. size - 1 THEN Pad ELSE packed[k]]
    BY <1>0, <1>2, <1>5
  <2>3. ASSUME NEW k \in 0 .. PackedSize - 1
        PROVE  (IF k - lo \in 0 .. len - 1
                  THEN Bit(row + ((k - lo) \div Bits), width - 1 - ((k - lo) % Bits))
                  ELSE IF k - lo \in 0 .. size - 1 THEN Pad ELSE packed[k])
                = IF k < lo + len THEN BitAt(k, Bits) ELSE Pad
    <3>1. packed[k] = IF k < lo THEN BitAt(k, Bits) ELSE Pad
      BY <1>5
    <3>2. CASE k < lo
      <4>1. ~(k - lo \in 0 .. len - 1) /\ ~(k - lo \in 0 .. size - 1) /\ k < lo + len
        BY <1>4, <3>2
      <4>2. QED
        BY <3>1, <3>2, <4>1
    <3>3. CASE lo <= k /\ k < lo + len
      <4>1. k - lo \in 0 .. len - 1
        BY <1>4, <3>3
      <4>2. QED
        BY <2>1, <3>3, <4>1
    <3>4. CASE lo + len <= k
      <4>1. ~(k - lo \in 0 .. len - 1) /\ ~(k < lo) /\ ~(k < lo + len)
        BY <1>4, <3>4
      <4>2. QED
        BY <3>1, <4>1
    <3>5. QED
      BY <1>4, <3>2, <3>3, <3>4
  <2>4. QED
    BY <2>2, <2>3
<1>7. /\ end' \in Nat
      /\ IF row' < count THEN 8 * end' = row' * Bits ELSE end' = Bytes(count * Bits)
  <2>1. end' = end + Bytes(len) /\ end' \in Nat
    <3> DEFINE bytes == Bytes(len)
    <3>1. size = 8 * bytes /\ bytes \in Nat /\ end \in Nat /\ end' = end + size \div 8
      BY <1>0, <1>2, <1>4
    <3> HIDE DEF bytes
    <3>2. size \div 8 = bytes
      BY <3>1
    <3>3. end' = end + bytes /\ end' \in Nat
      BY <3>1, <3>2
    <3>4. QED
      BY <3>3 DEF bytes
  <2>2. CASE row' < count
    <3>1. len % 8 = 0
      BY <1>0, <1>1, <1>2, <2>2, ByteAligned DEF len
    <3>2. 8 * Bytes(len) = len
      BY <1>4, <3>1, BytesRound
    <3>3. 8 * end' = lo + len
      BY <1>0, <1>4, <2>1, <3>2
    <3>4. QED
      BY <1>4, <2>1, <2>2, <3>3
  <2>3. CASE ~(row' < count)
    <3>1. row' = count
      BY <1>0, <1>1, <1>2, <2>3
    <3>2. count * Bits = lo + len
      BY <1>4, <3>1
    <3>3. Bytes(8 * end + len) = end + Bytes(len)
      BY <1>0, <1>4 DEF Bytes
    <3>4. end' = Bytes(count * Bits)
      BY <1>0, <2>1, <3>2, <3>3
    <3>5. QED
      BY <2>1, <2>3, <3>4
  <2>4. QED
    BY <2>2, <2>3
<1>8. row' \in 0 .. count /\ (row' < count => row' % 8 = 0)
  BY <1>0, <1>1, <1>2
<1>9. indices' = [k \in 0 .. count' - 1 |-> [w \in 0 .. width' - 1 |-> Pad]]
  BY <1>0, <1>2
<1>10. QED
  BY <1>0, <1>2, <1>3, <1>6, <1>7, <1>8, <1>9 DEF PackingInv, Bytes, Pad

\* The packed stream is complete when _pack_indices returns; the low plane of
\* _pack_index_planes is there before anything is unpacked.
LEMMA PackDoneInv == ASSUME PackingInv, PackDone PROVE PackingInv'
<1>0. /\ count \in Nat \ {0} /\ width \in Nat \ {0} /\ Bits \in Nat
      /\ row \in Nat /\ PackArgsOK /\ PackedTo(row) /\ end \in Nat
      /\ packer = "pack" /\ (row = count \/ Bits = 0)
      /\ indices = [k \in 0 .. count - 1 |-> [w \in 0 .. width - 1 |-> Pad]]
  BY ArgsNat DEF PackDone, PackingInv
<1>1. /\ UNCHANGED <<count, width, planes, writeChunk, readChunk, end, packed>>
      /\ packer' = "unpack" /\ row' = 0
      /\ indices' = [k \in DOMAIN indices |-> [w \in 0 .. width - 1 |->
                       IF w < LowBits THEN Bit(k, w) ELSE indices[k][w]]]
  BY DEF PackDone, packArgs
<1>2. UNCHANGED <<Bits, LowBits, PackedSize>> /\ PackArgsOK'
  BY <1>0, <1>1 DEF Bits, LowBits, PackedSize, PackArgsOK
<1>3. row * Bits = count * Bits
  BY <1>0
<1>4. PackedTo(count)'
  BY <1>0, <1>1, <1>2, <1>3 DEF PackedTo, Bit, Pad
<1>5. end = Bytes(count * Bits)
  <2>1. CASE row = count
    BY <1>0, <2>1 DEF PackingInv
  <2>2. CASE Bits = 0
    <3>1. row = 0 /\ row < count /\ 8 * end = row * Bits
      BY <1>0, <2>2 DEF PackingInv
    <3>2. end = 0 /\ count * Bits = 0
      BY <1>0, <2>2, <3>1
    <3>3. QED
      BY <3>2 DEF Bytes
  <2>3. QED
    BY <1>0, <2>1, <2>2
<1>6. ReadTo(0)'
  BY <1>0, <1>1, <1>2 DEF ReadTo, Bit, Pad
<1>7. row' \in 0 .. count /\ row' % 8 = 0
  BY <1>0, <1>1
<1>8. QED
  BY <1>1, <1>2, <1>4, <1>5, <1>6, <1>7 DEF PackingInv, Bytes

\* Where _unpack_indices looks for a bit of an index, it is.
LEMMA BitFound ==
  ASSUME PackArgsOK, PackedTo(count), Bits # 0,
         NEW k \in 0 .. count - 1, NEW w \in 0 .. width - 1, w >= LowBits
  PROVE  packed[k * Bits + (width - 1 - w)] = Bit(k, w)
<1> DEFINE r == width - 1 - w
           p == k * Bits + r
<1>1. /\ count \in Nat \ {0} /\ width \in Nat \ {0} /\ Bits \in Nat \ {0}
      /\ LowBits \in Nat /\ LowBits + Bits = width /\ count * Bits \in Nat
  BY ArgsNat
<1>2. k \in Nat /\ k + 1 \in Nat /\ k + 1 <= count /\ r \in 0 .. Bits - 1 /\ width - 1 - r = w
  BY <1>1
<1> HIDE DEF r
<1>3. k * Bits \in Nat /\ (k + 1) * Bits <= count * Bits
  BY <1>1, <1>2, MoreBits
<1>4. (k + 1) * Bits = k * Bits + Bits
  BY <1>1, <1>2
<1>5. p \in Nat /\ p < count * Bits
  <2> DEFINE a == k * Bits
             z == count * Bits
  <2>1. a \in Nat /\ z \in Nat /\ a + Bits <= z
    BY <1>1, <1>3, <1>4
  <2> HIDE DEF a, z
  <2>2. a + r \in Nat /\ a + r < z
    BY <1>1, <1>2, <2>1
  <2>3. QED
    BY <2>2 DEF a, z
<1>6. p \div Bits = k /\ p % Bits = r
  <2>1. p = k * Bits + r
    OBVIOUS
  <2> HIDE DEF p
  <2>2. QED
    BY <1>1, <1>2, <1>5, <2>1, DivUnique
<1>7. p \in 0 .. PackedSize - 1
  <2> DEFINE z == count * Bits
  <2>0. z \in Nat
    BY <1>1
  <2>1. Bytes(z) \in Nat /\ z <= 8 * Bytes(z)
    <3> HIDE DEF z
    <3>1. Bytes(z) \in Nat /\ 8 * Bytes(z) - z \in 0 .. 7
      BY <2>0, BytesRound
    <3>2. QED
      BY <2>0, <3>1
  <2>2. PackedSize \in Nat /\ count * Bits <= PackedSize
    BY <1>1, <2>1 DEF PackedSize
  <2> HIDE DEF p
  <2>3. QED
    BY <1>1, <1>5, <2>2
<1>8. packed[p] = Bit(p \div Bits, width - 1 - (p % Bits))
  <2> HIDE DEF p
  <2>1. QED
    BY <1>5, <1>7 DEF PackedTo
<1>9. packed[p] = Bit(k, w)
  BY <1>2, <1>6, <1>8
<1>10. QED
  BY <1>9 DEF r

\* One chunk of _unpack_indices reads its indices' bits and no others.
LEMMA UnpackChunkInv == ASSUME PackingInv, UnpackChunk PROVE PackingInv'
<1> DEFINE upto == Min({row + readChunk, count})
           base == row * Bits
<1>0. /\ count \in Nat \ {0} /\ width \in Nat \ {0} /\ Bits \in Nat \ {0}
      /\ LowBits \in Nat /\ LowBits <= width
      /\ readChunk \in Nat \ {0} /\ readChunk % 8 = 0
      /\ row \in Nat /\ row < count /\ row % 8 = 0 /\ PackArgsOK
      /\ packer = "unpack" /\ PackedTo(count) /\ end = Bytes(count * Bits) /\ ReadTo(row)
  BY ArgsNat DEF UnpackChunk, PackingInv
<1>1. /\ UNCHANGED <<count, width, planes, writeChunk, readChunk, packer, end, packed>>
      /\ row' = upto
      /\ indices' = [k \in DOMAIN indices |-> [w \in 0 .. width - 1 |->
           IF k \in row .. upto - 1 /\ w >= LowBits
             THEN packed[8 * FirstByte(row) + (k - row) * Bits + (width - 1 - w)]
             ELSE indices[k][w]]]
  BY DEF UnpackChunk, packArgs
<1>2. UNCHANGED <<Bits, LowBits, PackedSize>> /\ PackArgsOK'
  BY <1>0, <1>1 DEF Bits, LowBits, PackedSize, PackArgsOK
<1>3. upto \in Nat /\ row < upto /\ upto <= count /\ (upto < count => upto % 8 = 0)
  <2>1. row + readChunk \in Nat
    BY <1>0
  <2>2. upto = IF row + readChunk <= count THEN row + readChunk ELSE count
    BY <1>0, <2>1, MinOfTwo
  <2> HIDE DEF upto
  <2>3. QED
    BY <1>0, <2>2
<1> HIDE DEF upto
<1>4. 8 * FirstByte(row) = base /\ base \in Nat
  <2>1. base % 8 = 0 /\ base \in Nat
    <3>1. row \in Nat /\ row % 8 = 0 /\ Bits \in Nat
      BY <1>0
    <3>2. (row * Bits) % 8 = 0
      BY <3>1, ByteAligned
    <3>3. row * Bits \in Nat
      BY <3>1
    <3>4. QED
      BY <3>2, <3>3
  <2>2. FirstByte(row) = base \div 8
    BY DEF FirstByte
  <2> HIDE DEF base
  <2>3. QED
    BY <2>1, <2>2
<1>5. ASSUME NEW k \in 0 .. count - 1, NEW w \in 0 .. width - 1,
             k \in row .. upto - 1, w >= LowBits
      PROVE  packed[8 * FirstByte(row) + (k - row) * Bits + (width - 1 - w)] = Bit(k, w)
  <2>1. (k - row) * Bits = k * Bits - base /\ k * Bits \in Nat
    BY <1>0, <1>3, <1>5
  <2> DEFINE a == k * Bits
             d == (k - row) * Bits
             r == width - 1 - w
  <2>2. a \in Nat /\ d = a - base /\ r \in Nat
    BY <1>0, <2>1
  <2> HIDE DEF a, d, r, base
  <2>3. 8 * FirstByte(row) + d + r = a + r
    BY <1>4, <2>2
  <2>4. packed[k * Bits + (width - 1 - w)] = Bit(k, w)
    BY <1>0, <1>5, BitFound
  <2>5. QED
    BY <2>3, <2>4 DEF a, d, r
<1> HIDE DEF base
<1>6. ReadTo(row)'
  <2>1. indices = [k \in 0 .. count - 1 |-> [w \in 0 .. width - 1 |->
                     IF w < LowBits \/ k < row THEN Bit(k, w) ELSE Pad]]
    BY <1>0 DEF ReadTo
  <2>2. indices' = [k \in 0 .. count - 1 |-> [w \in 0 .. width - 1 |->
           IF k \in row .. upto - 1 /\ w >= LowBits
             THEN packed[8 * FirstByte(row) + (k - row) * Bits + (width - 1 - w)]
             ELSE indices[k][w]]]
    BY <1>1, <2>1
  <2>3. ASSUME NEW k \in 0 .. count - 1, NEW w \in 0 .. width - 1
        PROVE  (IF k \in row .. upto - 1 /\ w >= LowBits
                  THEN packed[8 * FirstByte(row) + (k - row) * Bits + (width - 1 - w)]
                  ELSE indices[k][w])
               = IF w < LowBits \/ k < upto THEN Bit(k, w) ELSE Pad
    <3>1. indices[k][w] = IF w < LowBits \/ k < row THEN Bit(k, w) ELSE Pad
      BY <2>1
    <3>2. CASE k \in row .. upto - 1 /\ w >= LowBits
      <4>1. k < upto
        BY <1>0, <1>3, <3>2
      <4>2. packed[8 * FirstByte(row) + (k - row) * Bits + (width - 1 - w)] = Bit(k, w)
        BY <1>5, <3>2
      <4>3. QED
        BY <3>2, <4>1, <4>2
    <3>3. CASE ~(k \in row .. upto - 1 /\ w >= LowBits)
      <4>1. (w < LowBits \/ k < row) <=> (w < LowBits \/ k < upto)
        BY <1>0, <1>3, <3>3
      <4>2. QED
        BY <3>1, <3>3, <4>1
    <3>4. QED
      BY <3>2, <3>3
  <2>4. indices' = [k \in 0 .. count - 1 |-> [w \in 0 .. width - 1 |->
                      IF w < LowBits \/ k < upto THEN Bit(k, w) ELSE Pad]]
    BY <2>2, <2>3
  <2>5. indices' = [k \in 0 .. count' - 1 |-> [w \in 0 .. width' - 1 |->
                      IF w < LowBits' \/ k < row' THEN Bit(k, w) ELSE Pad]]
    BY <1>1, <1>2, <2>4
  <2>6. QED
    BY <2>5 DEF ReadTo, Bit, Pad
<1>7. PackedTo(count)' /\ end' = Bytes(count' * Bits')
  BY <1>0, <1>1, <1>2 DEF PackedTo, Bit, Pad
<1>8. row' \in 0 .. count' /\ (row' < count' => row' % 8 = 0)
  BY <1>0, <1>1, <1>3
<1>9. QED
  BY <1>0, <1>1, <1>2, <1>6, <1>7, <1>8 DEF PackingInv, Bytes

\* The decoder returns once all indices are read.
LEMMA UnpackDoneInv == ASSUME PackingInv, UnpackDone PROVE PackingInv'
<1>1. /\ UNCHANGED <<count, width, planes, writeChunk, readChunk, row, end, packed, indices>>
      /\ packer = "unpack" /\ packer' = "unpacked" /\ (row = count \/ Bits = 0)
  BY DEF UnpackDone, packArgs
<1>2. UNCHANGED <<Bits, LowBits, PackedSize>>
  BY <1>1 DEF Bits, LowBits, PackedSize
<1>3. QED
  BY <1>1, <1>2 DEF PackingInv, PackArgsOK, PackedTo, ReadTo, Bytes, Bit, Pad

\* The buffers start out as padding.
LEMMA PackInitInv == PackInit => PackingInv
<1> SUFFICES ASSUME PackInit PROVE PackingInv
  OBVIOUS
<1>1. PackArgsOK /\ packer = "pack" /\ row = 0 /\ end = 0
  BY DEF PackInit, PackArgsOK
<1>2. count \in Nat \ {0} /\ Bits \in Nat /\ 0 * Bits = 0
  BY <1>1, ArgsNat
<1>3. PackedTo(0)
  <2>1. count * Bits \in Nat
    BY <1>1, ArgsNat
  <2>2. Bytes(count * Bits) \in Nat
    BY <2>1, BytesRound
  <2>3. PackedSize \in Nat
    BY <2>2 DEF PackedSize
  <2>4. packed = [b \in 0 .. PackedSize - 1 |-> Pad]
    BY DEF PackInit
  <2>5. \A b \in 0 .. PackedSize - 1 : ~(b < 0 * Bits)
    BY <1>2, <2>3
  <2>6. QED
    BY <2>4, <2>5 DEF PackedTo
<1>4. QED
  BY <1>1, <1>2, <1>3 DEF PackingInv, PackInit

\* Only the last byte is padded.
LEMMA PaddingIsShort ==
  ASSUME PackArgsOK, PackedTo(count)
  PROVE  Cardinality({k \in DOMAIN packed : packed[k] = Pad}) < 8
<1> DEFINE z == count * Bits
           pads == {k \in DOMAIN packed : packed[k] = Pad}
           last == z .. PackedSize - 1
<1>1. z \in Nat /\ Bits \in Nat /\ width \in Nat /\ count \in Nat
  BY ArgsNat
<1>2. PackedSize \in Nat /\ z <= PackedSize /\ PackedSize - z <= 7
  <2> HIDE DEF z
  <2>1. Bytes(z) \in Nat /\ 8 * Bytes(z) - z \in 0 .. 7
    BY <1>1, BytesRound
  <2>2. PackedSize = 8 * Bytes(z)
    BY DEF PackedSize, z
  <2>3. QED
    BY <1>1, <2>1, <2>2
<1>3. packed = [b \in 0 .. PackedSize - 1 |->
                  IF b < z THEN Bit(b \div Bits, width - 1 - (b % Bits)) ELSE Pad]
  BY DEF PackedTo
<1>4. ASSUME NEW b \in 0 .. PackedSize - 1, b < z
      PROVE  packed[b] # Pad
  <2>1. packed[b] = Bit(b \div Bits, width - 1 - (b % Bits))
    BY <1>3, <1>4
  <2>2. Bits # 0 /\ b \in Nat
    BY <1>1, <1>2, <1>4
  <2>3. b \div Bits \in Nat
    BY <1>1, <2>2, DivMod
  <2>4. packed[b].of \in Nat
    BY <2>1, <2>3 DEF Bit
  <2>5. QED
    BY <2>4 DEF Pad
<1> HIDE DEF z
<1>5. pads \subseteq last
  BY <1>1, <1>2, <1>3, <1>4
<1>6. IsFiniteSet(last) /\ Cardinality(last) <= 7
  <2>1. /\ IsFiniteSet(last)
        /\ Cardinality(last) = IF z > PackedSize - 1 THEN 0 ELSE (PackedSize - 1) - z + 1
    BY <1>1, <1>2, FS_Interval
  <2> HIDE DEF last
  <2>2. QED
    BY <1>1, <1>2, <2>1
<1>7. IsFiniteSet(pads) /\ Cardinality(pads) <= Cardinality(last)
  <2> HIDE DEF pads, last
  <2>1. QED
    BY <1>5, <1>6, FS_Subset
<1>8. Cardinality(pads) \in Nat /\ Cardinality(last) \in Nat
  <2> HIDE DEF pads, last
  <2>1. QED
    BY <1>6, <1>7, FS_CardinalityType
<1> HIDE DEF pads, last
<1>9. Cardinality(pads) < 8
  BY <1>6, <1>7, <1>8
<1>10. QED
  BY <1>9 DEF pads

\* What unpacking has restored when it is over is what was packed.
LEMMA PackingRestores == PackingInv => UnpackRestores
<1> SUFFICES ASSUME PackingInv, packer = "unpacked" PROVE UnpackRestores
  BY DEF UnpackRestores
<1>1. PackArgsOK /\ PackedTo(count) /\ ReadTo(row) /\ end = Bytes(count * Bits) /\ (row = count \/ Bits = 0)
  BY DEF PackingInv
<1>2. /\ count \in Nat \ {0} /\ width \in Nat \ {0} /\ Bits \in Nat /\ LowBits \in Nat
      /\ LowBits + Bits = width
  BY <1>1, ArgsNat
<1>3. ASSUME NEW k \in 0 .. count - 1, NEW w \in 0 .. width - 1
      PROVE  indices[k][w] = Bit(k, w)
  <2>1. indices[k][w] = IF w < LowBits \/ k < row THEN Bit(k, w) ELSE Pad
    BY <1>1 DEF ReadTo
  <2>2. w < LowBits \/ k < row
    BY <1>1, <1>2
  <2>3. QED
    BY <2>1, <2>2
<1>4. end = IF Bits = 0 THEN 0 ELSE Bytes(count * Bits)
  <2>1. CASE Bits = 0
    <3>1. count * Bits = 0
      BY <1>2, <2>1
    <3>2. Bytes(0) = 0
      BY DEF Bytes
    <3>3. QED
      BY <1>1, <2>1, <3>1, <3>2
  <2>2. CASE Bits # 0
    BY <1>1, <2>2
  <2>3. QED
    BY <2>1, <2>2
<1>5. Cardinality({k \in DOMAIN packed : packed[k] = Pad}) < 8
  BY <1>1, PaddingIsShort
<1>6. QED
  BY <1>3, <1>4, <1>5 DEF UnpackRestores

\* Every step keeps the packing invariant.
LEMMA PackingInvariant == PackSpec => []PackingInv
<1>1. PackingInv /\ [PackNext]_packVars => PackingInv'
  <2> SUFFICES ASSUME PackingInv, [PackNext]_packVars PROVE PackingInv'
    OBVIOUS
  <2>1. CASE UNCHANGED packVars
    <3>1. UNCHANGED <<packArgs, packer, row, end, packed, indices>>
      BY <2>1 DEF packVars, packArgs
    <3>2. UNCHANGED <<Bits, LowBits, PackedSize>>
      BY <3>1 DEF packArgs, Bits, LowBits, PackedSize
    <3>3. UNCHANGED PackArgsOK /\ (PackedTo(row) <=> PackedTo(row)')
          /\ (PackedTo(count) <=> PackedTo(count)') /\ (ReadTo(row) <=> ReadTo(row)')
      BY <3>1, <3>2 DEF packArgs, PackArgsOK, PackedTo, ReadTo, Bit, Pad
    <3>4. QED
      BY <3>1, <3>2, <3>3 DEF packArgs, PackingInv, Bytes, Pad
  <2>2. QED
    BY <2>1, PackChunkInv, PackDoneInv, UnpackChunkInv, UnpackDoneInv DEF PackNext
<1>2. QED
  BY <1>1, PackInitInv, PTL DEF PackSpec

\* The writing position of _pack_indices never passes the bytes that the whole
\* stream needs, although it adds up the rounded sizes of the chunks.
THEOREM PackTypeCorrect == PackSpec => []PackTypeOK
<1>1. PackingInv => PackTypeOK
  <2> SUFFICES ASSUME PackingInv PROVE PackTypeOK
    OBVIOUS
  <2> DEFINE all == count * Bits
             so == row * Bits
  <2>1. /\ count \in Nat /\ Bits \in Nat /\ row \in Nat /\ row <= count
        /\ row \in 0 .. count /\ packer \in {"pack", "unpack", "unpacked"}
    BY ArgsNat DEF PackingInv
  <2>2. so \in Nat /\ all \in Nat /\ so <= all
    BY <2>1, MoreBits
  <2>3. \/ end \in Nat /\ 8 * end = so
        \/ end = Bytes(all)
    BY DEF PackingInv
  <2> HIDE DEF all, so
  <2>4. Bytes(all) \in Nat /\ 8 * Bytes(all) - all \in 0 .. 7
    BY <2>2, BytesRound
  <2>5. end \in 0 .. Bytes(all)
    BY <2>2, <2>3, <2>4
  <2> QED
    BY <2>1, <2>5 DEF PackTypeOK, all
<1> QED
  BY <1>1, PackingInvariant, PTL

\* For every count, width and pair of chunk sizes that are multiples of eight,
\* _unpack_indices and _unpack_index_planes give back every bit.
THEOREM IndicesRestored == PackSpec => []UnpackRestores
  BY PackingInvariant, PackingRestores, PTL

-----------------------------------------------------------------------------
\* RENORM_BITS is a number, and 1 << k up to it is positive and doubles with k.
LEMMA ShiftsUsed ==
  /\ RenormBits \in Nat
  /\ \A k \in 0 .. RenormBits : Shift[k] \in Nat \ {0}
  /\ \A k \in 1 .. RenormBits : Shift[k] = 2 * Shift[k - 1]
<1>1. RenormBits \in Nat
  BY RansAssumption
<1>2. ASSUME NEW k \in 1 .. RenormBits
      PROVE  Shift[k] = 2 * Shift[k - 1]
  <2>1. k - 1 \in Nat /\ (k - 1) + 1 = k
    BY <1>1
  <2> QED
    BY <2>1, ShiftFacts
<1>3. \A k \in 0 .. RenormBits : k \in Nat
  BY <1>1
<1> QED
  BY <1>1, <1>2, <1>3, ShiftFacts

\* A smaller power divides a larger one.
LEMMA ShiftDivides ==
  ASSUME NEW p \in 0 .. RenormBits
  PROVE  \E b \in Nat \ {0} : Shift[RenormBits] = b * Shift[p]
<1> DEFINE good == {m \in Nat : m <= RenormBits =>
                      \E b \in Nat \ {0} : Shift[RenormBits] = b * Shift[RenormBits - m]}
<1>0. RenormBits \in Nat
  BY RansAssumption
<1>1. 0 \in good
  <2>1. Shift[RenormBits] \in Nat /\ RenormBits - 0 = RenormBits
    BY <1>0, ShiftsUsed
  <2>2. Shift[RenormBits] = 1 * Shift[RenormBits - 0]
    BY <2>1
  <2> QED
    BY <2>2
<1>2. ASSUME NEW m \in Nat, m \in good
      PROVE  m + 1 \in good
  <2>1. SUFFICES ASSUME m + 1 <= RenormBits
        PROVE  \E b \in Nat \ {0} : Shift[RenormBits] = b * Shift[RenormBits - (m + 1)]
    OBVIOUS
  <2>2. PICK b \in Nat \ {0} : Shift[RenormBits] = b * Shift[RenormBits - m]
    BY <1>0, <1>2, <2>1
  <2>3. RenormBits - m \in 1 .. RenormBits /\ (RenormBits - m) - 1 = RenormBits - (m + 1)
        /\ RenormBits - (m + 1) \in 0 .. RenormBits
    BY <1>0, <2>1
  <2> DEFINE lo == Shift[RenormBits - (m + 1)]
  <2>4. Shift[RenormBits - m] = 2 * lo /\ lo \in Nat
    BY <2>3, ShiftsUsed
  <2> HIDE DEF lo
  <2>5. Shift[RenormBits] = (2 * b) * lo /\ 2 * b \in Nat \ {0}
    BY <2>2, <2>4
  <2> QED
    BY <2>5 DEF lo
<1>3. Nat \subseteq good
  <2> HIDE DEF good
  <2> QED
    BY <1>1, <1>2, AllNaturals
<1>4. RenormBits - p \in Nat /\ RenormBits - p <= RenormBits /\ RenormBits - (RenormBits - p) = p
  BY <1>0
<1>5. RenormBits - p \in good
  BY <1>3, <1>4
<1> QED
  BY <1>4, <1>5

-----------------------------------------------------------------------------
(* The arguments of the coder. *)
CodeArgs == precision \in Precisions /\ syms \in Streams

\* What the arguments of rans_encode_scalar give: RANS_L is a multiple of M.
LEMMA ArgFacts ==
  ASSUME CodeArgs
  PROVE  /\ n \in Nat \ {0} /\ syms \in [1 .. n -> Nat]
         /\ M \in Nat \ {0} /\ RANS_L \in Nat \ {0} /\ Word = RANS_L
         /\ \E b \in Nat \ {0} : RANS_L = b * M
         /\ Cardinality({syms[k] : k \in DOMAIN syms}) <= M
<1>1. precision \in 0 .. RenormBits /\ RenormBits \in Nat
  BY RansAssumption DEF CodeArgs
<1>2. M \in Nat \ {0} /\ RANS_L \in Nat \ {0} /\ Word = RANS_L
  BY <1>1, ShiftsUsed DEF M, RANS_L, Word
<1>3. \E b \in Nat \ {0} : RANS_L = b * M
  BY <1>1, ShiftDivides DEF M, RANS_L
<1>4. syms \in Seq(Nat) /\ syms # <<>>
  BY RansAssumption DEF CodeArgs
<1>5. n \in Nat \ {0} /\ syms \in [1 .. n -> Nat]
  BY <1>4 DEF n
<1>6. Cardinality({syms[k] : k \in DOMAIN syms}) <= M
  BY RansAssumption DEF CodeArgs, M
<1> QED
  BY <1>2, <1>3, <1>5, <1>6

\* The alphabet is finite and has every symbol of the stream.
LEMMA SymbolFacts ==
  ASSUME CodeArgs
  PROVE  /\ Symbols \subseteq Nat /\ IsFiniteSet(Symbols) /\ Symbols # {}
         /\ \E mx \in Nat : Symbols = 0 .. mx
         /\ \A k \in 1 .. n : syms[k] \in Used
         /\ Used = {syms[k] : k \in DOMAIN syms} /\ IsFiniteSet(Used)
         /\ Used \subseteq Symbols
         /\ \A s \in Symbols : Hist(s) \in Nat
<1> DEFINE R == {syms[k] : k \in DOMAIN syms}
<1>1. n \in Nat \ {0} /\ syms \in [1 .. n -> Nat] /\ DOMAIN syms = 1 .. n
  BY ArgFacts
<1>2. IsFiniteSet(1 .. n) /\ R # {} /\ R \subseteq Nat /\ syms[1] \in R
  <2>1. n \in Int /\ 1 \in Int /\ 1 \in 1 .. n
    BY <1>1
  <2>2. IsFiniteSet(1 .. n)
    BY <2>1, FS_Interval
  <2>3. syms[1] \in R
    BY <1>1, <2>1
  <2>4. R \subseteq Nat
    BY <1>1
  <2> QED
    BY <2>2, <2>3, <2>4
<1>3. IsFiniteSet(R)
  <2>1. syms \in Surjection(1 .. n, R)
    BY <1>1 DEF Surjection
  <2> HIDE DEF R
  <2> QED
    BY <1>2, <2>1, FS_Surjection
<1> DEFINE mx == Max(R)
<1>4. mx \in R /\ \A s \in R : s <= mx
  <2> DEFINE f == [s \in R |-> 0 - s]
  <2>1. \A s \in R : f[s] \in Int /\ f[s] = 0 - s
    <3> HIDE DEF R
    <3> QED
      BY <1>2
  <2> HIDE DEF f
  <2>2. \E s \in R : \A u \in R : f[s] <= f[u]
    <3> HIDE DEF R
    <3> QED
      BY <1>2, <1>3, <2>1, LeastValue
  <2>3. \E s \in R : \A u \in R : s >= u
    <3> HIDE DEF R
    <3>1. PICK s \in R : \A u \in R : f[s] <= f[u]
      BY <2>2
    <3>2. \A u \in R : s >= u
      BY <1>2, <2>1, <3>1
    <3> QED
      BY <3>2
  <2>4. mx \in R /\ \A u \in R : mx >= u
    <3> HIDE DEF R
    <3> QED
      BY <2>3 DEF Max
  <2> HIDE DEF R, mx
  <2> QED
    BY <1>2, <2>4
<1>5. Symbols = 0 .. mx
  BY DEF Symbols
<1> HIDE DEF mx
<1>6. mx \in Nat /\ R \subseteq 0 .. mx
  <2> HIDE DEF R
  <2> QED
    BY <1>2, <1>4
<1>7. ASSUME NEW s
      PROVE  /\ Hist(s) \in Nat
             /\ Hist(s) > 0 <=> s \in R
  <2> DEFINE P == {k \in DOMAIN syms : syms[k] = s}
  <2>1. IsFiniteSet(P) /\ (P # {} <=> s \in R)
    BY <1>1, <1>2, FS_Subset
  <2>2. Hist(s) = Cardinality(P)
    BY DEF Hist
  <2> HIDE DEF P, R
  <2>3. Cardinality(P) \in Nat /\ (Cardinality(P) = 0 <=> P = {})
    BY <2>1, FS_CardinalityType, FS_EmptySet
  <2> QED
    BY <2>1, <2>2, <2>3
<1>8. Used = R
  BY <1>5, <1>6, <1>7 DEF Used
<1>9. IsFiniteSet(Symbols) /\ Symbols # {} /\ Symbols \subseteq Nat
  <2>1. mx \in Int /\ 0 \in Int /\ 0 \in 0 .. mx
    BY <1>6
  <2>2. IsFiniteSet(0 .. mx)
    BY <2>1, FS_Interval
  <2>3. 0 .. mx \subseteq Nat
    BY <1>6
  <2> QED
    BY <1>5, <2>1, <2>2, <2>3
<1> QED
  BY <1>1, <1>3, <1>5, <1>6, <1>7, <1>8, <1>9

\* np.argmax: a symbol that no other exceeds.
LEMMA ArgMaxIs ==
  ASSUME CodeArgs, NEW f, \A s \in Symbols : f[s] \in Int
  PROVE  ArgMax(f) \in Symbols /\ \A u \in Symbols : f[u] <= f[ArgMax(f)]
<1> DEFINE A == {s \in Symbols : \A u \in Symbols : f[u] <= f[s]}
           g == [s \in Symbols |-> 0 - f[s]]
<1>1. \A s \in Symbols : g[s] \in Int /\ g[s] = 0 - f[s]
  OBVIOUS
<1> HIDE DEF g
<1>2. PICK s \in Symbols : \A u \in Symbols : g[s] <= g[u]
  BY <1>1, SymbolFacts, LeastValue
<1>3. \A u \in Symbols : f[u] <= f[s]
  BY <1>1, <1>2
<1>4. A # {} /\ A \subseteq Nat
  BY <1>3, SymbolFacts
<1>5. Min(A) \in A
  <2> HIDE DEF A
  <2> QED
    BY <1>4, MinIsLeast
<1>6. ArgMax(f) = Min(A)
  BY DEF ArgMax
<1> QED
  BY <1>5, <1>6

\* build_freq_table: the total is 2^precision and every used symbol has a slot,
\* although rounding may exceed the total.
LEMMA TableIs ==
  ASSUME CodeArgs
  PROVE  /\ FreqTable \in [Symbols -> Nat]
         /\ \A s \in Used : FreqTable[s] >= 1
         /\ Total(FreqTable, Symbols) = M
<1>0. /\ IsFiniteSet(Symbols) /\ Used \subseteq Symbols /\ IsFiniteSet(Used)
      /\ \A s \in Symbols : Hist(s) \in Nat
      /\ M \in Nat \ {0} /\ n \in Nat \ {0}
      /\ Cardinality(Used) <= M
      /\ Used # {}
  <2>1. 1 \in 1 .. n
    BY ArgFacts
  <2> QED
    BY <2>1, ArgFacts, SymbolFacts
<1>1. \A s \in Symbols : Scaled[s] \in Nat /\ (s \in Used => Scaled[s] >= 1) /\ (s \notin Used => Scaled[s] = 0)
  <2>1. ASSUME NEW s \in Used
        PROVE  Scaled[s] \in Nat /\ Scaled[s] >= 1
    <3> DEFINE a == Hist(s) * M
               r == Rounded(a, n)
    <3>1. a \in Nat
      BY <1>0
    <3>2. r \in Nat
      <4> HIDE DEF a
      <4>1. a \div n \in Nat
        BY <1>0, <3>1, DivMod
      <4> QED
        BY <4>1 DEF Rounded
    <3>3. Scaled[s] = Max({1, r})
      BY <1>0 DEF Scaled
    <3> HIDE DEF r
    <3>4. Max({1, r}) = IF r <= 1 THEN 1 ELSE r
      BY <3>2 DEF Max
    <3> QED
      BY <3>2, <3>3, <3>4
  <2> QED
    BY <1>0, <2>1 DEF Scaled
<1>2. \A s \in Symbols : Ones[s] = IF s \in Used THEN 1 ELSE 0
  BY DEF Ones
<1>3. Total(Ones, Symbols) <= M /\ Total(Ones, Symbols) \in Int
  <2>1. \A s \in Symbols : Ones[s] \in Int
    BY <1>2
  <2>2. Total(Ones, Symbols) = Total(Ones, Used)
    BY <1>0, <1>2, <2>1, TotalSupport
  <2>3. Total(Ones, Used) = Cardinality(Used)
    BY <1>0, <1>2, TotalCounts
  <2>4. Cardinality(Used) \in Nat
    BY <1>0, FS_CardinalityType
  <2> QED
    BY <1>0, <2>2, <2>3, <2>4
<1>4. ASSUME NEW f \in [Symbols -> Int], NEW s \in Symbols, NEW d \in Int,
             d = M - Total(f, Symbols)
      PROVE  Total([f EXCEPT ![s] = @ + d], Symbols) = M
  <2> DEFINE g == [f EXCEPT ![s] = @ + d]
  <2>1. /\ g[s] = f[s] + d /\ \A u \in Symbols : f[u] \in Int /\ g[u] \in Int
        /\ \A u \in Symbols \ {s} : f[u] = g[u]
    OBVIOUS
  <2> HIDE DEF g
  <2>2. Total(g, Symbols) = Total(f, Symbols) + g[s] - f[s]
    BY <1>0, <2>1, TotalUpdate
  <2>3. Total(f, Symbols) \in Int
    BY <1>0, <2>1, TotalIsInt
  <2> QED
    BY <1>0, <1>4, <2>1, <2>2, <2>3 DEF g
<1>5. CASE Fixed[ArgMax(Scaled)] < 1
  <2> DEFINE H == [s \in Symbols |-> Hist(s)]
             b == ArgMax(H)
             d == M - Total(Ones, Symbols)
  <2>1. \A s \in Symbols : H[s] \in Int /\ H[s] = Hist(s)
    BY <1>0
  <2>2. b \in Symbols /\ \A u \in Symbols : H[u] <= H[b]
    <3> HIDE DEF H
    <3> QED
      BY <2>1, ArgMaxIs
  <2>3. Peaked = [Ones EXCEPT ![b] = @ + d]
    BY DEF Peaked
  <2>4. FreqTable = Peaked
    BY <1>5 DEF FreqTable
  <2>5. d \in Nat
    BY <1>0, <1>3
  <2>6. Ones \in [Symbols -> Int]
    BY DEF Ones
  <2>0. d = M - Total(Ones, Symbols) /\ d \in Int
    BY <2>5
  <2> HIDE DEF b, H, d
  <2>7. Total(FreqTable, Symbols) = M
    BY <1>4, <2>0, <2>2, <2>3, <2>4, <2>6
  <2>8. \A s \in Symbols : FreqTable[s] = IF s = b THEN Ones[s] + d ELSE Ones[s]
    BY <2>2, <2>3, <2>4, <2>6
  <2>9. \A s \in Symbols : FreqTable[s] \in Nat /\ (s \in Used => FreqTable[s] >= 1)
    BY <1>2, <2>5, <2>8
  <2>10. DOMAIN FreqTable = Symbols /\ FreqTable = [s \in Symbols |-> FreqTable[s]]
    BY <2>3, <2>4, <2>6
  <2> QED
    BY <1>0, <2>7, <2>9, <2>10
<1>6. CASE ~(Fixed[ArgMax(Scaled)] < 1)
  <2> DEFINE b == ArgMax(Scaled)
             d == M - Total(Scaled, Symbols)
  <2>1. b \in Symbols
    BY <1>1, ArgMaxIs
  <2>2. Fixed = [Scaled EXCEPT ![b] = @ + d]
    BY DEF Fixed
  <2>3. FreqTable = Fixed
    BY <1>6 DEF FreqTable
  <2>4. Scaled \in [Symbols -> Int]
    <3>1. Scaled = [s \in Symbols |-> Scaled[s]]
      BY DEF Scaled
    <3> QED
      BY <1>1, <3>1
  <2>5. d \in Int
    BY <1>0, <1>1, TotalIsInt
  <2>6. ~(Fixed[b] < 1)
    BY <1>6
  <2> HIDE DEF b, d
  <2>7. Total(FreqTable, Symbols) = M
    BY <1>4, <2>1, <2>2, <2>3, <2>4, <2>5 DEF d
  <2>8. \A s \in Symbols : FreqTable[s] = IF s = b THEN Scaled[s] + d ELSE Scaled[s]
    BY <2>1, <2>2, <2>3, <2>4
  <2>9. \A s \in Symbols : FreqTable[s] \in Nat /\ (s \in Used => FreqTable[s] >= 1)
    BY <1>1, <2>1, <2>3, <2>5, <2>6, <2>8
  <2>10. FreqTable = [s \in Symbols |-> FreqTable[s]]
    BY <2>2, <2>3, <2>4
  <2> QED
    BY <1>0, <2>7, <2>9, <2>10
<1> QED
  BY <1>5, <1>6

-----------------------------------------------------------------------------
(* The slots of the symbols. *)
Blocks == RANS_L \div M

\* RANS_L is so many times the table: the interval of x_max.
LEMMA CodeFacts ==
  ASSUME CodeArgs
  PROVE  /\ M \in Nat \ {0} /\ RANS_L \in Nat \ {0} /\ Word = RANS_L
         /\ Blocks \in Nat \ {0} /\ RANS_L = Blocks * M
<1>1. /\ M \in Nat \ {0} /\ RANS_L \in Nat \ {0} /\ Word = RANS_L
      /\ \E b \in Nat \ {0} : RANS_L = b * M
  BY ArgFacts
<1>2. PICK b \in Nat \ {0} : RANS_L = b * M
  BY <1>1
<1>3. RANS_L = b * M + 0 /\ 0 \in 0 .. M - 1
  BY <1>1, <1>2
<1>4. Blocks = b
  <2> DEFINE ll == RANS_L
             mm == M
  <2>1. ll \in Nat /\ mm \in Nat \ {0} /\ b \in Nat /\ 0 \in 0 .. mm - 1 /\ ll = b * mm + 0
    BY <1>1, <1>2, <1>3
  <2> HIDE DEF ll, mm
  <2>2. ll \div mm = b
    BY <2>1, DivUnique
  <2> QED
    BY <2>2 DEF ll, mm, Blocks
<1> QED
  BY <1>1, <1>2, <1>4

\* Each symbol has the slots after those of the symbols before it.
LEMMA SlotFacts ==
  ASSUME CodeArgs, freq = FreqTable, NEW s \in Symbols
  PROVE  /\ Cum(s) \in Nat /\ freq[s] \in Nat /\ Cum(s) + freq[s] <= M
         /\ \A u \in Symbols : s < u => Cum(s) + freq[s] <= Cum(u)
<1>1. PICK mx \in Nat : Symbols = 0 .. mx
  BY SymbolFacts
<1>2. /\ freq \in [Symbols -> Nat] /\ Total(freq, Symbols) = M
      /\ IsFiniteSet(Symbols) /\ \A u \in Symbols : freq[u] \in Nat
  BY TableIs, SymbolFacts
<1>3. s \in Nat /\ s <= mx
  BY <1>1
<1>4. /\ 0 .. s \subseteq Symbols /\ s \in 0 .. s /\ (0 .. s) \ {s} = 0 .. s - 1
      /\ 0 .. s - 1 \subseteq Symbols
  BY <1>1, <1>3
<1>5. IsFiniteSet(0 .. s)
  BY <1>2, <1>4, FS_Subset
<1>6. \A u \in 0 .. s : freq[u] \in Nat /\ freq[u] \in Int
  BY <1>2, <1>4
<1>7. Total(freq, 0 .. s) = freq[s] + Total(freq, 0 .. s - 1)
  BY <1>4, <1>5, <1>6, TotalRemove
<1>8. Total(freq, 0 .. s) <= M /\ Total(freq, 0 .. s) \in Nat
  BY <1>2, <1>4, TotalPart
<1>9. Total(freq, 0 .. s - 1) \in Nat
  BY <1>2, <1>4, TotalPart
<1>10. ASSUME NEW u \in Symbols, s < u
       PROVE  Total(freq, 0 .. s) <= Total(freq, 0 .. u - 1)
  <2>1. 0 .. s \subseteq 0 .. u - 1 /\ 0 .. u - 1 \subseteq Symbols
    BY <1>1, <1>3, <1>10
  <2>2. IsFiniteSet(0 .. u - 1) /\ \A v \in 0 .. u - 1 : freq[v] \in Nat
    BY <1>2, <2>1, FS_Subset
  <2> QED
    BY <2>1, <2>2, TotalPart
<1>11. freq[s] \in Nat
  BY <1>2
<1>12. \A u \in Symbols : s < u => Cum(s) + freq[s] <= Cum(u)
  <2> SUFFICES ASSUME NEW u \in Symbols, s < u
      PROVE  Cum(s) + freq[s] <= Cum(u)
    OBVIOUS
  <2>1. Total(freq, 0 .. s) <= Total(freq, 0 .. u - 1)
    BY <1>10
  <2>2. Cum(s) + freq[s] = Total(freq, 0 .. s)
    BY <1>7, <1>9, <1>11 DEF Cum
  <2> QED
    BY <2>1, <2>2 DEF Cum
<1> QED
  BY <1>7, <1>8, <1>9, <1>11, <1>12 DEF Cum

\* The slot of a symbol tells the symbol.
LEMMA SymbolFound ==
  ASSUME CodeArgs, freq = FreqTable, NEW s \in Symbols,
         NEW slot \in Nat, Cum(s) <= slot, slot < Cum(s) + freq[s]
  PROVE  SymbolAt(slot) = s
<1>1. ASSUME NEW u \in Symbols, Cum(u) <= slot, slot < Cum(u) + freq[u]
      PROVE  u = s
  <2>1. /\ Cum(s) \in Nat /\ freq[s] \in Nat /\ Cum(u) \in Nat /\ freq[u] \in Nat
        /\ s < u => Cum(s) + freq[s] <= Cum(u)
        /\ u < s => Cum(u) + freq[u] <= Cum(s)
    BY SlotFacts
  <2>2. s \in Nat /\ u \in Nat
    BY SymbolFacts
  <2> QED
    BY <1>1, <2>1, <2>2
<1> QED
  BY <1>1 DEF SymbolAt

\* The coding step: a state of at least b intervals of f ends in at least b
\* intervals of m.
LEMMA LowKept ==
  ASSUME NEW f \in Nat \ {0}, NEW m \in Nat, NEW b \in Nat,
         NEW q \in Nat, NEW r \in 0 .. f - 1, b * f <= q * f + r
  PROVE  b * m <= q * m
<1>1. b <= q
  <2> SUFFICES ASSUME q + 1 <= b PROVE FALSE
    OBVIOUS
  <2>1. (q + 1) * f <= b * f
    BY MoreBits
  <2>2. (q + 1) * f = q * f + f /\ b * f \in Nat /\ q * f \in Nat
    OBVIOUS
  <2> QED
    BY <2>1, <2>2
<1> QED
  BY <1>1, MoreBits

\* The coding step: a state of less than b intervals of f ends in less than b
\* intervals of m.
LEMMA HighKept ==
  ASSUME NEW f \in Nat \ {0}, NEW m \in Nat, NEW b \in Nat,
         NEW q \in Nat, NEW r \in 0 .. f - 1, q * f + r < b * f
  PROVE  q * m + m <= b * m
<1>1. q + 1 <= b
  <2> SUFFICES ASSUME b <= q PROVE FALSE
    OBVIOUS
  <2>1. b * f <= q * f /\ b * f \in Nat /\ q * f \in Nat
    BY MoreBits
  <2> QED
    BY <2>1
<1>2. (q + 1) * m <= b * m
  BY <1>1, MoreBits
<1>3. (q + 1) * m = q * m + m
  OBVIOUS
<1> QED
  BY <1>2, <1>3

-----------------------------------------------------------------------------
(* The states of the coder between two symbols. *)
CodedAs(y, s) == (y \div freq[s]) * M + (y % freq[s]) + Cum(s)

\* The state that went into the coding step from a to b: of a, less its low
\* word if that was moved out.
Carried(a, b) == IF b[2] = a[2] THEN a[1] ELSE a[1] \div Word

\* Symbol s, coded in state a, gives state b; ws are the words so far.
Linked(a, b, s, ws) ==
  /\ b[2] # a[2] =>
       b[2] = a[2] + 1 /\ ws[b[2]] = a[1] % Word /\ a[1] \div Word < RANS_L
  /\ b[1] = CodedAs(Carried(a, b), s)

Settled(top) == (RANS_L .. RANS_L * Word - 1) \X (0 .. top)

\* P[k] is the state before symbol k was coded, from symbol "from" to the end.
Retraced(P, from, ws) ==
  /\ P[n] = <<RANS_L, 0>>
  /\ \A k \in from .. n : P[k] \in Settled(Len(ws))
  /\ \A j, k \in from .. n : j <= k => P[k][2] <= P[j][2]
  /\ \A k \in from + 1 .. n : Linked(P[k], P[k - 1], syms[k], ws)

\* The states still to be undone, from the one that is reached now.
Ahead(now) == [k \in i .. n |-> IF k = i THEN now ELSE trail[k - i]]
Behind(now) == [k \in i - 1 .. n |-> IF k = i - 1 THEN now ELSE trail[k]]

EncodeInv ==
  coder = "encode" =>
    /\ i \in 0 .. n /\ Len(trail) = n - i /\ decoded = <<>>
    /\ Retraced(Ahead(Before), i, words)
    /\ moved = 0 => x \in RANS_L .. RANS_L * Word - 1
    /\ moved = 1 => i > 0 /\ words # <<>> /\ x < RANS_L /\ Blocks * freq[syms[i]] <= x

FlushInv ==
  coder = "flush" =>
    /\ i = 0 /\ Len(trail) = n /\ decoded = <<>> /\ Len(words) >= 2
    /\ x \in RANS_L .. RANS_L * Word - 1
    /\ words[Len(words)] = x \div Word /\ words[Len(words) - 1] = x % Word
    /\ Retraced(Ahead(<<x, Len(words) - 2>>), 0, SubSeq(words, 1, Len(words) - 2))

DecodeInv ==
  coder = "decode" =>
    /\ i \in 1 .. n /\ Len(trail) = n /\ Len(decoded) \in i - 1 .. i
    /\ \A k \in 1 .. Len(decoded) : decoded[k] = syms[k]
    /\ Len(decoded) = i - 1 => Retraced(Behind(<<x, Len(words)>>), i - 1, words)
    /\ Len(decoded) = i =>
         /\ Retraced(trail, i, words)
         /\ \/ trail[i] = <<x, Len(words)>>
            \/ /\ words # <<>> /\ x < RANS_L /\ moved = 0
               /\ trail[i] = <<x * Word + words[Len(words)], Len(words) - 1>>

RansDoneInv ==
  coder = "done" =>
    decoded = syms /\ words = <<>> /\ x = RANS_L /\ i = n + 1 /\ Len(trail) = n

RansInv ==
  /\ CodeArgs /\ freq = FreqTable
  /\ coder \in {"encode", "flush", "decode", "done"}
  /\ x \in Nat /\ words \in Seq(0 .. Word - 1) /\ decoded \in Seq(Nat)
  /\ trail \in Seq(Nat \X Nat) /\ moved \in 0 .. 1
  /\ EncodeInv /\ FlushInv /\ DecodeInv /\ RansDoneInv

\* Decoding the state that a symbol was coded into finds the symbol and the
\* state before it, and coding keeps the state in its interval.
LEMMA SymbolStep ==
  ASSUME CodeArgs, freq = FreqTable, NEW s \in Used, NEW y \in Nat
  PROVE  /\ freq[s] \in Nat \ {0} /\ XMax(s) \in Nat /\ RANS_L <= XMax(s)
         /\ Blocks * freq[s] \in Nat /\ Blocks * freq[s] <= RANS_L
         /\ CodedAs(y, s) \in Nat /\ SymbolAt(CodedAs(y, s) % M) = s
         /\ freq[s] * (CodedAs(y, s) \div M) + (CodedAs(y, s) % M) - Cum(s) = y
         /\ (Blocks * freq[s] <= y /\ y < XMax(s)) =>
               CodedAs(y, s) \in RANS_L .. RANS_L * Word - 1
<1> DEFINE f == freq[s]
           c == Cum(s)
           z == CodedAs(y, s)
           m == M
           b == Blocks
           w == Word
<1>1. s \in Symbols
  BY SymbolFacts
<1>2. f \in Nat \ {0} /\ c \in Nat /\ c + f <= m
  <2>1. freq[s] >= 1
    BY TableIs
  <2> QED
    BY <1>1, <2>1, SlotFacts
<1>3. m \in Nat \ {0} /\ b \in Nat \ {0} /\ w \in Nat \ {0} /\ RANS_L = b * m /\ Word = RANS_L
  BY CodeFacts
<1>4. z = (y \div f) * m + (y % f) + c
  BY DEF CodedAs
<1>5. XMax(s) = b * w * f
  BY DEF XMax, Blocks
<1> HIDE DEF f, c, z, m, b, w
<1>7. /\ z \in Nat /\ z % m = (y % f) + c
      /\ f * (z \div m) + (z % m) - c = y
      /\ b * f <= y => b * m <= z
      /\ y < b * w * f => z < b * w * m
  <2>1. /\ f \in Nat \ {0} /\ c \in Nat /\ c + f <= m
        /\ m \in Nat \ {0} /\ b \in Nat \ {0} /\ w \in Nat \ {0} /\ y \in Nat
    BY <1>2, <1>3
  <2> DEFINE q == y \div f
             r == y % f
  <2>3. q \in Nat /\ r \in 0 .. f - 1 /\ y = q * f + r
    BY <2>1, DivMod
  <2>5. z = q * m + r + c
    BY <1>4
  <2> HIDE DEF q, r
  <2>4. z \in Nat
    <3>1. q * m \in Nat
      BY <2>1, <2>3
    <3> QED
      BY <2>1, <2>3, <2>5, <3>1
  <2>2. z \div m = q /\ z % m = r + c
    <3> DEFINE d == r + c
    <3>1. d \in 0 .. m - 1 /\ q * m \in Nat
      BY <2>1, <2>3
    <3>2. z = q * m + d
      BY <2>1, <2>3, <2>5, <3>1
    <3> HIDE DEF d
    <3>3. z \div m = q /\ z % m = d
      BY <2>1, <2>3, <2>4, <3>1, <3>2, DivUnique
    <3> QED
      BY <3>3 DEF d
  <2>6. f * (z \div m) + (z % m) - c = y
    <3>1. f * q = q * f /\ q * f \in Nat
      BY <2>1, <2>3
    <3> QED
      BY <2>1, <2>2, <2>3, <3>1
  <2>7. b * f <= y => b * m <= z
    <3> SUFFICES ASSUME b * f <= y PROVE b * m <= z
      OBVIOUS
    <3>1. b * m <= q * m /\ b * m \in Nat /\ q * m \in Nat
      BY <2>1, <2>3, LowKept
    <3> QED
      BY <2>1, <2>3, <2>5, <3>1
  <2>8. y < b * w * f => z < b * w * m
    <3> DEFINE g == b * w
    <3>1. g \in Nat
      BY <2>1
    <3> HIDE DEF g
    <3>2. y < g * f => z < g * m
      <4> SUFFICES ASSUME y < g * f PROVE z < g * m
        OBVIOUS
      <4>1. q * m + m <= g * m /\ g * m \in Nat /\ q * m \in Nat
        BY <2>1, <2>3, <3>1, HighKept
      <4> QED
        BY <2>1, <2>3, <2>5, <4>1
    <3> QED
      BY <3>2 DEF g
  <2> QED
    BY <2>2, <2>4, <2>6, <2>7, <2>8 DEF r
<1>8. z % m \in Nat /\ c <= z % m /\ z % m < c + f
  <2>1. y % f \in 0 .. f - 1
    BY <1>2, DivMod
  <2> QED
    BY <1>2, <1>7, <2>1
<1>9. SymbolAt(z % m) = s
  BY <1>1, <1>8, SymbolFound DEF c, f
<1>10. b * w * m = RANS_L * Word
  <2>1. b * w * m = (b * m) * w
    BY <1>3
  <2> QED
    BY <1>3, <2>1 DEF w
<1>11. RANS_L <= XMax(s) /\ XMax(s) \in Nat
  <2> DEFINE g == b * f
  <2>1. g \in Nat /\ 1 <= g
    <3>1. 1 * f <= b * f /\ b * f \in Nat
      BY <1>2, <1>3, MoreBits
    <3> QED
      BY <1>2, <3>1
  <2>2. b * w * f = g * w
    BY <1>2, <1>3
  <2> HIDE DEF g
  <2>3. 1 * w <= g * w /\ g * w \in Nat
    BY <1>3, <2>1, MoreBits
  <2> QED
    BY <1>3, <1>5, <2>2, <2>3 DEF w
<1>12. b * f \in Nat /\ b * f <= RANS_L
  <2>1. f \in Nat /\ m \in Nat /\ f <= m /\ b \in Nat
    BY <1>2, <1>3
  <2>2. f * b <= m * b
    BY <2>1, MoreBits
  <2>3. f * b = b * f /\ m * b = b * m /\ b * f \in Nat
    BY <2>1
  <2> QED
    BY <1>3, <2>2, <2>3
<1>13. (b * f <= y /\ y < XMax(s)) => z \in RANS_L .. RANS_L * Word - 1
  <2>1. b * w * m \in Nat /\ b * m \in Nat
    BY <1>3
  <2> QED
    BY <1>3, <1>5, <1>7, <1>10, <2>1
<1> QED
  BY <1>2, <1>7, <1>9, <1>11, <1>12, <1>13 DEF f, c, z, m, b

\* Moving a word out brings the state below x_max, and below RANS_L, at once:
\* the "if" of the interleaved coder is enough.
LEMMA WordMoved ==
  ASSUME CodeArgs, freq = FreqTable, NEW s \in Used,
         NEW y \in RANS_L .. RANS_L * Word - 1
  PROVE  /\ y \in Nat /\ y \div Word \in Nat /\ y % Word \in 0 .. Word - 1
         /\ (y \div Word) * Word + (y % Word) = y
         /\ y \div Word < RANS_L
         /\ XMax(s) <= y => Blocks * freq[s] <= y \div Word
<1> DEFINE w == Word
           b == Blocks
           f == freq[s]
           g == b * f
<1>1. w \in Nat \ {0} /\ b \in Nat \ {0} /\ RANS_L \in Nat \ {0} /\ RANS_L = w
  BY CodeFacts
<1>2. f \in Nat \ {0}
  <2>1. 0 \in Nat
    OBVIOUS
  <2> QED
    BY <2>1, SymbolStep
<1>3. XMax(s) = g * w
  <2>1. XMax(s) = b * w * f
    BY DEF XMax, Blocks
  <2> HIDE DEF b, w, f
  <2> QED
    BY <1>1, <1>2, <2>1
<1>4. g \in Nat
  BY <1>1, <1>2
<1>5. y \in RANS_L .. RANS_L * w - 1
  OBVIOUS
<1> HIDE DEF w, b, f, g
<1>6. y \in Nat
  <2>1. RANS_L * w \in Nat
    BY <1>1
  <2> QED
    BY <1>1, <1>5, <2>1
<1> DEFINE q == y \div w
           r == y % w
<1>7. q \in Nat /\ r \in 0 .. w - 1 /\ y = q * w + r
  BY <1>1, <1>6, DivMod
<1> HIDE DEF q, r
<1>8. q < RANS_L
  <2> SUFFICES ASSUME RANS_L <= q PROVE FALSE
    BY <1>1, <1>7
  <2>1. RANS_L * w <= q * w /\ RANS_L * w \in Nat /\ q * w \in Nat
    BY <1>1, <1>7, MoreBits
  <2> QED
    BY <1>1, <1>5, <1>7, <2>1
<1>9. g * w <= y => g <= q
  <2> SUFFICES ASSUME g * w <= y, q + 1 <= g PROVE FALSE
    BY <1>4, <1>7
  <2>1. (q + 1) * w <= g * w /\ (q + 1) * w = q * w + w /\ g * w \in Nat /\ q * w \in Nat
    BY <1>1, <1>4, <1>7, MoreBits
  <2> QED
    BY <1>1, <1>7, <2>1
<1> QED
  BY <1>3, <1>6, <1>7, <1>8, <1>9 DEF w, b, f, g, q, r

\* One more state in front.
LEMMA RetracedStep ==
  ASSUME NEW P, NEW Q, NEW from \in 1 .. n, n \in Nat, NEW ws,
         Retraced(P, from, ws), \A k \in from .. n : Q[k] = P[k],
         Q[from - 1] \in Settled(Len(ws)), P[from][2] <= Q[from - 1][2],
         Linked(P[from], Q[from - 1], syms[from], ws)
  PROVE  Retraced(Q, from - 1, ws)
<1>1. /\ P[n] = <<RANS_L, 0>>
      /\ \A k \in from .. n : P[k] \in Settled(Len(ws))
      /\ \A j, k \in from .. n : j <= k => P[k][2] <= P[j][2]
      /\ \A k \in from + 1 .. n : Linked(P[k], P[k - 1], syms[k], ws)
  BY DEF Retraced
<1>2. \A k \in from - 1 .. n : k = from - 1 \/ k \in from .. n
  OBVIOUS
<1>3. from \in from .. n /\ n \in from .. n /\ from - 1 \in Nat
  OBVIOUS
<1>4. Q[n] = <<RANS_L, 0>>
  BY <1>1, <1>3
<1>5. \A k \in from - 1 .. n : Q[k] \in Settled(Len(ws))
  BY <1>1, <1>2
<1>6. \A k \in from .. n : P[k][2] \in Nat /\ P[from][2] \in Nat /\ Q[from - 1][2] \in Nat
  <2>1. \A a \in Settled(Len(ws)) : a[2] \in Nat
    BY DEF Settled
  <2> QED
    BY <1>1, <1>3, <2>1
<1>7. \A j, k \in from - 1 .. n : j <= k => Q[k][2] <= Q[j][2]
  <2> SUFFICES ASSUME NEW j \in from - 1 .. n, NEW k \in from - 1 .. n, j <= k
      PROVE  Q[k][2] <= Q[j][2]
    OBVIOUS
  <2>1. CASE j \in from .. n
    <3>1. k \in from .. n
      BY <2>1
    <3> QED
      BY <1>1, <2>1, <3>1
  <2>2. CASE j = from - 1 /\ k = from - 1
    BY <1>6, <2>2, <1>3
  <2>3. CASE j = from - 1 /\ k \in from .. n
    <3>1. Q[k][2] = P[k][2] /\ P[k][2] <= P[from][2]
      BY <1>1, <1>3, <2>3
    <3> QED
      BY <1>6, <2>3, <3>1
  <2> QED
    BY <1>2, <2>1, <2>2, <2>3
<1>8. \A k \in from .. n : Linked(Q[k], Q[k - 1], syms[k], ws)
  <2> SUFFICES ASSUME NEW k \in from .. n
      PROVE  Linked(Q[k], Q[k - 1], syms[k], ws)
    OBVIOUS
  <2>1. CASE k = from
    BY <1>3, <2>1
  <2>2. CASE k # from
    <3>1. k \in from + 1 .. n /\ k - 1 \in from .. n
      BY <2>2
    <3> QED
      BY <1>1, <3>1
  <2> QED
    BY <2>1, <2>2
<1>9. (from - 1) + 1 = from
  OBVIOUS
<1> QED
  BY <1>4, <1>5, <1>7, <1>8, <1>9 DEF Retraced

\* The states from "to" on need only the words that were out before them.
LEMMA RetracedSame ==
  ASSUME NEW P, NEW Q, NEW from \in Nat, NEW to \in from .. n, n \in Nat, NEW ws, NEW vs,
         Len(ws) \in Nat, Len(vs) \in Nat,
         Retraced(P, from, ws), \A k \in to .. n : Q[k] = P[k],
         P[to][2] <= Len(vs), \A k \in 1 .. P[to][2] : vs[k] = ws[k]
  PROVE  Retraced(Q, to, vs)
<1>1. /\ P[n] = <<RANS_L, 0>>
      /\ \A k \in to .. n : P[k] \in Settled(Len(ws))
      /\ \A j, k \in to .. n : j <= k => P[k][2] <= P[j][2]
      /\ \A k \in to + 1 .. n : Linked(P[k], P[k - 1], syms[k], ws)
  <2>1. to .. n \subseteq from .. n /\ to + 1 .. n \subseteq from + 1 .. n
    OBVIOUS
  <2> QED
    BY <2>1 DEF Retraced
<1>2. to \in to .. n /\ n \in to .. n
  OBVIOUS
<1>3. \A k \in to .. n : P[k][2] \in Nat /\ P[k][2] <= P[to][2] /\ P[k] \in Settled(Len(vs))
  <2> SUFFICES ASSUME NEW k \in to .. n
      PROVE  P[k][2] \in Nat /\ P[k][2] <= P[to][2] /\ P[k] \in Settled(Len(vs))
    OBVIOUS
  <2> DEFINE hi == RANS_L .. RANS_L * Word - 1
  <2>1. \A top : Settled(top) = hi \X (0 .. top)
    BY DEF Settled
  <2> HIDE DEF hi
  <2>2. P[k] \in hi \X (0 .. Len(ws)) /\ P[to] \in hi \X (0 .. Len(ws)) /\ P[k][2] <= P[to][2]
    BY <1>1, <1>2, <2>1
  <2>3. P[k] = <<P[k][1], P[k][2]>> /\ P[k][1] \in hi /\ P[k][2] \in Nat /\ P[to][2] \in Nat
    BY <2>2
  <2>4. P[k][2] \in 0 .. Len(vs)
    BY <2>2, <2>3
  <2>5. P[k] \in hi \X (0 .. Len(vs))
    BY <2>3, <2>4
  <2> QED
    BY <2>1, <2>2, <2>3, <2>5
<1>4. \A k \in to + 1 .. n : Linked(P[k], P[k - 1], syms[k], vs)
  <2> SUFFICES ASSUME NEW k \in to + 1 .. n
      PROVE  Linked(P[k], P[k - 1], syms[k], vs)
    OBVIOUS
  <2>1. k \in to .. n /\ k - 1 \in to .. n
    OBVIOUS
  <2> DEFINE a == P[k]
             b == P[k - 1]
  <2>2. a[2] \in Nat /\ b[2] \in Nat /\ b[2] <= P[to][2] /\ P[to][2] \in Nat
    BY <1>2, <1>3, <2>1
  <2>3. Linked(a, b, syms[k], ws)
    BY <1>1
  <2> HIDE DEF a, b
  <2>4. b[2] = a[2] + 1 => vs[b[2]] = ws[b[2]]
    BY <2>2
  <2>5. Linked(a, b, syms[k], vs)
    BY <2>3, <2>4 DEF Linked
  <2> QED
    BY <2>5 DEF a, b
<1>5. /\ Q[n] = <<RANS_L, 0>>
      /\ \A k \in to .. n : Q[k] \in Settled(Len(vs))
      /\ \A j, k \in to .. n : j <= k => Q[k][2] <= Q[j][2]
  BY <1>1, <1>2, <1>3
<1>6. \A k \in to + 1 .. n : Linked(Q[k], Q[k - 1], syms[k], vs)
  <2>1. \A k \in to + 1 .. n : k \in to .. n /\ k - 1 \in to .. n
    OBVIOUS
  <2> QED
    BY <1>4, <2>1
<1> QED
  BY <1>5, <1>6 DEF Retraced

\* The arguments and the table never change, nor what is read from them.
LEMMA CodeStays ==
  ASSUME CodeArgs, freq = FreqTable, UNCHANGED ransArgs
  PROVE  /\ CodeArgs' /\ freq' = FreqTable' /\ n' = n /\ freq' = freq /\ syms' = syms
         /\ \A P, from, ws : Retraced(P, from, ws) => Retraced(P, from, ws)'
<1>1. precision' = precision /\ syms' = syms /\ freq' = freq
  BY DEF ransArgs
<1>2. M' = M /\ n' = n
  BY <1>1 DEF M, n
<1>3. Symbols' = Symbols
  BY <1>1 DEF Symbols
<1>4. \A s : Hist(s)' = Hist(s)
  BY <1>1 DEF Hist
<1>5. Used' = Used
  BY <1>3, <1>4 DEF Used
<1>6. \A f : ArgMax(f)' = ArgMax(f)
  BY <1>3 DEF ArgMax
<1>7. Scaled' = Scaled
  BY <1>2, <1>3, <1>4, <1>5 DEF Scaled
<1>8. Ones' = Ones
  BY <1>3, <1>5 DEF Ones
<1>9. ArgMax(Scaled)' = ArgMax(Scaled)
  BY <1>6, <1>7
<1>10. Fixed' = Fixed
  BY <1>2, <1>3, <1>7, <1>9 DEF Fixed
<1>11. Peaked' = Peaked
  <2>1. [s \in Symbols |-> Hist(s)]' = [s \in Symbols |-> Hist(s)]
    BY <1>3, <1>4
  <2>2. ArgMax([s \in Symbols |-> Hist(s)])' = ArgMax([s \in Symbols |-> Hist(s)])
    BY <1>6, <2>1
  <2> QED
    BY <1>2, <1>3, <1>8, <2>2 DEF Peaked
<1>12. FreqTable' = FreqTable
  BY <1>9, <1>10, <1>11 DEF FreqTable
<1>13. \A y, s : CodedAs(y, s)' = CodedAs(y, s)
  <2>1. \A s : Cum(s)' = Cum(s)
    BY <1>1 DEF Cum
  <2> QED
    BY <1>1, <1>2, <2>1 DEF CodedAs
<1>14. RANS_L' = RANS_L /\ Word' = Word
  BY DEF RANS_L, Word
<1>15. \A a, b, s, ws : Linked(a, b, s, ws)' = Linked(a, b, s, ws)
  <2>1. \A a, b : Carried(a, b)' = Carried(a, b)
    BY <1>14 DEF Carried
  <2> QED
    BY <1>13, <1>14, <2>1 DEF Linked
<1>16. \A top : Settled(top)' = Settled(top)
  BY <1>14 DEF Settled
<1>17. \A P, from, ws : Retraced(P, from, ws) => Retraced(P, from, ws)'
  BY <1>1, <1>2, <1>14, <1>15, <1>16 DEF Retraced
<1> QED
  BY <1>1, <1>2, <1>12, <1>17 DEF CodeArgs

-----------------------------------------------------------------------------
(* The invariant holds in every state of the coder. *)
LEMMA Interval ==
  ASSUME CodeArgs
  PROVE  /\ n \in Nat \ {0} /\ RANS_L \in Nat \ {0} /\ Word = RANS_L /\ M \in Nat \ {0}
         /\ RANS_L * Word \in Nat /\ RANS_L \in RANS_L .. RANS_L * Word - 1
         /\ \A k \in 1 .. n : syms[k] \in Used /\ syms[k] \in Nat
         /\ Used \subseteq Nat
<1>1. /\ n \in Nat \ {0} /\ RANS_L \in Nat \ {0} /\ Word = RANS_L /\ M \in Nat \ {0}
      /\ \A k \in 1 .. n : syms[k] \in Used
  BY ArgFacts, SymbolFacts
<1>2. Used \subseteq Nat
  BY SymbolFacts
<1>3. Word >= 2
  <2>1. RenormBits \in 1 .. RenormBits
    BY RansAssumption DEF CodeArgs
  <2>2. Word = 2 * Shift[RenormBits - 1]
    BY <2>1, ShiftsUsed DEF Word
  <2>3. RenormBits - 1 \in 0 .. RenormBits
    BY <2>1
  <2>4. Shift[RenormBits - 1] \in Nat \ {0}
    BY <2>3, ShiftsUsed
  <2> QED
    BY <2>2, <2>4
<1>4. RANS_L * Word \in Nat /\ RANS_L <= RANS_L * Word - 1
  <2> DEFINE w == Word
             b == RANS_L
  <2>1. w \in Nat /\ b \in Nat \ {0} /\ 2 <= w
    BY <1>1, <1>3
  <2> HIDE DEF w, b
  <2>2. 2 * b <= w * b /\ w * b \in Nat
    BY <2>1, MoreBits
  <2>3. w * b = b * w
    BY <2>1
  <2>4. b * w \in Nat /\ b <= b * w - 1
    BY <2>1, <2>2, <2>3
  <2> QED
    BY <2>4 DEF w, b
<1>5. RANS_L \in RANS_L .. RANS_L * Word - 1
  <2> DEFINE z == RANS_L * Word
  <2>1. z \in Nat /\ RANS_L \in Nat /\ RANS_L <= z - 1
    BY <1>1, <1>4
  <2> HIDE DEF z
  <2>2. RANS_L \in RANS_L .. z - 1
    BY <2>1
  <2> QED
    BY <2>2 DEF z
<1>6. \A k \in 1 .. n : syms[k] \in Nat
  BY <1>1, <1>2
<1> QED
  BY <1>1, <1>2, <1>4, <1>5, <1>6

\* The encoder starts with the state RANS_L and no words.
LEMMA RansInitInv == RansInit => RansInv
<1> SUFFICES ASSUME RansInit PROVE RansInv
  OBVIOUS
<1>1. CodeArgs /\ freq = FreqTable
  BY DEF RansInit, CodeArgs
<1>2. /\ n \in Nat \ {0} /\ RANS_L \in Nat \ {0} /\ RANS_L \in RANS_L .. RANS_L * Word - 1
  BY <1>1, Interval
<1>3. /\ coder = "encode" /\ i = n /\ x = RANS_L /\ words = <<>> /\ moved = 0
      /\ trail = <<>> /\ decoded = <<>>
  BY DEF RansInit
<1>4. Before = <<RANS_L, 0>>
  BY <1>3 DEF Before
<1> DEFINE P == Ahead(Before)
<1>5. P[n] = <<RANS_L, 0>>
  BY <1>2, <1>3, <1>4 DEF Ahead
<1>6. Retraced(P, n, words)
  <2> HIDE DEF P
  <2>1. \A k \in n .. n : k = n
    BY <1>2
  <2>2. n + 1 .. n = {}
    BY <1>2
  <2>3. P[n] \in Settled(Len(words))
    BY <1>2, <1>3, <1>5 DEF Settled
  <2>4. P[n][2] <= P[n][2]
    BY <1>5
  <2> QED
    BY <1>5, <2>1, <2>2, <2>3, <2>4 DEF Retraced
<1>7. EncodeInv
  <2> HIDE DEF P
  <2> QED
    BY <1>2, <1>3, <1>6 DEF EncodeInv, P
<1>8. moved \in 0 .. 1 /\ x \in Nat
  BY <1>2, <1>3
<1> QED
  BY <1>1, <1>2, <1>3, <1>7, <1>8 DEF RansInv, FlushInv, DecodeInv, RansDoneInv

\* What the actions start from.
LEMMA EncodeFacts ==
  ASSUME RansInv, coder = "encode"
  PROVE  /\ CodeArgs /\ freq = FreqTable /\ n \in Nat \ {0}
         /\ x \in Nat /\ words \in Seq(0 .. Word - 1) /\ trail \in Seq(Nat \X Nat)
         /\ i \in 0 .. n /\ Len(trail) = n - i /\ decoded = <<>>
         /\ Retraced(Ahead(Before), i, words)
         /\ moved = 0 => x \in RANS_L .. RANS_L * Word - 1
         /\ moved = 1 => i > 0 /\ words # <<>> /\ x < RANS_L /\ Blocks * freq[syms[i]] <= x
         /\ moved \in 0 .. 1
<1>1. CodeArgs
  BY DEF RansInv
<1>2. n \in Nat \ {0}
  BY <1>1, Interval
<1> QED
  BY <1>1, <1>2 DEF RansInv, EncodeInv

\* rans_encode_scalar, the renormalisation: one word is moved out at most.
LEMMA EmitWordInv ==
  ASSUME RansInv, EmitWord
  PROVE  RansInv'
<1> DEFINE s == syms[i]
           now == Before
           P == Ahead(now)
           r == x % Word
<1>1. coder = "encode" /\ i > 0 /\ x >= XMax(s)
  BY DEF EmitWord
<1>2. /\ CodeArgs /\ freq = FreqTable /\ n \in Nat \ {0}
      /\ x \in Nat /\ words \in Seq(0 .. Word - 1) /\ trail \in Seq(Nat \X Nat)
      /\ i \in 0 .. n /\ Len(trail) = n - i /\ decoded = <<>>
      /\ Retraced(P, i, words)
      /\ moved = 0 => x \in RANS_L .. RANS_L * Word - 1
      /\ moved = 1 => x < RANS_L
      /\ moved \in 0 .. 1
  BY <1>1, EncodeFacts
<1>3. i \in 1 .. n /\ s \in Used /\ RANS_L \in Nat \ {0} /\ Word = RANS_L
  <2>1. i \in 1 .. n
    BY <1>1, <1>2
  <2> QED
    BY <1>2, <2>1, Interval
<1>4. moved = 0 /\ x \in RANS_L .. RANS_L * Word - 1
  <2>1. RANS_L <= XMax(s) /\ XMax(s) \in Nat
    BY <1>2, <1>3, SymbolStep
  <2> QED
    BY <1>1, <1>2, <1>3, <2>1
<1>5. /\ x \div Word \in Nat /\ r \in 0 .. Word - 1 /\ (x \div Word) * Word + r = x
      /\ x \div Word < RANS_L /\ Blocks * freq[s] <= x \div Word
  <2> HIDE DEF s
  <2> QED
    BY <1>1, <1>2, <1>3, <1>4, WordMoved
<1>6. /\ words' = Append(words, r) /\ x' = x \div Word /\ moved' = 1
      /\ UNCHANGED <<ransArgs, coder, i, trail, decoded>>
  BY <1>4 DEF EmitWord
<1>7. /\ CodeArgs' /\ freq' = FreqTable' /\ n' = n /\ freq' = freq /\ syms' = syms
      /\ \A p, from, ws : Retraced(p, from, ws) => Retraced(p, from, ws)'
  BY <1>2, <1>6, CodeStays
<1>8. Word' = Word /\ RANS_L' = RANS_L /\ Blocks' = Blocks
  BY <1>6 DEF Word, RANS_L, Blocks, M, ransArgs
<1> HIDE DEF r
<1>9. /\ words' \in Seq(0 .. Word - 1) /\ Len(words') = Len(words) + 1 /\ words'[Len(words')] = r
      /\ Len(words) \in Nat /\ words' # <<>>
      /\ \A k \in 1 .. Len(words) : words'[k] = words[k]
  <2> DEFINE S == 0 .. Word - 1
  <2>1. words \in Seq(S) /\ r \in S
    BY <1>2, <1>5
  <2> HIDE DEF S
  <2>2. /\ words' \in Seq(S) /\ Len(words') = Len(words) + 1 /\ words'[Len(words')] = r
        /\ Len(words) \in Nat /\ words' # <<>>
        /\ \A k \in 1 .. Len(words) : words'[k] = words[k]
    BY <1>6, <2>1
  <2> QED
    BY <2>2 DEF S
<1>10. now = <<x, Len(words)>>
  BY <1>4 DEF Before
<1>11. Before' = now
  <2>1. Before' = <<x' * Word + words'[Len(words')], Len(words') - 1>>
    BY <1>6, <1>8 DEF Before
  <2>2. x' * Word + words'[Len(words')] = x
    BY <1>5, <1>6, <1>9
  <2>3. Len(words') - 1 = Len(words)
    BY <1>9
  <2> QED
    BY <1>10, <2>1, <2>2, <2>3
<1>12. Ahead(Before)' = P
  BY <1>6, <1>7, <1>11 DEF Ahead
<1>13. Retraced(P, i, words')
  <2>1. i \in i .. n /\ i \in Nat /\ n \in Nat /\ Len(words') \in Nat
    BY <1>2, <1>3, <1>9
  <2>2. P[i] = now
    BY <2>1 DEF Ahead
  <2>3. P[i][2] = Len(words)
    BY <1>10, <2>2
  <2> DEFINE vs == words'
  <2>4. /\ P[i][2] <= Len(vs) /\ Len(vs) \in Nat /\ Len(words) \in Nat
        /\ \A k \in 1 .. P[i][2] : vs[k] = words[k]
    BY <1>9, <2>3
  <2> HIDE DEF P, now, vs
  <2>5. Retraced(P, i, words)
    BY <1>2
  <2>6. Retraced(P, i, vs)
    BY <2>1, <2>4, <2>5, RetracedSame
  <2> QED
    BY <2>6 DEF vs
<1>14. EncodeInv'
  <2> HIDE DEF P, now
  <2>1. Retraced(Ahead(Before), i, words)'
    BY <1>6, <1>12, <1>13, <1>7
  <2>2. i' \in 0 .. n' /\ Len(trail') = n' - i' /\ decoded' = <<>>
    BY <1>2, <1>6, <1>7
  <2>3. moved' # 0 /\ i' > 0
    BY <1>2, <1>3, <1>6
  <2>5. words' # <<>> /\ x' < RANS_L'
    BY <1>5, <1>6, <1>8, <1>9
  <2>4. Blocks' * freq'[syms'[i']] <= x'
    BY <1>5, <1>6, <1>7, <1>8
  <2> QED
    BY <2>1, <2>2, <2>3, <2>4, <2>5 DEF EncodeInv
<1>15. moved' \in 0 .. 1
  BY <1>6
<1> QED
  BY <1>1, <1>2, <1>5, <1>6, <1>7, <1>8, <1>9, <1>14, <1>15 DEF RansInv, FlushInv, DecodeInv, RansDoneInv

\* What the coder reads of its arguments is the same after a step.
LEMMA StepKeeps ==
  ASSUME RansInv, UNCHANGED ransArgs
  PROVE  /\ CodeArgs' /\ freq' = FreqTable' /\ n' = n /\ freq' = freq /\ syms' = syms
         /\ Word' = Word /\ RANS_L' = RANS_L /\ Blocks' = Blocks
         /\ \A p, from, ws : Retraced(p, from, ws) => Retraced(p, from, ws)'
<1>1. CodeArgs /\ freq = FreqTable
  BY DEF RansInv
<1>2. /\ CodeArgs' /\ freq' = FreqTable' /\ n' = n /\ freq' = freq /\ syms' = syms
      /\ \A p, from, ws : Retraced(p, from, ws) => Retraced(p, from, ws)'
  BY <1>1, CodeStays
<1>3. Word' = Word /\ RANS_L' = RANS_L /\ Blocks' = Blocks
  BY DEF Word, RANS_L, Blocks, M, ransArgs
<1> QED
  BY <1>2, <1>3

\* rans_encode_scalar, the coding step.
LEMMA EncodeSymbolInv ==
  ASSUME RansInv, EncodeSymbol
  PROVE  RansInv'
<1> DEFINE s == syms[i]
           now == Before
           P == Ahead(now)
           len == Len(words)
           b == <<x', len>>
           Q == Ahead(Before)'
<1>1. coder = "encode" /\ i > 0 /\ x < XMax(s)
  BY DEF EncodeSymbol
<1>2. /\ CodeArgs /\ freq = FreqTable /\ n \in Nat \ {0}
      /\ x \in Nat /\ words \in Seq(0 .. Word - 1) /\ trail \in Seq(Nat \X Nat)
      /\ i \in 0 .. n /\ Len(trail) = n - i /\ decoded = <<>>
      /\ Retraced(P, i, words)
      /\ moved = 0 => x \in RANS_L .. RANS_L * Word - 1
      /\ moved = 1 => words # <<>> /\ x < RANS_L /\ Blocks * freq[s] <= x
      /\ moved \in 0 .. 1
  BY <1>1, EncodeFacts
<1>3. /\ i \in 1 .. n /\ s \in Used /\ RANS_L \in Nat \ {0} /\ Word = RANS_L
      /\ RANS_L * Word \in Nat
  <2>1. i \in 1 .. n
    BY <1>1, <1>2
  <2> QED
    BY <1>2, <2>1, Interval
<1>4. Blocks * freq[s] <= x
  <2>1. Blocks * freq[s] \in Nat /\ Blocks * freq[s] <= RANS_L
    BY <1>2, <1>3, SymbolStep
  <2>2. moved = 0 \/ moved = 1
    BY <1>2
  <2> DEFINE g == Blocks * freq[s]
             z == RANS_L * Word
  <2>3. g \in Nat /\ g <= RANS_L /\ z \in Nat /\ (moved = 0 => x \in RANS_L .. z - 1) /\ (moved = 1 => g <= x)
    BY <1>2, <1>3, <2>1
  <2> HIDE DEF g, z
  <2>4. g <= x
    BY <1>2, <1>3, <2>2, <2>3
  <2> QED
    BY <2>4 DEF g
<1>5. /\ x' = CodedAs(x, s) /\ trail' = <<now>> \o trail /\ i' = i - 1 /\ moved' = 0
      /\ UNCHANGED <<ransArgs, coder, words, decoded>>
  BY DEF EncodeSymbol, CodedAs
<1>6. x' \in RANS_L .. RANS_L * Word - 1 /\ x' \in Nat
  BY <1>1, <1>2, <1>3, <1>4, <1>5, SymbolStep
<1>7. /\ CodeArgs' /\ freq' = FreqTable' /\ n' = n /\ freq' = freq /\ syms' = syms
      /\ Word' = Word /\ RANS_L' = RANS_L
      /\ \A p, from, ws : Retraced(p, from, ws) => Retraced(p, from, ws)'
  BY <1>5, StepKeeps
<1>8. len \in Nat /\ \A k \in 1 .. len : words[k] \in 0 .. Word - 1
  <2> DEFINE S == 0 .. Word - 1
  <2>1. words \in Seq(S)
    BY <1>2
  <2> HIDE DEF S
  <2>2. len \in Nat /\ \A k \in 1 .. len : words[k] \in S
    BY <2>1
  <2> QED
    BY <2>2 DEF S
<1>9. P[i] = now /\ now \in Settled(len)
  <2>1. i \in i .. n
    BY <1>3
  <2>2. P[i] = now
    BY <2>1 DEF Ahead
  <2> HIDE DEF P, now, len
  <2> QED
    BY <1>2, <2>1, <2>2 DEF Retraced, len
<1>10. now \in Nat \X Nat
  BY <1>3, <1>9 DEF Settled
<1>11. Linked(now, b, s, words) /\ now[2] <= len
  <2>1. CASE moved = 0
    <3>1. now = <<x, len>>
      BY <2>1 DEF Before
    <3>2. Carried(now, b) = x /\ now[2] = len /\ b[2] = len /\ b[1] = x'
      BY <3>1 DEF Carried
    <3> HIDE DEF now, b
    <3> QED
      BY <1>5, <1>8, <3>2 DEF Linked
  <2>2. CASE moved = 1
    <3> DEFINE u == words[len]
               z == x * Word + u
    <3>1. len >= 1 /\ u \in 0 .. Word - 1
      <4>1. words # <<>>
        BY <1>2, <2>2
      <4>2. len # 0
        BY <1>2, <4>1
      <4>3. len >= 1
        BY <1>8, <4>2
      <4> QED
        BY <1>8, <4>3
    <3>2. now = <<z, len - 1>>
      BY <2>2 DEF Before
    <3>3. z \div Word = x /\ z % Word = u
      <4> DEFINE w == Word
      <4>1. w \in Nat \ {0} /\ u \in 0 .. w - 1 /\ x \in Nat /\ z = x * w + u
        BY <1>2, <1>3, <3>1
      <4> HIDE DEF w, u, z
      <4>2. z \in Nat
        <5>1. x * w \in Nat
          BY <4>1
        <5> QED
          BY <4>1, <5>1
      <4>3. z \div w = x /\ z % w = u
        BY <4>1, <4>2, DivUnique
      <4> QED
        BY <4>3 DEF w
    <3>4. now[1] = z /\ now[2] = len - 1 /\ b[2] = len /\ b[1] = x'
      BY <3>2
    <3> HIDE DEF z, now, b
    <3>5. Carried(now, b) = x
      BY <1>8, <3>3, <3>4 DEF Carried
    <3>6. b[2] = now[2] + 1 /\ words[b[2]] = now[1] % Word /\ now[1] \div Word < RANS_L
      BY <1>2, <1>8, <2>2, <3>3, <3>4
    <3> QED
      BY <1>5, <1>8, <3>4, <3>5, <3>6 DEF Linked
  <2> QED
    BY <1>2, <2>1, <2>2
<1>12. b \in Settled(len)
  <2>1. len \in 0 .. len
    BY <1>8
  <2> DEFINE z == RANS_L .. RANS_L * Word - 1
  <2>2. x' \in z
    BY <1>6
  <2>3. Settled(len) = z \X (0 .. len)
    BY DEF Settled
  <2> HIDE DEF z
  <2> QED
    BY <2>1, <2>2, <2>3
<1>13. Before' = b
  BY <1>5 DEF Before
<1>14. Q[i - 1] = b /\ \A k \in i .. n : Q[k] = P[k]
  <2>1. Q = [k \in i - 1 .. n |-> IF k = i - 1 THEN b ELSE trail'[k - (i - 1)]]
    BY <1>5, <1>7, <1>13 DEF Ahead
  <2> HIDE DEF Q, b
  <2>2. i - 1 \in i - 1 .. n
    BY <1>2, <1>3
  <2>3. ASSUME NEW k \in i .. n
        PROVE  Q[k] = P[k]
    <3>1. k \in i - 1 .. n /\ k # i - 1 /\ k - (i - 1) = (k - i) + 1
      BY <1>3
    <3>2. Q[k] = trail'[(k - i) + 1]
      BY <2>1, <3>1
    <3>3. P[k] = IF k = i THEN now ELSE trail[k - i]
      BY DEF Ahead
    <3> HIDE DEF P, now
    <3>4. CASE k = i
      <4>1. (k - i) + 1 = 1
        BY <1>3, <3>4
      <4>2. trail'[1] = now
        BY <1>2, <1>5
      <4> QED
        BY <3>2, <3>3, <3>4, <4>1, <4>2
    <3>5. CASE k # i
      <4>1. k - i \in 1 .. Len(trail)
        BY <1>2, <1>3, <3>5
      <4>2. trail'[(k - i) + 1] = trail[k - i]
        BY <1>2, <1>5, <4>1
      <4> QED
        BY <3>2, <3>3, <3>5, <4>2
    <3> QED
      BY <3>4, <3>5
  <2> QED
    BY <2>1, <2>2, <2>3
<1>15. Retraced(Q, i - 1, words)
  <2>1. i \in 1 .. n /\ n \in Nat
    BY <1>2, <1>3
  <2>2. P[i][2] <= Q[i - 1][2] /\ Q[i - 1] \in Settled(Len(words)) /\ Linked(P[i], Q[i - 1], syms[i], words)
    <3>1. b[2] = len
      OBVIOUS
    <3> HIDE DEF P, Q, now, b
    <3> QED
      BY <1>9, <1>11, <1>12, <1>14, <3>1 DEF len, s
  <2> HIDE DEF P, Q, now, b
  <2>3. Retraced(P, i, words)
    BY <1>2
  <2> QED
    BY <1>14, <2>1, <2>2, <2>3, RetracedStep
<1>16. Retraced(Ahead(Before), i, words)'
  <2> HIDE DEF P, now, b
  <2> QED
    BY <1>5, <1>7, <1>15
<1>17. trail' \in Seq(Nat \X Nat) /\ Len(trail') = n - (i - 1)
  <2> DEFINE S == Nat \X Nat
  <2>1. trail \in Seq(S) /\ now \in S
    BY <1>2, <1>10
  <2> HIDE DEF S, now
  <2>2. trail' \in Seq(S) /\ Len(trail') = 1 + Len(trail)
    BY <1>5, <2>1
  <2> QED
    BY <1>2, <1>3, <2>2 DEF S
<1>18. EncodeInv'
  <2> HIDE DEF P, now, b
  <2>1. i' \in 0 .. n
    BY <1>2, <1>3, <1>5
  <2> QED
    BY <1>2, <1>5, <1>6, <1>7, <1>16, <1>17, <2>1 DEF EncodeInv
<1>19. moved' \in 0 .. 1
  BY <1>5
<1> QED
  BY <1>1, <1>2, <1>5, <1>6, <1>7, <1>17, <1>18, <1>19 DEF RansInv, FlushInv, DecodeInv, RansDoneInv

\* Every number of the stream of words fits a word.
LEMMA WordsFit ==
  ASSUME RansInv
  PROVE  Len(words) \in Nat /\ \A k \in 1 .. Len(words) : words[k] \in 0 .. Word - 1 /\ words[k] \in Nat
<1> DEFINE S == 0 .. Word - 1
<1>1. words \in Seq(S)
  BY DEF RansInv
<1>2. S \subseteq Nat
  <2>1. Word \in Nat
    BY Interval DEF RansInv
  <2> QED
    BY <2>1
<1> HIDE DEF S
<1>3. Len(words) \in Nat /\ \A k \in 1 .. Len(words) : words[k] \in S
  BY <1>1
<1> QED
  BY <1>2, <1>3 DEF S

\* A shorter stream of words.
LEMMA WordsCut ==
  ASSUME RansInv, NEW m \in 0 .. Len(words)
  PROVE  /\ SubSeq(words, 1, m) \in Seq(0 .. Word - 1) /\ Len(SubSeq(words, 1, m)) = m
         /\ \A k \in 1 .. m : SubSeq(words, 1, m)[k] = words[k]
<1> DEFINE S == 0 .. Word - 1
<1>1. words \in Seq(S)
  BY DEF RansInv
<1> HIDE DEF S
<1>2. Len(words) \in Nat /\ m \in Nat /\ m <= Len(words)
  BY <1>1
<1>3. /\ SubSeq(words, 1, m) \in Seq(S) /\ Len(SubSeq(words, 1, m)) = m
      /\ \A k \in 1 .. m : SubSeq(words, 1, m)[k] = words[k]
  BY <1>1, <1>2
<1> QED
  BY <1>3 DEF S

\* rans_encode_scalar, the end: the state goes out as two words.
LEMMA FlushStep ==
  ASSUME RansInv, Flush
  PROVE  RansInv'
<1> DEFINE len == Len(words)
           P == Ahead(Before)
           lo == x % Word
           hi == (x \div Word) % Word
           vs == SubSeq(words', 1, Len(words') - 2)
<1>1. coder = "encode" /\ i = 0
  BY DEF Flush
<1>2. /\ CodeArgs /\ freq = FreqTable /\ n \in Nat \ {0}
      /\ x \in Nat /\ words \in Seq(0 .. Word - 1) /\ trail \in Seq(Nat \X Nat)
      /\ Len(trail) = n - i /\ decoded = <<>>
      /\ Retraced(P, 0, words)
      /\ moved = 0 /\ x \in RANS_L .. RANS_L * Word - 1
  <2>1. moved = 0 \/ moved = 1
    BY <1>1, EncodeFacts
  <2>2. moved = 0
    BY <1>1, <2>1, EncodeFacts
  <2> QED
    BY <1>1, <2>2, EncodeFacts
<1>3. /\ x' = x /\ words' = words \o <<lo, hi>> /\ coder' = "flush" /\ i' = 0
      /\ trail' = trail /\ decoded' = <<>> /\ moved' = moved /\ UNCHANGED ransArgs
  BY <1>1, <1>2 DEF Flush
<1>4. /\ lo \in 0 .. Word - 1 /\ hi \in 0 .. Word - 1 /\ hi = x \div Word
  <2>1. 1 \in 1 .. n
    BY <1>2
  <2>2. syms[1] \in Used /\ Word \in Nat \ {0} /\ RANS_L = Word
    BY <1>2, <2>1, Interval
  <2>3. x \div Word \in Nat /\ lo \in 0 .. Word - 1 /\ x \div Word < RANS_L
    BY <1>2, <2>2, WordMoved
  <2> DEFINE q == x \div Word
             w == Word
  <2>4. q \in Nat /\ w \in Nat \ {0} /\ q \in 0 .. w - 1 /\ q = 0 * w + q
    BY <2>2, <2>3
  <2> HIDE DEF q, w
  <2>5. q % w = q
    BY <2>4, DivUnique
  <2> QED
    BY <2>3, <2>4, <2>5 DEF q, w
<1>5. /\ CodeArgs' /\ freq' = FreqTable' /\ n' = n /\ freq' = freq /\ syms' = syms
      /\ Word' = Word /\ RANS_L' = RANS_L
      /\ \A p, from, ws : Retraced(p, from, ws) => Retraced(p, from, ws)'
  BY <1>3, StepKeeps
<1>6. /\ words' \in Seq(0 .. Word - 1) /\ len \in Nat /\ Len(words') = len + 2
      /\ words'[len + 2] = hi /\ words'[len + 1] = lo
      /\ \A k \in 1 .. len : words'[k] = words[k]
      /\ Len(vs) = len /\ \A k \in 1 .. len : vs[k] = words[k]
  <2> DEFINE S == 0 .. Word - 1
  <2>1. words \in Seq(S) /\ lo \in S /\ hi \in S
    BY <1>2, <1>4
  <2>2. words' = words \o <<lo, hi>>
    BY <1>3
  <2> HIDE DEF S, lo, hi
  <2>3. /\ words' \in Seq(S) /\ len \in Nat /\ Len(words') = len + 2
        /\ words'[len + 2] = hi /\ words'[len + 1] = lo
        /\ \A k \in 1 .. len : words'[k] = words[k]
    BY <2>1, <2>2
  <2>4. Len(words') - 2 = len
    BY <2>3
  <2>5. vs = SubSeq(words', 1, len)
    BY <2>4
  <2> HIDE DEF vs
  <2>6. Len(vs) = len /\ \A k \in 1 .. len : vs[k] = words[k]
    BY <2>3, <2>5
  <2> QED
    BY <2>3, <2>6 DEF S
<1>7. Ahead(<<x, Len(words) - 2>>)' = P
  <2>1. Len(words') - 2 = len
    BY <1>6
  <2>2. Before = <<x, len>>
    BY <1>2 DEF Before
  <2> QED
    BY <1>1, <1>3, <1>5, <2>1, <2>2 DEF Ahead
<1>8. Retraced(P, 0, vs)
  <2>1. 0 \in 0 .. n /\ 0 \in Nat /\ n \in Nat
    BY <1>2
  <2>2. P[0] = <<x, len>>
    <3>1. Before = <<x, len>>
      BY <1>2 DEF Before
    <3> QED
      BY <1>1, <2>1, <3>1 DEF Ahead
  <2>3. P[0][2] <= Len(vs) /\ Len(vs) \in Nat /\ len \in Nat
        /\ \A k \in 1 .. P[0][2] : vs[k] = words[k]
    BY <1>6, <2>2
  <2> HIDE DEF P, vs
  <2> QED
    BY <1>2, <2>1, <2>3, RetracedSame
<1>9. Retraced(Ahead(<<x, Len(words) - 2>>), 0, SubSeq(words, 1, Len(words) - 2))'
  <2> HIDE DEF P
  <2> QED
    BY <1>5, <1>7, <1>8
<1>10. FlushInv'
  <2>1. Len(words') >= 2 /\ Len(words') - 1 = len + 1
    BY <1>6
  <2>2. words'[Len(words')] = x' \div Word' /\ words'[Len(words') - 1] = x' % Word'
    BY <1>3, <1>4, <1>5, <1>6, <2>1
  <2>3. Len(trail') = n'
    BY <1>1, <1>2, <1>3, <1>5
  <2> HIDE DEF vs, lo, hi, P, len
  <2> QED
    BY <1>2, <1>3, <1>5, <1>9, <2>1, <2>2, <2>3 DEF FlushInv
<1> HIDE DEF lo, hi
<1>11. moved' \in 0 .. 1 /\ decoded' \in Seq(Nat) /\ trail' \in Seq(Nat \X Nat) /\ x' \in Nat
  BY <1>2, <1>3
<1> QED
  BY <1>3, <1>5, <1>6, <1>10, <1>11 DEF RansInv, EncodeInv, DecodeInv, RansDoneInv

\* rans_decode_scalar, the start: the two words give the state back.
LEMMA RestoreStep ==
  ASSUME RansInv, Restore
  PROVE  RansInv'
<1> DEFINE len == Len(words)
           P == Ahead(<<x, len - 2>>)
<1>1. coder = "flush"
  BY DEF Restore
<1>2. /\ CodeArgs /\ freq = FreqTable /\ n \in Nat \ {0}
      /\ x \in Nat /\ words \in Seq(0 .. Word - 1) /\ trail \in Seq(Nat \X Nat)
      /\ i = 0 /\ Len(trail) = n /\ decoded = <<>> /\ Len(words) >= 2
      /\ x \in RANS_L .. RANS_L * Word - 1
      /\ words[len] = x \div Word /\ words[len - 1] = x % Word
      /\ Retraced(P, 0, SubSeq(words, 1, len - 2))
  <2>1. CodeArgs
    BY DEF RansInv
  <2>2. n \in Nat \ {0}
    BY <2>1, Interval
  <2> QED
    BY <1>1, <2>1, <2>2 DEF RansInv, FlushInv
<1>3. /\ x' = words[len] * Word + words[len - 1]
      /\ words' = SubSeq(words, 1, len - 2)
      /\ coder' = "decode" /\ i' = 1
      /\ trail' = trail /\ decoded' = <<>> /\ moved' = moved /\ UNCHANGED ransArgs
  BY <1>2 DEF Restore
<1>4. x' = x
  <2>1. 1 \in 1 .. n
    BY <1>2
  <2>2. syms[1] \in Used
    BY <1>2, <2>1, Interval
  <2>3. (x \div Word) * Word + (x % Word) = x
    BY <1>2, <2>2, WordMoved
  <2> QED
    BY <1>2, <1>3, <2>3
<1>5. /\ CodeArgs' /\ freq' = FreqTable' /\ n' = n /\ freq' = freq /\ syms' = syms
      /\ Word' = Word /\ RANS_L' = RANS_L
      /\ \A p, from, ws : Retraced(p, from, ws) => Retraced(p, from, ws)'
  BY <1>3, StepKeeps
<1>6. words' \in Seq(0 .. Word - 1) /\ Len(words') = len - 2 /\ len \in Nat
  <2>1. len \in Nat /\ len - 2 \in 0 .. Len(words)
    BY <1>2, WordsFit
  <2> QED
    BY <1>3, <2>1, WordsCut
<1>7. Behind(<<x, Len(words)>>)' = P
  <2>1. i' - 1 = 0
    BY <1>3
  <2>2. ASSUME NEW k \in 0 .. n
        PROVE  k - 0 = k
    OBVIOUS
  <2>3. P = [k \in 0 .. n |-> IF k = 0 THEN <<x, len - 2>> ELSE trail[k]]
    BY <1>2, <2>2 DEF Ahead
  <2>4. Behind(<<x, Len(words)>>)' = [k \in 0 .. n |-> IF k = 0 THEN <<x, len - 2>> ELSE trail[k]]
    BY <1>3, <1>4, <1>5, <1>6, <2>1 DEF Behind
  <2> QED
    BY <2>3, <2>4
<1>8. Retraced(P, 0, words')
  BY <1>2, <1>3
<1>9. Retraced(Behind(<<x, Len(words)>>), i - 1, words)'
  <2> HIDE DEF P
  <2>1. i' - 1 = 0
    BY <1>3
  <2> QED
    BY <1>5, <1>7, <1>8, <2>1
<1>10. DecodeInv'
  <2> HIDE DEF P, len
  <2>1. i' \in 1 .. n' /\ Len(decoded') = 0 /\ Len(decoded') \in i' - 1 .. i' /\ Len(decoded') # i'
        /\ \A k \in 1 .. Len(decoded') : decoded'[k] = syms'[k]
    BY <1>2, <1>3, <1>5
  <2>2. Len(trail') = n'
    BY <1>2, <1>3, <1>5
  <2> QED
    BY <1>9, <2>1, <2>2 DEF DecodeInv
<1>11. moved' \in 0 .. 1 /\ decoded' \in Seq(Nat) /\ trail' \in Seq(Nat \X Nat) /\ x' \in Nat
  <2>1. moved \in 0 .. 1
    BY DEF RansInv
  <2> QED
    BY <1>2, <1>3, <1>4, <2>1
<1> QED
  BY <1>3, <1>5, <1>6, <1>10, <1>11 DEF RansInv, EncodeInv, FlushInv, RansDoneInv

\* What the decoder's actions start from.
LEMMA DecodeFacts ==
  ASSUME RansInv, coder = "decode"
  PROVE  /\ CodeArgs /\ freq = FreqTable /\ n \in Nat \ {0}
         /\ x \in Nat /\ words \in Seq(0 .. Word - 1) /\ trail \in Seq(Nat \X Nat)
         /\ decoded \in Seq(Nat) /\ moved \in 0 .. 1
         /\ i \in 1 .. n /\ Len(trail) = n /\ Len(decoded) \in i - 1 .. i
         /\ \A k \in 1 .. Len(decoded) : decoded[k] = syms[k]
         /\ Len(decoded) = i - 1 => Retraced(Behind(<<x, Len(words)>>), i - 1, words)
         /\ Len(decoded) = i =>
              /\ Retraced(trail, i, words)
              /\ \/ trail[i] = <<x, Len(words)>>
                 \/ /\ words # <<>> /\ x < RANS_L /\ moved = 0
                    /\ trail[i] = <<x * Word + words[Len(words)], Len(words) - 1>>
<1>1. CodeArgs
  BY DEF RansInv
<1>2. n \in Nat \ {0}
  BY <1>1, Interval
<1> QED
  BY <1>1, <1>2 DEF RansInv, DecodeInv

\* rans_decode_scalar, one symbol: it is the one that was coded, and the state
\* is the one it was coded in, less the word that was moved out.
LEMMA DecodeSymbolInv ==
  ASSUME RansInv, DecodeSymbol
  PROVE  RansInv'
<1> DEFINE len == Len(words)
           b == <<x, len>>
           P == Behind(b)
           s == syms[i]
           a == trail[i]
           y == Carried(a, b)
<1>1. coder = "decode" /\ i = Len(decoded) + 1
  BY DEF DecodeSymbol
<1>2. /\ CodeArgs /\ freq = FreqTable /\ n \in Nat \ {0}
      /\ x \in Nat /\ words \in Seq(0 .. Word - 1) /\ trail \in Seq(Nat \X Nat)
      /\ decoded \in Seq(Nat)
      /\ i \in 1 .. n /\ Len(trail) = n
      /\ \A k \in 1 .. Len(decoded) : decoded[k] = syms[k]
      /\ Len(decoded) = i - 1 => Retraced(P, i - 1, words)
  BY <1>1, DecodeFacts
<1>3. Retraced(P, i - 1, words)
  <2>1. Len(decoded) = i - 1
    BY <1>1, <1>2
  <2> QED
    BY <1>2, <2>1
<1>4. s \in Used /\ s \in Nat /\ Word \in Nat \ {0} /\ RANS_L = Word
  BY <1>2, Interval
<1>5. P[i - 1] = b /\ \A k \in i .. n : P[k] = trail[k]
  <2>1. i - 1 \in i - 1 .. n /\ \A k \in i .. n : k \in i - 1 .. n /\ k # i - 1
    BY <1>2
  <2> QED
    BY <2>1 DEF Behind
<1>6. a \in Settled(len) /\ a[2] <= len /\ Linked(a, b, s, words)
  <2>1. i - 1 \in i - 1 .. n /\ i \in i - 1 .. n /\ i \in i .. n /\ i \in (i - 1) + 1 .. n /\ i - 1 <= i
    BY <1>2
  <2>2. P[i] \in Settled(len) /\ P[i][2] <= P[i - 1][2] /\ Linked(P[i], P[i - 1], s, words)
    BY <1>3, <2>1 DEF Retraced
  <2>3. P[i] = a /\ P[i - 1] = b /\ b[2] = len
    BY <1>5, <2>1
  <2> HIDE DEF P, b, a
  <2> QED
    BY <2>2, <2>3
<1>7. a = <<a[1], a[2]>> /\ a[1] \in Nat /\ a[2] \in Nat
  <2>1. RANS_L \in Nat
    BY <1>4
  <2> DEFINE z == RANS_L .. RANS_L * Word - 1
  <2>2. z \subseteq Nat
    BY <2>1
  <2>3. Settled(len) = z \X (0 .. len)
    BY DEF Settled
  <2> DEFINE tops == 0 .. len
  <2>5. tops \subseteq Nat
    BY WordsFit
  <2>6. Settled(len) = z \X tops
    BY <2>3
  <2> HIDE DEF z, tops, a
  <2>4. a \in z \X tops
    BY <1>6, <2>6
  <2>7. a = <<a[1], a[2]>> /\ a[1] \in z /\ a[2] \in tops
    BY <2>4
  <2> QED
    BY <2>2, <2>5, <2>7
<1>8. b[1] = x /\ b[2] = len
  OBVIOUS
<1> HIDE DEF a, b
<1>9. y \in Nat
  <2>1. a[1] \div Word \in Nat
    BY <1>4, <1>7, DivMod
  <2> QED
    BY <1>7, <2>1 DEF Carried
<1>10. x = CodedAs(y, s)
  BY <1>6, <1>8 DEF Linked
<1> HIDE DEF y, s
<1>11. SymbolAt(x % M) = s /\ freq[s] * (x \div M) + (x % M) - Cum(s) = y
  BY <1>2, <1>4, <1>9, <1>10, SymbolStep
<1>12. /\ decoded' = Append(decoded, s) /\ x' = y /\ moved' = 0
       /\ UNCHANGED <<ransArgs, coder, i, words, trail>>
  BY <1>11 DEF DecodeSymbol
<1>13. /\ CodeArgs' /\ freq' = FreqTable' /\ n' = n /\ freq' = freq /\ syms' = syms
       /\ Word' = Word /\ RANS_L' = RANS_L
       /\ \A p, from, ws : Retraced(p, from, ws) => Retraced(p, from, ws)'
  BY <1>12, StepKeeps
<1>14. len \in Nat
  BY WordsFit
<1>15. Retraced(trail, i, words)'
  <2>1. i - 1 \in Nat /\ i \in i - 1 .. n /\ n \in Nat /\ i \in i .. n
    BY <1>2
  <2>2. P[i] = a
    BY <1>5, <2>1 DEF a
  <2>3. P[i][2] <= Len(words) /\ Len(words) \in Nat
    BY <1>6, <1>14, <2>2
  <2> HIDE DEF P, len
  <2>4. Retraced(trail, i, words)
    BY <1>3, <1>5, <2>1, <2>3, RetracedSame
  <2> QED
    BY <1>12, <1>13, <2>4
<1>16. \/ a = <<y, len>>
       \/ words # <<>> /\ y < RANS_L /\ a = <<y * Word + words[len], len - 1>>
  <2>1. CASE len = a[2]
    <3>1. y = a[1]
      BY <1>8, <2>1 DEF y, Carried
    <3> QED
      BY <1>7, <2>1, <3>1
  <2>2. CASE len # a[2]
    <3>1. len = a[2] + 1 /\ words[len] = a[1] % Word /\ a[1] \div Word < RANS_L
      BY <1>6, <1>8, <2>2 DEF Linked
    <3>2. y = a[1] \div Word
      BY <1>8, <2>2 DEF y, Carried
    <3>3. a[1] = (a[1] \div Word) * Word + (a[1] % Word)
      BY <1>4, <1>7, DivMod
    <3>4. words # <<>>
      BY <1>7, <3>1
    <3>5. a[2] = len - 1
      BY <1>7, <3>1
    <3>6. a[1] = y * Word + words[len]
      BY <3>1, <3>2, <3>3
    <3> QED
      BY <1>7, <3>1, <3>2, <3>4, <3>5, <3>6
  <2> QED
    BY <2>1, <2>2
<1>17. /\ decoded' \in Seq(Nat) /\ Len(decoded') = i /\ \A k \in 1 .. i : decoded'[k] = syms[k]
  <2>1. decoded' \in Seq(Nat) /\ Len(decoded') = Len(decoded) + 1
    BY <1>2, <1>4, <1>12
  <2>2. \A k \in 1 .. Len(decoded) : decoded'[k] = decoded[k]
    BY <1>2, <1>12
  <2>3. decoded'[Len(decoded) + 1] = s
    BY <1>2, <1>12
  <2>4. \A k \in 1 .. i : k \in 1 .. Len(decoded) \/ k = i
    BY <1>1, <1>2
  <2> QED
    BY <1>1, <1>2, <2>1, <2>2, <2>3, <2>4 DEF s
<1>18. DecodeInv'
  <2>1. /\ i' \in 1 .. n' /\ Len(trail') = n' /\ Len(decoded') \in i' - 1 .. i' /\ Len(decoded') # i' - 1
        /\ \A k \in 1 .. Len(decoded') : decoded'[k] = syms'[k]
    BY <1>2, <1>12, <1>13, <1>17
  <2>2. \/ trail'[i'] = <<x', Len(words')>>
        \/ /\ words' # <<>> /\ x' < RANS_L' /\ moved' = 0
           /\ trail'[i'] = <<x' * Word' + words'[Len(words')], Len(words') - 1>>
    BY <1>12, <1>13, <1>16 DEF a
  <2> HIDE DEF P, len
  <2> QED
    BY <1>15, <2>1, <2>2 DEF DecodeInv
<1>19. coder' = "decode" /\ moved' \in 0 .. 1 /\ words' \in Seq(0 .. Word' - 1) /\ x' \in Nat /\ trail' \in Seq(Nat \X Nat)
  BY <1>1, <1>2, <1>9, <1>12, <1>13
<1> QED
  BY <1>13, <1>17, <1>18, <1>19 DEF RansInv, EncodeInv, FlushInv, RansDoneInv

\* rans_decode_scalar, the renormalisation: the word that was moved out.
LEMMA ReadWordInv ==
  ASSUME RansInv, ReadWord
  PROVE  RansInv'
<1> DEFINE len == Len(words)
           a == trail[i]
<1>1. coder = "decode" /\ i = Len(decoded) /\ x < RANS_L
  BY DEF ReadWord
<1>2. /\ CodeArgs /\ freq = FreqTable /\ n \in Nat \ {0}
      /\ x \in Nat /\ words \in Seq(0 .. Word - 1) /\ trail \in Seq(Nat \X Nat)
      /\ decoded \in Seq(Nat)
      /\ i \in 1 .. n /\ Len(trail) = n
      /\ \A k \in 1 .. Len(decoded) : decoded[k] = syms[k]
      /\ Retraced(trail, i, words)
      /\ \/ a = <<x, len>>
         \/ words # <<>> /\ moved = 0 /\ a = <<x * Word + words[len], len - 1>>
  BY <1>1, DecodeFacts
<1>3. /\ x' = x * Word + words[len] /\ moved' = moved + 1 /\ words' = SubSeq(words, 1, len - 1)
      /\ UNCHANGED <<ransArgs, coder, i, trail, decoded>>
  BY DEF ReadWord
<1>4. /\ CodeArgs' /\ freq' = FreqTable' /\ n' = n /\ freq' = freq /\ syms' = syms
      /\ Word' = Word /\ RANS_L' = RANS_L
      /\ \A p, from, ws : Retraced(p, from, ws) => Retraced(p, from, ws)'
  BY <1>3, StepKeeps
<1>5. RANS_L \in Nat \ {0} /\ Word = RANS_L /\ RANS_L * Word \in Nat
  BY <1>2, Interval
<1>6. a[1] \in Nat /\ RANS_L <= a[1] /\ a[2] \in Nat
  <2>1. a \in Settled(len)
    <3>1. i \in i .. n
      BY <1>2
    <3> QED
      BY <1>2, <3>1 DEF Retraced
  <2> DEFINE z == RANS_L .. RANS_L * Word - 1
  <2>2. \A k \in z : k \in Nat /\ RANS_L <= k
    BY <1>5
  <2>3. Settled(len) = z \X (0 .. len)
    BY DEF Settled
  <2> HIDE DEF z, a
  <2> QED
    BY <2>1, <2>2, <2>3
<1>7. words # <<>> /\ moved = 0 /\ a = <<x * Word + words[len], len - 1>>
  <2>1. a # <<x, len>>
    <3> SUFFICES ASSUME a = <<x, len>> PROVE FALSE
      OBVIOUS
    <3>1. a[1] = x
      OBVIOUS
    <3> QED
      BY <1>1, <1>2, <1>5, <1>6, <3>1
  <2> QED
    BY <1>2, <2>1
<1>8. len \in Nat \ {0} /\ words[len] \in Nat
  <2>1. len \in Nat /\ len # 0
    BY <1>2, <1>7, WordsFit
  <2>2. len \in 1 .. len
    BY <2>1
  <2> QED
    BY <2>1, <2>2, WordsFit
<1>9. /\ words' \in Seq(0 .. Word - 1) /\ Len(words') = len - 1
      /\ \A k \in 1 .. len - 1 : words'[k] = words[k]
  <2>1. len - 1 \in 0 .. len
    BY <1>8
  <2> QED
    BY <1>3, <2>1, WordsCut
<1>10. a = <<x', Len(words')>> /\ a[2] = len - 1 /\ x' \in Nat
  <2>1. x * Word \in Nat
    BY <1>2, <1>5
  <2>2. x' \in Nat
    BY <1>3, <1>8, <2>1
  <2>3. a = <<x', Len(words')>>
    BY <1>3, <1>7, <1>9
  <2>4. a[2] = len - 1
    BY <1>7
  <2> QED
    BY <2>2, <2>3, <2>4
<1>11. Retraced(trail, i, words)'
  <2> DEFINE vs == words'
  <2>1. /\ i \in Nat /\ n \in Nat /\ i \in i .. n /\ Len(words) \in Nat /\ Len(vs) \in Nat
        /\ trail[i][2] <= Len(vs) /\ \A k \in 1 .. trail[i][2] : vs[k] = words[k]
    BY <1>2, <1>8, <1>9, <1>10
  <2> HIDE DEF vs
  <2>2. Retraced(trail, i, vs)
    BY <1>2, <2>1, RetracedSame
  <2> QED
    BY <1>3, <1>4, <2>2 DEF vs
<1>12. DecodeInv'
  <2>1. /\ i' \in 1 .. n' /\ Len(trail') = n' /\ Len(decoded') = i' /\ Len(decoded') \in i' - 1 .. i'
        /\ Len(decoded') # i' - 1
        /\ \A k \in 1 .. Len(decoded') : decoded'[k] = syms'[k]
    BY <1>1, <1>2, <1>3, <1>4
  <2>2. trail'[i'] = <<x', Len(words')>>
    BY <1>3, <1>10
  <2> HIDE DEF a, len
  <2> QED
    BY <1>11, <2>1, <2>2 DEF DecodeInv
<1>13. coder' = "decode" /\ moved' \in 0 .. 1 /\ trail' \in Seq(Nat \X Nat) /\ decoded' \in Seq(Nat)
  BY <1>1, <1>2, <1>3, <1>7
<1> QED
  BY <1>4, <1>9, <1>10, <1>12, <1>13 DEF RansInv, EncodeInv, FlushInv, RansDoneInv

\* rans_decode_scalar, the next symbol, or the end.
LEMMA NextSymbolInv ==
  ASSUME RansInv, NextSymbol
  PROVE  RansInv'
<1> DEFINE len == Len(words)
<1>1. coder = "decode" /\ i = Len(decoded) /\ x >= RANS_L
  BY DEF NextSymbol
<1>2. /\ CodeArgs /\ freq = FreqTable /\ n \in Nat \ {0}
      /\ x \in Nat /\ words \in Seq(0 .. Word - 1) /\ trail \in Seq(Nat \X Nat)
      /\ decoded \in Seq(Nat) /\ moved \in 0 .. 1
      /\ i \in 1 .. n /\ Len(trail) = n
      /\ \A k \in 1 .. Len(decoded) : decoded[k] = syms[k]
      /\ Retraced(trail, i, words)
      /\ trail[i] = <<x, len>> \/ x < RANS_L
  BY <1>1, DecodeFacts
<1>3. /\ i' = i + 1 /\ coder' = (IF i = n THEN "done" ELSE "decode")
      /\ UNCHANGED <<ransArgs, x, words, moved, trail, decoded>>
  BY DEF NextSymbol
<1>4. /\ CodeArgs' /\ freq' = FreqTable' /\ n' = n /\ freq' = freq /\ syms' = syms
      /\ Word' = Word /\ RANS_L' = RANS_L
      /\ \A p, from, ws : Retraced(p, from, ws) => Retraced(p, from, ws)'
  BY <1>3, StepKeeps
<1>5. trail[i] = <<x, len>> /\ len \in Nat
  <2>1. RANS_L \in Nat
    BY <1>2, Interval
  <2> QED
    BY <1>1, <1>2, <2>1, WordsFit
<1>6. moved' \in 0 .. 1 /\ words' \in Seq(0 .. Word' - 1) /\ x' \in Nat /\ trail' \in Seq(Nat \X Nat) /\ decoded' \in Seq(Nat)
  BY <1>2, <1>3, <1>4
<1>7. CASE i = n
  <2>1. trail[n] = <<RANS_L, 0>>
    BY <1>2 DEF Retraced
  <2>2. <<x, len>> = <<RANS_L, 0>>
    BY <1>5, <1>7, <2>1
  <2>3. x = RANS_L /\ len = 0
    BY <2>2
  <2>4. words = <<>>
    BY <1>2, <2>3
  <2>5. decoded = syms
    <3>1. syms \in Seq(Nat) /\ Len(syms) = n
      BY <1>2, RansAssumption DEF CodeArgs, n
    <3>2. Len(decoded) = n
      BY <1>1, <1>7
    <3> QED
      BY <1>2, <3>1, <3>2
  <2>6. RansDoneInv'
    BY <1>2, <1>3, <1>4, <1>7, <2>3, <2>4, <2>5 DEF RansDoneInv
  <2>7. coder' = "done"
    BY <1>3, <1>7
  <2> QED
    BY <1>4, <1>6, <2>6, <2>7 DEF RansInv, EncodeInv, FlushInv, DecodeInv
<1>8. CASE i # n
  <2>1. coder' = "decode"
    BY <1>3, <1>8
  <2> DEFINE P == Behind(<<x, Len(words)>>)'
  <2>2. \A k \in i .. n : P[k] = trail[k]
    <3>1. i' - 1 = i
      BY <1>2, <1>3
    <3>2. P = [k \in i .. n |-> IF k = i THEN <<x, len>> ELSE trail[k]]
      BY <1>3, <1>4, <3>1 DEF Behind
    <3> QED
      BY <1>5, <3>2
  <2>3. Retraced(P, i, words)
    <3>1. /\ i \in Nat /\ n \in Nat /\ i \in i .. n /\ Len(words) \in Nat
          /\ trail[i][2] <= Len(words)
      BY <1>2, <1>5
    <3> HIDE DEF P
    <3> QED
      BY <1>2, <2>2, <3>1, RetracedSame
  <2>4. Retraced(Behind(<<x, Len(words)>>), i - 1, words)'
    <3>1. i' - 1 = i
      BY <1>2, <1>3
    <3> QED
      BY <1>3, <1>4, <2>3, <3>1
  <2>5. /\ i' \in 1 .. n' /\ Len(trail') = n' /\ Len(decoded') = i' - 1
        /\ Len(decoded') \in i' - 1 .. i' /\ Len(decoded') # i'
        /\ \A k \in 1 .. Len(decoded') : decoded'[k] = syms'[k]
    BY <1>1, <1>2, <1>3, <1>4, <1>8
  <2>6. DecodeInv'
    <3> HIDE DEF P, len
    <3> QED
      BY <2>4, <2>5 DEF DecodeInv
  <2> QED
    BY <1>4, <1>6, <2>1, <2>6 DEF RansInv, EncodeInv, FlushInv, RansDoneInv
<1> QED
  BY <1>7, <1>8

\* A step of another component changes nothing here.
LEMMA RansStutter ==
  ASSUME RansInv, UNCHANGED ransVars
  PROVE  RansInv'
<1>1. /\ precision' = precision /\ syms' = syms /\ freq' = freq /\ coder' = coder /\ i' = i /\ x' = x
      /\ words' = words /\ moved' = moved /\ trail' = trail /\ decoded' = decoded
  BY DEF ransVars
<1>2. /\ CodeArgs' /\ freq' = FreqTable' /\ n' = n /\ Word' = Word /\ RANS_L' = RANS_L /\ Blocks' = Blocks
      /\ \A p, from, ws : Retraced(p, from, ws) => Retraced(p, from, ws)'
  BY <1>1, StepKeeps DEF ransArgs
<1>3. Before' = Before
  BY <1>1, <1>2 DEF Before
<1>4. Ahead(Before)' = Ahead(Before)
  BY <1>1, <1>2, <1>3 DEF Ahead
<1>5. Ahead(<<x, Len(words) - 2>>)' = Ahead(<<x, Len(words) - 2>>)
  BY <1>1, <1>2 DEF Ahead
<1>6. Behind(<<x, Len(words)>>)' = Behind(<<x, Len(words)>>)
  BY <1>1, <1>2 DEF Behind
<1>7. EncodeInv'
  <2>1. Retraced(Ahead(Before), i, words) => Retraced(Ahead(Before), i, words)'
    BY <1>1, <1>2, <1>4
  <2> QED
    BY <1>1, <1>2, <2>1 DEF RansInv, EncodeInv
<1>8. FlushInv'
  <2>1. Retraced(Ahead(<<x, Len(words) - 2>>), 0, SubSeq(words, 1, Len(words) - 2))
        => Retraced(Ahead(<<x, Len(words) - 2>>), 0, SubSeq(words, 1, Len(words) - 2))'
    BY <1>1, <1>2, <1>5
  <2> QED
    BY <1>1, <1>2, <2>1 DEF RansInv, FlushInv
<1>9. DecodeInv'
  <2>1. Retraced(Behind(<<x, Len(words)>>), i - 1, words) => Retraced(Behind(<<x, Len(words)>>), i - 1, words)'
    BY <1>1, <1>2, <1>6
  <2>2. Retraced(trail, i, words) => Retraced(trail, i, words)'
    BY <1>1, <1>2
  <2> QED
    BY <1>1, <1>2, <2>1, <2>2 DEF RansInv, DecodeInv
<1>10. RansDoneInv'
  BY <1>1, <1>2 DEF RansInv, RansDoneInv
<1> QED
  BY <1>1, <1>2, <1>7, <1>8, <1>9, <1>10 DEF RansInv

\* The decoder retraces the encoder in every state: what rans_decode_scalar
\* promises of rans_encode_scalar, for every stream and table.
LEMMA RansRetraces ==
  ASSUME RansInv
  PROVE  /\ coder = "decode" /\ i <= Len(decoded) /\ x >= RANS_L => trail[i] = <<x, Len(words)>>
         /\ coder = "done" => decoded = syms /\ words = <<>> /\ x = RANS_L
<1>1. ASSUME coder = "decode", i <= Len(decoded), x >= RANS_L
      PROVE  trail[i] = <<x, Len(words)>>
  <2>1. /\ i \in Nat /\ Len(decoded) \in i - 1 .. i /\ n \in Nat /\ x \in Nat
        /\ Len(decoded) = i => (trail[i] = <<x, Len(words)>> \/ x < RANS_L)
    BY <1>1, DecodeFacts
  <2>2. Len(decoded) = i
    BY <1>1, <2>1
  <2>3. RANS_L \in Nat
    BY Interval DEF RansInv
  <2> QED
    BY <1>1, <2>1, <2>2, <2>3
<1>2. ASSUME coder = "done"
      PROVE  decoded = syms /\ words = <<>> /\ x = RANS_L
  BY <1>2 DEF RansInv, RansDoneInv
<1> QED
  BY <1>1, <1>2

\* Every state of the coder satisfies the invariant.
LEMMA RansInvariant == RansSpec => []RansInv
<1>1. RansInv /\ [RansNext]_ransVars => RansInv'
  <2> SUFFICES ASSUME RansInv, [RansNext]_ransVars PROVE RansInv'
    OBVIOUS
  <2>1. CASE EmitWord
    BY <2>1, EmitWordInv
  <2>2. CASE EncodeSymbol
    BY <2>2, EncodeSymbolInv
  <2>3. CASE Flush
    BY <2>3, FlushStep
  <2>4. CASE Restore
    BY <2>4, RestoreStep
  <2>5. CASE DecodeSymbol
    BY <2>5, DecodeSymbolInv
  <2>6. CASE ReadWord
    BY <2>6, ReadWordInv
  <2>7. CASE NextSymbol
    BY <2>7, NextSymbolInv
  <2>8. CASE UNCHANGED ransVars
    BY <2>8, RansStutter
  <2> QED
    BY <2>1, <2>2, <2>3, <2>4, <2>5, <2>6, <2>7, <2>8 DEF RansNext
<1> QED
  BY <1>1, RansInitInv, PTL DEF RansSpec

\* In every state two words hold x, the coders move at most one word for a
\* symbol, which is what the "if" of the interleaved GPU coder relies on, and
\* build_freq_table gives every used symbol a slot and fills the table.
THEOREM RansTypeCorrect == RansSpec => []RansTypeOK
<1>1. RansInv => RansTypeOK
  <2> SUFFICES ASSUME RansInv PROVE RansTypeOK
    OBVIOUS
  <2> DEFINE z == RANS_L * Word
             hi == RANS_L .. z - 1
  <2>1. /\ CodeArgs /\ freq = FreqTable /\ x \in Nat /\ moved \in 0 .. 1
        /\ coder \in {"encode", "flush", "decode", "done"}
    BY DEF RansInv
  <2>2. n \in Nat \ {0} /\ RANS_L \in Nat /\ z \in Nat /\ RANS_L <= z - 1
    BY <2>1, Interval
  <2>3. \A s \in Used : freq[s] >= 1
    BY <2>1, TableIs
  <2>4. Total(freq, Symbols) = M
    BY <2>1, TableIs
  <2>5. \A k \in DOMAIN words : words[k] \in 0 .. Word - 1
    <3>1. DOMAIN words = 1 .. Len(words)
      BY DEF RansInv
    <3> QED
      BY <3>1, WordsFit
  <2>6. \A top : \A a \in Settled(top) : a[1] \in hi
    BY DEF Settled
  <2>7. CASE coder = "encode"
    <3>1. /\ moved = 0 => x \in hi
          /\ moved = 1 => x < RANS_L
          /\ i \in 0 .. n /\ Len(trail) = n - i /\ decoded = <<>>
      BY <2>7, EncodeFacts
    <3> HIDE DEF z
    <3>2. x \in 0 .. z - 1
      BY <2>1, <2>2, <3>1
    <3>3. i \in 0 .. n + 1 /\ Len(decoded) <= n /\ Len(trail) <= n
      BY <2>2, <3>1
    <3> QED
      BY <2>1, <2>3, <2>4, <2>5, <3>2, <3>3 DEF RansTypeOK, z
  <2>8. CASE coder = "flush"
    <3>1. x \in hi /\ i = 0 /\ Len(trail) = n /\ decoded = <<>>
      BY <2>8 DEF RansInv, FlushInv
    <3> HIDE DEF z
    <3>2. x \in 0 .. z - 1
      BY <2>1, <2>2, <3>1
    <3>3. i \in 0 .. n + 1 /\ Len(decoded) <= n /\ Len(trail) <= n
      BY <2>2, <3>1
    <3> QED
      BY <2>1, <2>3, <2>4, <2>5, <3>2, <3>3 DEF RansTypeOK, z
  <2>9. CASE coder = "decode"
    <3>1. /\ i \in 1 .. n /\ Len(trail) = n /\ Len(decoded) \in i - 1 .. i
          /\ Len(decoded) = i - 1 => Retraced(Behind(<<x, Len(words)>>), i - 1, words)
          /\ Len(decoded) = i =>
               /\ Retraced(trail, i, words)
               /\ trail[i] = <<x, Len(words)>> \/ x < RANS_L
      BY <2>9, DecodeFacts
    <3>2. x \in hi \/ x < RANS_L
      <4>1. CASE Len(decoded) = i - 1
        <5>1. i - 1 \in i - 1 .. n
          BY <2>2, <3>1
        <5> DEFINE P == Behind(<<x, Len(words)>>)
        <5>2. P[i - 1] = <<x, Len(words)>>
          BY <5>1 DEF Behind
        <5>3. P[i - 1] \in Settled(Len(words))
          <6> HIDE DEF P
          <6> QED
            BY <3>1, <4>1, <5>1 DEF Retraced, P
        <5>4. P[i - 1][1] \in hi
          <6> HIDE DEF P, hi
          <6> QED
            BY <2>6, <5>3
        <5> QED
          BY <5>2, <5>4
      <4>2. CASE Len(decoded) = i /\ trail[i] = <<x, Len(words)>>
        <5>1. i \in i .. n
          BY <2>2, <3>1
        <5>2. trail[i] \in Settled(Len(words))
          BY <3>1, <4>2, <5>1 DEF Retraced
        <5>3. trail[i][1] \in hi
          <6> HIDE DEF hi
          <6> QED
            BY <2>6, <5>2
        <5> QED
          BY <4>2, <5>3
      <4>3. Len(decoded) = i - 1 \/ Len(decoded) = i
        BY <3>1
      <4> HIDE DEF hi
      <4> QED
        BY <3>1, <4>1, <4>2, <4>3
    <3> HIDE DEF z
    <3>3. x \in 0 .. z - 1
      BY <2>1, <2>2, <3>2
    <3>4. i \in 0 .. n + 1 /\ Len(decoded) <= n /\ Len(trail) <= n
      BY <2>2, <3>1
    <3> QED
      BY <2>1, <2>3, <2>4, <2>5, <3>3, <3>4 DEF RansTypeOK, z
  <2>10. CASE coder = "done"
    <3>1. decoded = syms /\ x = RANS_L /\ i = n + 1 /\ Len(trail) = n
      BY <2>10 DEF RansInv, RansDoneInv
    <3> HIDE DEF z
    <3>2. x \in 0 .. z - 1
      BY <2>1, <2>2, <3>1
    <3>3. i \in 0 .. n + 1 /\ Len(decoded) <= n /\ Len(trail) <= n
      BY <2>2, <3>1 DEF n
    <3> QED
      BY <2>1, <2>3, <2>4, <2>5, <3>2, <3>3 DEF RansTypeOK, z
  <2> QED
    BY <2>1, <2>7, <2>8, <2>9, <2>10
<1> QED
  BY <1>1, RansInvariant, PTL

\* rans_decode_scalar is the inverse of rans_encode_scalar: for every stream
\* that has no more symbols than the table has slots, and every precision, the
\* decoder goes back through the encoder's states and gives every symbol back.
THEOREM StreamsRestored == RansSpec => []DecoderRetraces
<1>1. RansInv /\ RansTypeOK => DecoderRetraces
  BY RansRetraces DEF RansTypeOK, DecoderRetraces
<1> QED
  BY <1>1, RansInvariant, RansTypeCorrect, PTL
=============================================================================

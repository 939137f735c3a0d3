---------------------------- MODULE IndexPacking ----------------------------
(***************************************************************************)
(* The bit packing of an index stream: _pack_indices, _unpack_indices,     *)
(* _pack_index_planes and _unpack_index_planes of core/_format.py, one     *)
(* chunk of indices per step.  Packing looks at no bit's value, so a bit   *)
(* is the pair of its index and its weight: one run shows all values.      *)
(*                                                                         *)
(* An operator commented "Mutant of X" is a plausible bug in the code of   *)
(* X; no specification uses it.                                            *)
(***************************************************************************)
EXTENDS Integers, FiniteSetsExt

CONSTANTS Counts, Widths, Chunks   \* how many indices, of how many bits, per chunk

\* Every chunk boundary is byte-aligned: _PACK_CHUNK_INDICES "must stay a
\* multiple of 8".
ASSUME PackingAssumption ==
  /\ Counts \subseteq Nat \ {0} /\ Widths \subseteq Nat \ {0}
  /\ Chunks \subseteq Nat \ {0} /\ \A c \in Chunks : c % 8 = 0

VARIABLES
  count, width, planes,   \* fixed: the arguments; planes: split at 8 bits
  writeChunk, readChunk,  \* fixed: chunk_rows of the two sides
  packer,                 \* pack, unpack, unpacked
  row,                    \* the first index of the next chunk
  end,                    \* pos: the next byte of the output
  packed,                 \* bit position -> the bit there
  indices                 \* index -> weight -> the bit that was read

packVars == <<count, width, planes, writeChunk, readChunk, packer, row, end, packed, indices>>
packArgs == <<count, width, planes, writeChunk, readChunk>>

Pad == [of |-> -1, weight |-> -1]
Bit(k, w) == [of |-> k, weight |-> w]

\* The bits that are packed: all, or those above the low plane.
LowBits == IF planes THEN Min({8, width}) ELSE 0
Bits == width - LowBits

Bytes(b) == (b + 7) \div 8
PackedSize == 8 * Bytes(count * Bits)

PackInit ==
  /\ count \in Counts /\ width \in Widths /\ planes \in BOOLEAN
  /\ writeChunk \in Chunks /\ readChunk \in Chunks
  /\ packer = "pack" /\ row = 0 /\ end = 0
  /\ packed = [k \in 0 .. PackedSize - 1 |-> Pad]
  /\ indices = [k \in 0 .. count - 1 |-> [w \in 0 .. width - 1 |-> Pad]]

\* A chunk's bits, most significant first, packed into whole bytes.
PackChunk ==
  /\ packer = "pack" /\ row < count /\ Bits > 0
  /\ LET rows == Min({writeChunk, count - row})
         size == 8 * Bytes(rows * Bits)
     IN /\ packed' = [k \in DOMAIN packed |->
             LET b == k - 8 * end IN
             IF b \in 0 .. rows * Bits - 1
               THEN Bit(row + b \div Bits, width - 1 - (b % Bits))
               ELSE IF b \in 0 .. size - 1 THEN Pad ELSE packed[k]]
        /\ end' = end + size \div 8
        /\ row' = row + rows
  /\ UNCHANGED <<packArgs, packer, indices>>

PackDone ==
  /\ packer = "pack" /\ (row = count \/ Bits = 0)
  /\ packer' = "unpack" /\ row' = 0
  \* lo: the low byte of each index
  /\ indices' = [k \in DOMAIN indices |-> [w \in 0 .. width - 1 |->
                   IF w < LowBits THEN Bit(k, w) ELSE indices[k][w]]]
  /\ UNCHANGED <<packArgs, end, packed>>

\* Mutant of FirstByte: whole bytes of an index only.
FirstByteWhole(k) == k * (Bits \div 8)

FirstByte(k) == (k * Bits) \div 8

UnpackChunk ==
  /\ packer = "unpack" /\ row < count /\ Bits > 0
  /\ LET upto == Min({row + readChunk, count}) IN
     /\ indices' = [k \in DOMAIN indices |-> [w \in 0 .. width - 1 |->
          IF k \in row .. upto - 1 /\ w >= LowBits
            THEN packed[8 * FirstByte(row) + (k - row) * Bits + (width - 1 - w)]
            ELSE indices[k][w]]]
     /\ row' = upto
  /\ UNCHANGED <<packArgs, packer, end, packed>>

UnpackDone ==
  /\ packer = "unpack" /\ (row = count \/ Bits = 0)
  /\ packer' = "unpacked"
  /\ UNCHANGED <<packArgs, row, end, packed, indices>>

PackNext == PackChunk \/ PackDone \/ UnpackChunk \/ UnpackDone

PackSpec == PackInit /\ [][PackNext]_packVars
-----------------------------------------------------------------------------
PackTypeOK ==
  /\ row \in 0 .. count /\ end \in 0 .. Bytes(count * Bits)
  /\ packer \in {"pack", "unpack", "unpacked"}

\* _unpack_indices and _unpack_index_planes give back every bit of every
\* index, whatever the width and whatever chunks the two sides work in, and
\* the packed bytes hold nothing but these bits and the last byte's padding.
UnpackRestores ==
  packer = "unpacked" =>
    /\ \A k \in 0 .. count - 1, w \in 0 .. width - 1 : indices[k][w] = Bit(k, w)
    /\ end = IF Bits = 0 THEN 0 ELSE Bytes(count * Bits)
    /\ Cardinality({k \in DOMAIN packed : packed[k] = Pad}) < 8
=============================================================================

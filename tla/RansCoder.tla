------------------------------ MODULE RansCoder ------------------------------
(***************************************************************************)
(* The static rANS coder of quant/ans.py: the frequency table and the      *)
(* scalar encoder and decoder, one loop iteration per step.  The code      *)
(* fixes RANS_L = 2^16 and 16-bit words; here both are RenormBits, so that *)
(* the states fit the integers of TLC.                                     *)
(*                                                                         *)
(* The interleaved GPU coder runs the same steps on many streams at once,  *)
(* with an "if" where the scalar coder has a "while": it relies on at most *)
(* one word per symbol.                                                    *)
(*                                                                         *)
(* An operator commented "Mutant of X" is a plausible bug in the code of   *)
(* X; no specification uses it.                                            *)
(***************************************************************************)
EXTENDS Integers, Sequences, FiniteSetsExt, Arithmetic

CONSTANTS
  RenormBits,   \* RENORM_BITS, and log2 of RANS_L
  Precisions,   \* what precision may be
  Streams       \* what symbols may be

ASSUME RansAssumption ==
  /\ RenormBits \in Nat /\ Precisions \subseteq 1 .. RenormBits
  /\ \A s \in Streams : s \in Seq(Nat) /\ s # <<>>
  \* no more symbols than slots
  /\ \A s \in Streams, p \in Precisions : Cardinality({s[k] : k \in DOMAIN s}) <= Shift[p]

VARIABLES
  precision, syms,   \* fixed: the arguments
  freq,              \* the table
  coder,             \* encode, flush, decode, done
  i,                 \* the symbol the encoder or the decoder is at
  x,                 \* the state of the coder
  words,             \* the encoder's output, read back to front
  moved,             \* words moved for the present symbol
  trail,             \* the encoder's state and output length before symbol i
  decoded

ransVars == <<precision, syms, freq, coder, i, x, words, moved, trail, decoded>>

RANS_L == Shift[RenormBits]
Word   == Shift[RenormBits]
M      == Shift[precision]
n      == Len(syms)

(***************************************************************************)
(* build_freq_table.  numpy rounds halves to even.                         *)
(***************************************************************************)
Symbols == 0 .. Max({syms[k] : k \in DOMAIN syms})
Hist(s) == Cardinality({k \in DOMAIN syms : syms[k] = s})
Used    == {s \in Symbols : Hist(s) > 0}
ArgMax(f) == Min({s \in Symbols : \A u \in Symbols : f[u] <= f[s]})

Rounded(a, b) ==
  LET q == a \div b  r == 2 * (a % b) IN
  IF r > b \/ (r = b /\ q % 2 = 1) THEN q + 1 ELSE q

Scaled == [s \in Symbols |-> IF s \in Used THEN Max({1, Rounded(Hist(s) * M, n)}) ELSE 0]
Fixed  == [Scaled EXCEPT ![ArgMax(Scaled)] = @ + M - Total(Scaled, Symbols)]
Ones   == [s \in Symbols |-> IF s \in Used THEN 1 ELSE 0]
Peaked == [Ones EXCEPT ![ArgMax([s \in Symbols |-> Hist(s)])] = @ + M - Total(Ones, Symbols)]

FreqTable == IF Fixed[ArgMax(Scaled)] < 1 THEN Peaked ELSE Fixed

Cum(s) == Total(freq, 0 .. s - 1)

\* slot_to_symbol
SymbolAt(slot) == CHOOSE s \in Symbols : Cum(s) <= slot /\ slot < Cum(s) + freq[s]

RansInit ==
  /\ precision \in Precisions
  /\ syms \in Streams
  /\ freq = FreqTable
  /\ coder = "encode" /\ i = n /\ x = RANS_L
  /\ words = <<>> /\ moved = 0
  /\ trail = <<>> /\ decoded = <<>>

ransArgs == <<precision, syms, freq>>

\* Mutant of XMax: the bound of the next wider interval.
XMaxWide(s) == (RANS_L \div M) * Word * (freq[s] + 1)

XMax(s) == (RANS_L \div M) * Word * freq[s]

\* while x >= x_max
EmitWord ==
  /\ coder = "encode" /\ i > 0 /\ x >= XMax(syms[i])
  /\ words' = Append(words, x % Word) /\ x' = x \div Word
  /\ moved' = moved + 1
  /\ UNCHANGED <<ransArgs, coder, i, trail, decoded>>

\* The state and the words before this symbol, as the decoder must see them
\* after it: x * Word + word of what was emitted.
Before == IF moved = 0 THEN <<x, Len(words)>>
          ELSE <<x * Word + words[Len(words)], Len(words) - 1>>

EncodeSymbol ==
  /\ coder = "encode" /\ i > 0 /\ x < XMax(syms[i])
  /\ LET f == freq[syms[i]] IN x' = (x \div f) * M + (x % f) + Cum(syms[i])
  /\ trail' = <<Before>> \o trail
  /\ i' = i - 1 /\ moved' = 0
  /\ UNCHANGED <<ransArgs, coder, words, decoded>>

\* The two halves of the state, and the decoder's first two words.
Flush ==
  /\ coder = "encode" /\ i = 0
  /\ words' = words \o <<x % Word, (x \div Word) % Word>>
  /\ coder' = "flush"
  /\ UNCHANGED <<ransArgs, i, x, moved, trail, decoded>>

Restore ==
  /\ coder = "flush"
  /\ LET k == Len(words) IN
     /\ x' = words[k] * Word + words[k - 1]
     /\ words' = SubSeq(words, 1, k - 2)
  /\ coder' = "decode" /\ i' = 1
  /\ UNCHANGED <<ransArgs, moved, trail, decoded>>

DecodeSymbol ==
  /\ coder = "decode" /\ i <= n /\ (i = Len(decoded) + 1)
  /\ LET slot == x % M  s == SymbolAt(slot) IN
     /\ decoded' = Append(decoded, s)
     /\ x' = freq[s] * (x \div M) + slot - Cum(s)
  /\ moved' = 0
  /\ UNCHANGED <<ransArgs, coder, i, words, trail>>

\* while x < RANS_L
ReadWord ==
  /\ coder = "decode" /\ i = Len(decoded) /\ x < RANS_L
  /\ x' = x * Word + words[Len(words)]
  /\ words' = SubSeq(words, 1, Len(words) - 1)
  /\ moved' = moved + 1
  /\ UNCHANGED <<ransArgs, coder, i, trail, decoded>>

NextSymbol ==
  /\ coder = "decode" /\ i = Len(decoded) /\ x >= RANS_L
  /\ i' = i + 1
  /\ coder' = IF i = n THEN "done" ELSE "decode"
  /\ UNCHANGED <<ransArgs, x, words, moved, trail, decoded>>

RansNext ==
  EmitWord \/ EncodeSymbol \/ Flush \/ Restore \/ DecodeSymbol \/ ReadWord \/ NextSymbol

RansSpec == RansInit /\ [][RansNext]_ransVars
-----------------------------------------------------------------------------
\* Two words hold the state at all times.
RansTypeOK ==
  /\ x \in 0 .. RANS_L * Word - 1
  /\ \A k \in DOMAIN words : words[k] \in 0 .. Word - 1
  /\ moved \in 0 .. 1
  /\ i \in 0 .. n + 1 /\ Len(decoded) <= n /\ Len(trail) <= n
  /\ \A s \in Used : freq[s] >= 1
  /\ Total(freq, Symbols) = M

\* rans_decode_scalar is the inverse of rans_encode_scalar at every symbol:
\* after the words for a symbol are read, state and words are those the
\* encoder had before it, no word is left at the end, and the symbols are
\* those of the stream.  On the way two words hold the state, and no symbol
\* moves more than one word: the interleaved GPU coder has an "if" where the
\* scalar one has a "while".
DecoderRetraces ==
  /\ x \in 0 .. RANS_L * Word - 1 /\ moved \in 0 .. 1
  /\ coder = "decode" /\ i <= Len(decoded) /\ x >= RANS_L => trail[i] = <<x, Len(words)>>
  /\ coder = "done" => decoded = syms /\ words = <<>> /\ x = RANS_L
=============================================================================

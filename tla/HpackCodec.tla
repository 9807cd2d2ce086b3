----------------------------- MODULE HpackCodec -----------------------------
(***************************************************************************)
(* Integers and strings of a header block, octet by octet (http/hpack.h,   *)
(* lib/hpack.cpp): encode_integer and decode_integer, the Huffman code and *)
(* the header strings built from them.                                     *)
(*                                                                         *)
(* An octet is a number below 256; the symbols of the Huffman code are the *)
(* octets and EOS.                                                         *)
(***************************************************************************)
EXTENDS Naturals, Sequences, SequencesExt

CONSTANTS static_huffman,   \* the code of a symbol and its length in bits
          Characters,       \* symbols of the strings
          MaxText,          \* bound: length of the strings
          Numbers           \* the integers that are coded

VARIABLES text,       \* a string, a sequence of symbols
          number      \* an integer

codecVars == <<text, number>>

Symbols == DOMAIN static_huffman
EOS == 256

\* The low len bits of code, most significant first.
Code(s) ==
  LET code == static_huffman[s][1]
      len  == static_huffman[s][2]
  IN  [i \in 1..len |-> (code \div 2^(len - i)) % 2]
StartsWith(c, d) == \A i \in DOMAIN d : i \in DOMAIN c /\ c[i] = d[i]

\* A prefix code, except that 5 and 6 share theirs, in which no code fits into
\* the ones that fill an octet, and the code of EOS begins with them.
ASSUME HuffmanAssumption ==
  /\ Symbols \subseteq Nat /\ Characters \subseteq Symbols \ {EOS} /\ Numbers \subseteq Nat
  /\ \A s \in Symbols : static_huffman[s] \in Nat \X (Nat \ {0})
  /\ \A s, t \in Symbols : StartsWith(Code(t), Code(s)) => s = t \/ {s, t} = {5, 6}
  /\ \A s \in Symbols : static_huffman[s][2] > 7 \/ \E i \in DOMAIN Code(s) : Code(s)[i] = 0
  /\ {5, 6} \subseteq Symbols /\ Code(5) = Code(6)
  /\ EOS \in Symbols /\ static_huffman[EOS][2] >= 7 /\ \A i \in 1..7 : Code(EOS)[i] = 1

\* Eight bits make an octet, and an octet gives eight bits.
Octets(b) ==
  [k \in 1..(Len(b) \div 8) |->
     128 * b[8*k - 7] + 64 * b[8*k - 6] + 32 * b[8*k - 5] + 16 * b[8*k - 4]
       + 8 * b[8*k - 3] + 4 * b[8*k - 2] + 2 * b[8*k - 1] + b[8*k]]
Bit(octet, i) == (octet \div <<128, 64, 32, 16, 8, 4, 2, 1>>[i]) % 2
Bits(octets) ==
  [i \in 1..(8 * Len(octets)) |-> Bit(octets[((i - 1) \div 8) + 1], ((i - 1) % 8) + 1)]

\* What encode_integer writes after the first octet: `0x80 & (value % 128)` is
\* zero, so the groups before the last are lost.
Groups(value) ==
  LET groups[v \in 0..value] == IF v < 128 THEN <<v>> ELSE <<0>> \o groups[v \div 128]
  IN  groups
encode_integer(N, head, value) ==
  LET mask == 2^N - 1
  IN  IF value < mask THEN <<head + value>>
      ELSE <<head + mask>> \o Groups(value - mask)[value - mask]

\* The result and how many octets were read.  Each octet after the first
\* replaces the value.
decode_integer(N, s) ==
  LET mask == 2^N - 1
      ends == {i \in 2..Len(s) : s[i] < 128}
      last == IF ends = {} THEN Len(s) ELSE CHOOSE i \in ends : \A j \in ends : i <= j
  IN  IF s[1] % (mask + 1) < mask \/ Len(s) = 1
      THEN [value |-> s[1] % (mask + 1), read |-> 1]
      ELSE [value |-> s[last] % 128, read |-> last]

\* The codes one after the other.
Codes(s) ==
  LET upto[i \in 0..Len(s)] == IF i = 0 THEN <<>> ELSE upto[i - 1] \o Code(s[i])
  IN  upto

\* Mutated: the last octet is padded with zeros.
PadWithZeros(s) ==
  LET b == Codes(s)[Len(s)] IN Octets(b \o [i \in 1..((8 - (Len(b) % 8)) % 8) |-> 0])

\* The last octet is filled with ones.
add_huffman_string(s) ==
  LET b == Codes(s)[Len(s)] IN Octets(b \o [i \in 1..((8 - (Len(b) % 8)) % 8) |-> 1])

\* The leaves of the tree: of the symbols with the same code the last one set
\* stays.
created_huffman_tree ==
  [c \in {Code(s) : s \in Symbols} |->
     CHOOSE s \in Symbols : Code(s) = c /\ \A t \in Symbols : Code(t) = c => t <= s]

\* Where a walk from the root at bit i reaches a leaf, whether one without a leaf
\* stays in the tree, and what the walks from bit i on find: EOS ends them, an
\* unfinished one finds nothing, one that leaves the tree reads a null pointer.
Leaves(b, i) == {j \in i..Len(b) : SubSeq(b, i, j) \in DOMAIN created_huffman_tree}
Leaf(b, i) == CHOOSE j \in Leaves(b, i) : \A k \in Leaves(b, i) : j <= k
InTree(b, i) == \E s \in Symbols : StartsWith(Code(s), SubSeq(b, i, Len(b)))
NullRead == 257
Walks(b) ==
  LET from[i \in 1..(Len(b) + 1)] ==
        IF Leaves(b, i) = {} THEN IF InTree(b, i) THEN <<>> ELSE <<NullRead>>
        ELSE LET symbol == created_huffman_tree[SubSeq(b, i, Leaf(b, i))]
             IN  IF symbol = EOS THEN <<>> ELSE <<symbol>> \o from[Leaf(b, i) + 1]
  IN  from
get_huffman_string(octets) == Walks(Bits(octets))[1]

\* In octets, rounded up.
huffman_string_size(s) ==
  FoldLeft(LAMBDA acc, c : acc + static_huffman[c][2], 7, s) \div 8

\* The flag H (128) is written in both cases.
add_header_string(s) ==
  IF huffman_string_size(s) < Len(s)
  THEN encode_integer(7, 128, huffman_string_size(s)) \o add_huffman_string(s)
  ELSE encode_integer(7, 128, Len(s)) \o s

\* H is taken from the octet after the length, and that octet is skipped; the
\* Huffman reader runs to the end of the frame.  Octets past the end of the
\* frame are whatever memory holds; they are zero here.
get_header_string(octets) ==
  LET len  == decode_integer(7, octets)
      at(i) == IF i <= Len(octets) THEN octets[i] ELSE 0
      body == len.read + 1
  IN  IF at(body) >= 128
      THEN get_huffman_string(SubSeq(octets, body + 1, Len(octets)))
      ELSE [i \in 1..len.value |-> at(body + i)]

-----------------------------------------------------------------------------
CodecInit == text = <<>> /\ number = 0

\* Any string and any integer of the bounds.
Type == /\ number = 0 /\ Len(text) < MaxText
        /\ \E c \in Characters : text' = Append(text, c)
        /\ UNCHANGED number
Count == text = <<>> /\ number' \in Numbers /\ UNCHANGED text

CodecNext == Type \/ Count

CodecSpec == CodecInit /\ [][CodecNext]_codecVars

\* What add_huffman_string writes get_huffman_string reads back (hpack.cpp: codes
\* that straddle octets, the padding, the tree) for every string without the
\* symbol 5; and decode_integer inverts encode_integer, and reads no octet too
\* many, below the mask of the prefix (hpack.h:266-299; 4 to 7 bits are in use).
CodecRoundTrip ==
  /\ 5 \notin Range(text) => get_huffman_string(add_huffman_string(text)) = text
  /\ \A N \in 4..7 :
       LET s == encode_integer(N, 0, number) IN
       number < 2^N - 1 => decode_integer(N, s) = [value |-> number, read |-> Len(s)]

\* Every integer comes back, whatever its prefix; every string from its Huffman
\* code; and every header string, with H in the octet of its length.
IntegerRoundTrip ==
  \A N \in 4..7 : decode_integer(N, encode_integer(N, 0, number)).value = number
SymbolRoundTrip == get_huffman_string(add_huffman_string(text)) = text
HeaderStringRoundTrip == get_header_string(add_header_string(text)) = text

\* What the encoder writes the decoder reads back, as RFC 7541 has it, to which the
\* comments refer: integers in section 5.1 (hpack.h:264-265), the Huffman table in
\* Appendix B (310-311), and the layout of a header string (354-357).
HeaderCodingRoundTrip == IntegerRoundTrip /\ SymbolRoundTrip /\ HeaderStringRoundTrip
=============================================================================

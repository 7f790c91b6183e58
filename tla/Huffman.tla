------------------------------ MODULE Huffman ------------------------------
(***************************************************************************)
(* HTree: the Huffman code of the strings of a header block, decoded a bit *)
(* at a time by walking down a tree built when the class is loaded.        *)
(*                                                                         *)
(* The table of the source is kept as the length of each symbol's code:    *)
(* its codes are those that count up over the symbols of one length, and   *)
(* over the lengths.  A node is the pair of its depth and the bits that    *)
(* lead to it, so that the tree is the set of the codes' prefixes.         *)
(***************************************************************************)
EXTENDS Integers, Sequences, FiniteSets, SequencesExt, FiniteSetsExt

CONSTANTS Texts     \* the symbols a peer encodes, the string's end included

VARIABLES
  tree,     \* HTree.root: the symbol at each leaf
  text,     \* what was encoded
  bits,     \* the data as bits, padded to whole bytes
  at,       \* bits walked
  node,     \* cur
  decoded,  \* the bytes decoded so far
  verdict   \* "reading", then how decode ended

vars == <<tree, text, bits, at, node, decoded, verdict>>

-----------------------------------------------------------------------------
(* The calls of HTree.insert, for the symbols below 128 and for the rest,  *)
(* of which the last, 256, is the end of a string.                         *)
AsciiLengths ==
  <<13, 23, 28, 28, 28, 28, 28, 28, 28, 24, 30, 28, 28, 30, 28, 28, 28, 28, 28, 28, 28, 28, 30, 28, 28, 28,
    28, 28, 28, 28, 28, 28, 6, 10, 10, 12, 13, 6, 8, 11, 10, 10, 8, 11, 8, 6, 6, 6, 5, 5, 5, 6, 6, 6, 6, 6,
    6, 6, 7, 8, 15, 6, 12, 10, 13, 6, 7, 7, 7, 7, 7, 7, 7, 7, 7, 7, 7, 7, 7, 7, 7, 7, 7, 7, 7, 7, 7, 7, 8, 7,
    8, 13, 19, 13, 14, 6, 15, 5, 6, 5, 6, 5, 6, 6, 6, 5, 7, 7, 6, 6, 6, 5, 6, 7, 6, 5, 5, 6, 7, 7, 7, 7, 7, 15,
    11, 14, 13, 28>>

UpperLengths ==
  <<20, 22, 20, 20, 22, 22, 22, 23, 22, 23, 23, 23, 23, 23, 24, 23, 24, 24, 22, 23, 24, 23, 23, 23, 23, 21,
    22, 23, 22, 23, 23, 24, 22, 21, 20, 22, 22, 23, 23, 21, 23, 22, 22, 24, 21, 22, 23, 23, 21, 21, 22, 21,
    23, 22, 23, 23, 20, 22, 22, 22, 23, 22, 22, 23, 26, 26, 20, 19, 22, 23, 22, 25, 26, 26, 26, 27, 27, 26,
    24, 25, 19, 21, 26, 27, 27, 26, 27, 24, 21, 21, 26, 26, 28, 27, 27, 27, 20, 24, 20, 21, 22, 21, 21, 23,
    22, 22, 25, 25, 24, 24, 26, 23, 26, 27, 26, 26, 27, 27, 27, 27, 27, 28, 27, 27, 27, 27, 27, 26, 30>>

Symbols == 0..256
Eos == 256
Lengths == AsciiLengths \o UpperLengths
Depth(s) == Lengths[s + 1]
Depths == 1..30

(* The symbols of one length count up from the first code that is free.   *)
Codes ==
  LET level == [d \in Depths |-> {s \in Symbols : Depth(s) = d}]
      first[d \in Depths] == IF d = 1 THEN 0 ELSE 2 * (first[d - 1] + Cardinality(level[d - 1]))
  IN [s \in Symbols |-> <<Depth(s), first[Depth(s)] + Cardinality({t \in level[Depth(s)] : t < s})>>]

(* insert_bits: the leaves and their values; HNode's own value is -1.      *)
Tree(codes) == [n \in {codes[s] : s \in Symbols} |-> CHOOSE s \in Symbols : codes[s] = n]

Root == <<0, 0>>
Missing == <<-1, 0>>       \* None: below a leaf
Value(n) == IF n \in DOMAIN tree THEN tree[n] ELSE -1
Down(n, bit) == IF n \in DOMAIN tree THEN Missing ELSE <<n[1] + 1, 2 * n[2] + bit>>

(* What a peer sends: the codes one after another, then ones.              *)
BitsOf(c) == [i \in 1..c[1] |-> (c[2] \div 2^(c[1] - i)) % 2]
Encoded(codes, t) == FlattenSeq([i \in DOMAIN t |-> BitsOf(codes[t[i]])])
Padded(b) == b \o [i \in 1..((8 - (Len(b) % 8)) % 8) |-> 1]

Init ==
  \E codes \in {Codes} :
    /\ tree = Tree(codes)
    /\ text \in Texts
    /\ bits = Padded(Encoded(codes, text))
    /\ at = 0 /\ node = Root /\ decoded = <<>> /\ verdict = "reading"

-----------------------------------------------------------------------------
(* decode: a leaf is a node with a value above 0.  None has no value, and  *)
(* a byte array takes nothing above 255.                                   *)
IsLeafSigned(v) == v > 0 /\ v < 128
IsLeaf(v) == v > 0

WalkBit ==
  LET next == Down(node, bits[at + 1])  v == Value(next) IN
  /\ verdict = "reading" /\ at < Len(bits)
  /\ at' = at + 1
  /\ IF next = Missing THEN verdict' = "AttributeError" /\ UNCHANGED <<node, decoded>>
     ELSE IF ~IsLeaf(v) THEN node' = next /\ UNCHANGED <<decoded, verdict>>
     ELSE IF v > 255 THEN verdict' = "ValueError" /\ UNCHANGED <<node, decoded>>
     ELSE decoded' = Append(decoded, v) /\ node' = Root /\ UNCHANGED verdict
  /\ UNCHANGED <<tree, text, bits>>

(* bytearray.decode, for the characters of one and of two bytes: first as  *)
(* ASCII, then as UTF-8, and the second failure is not caught.             *)
Lead(b) == b \in 194..223
Trail(b) == b \in 128..191
Utf8(s) == \A i \in DOMAIN s :
  \/ s[i] < 128
  \/ Lead(s[i]) /\ i < Len(s) /\ Trail(s[i + 1])
  \/ Trail(s[i]) /\ i > 1 /\ Lead(s[i - 1])

Finish ==
  /\ verdict = "reading" /\ at = Len(bits)
  /\ verdict' = IF Utf8(decoded) THEN "done" ELSE "UnicodeDecodeError"
  /\ UNCHANGED <<tree, text, bits, at, node, decoded>>

Next == WalkBit \/ Finish

-----------------------------------------------------------------------------
(* A string is decoded to what was encoded exactly when it has no NUL, no  *)
(* end of string and is UTF-8.  A NUL is lost with whatever follows it,    *)
(* and the other two raise what no handler of the frame catches; so does a *)
(* NUL, whose leaf is not seen as one, as soon as a bit follows it.        *)
HuffmanDecodes ==
  verdict # "reading" =>
    /\ verdict = "done" /\ decoded = text <=> (\A i \in DOMAIN text : text[i] \in 1..255) /\ Utf8(text)
    /\ verdict = "done" => IsPrefix(decoded, text)
=============================================================================

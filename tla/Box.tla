-------------------------------- MODULE Box --------------------------------
(***************************************************************************)
(* The tables of the byte encryption between gateway and client: the box   *)
(* that the gateway calculates when it starts (AESSBox), the boxes it      *)
(* forms from it for each session, and the table of the client             *)
(* (EncryptionBox.py), which is written down there in full.                *)
(*                                                                         *)
(* A word of up to 16 bits is the set of its bits that are 1: a polynomial *)
(* over GF(2), as which the code uses it.                                  *)
(***************************************************************************)
EXTENDS Integers, Sequences, FiniteSets, FiniteSetsExt, SequencesExt, TLC

Bytes == 0..255

Bits(n) == {i \in 0..15 : (n \div 2^i) % 2 = 1}
Number(bits) == MapThenSumSet(LAMBDA i : 2^i, bits)
Odd(S) == Cardinality(S) % 2 = 1

\* multwo, and mul, which is the product of a byte with itself.
Multwo(a, b) == {k \in 0..14 : Odd({i \in a : k - i \in b})}

\* mod: mx, moved to the highest bit, is subtracted until a byte is left.
Shifted(mx, d) == {i + d - 8 : i \in mx}
Mod(t, mx) ==
    FoldLeft(LAMBDA rest, d : IF d \in rest THEN SymDiff(rest, Shifted(mx, d)) ELSE rest,
             t, [i \in 1..7 |-> 15 - i])

\* matrix: row k of the matrix and of the vector that is added.
Row(k) == {(k + d) % 8 : d \in {0, 4, 5, 6, 7}}
Added == {0, 1, 5, 6}
Matrix(t) == {k \in 0..7 : Odd(t \cap Row(k)) # (k \in Added)}

\* generateBox: each value to the power of 254, seven squares multiplied, then matrix.
Inverse254(v, mx) ==
    LET square[i \in 0..7] ==
          IF i = 0 THEN v ELSE Mod(Multwo(square[i-1], square[i-1]), mx)
    IN FoldLeft(LAMBDA out, i : Mod(Multwo(out, square[i]), mx), {0}, [i \in 1..7 |-> i])
GenerateBox(mx) == [v \in Bytes |-> Number(Matrix(Inverse254(Bits(v), Bits(mx))))]

\* GenerateOriginalBoxe(mx = 0x0102): global_aesbox[0].
GenerateOriginalBoxe == GenerateBox(258)

\* EncryptionBox.Stable.
StableRow ==
    << 3,59,133,189,98,90,228,220,31,39,153,161,126,70,248,192,
       193,249,71,127,160,152,38,30,221,229,91,99,188,132,58,2,
       42,18,172,148,75,115,205,245,54,14,176,136,87,111,209,233,
       232,208,110,86,137,177,15,55,244,204,114,74,149,173,19,43,
       151,175,17,41,246,206,112,72,139,179,13,53,234,210,108,84,
       85,109,211,235,52,12,178,138,73,113,207,247,40,16,174,150,
       190,134,56,0,223,231,89,97,162,154,36,28,195,251,69,125,
       124,68,250,194,29,37,155,163,96,88,230,222,1,57,135,191,
       64,120,198,254,33,25,167,159,92,100,218,226,61,5,187,131,
       130,186,4,60,227,219,101,93,158,166,24,32,255,199,121,65,
       105,81,239,215,8,48,142,182,117,77,243,203,20,44,146,170,
       171,147,45,21,202,242,76,116,183,143,49,9,214,238,80,104,
       212,236,82,106,181,141,51,11,200,240,78,118,169,145,47,23,
       22,46,144,168,119,79,241,201,10,50,140,180,107,83,237,213,
       253,197,123,67,156,164,26,34,225,217,103,95,128,184,6,62,
       63,7,185,129,94,102,216,224,35,27,165,157,66,122,196,252 >>
Stable == [v \in Bytes |-> StableRow[v + 1]]

\* The table that is written down undoes the box that is calculated.  Both are fixed, so
\* that this is a calculation.
ASSUME StableUndoes ==
    /\ GenerateOriginalBoxe \in [Bytes -> Bytes] /\ Stable \in [Bytes -> Bytes]
    /\ \A v \in Bytes : Stable[GenerateOriginalBoxe[v]] = v /\ GenerateOriginalBoxe[Stable[v]] = v

Exchanged(f, i, j) == [f EXCEPT ![i] = f[j], ![j] = f[i]]
Pairs(randoms) == [k \in 1..(Len(randoms) \div 2) |-> <<randoms[2*k - 1], randoms[2*k]>>]

\* formNewBoxes: the gateway exchanges what the box has at each pair of indices.
FormNewBoxes(randoms) ==
    FoldLeft(LAMBDA box, p : Exchanged(box, p[1], p[2]), GenerateOriginalBoxe, Pairs(randoms))

\* SwithTable: the client exchanges each pair of values, wherever they are; a value
\* that is nowhere counts as the first.
IndexOf(table, v) == Max({i \in Bytes : table[i] = v} \cup {0})

\* Faulty variant: what is at the two indices is exchanged, as in the gateway.
SwitchIndices(table, s, t) == Exchanged(table, s, t)

SwitchSbox(table, s, t) ==
    IF s = t THEN table ELSE Exchanged(table, IndexOf(table, s), IndexOf(table, t))
SwithTable(randoms) ==
    FoldLeft(LAMBDA table, p : SwitchSbox(table, p[1], p[2]), Stable, Pairs(randoms))
=============================================================================

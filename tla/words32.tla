------------------------------- MODULE words32 -------------------------------
(***************************************************************************)
(* The 32 bit words of the C programs.  A word is the tuple of its four    *)
(* bytes, the least significant first.                                     *)
(***************************************************************************)
EXTENDS Naturals, Sequences

Byte == 0..255
Word == [1..4 -> Byte]

\* The exclusive or of two numbers below 16, from the sums of their bits, as a
\* table (SubSeq makes TLC evaluate all of a table, once), and that of two bytes.
nibbles ==
  LET sum(a, b, bit) == bit * (((a \div bit) + (b \div bit)) % 2)
      xor(a, b) == sum(a, b, 1) + sum(a, b, 2) + sum(a, b, 4) + sum(a, b, 8)
  IN SubSeq([a \in 1..16 |-> SubSeq([b \in 1..16 |-> xor(a - 1, b - 1)], 1, 16)], 1, 16)
XorB(a, b) == 16 * nibbles[(a \div 16) + 1][(b \div 16) + 1] + nibbles[(a % 16) + 1][(b % 16) + 1]

\* The exclusive or of two words.
XorW(v, w) == <<XorB(v[1], w[1]), XorB(v[2], w[2]), XorB(v[3], w[3]), XorB(v[4], w[4])>>

\* LE_READ_UINT32 at the offset o of an array of bytes (C counts from 0).
LE_READ_UINT32(p, o) == <<p[o + 1], p[o + 2], p[o + 3], p[o + 4]>>

\* ROTL32 by 8 * n bits.
RotL(n, w) == [i \in 1..4 |-> w[((i - 1 + 4 - n) % 4) + 1]]

\* A table of words is written as the sequence of their upper and lower
\* halves; the word with the index x, from 0.
TableWord(table, x) ==
  LET hi == table[2 * x + 1]
      lo == table[2 * x + 2]
  IN <<lo % 256, lo \div 256, hi % 256, hi \div 256>>

=============================================================================

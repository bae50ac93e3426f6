------------------------------- MODULE fips197 -------------------------------
(***************************************************************************)
(* The definition of AES (FIPS 197) that nettle_aes is compared with: on   *)
(* bytes, with the arithmetic of the field of 256 elements and no tables.  *)
(* A block is the sequence of its 16 bytes, column after column.           *)
(***************************************************************************)
EXTENDS words32

\* The sum of two elements.
Plus(a, b) == XorB(a, b)

\* The product with x, and with any number n, bit by bit from the highest.
Times2(a) == IF a < 128 THEN 2 * a ELSE Plus((2 * a) % 256, 27)
Times(n, a) ==
  LET multiple[i \in 0..8] ==   \* of the upper i bits of n
        IF i = 0 THEN 0
        ELSE LET twice == Times2(multiple[i - 1])
             IN IF (n \div 2^(8 - i)) % 2 = 1 THEN Plus(twice, a) ELSE twice
  IN multiple[8]

LOCAL Inverse(a) == IF a = 0 THEN 0 ELSE CHOOSE b \in Byte : Times(b, a) = 1

\* The affine map: bit i of a is added to the bits 4 to 7 places before it.
LOCAL bit(a, i) == (a \div 2^(i % 8)) % 2
LOCAL Affine(a) ==
  LET sum(i) == (bit(a, i) + bit(a, i + 4) + bit(a, i + 5) + bit(a, i + 6)
                 + bit(a, i + 7) + bit(99, i)) % 2
  IN sum(0) + 2 * sum(1) + 4 * sum(2) + 8 * sum(3)
     + 16 * sum(4) + 32 * sum(5) + 64 * sum(6) + 128 * sum(7)

\* The substitution of the byte a is SBox[a + 1].
SBox == SubSeq([i \in 1..256 |-> Affine(Inverse(i - 1))], 1, 256)

SubBytes(s) == [i \in 1..16 |-> SBox[s[i] + 1]]

\* Row r moves r columns to the left.
ShiftRows(s) == [i \in 1..16 |-> LET r == (i - 1) % 4
                                     c == (i - 1) \div 4
                                 IN s[r + 4 * ((c + r) % 4) + 1]]

\* A column times a polynomial with the coefficients m.
MixColumn(m, col) ==
  [r \in 1..4 |->
     LET at(k) == Times(m[((k - r + 4) % 4) + 1], col[k])
     IN Plus(Plus(at(1), at(2)), Plus(at(3), at(4)))]
Mixing == <<2, 3, 1, 1>>
Unmixing == <<14, 11, 13, 9>>

column(s, c) == SubSeq(s, 4 * c + 1, 4 * c + 4)
MixColumns(s) == MixColumn(Mixing, column(s, 0)) \o MixColumn(Mixing, column(s, 1))
                 \o MixColumn(Mixing, column(s, 2)) \o MixColumn(Mixing, column(s, 3))

\* keys: the sequence of the key words, four for every round.
AddRoundKey(s, keys, n) ==
  LET sum(c) == LET k == keys[4 * n + c + 1]
                IN <<Plus(s[4 * c + 1], k[1]), Plus(s[4 * c + 2], k[2]),
                     Plus(s[4 * c + 3], k[3]), Plus(s[4 * c + 4], k[4])>>
  IN sum(0) \o sum(1) \o sum(2) \o sum(3)

\* A block after n of rounds many rounds.  (A round is a function: TLC ends one
\* before it begins the next.)
Rounds(block, keys, rounds, n) ==
  LET round[p \in (1..n) \X [1..16 -> Byte]] ==
        LET s == ShiftRows(SubBytes(p[2]))
        IN AddRoundKey(IF p[1] = rounds THEN s ELSE MixColumns(s), keys, p[1])
      after[i \in 0..n] ==
        IF i = 0 THEN AddRoundKey(block, keys, 0) ELSE round[<<i, after[i - 1]>>]
  IN after[n]

\* Word i of the key schedule (from 0) of a key of nk words, from the words
\* before it.
NextWord(nk, words, i) ==
  LET last == words[i]
      sub(w) == [b \in 1..4 |-> SBox[w[b] + 1]]
      rotated == <<last[2], last[3], last[4], last[1]>>
      rcon[n \in 1..10] == IF n = 1 THEN 1 ELSE Times2(rcon[n - 1])
      t == IF i % nk = 0 THEN [sub(rotated) EXCEPT ![1] = Plus(@, rcon[i \div nk])]
           ELSE IF nk > 6 /\ i % nk = 4 THEN sub(last)
           ELSE last
  IN [b \in 1..4 |-> Plus(words[i - nk + 1][b], t[b])]

\* The schedule of a key of nk words up to its word n.
KeySchedule(key, nk, n) ==
  LET longer[i \in 0..n - nk] ==
        IF i = 0 THEN [k \in 1..nk |-> SubSeq(key, 4 * k - 3, 4 * k)]
        ELSE LET words == longer[i - 1]
             IN Append(words, NextWord(nk, words, nk + i - 1))
  IN longer[n - nk]

\* Whether q is the text after all rounds, block by block.
IsCipherOf(q, text, keys, rounds) ==
  /\ Len(q) = Len(text)
  /\ \A o \in 0..Len(text) - 1 :
       o % 16 = 0 => SubSeq(q, o + 1, o + 16) = Rounds(SubSeq(text, o + 1, o + 16), keys, rounds, rounds)

=============================================================================

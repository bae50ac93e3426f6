------------------------------ MODULE nettle_aes ------------------------------
(***************************************************************************)
(* nettle-aes.c: the key schedule, its inversion for the decryption, and   *)
(* both directions of the cipher, on words and with tables.  A job is one  *)
(* pass of benchmark_body, with any arguments: encrypt a text and decrypt  *)
(* the result.  One step is one iteration of a loop.                       *)
(***************************************************************************)
EXTENDS words32, nettle_aes_tables, fips197

VARIABLES
  job,     \* the arguments: keysize, key, text; whether the keys of the
           \* decryption are made from encctx (invert) or from the key; and
           \* the cipher text that is known for them (answer)
  phase,   \* "enc" or "dec": the half of the job
  at,      \* the loop it is in
  index,   \* i, the loop counter of the key loops and of the rounds
  rp,      \* how many round constants have been used
  ctx,     \* encctx and decctx: number of rounds and keys
  w,       \* w0, w1, w2, w3
  out      \* encrypted and decrypted, as far as written

aesVars == <<job, phase, at, index, rp, ctx, w, out>>

AES_BLOCK_SIZE == 16

SUBBYTE(x) == [b \in 1..4 |-> sbox[x[b] + 1]]

EncryptTable == [sbox |-> sbox, table |-> <<dtable0, dtable1, dtable2, dtable3>>]
DecryptTable == [sbox |-> isbox, table |-> <<itable0, itable1, itable2, itable3>>]

\* Byte j of the word a round takes byte j from: the words before (dec) or
\* after (enc) the word c.
Source(c, j) == w[((c + (IF phase = "enc" THEN j ELSE 4 - j)) % 4) + 1][j + 1]

T == IF phase = "enc" THEN EncryptTable ELSE DecryptTable

AES_ROUND(c, k) ==
  LET term(j) == TableWord(T.table[j + 1], Source(c, j))
  IN XorW(XorW(XorW(term(0), term(1)), XorW(term(2), term(3))), k)

AES_FINAL_ROUND(c, k) ==
  XorW(<<T.sbox[Source(c, 0) + 1], T.sbox[Source(c, 1) + 1],
         T.sbox[Source(c, 2) + 1], T.sbox[Source(c, 3) + 1]>>, k)

\* Wrong version: a word of the key is not mixed at the right places.
MIX_COLUMN_rotated(k) == XorW(XorW(TableWord(mtable, k[1]), RotL(3, TableWord(mtable, k[2]))),
                              XorW(RotL(2, TableWord(mtable, k[3])), RotL(1, TableWord(mtable, k[4]))))

MIX_COLUMN(k) == XorW(XorW(TableWord(mtable, k[1]), RotL(1, TableWord(mtable, k[2]))),
                      XorW(RotL(2, TableWord(mtable, k[3])), RotL(3, TableWord(mtable, k[4]))))

\* Sizes in between are cut down to the sizes that Rijndael has.
nk(keysize) == IF keysize = 32 THEN 8 ELSE IF keysize >= 24 THEN 6 ELSE 4
nr(keysize) == IF keysize = 32 THEN 14 ELSE IF keysize >= 24 THEN 12 ELSE 10

NoKeys == [rounds |-> 0, keys |-> <<>>]

AesInit == /\ phase = "enc" /\ at = "idle" /\ index = 0 /\ rp = 0
           /\ ctx = [enc |-> NoKeys, dec |-> NoKeys]
           /\ w = <<>> /\ out = [enc |-> <<>>, dec |-> <<>>]

Length == Len(job.text)
Input == IF phase = "enc" THEN job.text ELSE out.enc
keys == ctx[phase].keys
rounds == ctx[phase].rounds

\* An iteration of benchmark_body begins; it overwrites what the one before
\* has left.
AesCall == /\ at \in {"idle", "done"}
           /\ phase' = "enc" /\ at' = "set_key" /\ out' = [enc |-> <<>>, dec |-> <<>>]
           /\ UNCHANGED <<job, index, rp, ctx, w>>

-----------------------------------------------------------------------------
(* The keys *)

\* aes_set_encrypt_key, which aes_set_decrypt_key begins with: the checks
\* and the first words; a check that fails ends the program.
SetKey ==
  LET n == nk(job.keysize)
  IN /\ at = "set_key" /\ ~(phase = "dec" /\ job.invert)
     /\ IF job.keysize \in 16..32
        THEN /\ ctx' = [ctx EXCEPT ![phase] =
                          [rounds |-> nr(job.keysize),
                           keys |-> [k \in 1..n |-> LE_READ_UINT32(job.key, 4 * (k - 1))]]]
             /\ index' = n /\ at' = "expand"
        ELSE at' = "exit" /\ UNCHANGED <<ctx, index>>
     /\ rp' = 0
     /\ UNCHANGED <<job, phase, w, out>>

\* Wrong version: the second substitution of long keys is forgotten.
Expanded_short(n, last) ==
  IF index % n = 0 THEN [SUBBYTE(RotL(3, last)) EXCEPT ![1] = XorB(@, rcon[rp + 1])]
  ELSE last

\* What is added to a word of the last group, from the last word.
Expanded(n, last) ==
  IF index % n = 0 THEN [SUBBYTE(RotL(3, last)) EXCEPT ![1] = XorB(@, rcon[rp + 1])]
  ELSE IF n > 6 /\ index % n = 4 THEN SUBBYTE(last)
  ELSE last

ExpandKey ==
  LET n == nk(job.keysize)
  IN /\ at = "expand" /\ index < 4 * (rounds + 1)
     /\ ctx' = [ctx EXCEPT ![phase].keys =
                  Append(@, XorW(@[index - n + 1], Expanded(n, @[index])))]
     /\ rp' = IF index % n = 0 THEN rp + 1 ELSE rp
     /\ index' = index + 1
     /\ UNCHANGED <<job, phase, at, w, out>>

KeysExpanded ==
  /\ at = "expand" /\ index = 4 * (rounds + 1)
  /\ index' = 0 /\ at' = IF phase = "enc" THEN "check" ELSE "swap"
  /\ UNCHANGED <<job, phase, rp, ctx, w, out>>

\* _nettle_aes_invert with src = dst: groups of four keys change places, from
\* both ends to the middle.
SwapKeys ==
  LET j == 4 * rounds - index
      moved(k) == IF k \in index + 1..index + 4 THEN keys[k - index + j]
                  ELSE IF k \in j + 1..j + 4 THEN keys[k - j + index] ELSE keys[k]
  IN /\ at = "swap"
     /\ IF index < j
        THEN /\ ctx' = [ctx EXCEPT ![phase].keys = [k \in DOMAIN @ |-> moved(k)]]
             /\ index' = index + 4 /\ UNCHANGED at
        ELSE index' = 4 /\ at' = "mix" /\ UNCHANGED ctx
     /\ UNCHANGED <<job, phase, rp, w, out>>

\* aes_invert_key with another context: the groups are copied in reverse.
InvertKey ==
  LET r == ctx.enc.rounds
  IN /\ at = "set_key" /\ phase = "dec" /\ job.invert
     /\ ctx' = [ctx EXCEPT !.dec =
                  [rounds |-> r,
                   keys |-> [k \in 1..4 * (r + 1) |->
                               ctx.enc.keys[4 * (r - (k - 1) \div 4) + ((k - 1) % 4) + 1]]]]
     /\ index' = 4 /\ at' = "mix"
     /\ UNCHANGED <<job, phase, rp, w, out>>

MixKeys == /\ at = "mix"
           /\ IF index < 4 * rounds
              THEN /\ ctx' = [ctx EXCEPT ![phase].keys[index + 1] = MIX_COLUMN(@)]
                   /\ index' = index + 1 /\ UNCHANGED at
              ELSE at' = "check" /\ UNCHANGED <<ctx, index>>
           /\ UNCHANGED <<job, phase, rp, w, out>>

-----------------------------------------------------------------------------
(* The blocks *)

\* FOR_BLOCKS takes whole blocks only.
Check == /\ at = "check"
         /\ at' = IF Length % AES_BLOCK_SIZE = 0 THEN "block" ELSE "exit"
         /\ UNCHANGED <<job, phase, index, rp, ctx, w, out>>

\* The next block, or the other half of the job, or its end.
Load == /\ at = "block" /\ Len(out[phase]) < Length
        /\ w' = [c \in 1..4 |-> XorW(LE_READ_UINT32(Input, Len(out[phase]) + 4 * (c - 1)),
                                     keys[c])]
        /\ index' = 1 /\ at' = "round"
        /\ UNCHANGED <<job, phase, rp, ctx, out>>

EndOfHalf == /\ at = "block" /\ Len(out[phase]) = Length
             /\ IF phase = "enc" THEN phase' = "dec" /\ at' = "set_key"
                ELSE at' = "done" /\ UNCHANGED phase
             /\ UNCHANGED <<job, index, rp, ctx, w, out>>

\* Wrong version: the words are replaced while the others still need them.
Round_in_place ==
  /\ at = "round" /\ index < rounds
  /\ w' = [w EXCEPT ![1] = AES_ROUND(0, keys[4 * index + 1])]
  /\ index' = index + 1
  /\ UNCHANGED <<job, phase, at, rp, ctx, out>>

Round == /\ at = "round" /\ index < rounds
         /\ w' = [c \in 1..4 |-> AES_ROUND(c - 1, keys[4 * index + c])]
         /\ index' = index + 1
         /\ UNCHANGED <<job, phase, at, rp, ctx, out>>

FinalRound ==
  LET t(c) == AES_FINAL_ROUND(c, keys[4 * index + c + 1])
  IN /\ at = "round" /\ index = rounds
     /\ out' = [out EXCEPT ![phase] = @ \o t(0) \o t(1) \o t(2) \o t(3)]
     /\ at' = "block"
     /\ UNCHANGED <<job, phase, index, rp, ctx, w>>

AesNext == \/ SetKey \/ ExpandKey \/ KeysExpanded \/ SwapKeys \/ InvertKey \/ MixKeys
           \/ Check \/ Load \/ EndOfHalf \/ Round \/ FinalRound

\* verify_benchmark
AesVerified == out.enc = expected /\ out.dec = plaintext

-----------------------------------------------------------------------------
(* What the tables, loops and shifted words compute *)

Joined(words) == words[1] \o words[2] \o words[3] \o words[4]

\* The block that the words are computed from, and the text of a position.
BlockAt(text, o) == SubSeq(text, o + 1, o + AES_BLOCK_SIZE)

\* At position j of a column: x, the other bytes 0.
Only(j, x) == [[k \in 1..4 |-> 0] EXCEPT ![j] = x]

\* Each entry of the tables, also of those that a text does not touch.
TablesAreFips ==
  \A x \in Byte :
    /\ sbox[x + 1] = SBox[x + 1] /\ isbox[SBox[x + 1] + 1] = x
    /\ \A j \in 1..4 :
         /\ TableWord(EncryptTable.table[j], x) = MixColumn(Mixing, Only(j, SBox[x + 1]))
         /\ TableWord(DecryptTable.table[j], SBox[x + 1]) = MixColumn(Unmixing, Only(j, x))
    /\ TableWord(mtable, x) = MixColumn(Unmixing, Only(1, x))

\* The tables as they stand: that they are right is one fact, for TLC, and so
\* is that the two polynomials undo each other, on each byte at each place.
ASSUME TablesAssumption ==
  /\ \A x \in Byte : sbox[x + 1] \in Byte
  /\ \A n \in 1..10 : rcon[n] = IF n = 1 THEN 1 ELSE Times2(rcon[n - 1])
  /\ TablesAreFips
  /\ \A x \in Byte, j \in 1..4 :
       MixColumn(Unmixing, MixColumn(Mixing, Only(j, x))) = Only(j, x)

\* Word n of the schedule of the first words of the key, counted from 1.
IsSubkey(n) ==
  LET k == nk(job.keysize)
  IN keys[n] = IF n <= k THEN SubSeq(job.key, 4 * n - 3, 4 * n)
               ELSE NextWord(k, keys, n - 1)

\* The subkeys are those of FIPS 197: the words of the schedule as they are
\* expanded (the key cut down to a valid size), and for the decryption the
\* groups in reverse order with all but the outer ones unmixed, whether they
\* were swapped in place or copied (_aes_set_key, _nettle_aes_invert).
SubkeysAreFips ==
  /\ at = "expand" => IsSubkey(index)
  /\ at = "check" => Len(keys) = 4 * (nr(job.keysize) + 1)
  /\ (at = "check" /\ phase = "enc") => \A n \in DOMAIN keys : IsSubkey(n)
  /\ (at = "check" /\ phase = "dec") =>
       \A g \in 0..rounds, c \in 1..4 :
         LET word == ctx.enc.keys[4 * (rounds - g) + c]
         IN keys[4 * g + c] = IF g \in {0, rounds} THEN word
                              ELSE MixColumn(Unmixing, word)

\* Encryption: after each round the four words are the state of the cipher
\* of FIPS 197 on the same block, and so is each block that is written
\* (_nettle_aes_encrypt with its tables).
CipherIsFips ==
  /\ (phase = "enc" /\ at = "set_key") => TablesAreFips
  /\ (phase = "enc" /\ at = "round") =>
       Joined(w) = Rounds(BlockAt(job.text, Len(out.enc)), keys, rounds, index - 1)
  /\ (phase = "enc" /\ at = "block" /\ out.enc # <<>>) =>
       LET o == Len(out.enc) - AES_BLOCK_SIZE
       IN BlockAt(out.enc, o) = Rounds(BlockAt(job.text, o), keys, rounds, rounds)

\* Decryption goes back through the states of the encryption, round by round
\* and with the other order of its steps, to the text (_nettle_aes_decrypt
\* on the inverted subkeys).
DecryptionRetraces ==
  phase = "dec" =>
    /\ at = "round" =>
         LET block == BlockAt(job.text, Len(out.dec))
             before == Rounds(block, ctx.enc.keys, rounds, rounds - index)
         IN Joined(w) = ShiftRows(SubBytes(before))
    /\ out.dec = SubSeq(job.text, 1, Len(out.dec))
    /\ at = "done" => out.dec = job.text

=============================================================================

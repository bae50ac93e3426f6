----------------------------- MODULE MC_programs -----------------------------
(***************************************************************************)
(* The arguments of the AES library: the key sizes and vectors of FIPS 197 *)
(* (C.1 to C.3) with both ways to the keys of the decryption, sizes that   *)
(* are cut down, two blocks, none, and arguments that are refused.         *)
(***************************************************************************)
EXTENDS programs

Block == [k \in 1..16 |-> 17 * (k - 1)]
C1 == <<\h69, \hc4, \he0, \hd8, \h6a, \h7b, \h04, \h30,
        \hd8, \hcd, \hb7, \h80, \h70, \hb4, \hc5, \h5a>>
C2 == <<\hdd, \ha9, \h7c, \ha4, \h86, \h4c, \hdf, \he0,
        \h6e, \haf, \h70, \ha0, \hec, \h0d, \h71, \h91>>
C3 == <<\h8e, \ha2, \hb7, \hca, \h51, \h67, \h45, \hbf,
        \hea, \hfc, \h49, \h90, \h4b, \h49, \h60, \h89>>

Call(keysize, words, invert, answer) ==
  [keysize |-> keysize, key |-> [k \in 1..40 |-> k - 1], text |-> words,
   invert |-> invert, answer |-> answer]
Calls == {Call(16, Block, TRUE, C1), Call(24, Block, FALSE, C2), Call(32, Block, TRUE, C3),
          Call(20, Block \o Block, FALSE, C1 \o C1), Call(31, Block, TRUE, C2),
          Call(16, <<>>, FALSE, <<>>), Call(12, Block, TRUE, <<>>),
          Call(33, Block, FALSE, <<>>), Call(16, Block \o <<1, 2>>, FALSE, <<>>)}

ColdOrWarm == {0, 1}
AnySizes == {0, 1, 2, 9}   \* 9: the greatest size_t
Marks == {1}
AnyEnd == 8..20
=============================================================================

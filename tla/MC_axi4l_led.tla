---------------------------- MODULE MC_axi4l_led ----------------------------
(* Instances of axi4l_led for TLC. *)
EXTENDS axi4l_led, TLC

AnyWord == [Lanes -> Byte]
FullWrites == [data : AnyWord, strb : {Lanes}]

\* The values of bytes are interchangeable.
Permuted == Permutations(Byte)

=============================================================================

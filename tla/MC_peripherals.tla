--------------------------- MODULE MC_peripherals ---------------------------
(* Instances of peripherals for TLC. *)
EXTENDS peripherals

AnyWord == [Lanes -> Byte]
Zeros == [l \in Lanes |-> 0]
FullWrites == [data : AnyWord, strb : {Lanes}]
SetOnly == [data : {[l \in Lanes |-> 1]}, strb : {Lanes}]
ZeroLanes == [data : {Zeros}, strb : {{l} : l \in Lanes}]

=============================================================================

-------------------------- MODULE MC_axi4l_dpramx32 --------------------------
(* Instances of axi4l_dpramx32_tb for TLC. *)
EXTENDS axi4l_dpramx32_tb, TLC

\* Writes of whole words, and one that selects no lane.
Whole(x) == [l \in Lanes |-> x]
Writes == [data : {Whole(1)}, strb : {Lanes, {}}]
            \cup [data : {Whole(0)}, strb : {Lanes}]
AnyWord == [Lanes -> Byte]

=============================================================================

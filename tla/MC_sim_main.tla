----------------------------- MODULE MC_sim_main -----------------------------
(* Instances of sim_main for TLC. *)
EXTENDS sim_main

\* Counters that idle beyond the end, that idle so long that the session is
\* cut off (-496 to -24), the last that leaves time for it, and others.
Uninitialized == {-20000, -496, -100, -24, -23, 0, 7, 40}

=============================================================================

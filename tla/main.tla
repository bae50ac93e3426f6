--------------------------------- MODULE main ---------------------------------
(***************************************************************************)
(* main.c of the benchmarks: warm up, run, verify, wait for ever.  What a  *)
(* benchmark does in one iteration of benchmark_body is a parameter.       *)
(***************************************************************************)
EXTENDS Naturals

VARIABLES
  pc,       \* where main is
  rpt,      \* iterations of benchmark_body that are still to do
  result, correct

mainVars == <<pc, rpt, result, correct>>

\* LOCAL_SCALE_FACTOR * CPU_MHZ
Repeat == 1

MainInit == pc = "initialise" /\ rpt = 0 /\ result = 0 /\ correct = FALSE

\* initialise_board and initialise_benchmark do nothing that matters here;
\* heat is the macro WARMUP_HEAT.
WarmCaches(heat) == /\ pc = "initialise"
                    /\ pc' = "warm_caches" /\ rpt' = heat
                    /\ UNCHANGED <<result, correct>>

\* An iteration of benchmark_body, from warm_caches or from benchmark.
Iterate == /\ pc \in {"warm_caches", "benchmark"} /\ rpt > 0
           /\ rpt' = rpt - 1
           /\ UNCHANGED <<pc, result, correct>>

\* benchmark_body returns; warm_caches does not look at what.
WarmedUp == /\ pc = "warm_caches" /\ rpt = 0
            /\ pc' = "benchmark" /\ rpt' = Repeat
            /\ UNCHANGED <<result, correct>>
Return(value) == /\ pc = "benchmark" /\ rpt = 0
                 /\ result' = value /\ pc' = "verify"
                 /\ UNCHANGED <<rpt, correct>>

\* The answer of verify_benchmark is kept, and nothing reads it.
Verify(answer) == /\ pc = "verify"
                  /\ correct' = answer /\ pc' = "wfi"
                  /\ UNCHANGED <<rpt, result>>

=============================================================================

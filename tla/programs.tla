------------------------------- MODULE programs -------------------------------
(***************************************************************************)
(* The C programs that the SoC runs besides the blinky: one of them is in  *)
(* the memory.  crc_32 and nettle-aes run under main.c, fib has a main of  *)
(* its own; "aes" is the library of nettle-aes with other arguments,       *)
(* "heap" a client of the heap of beebsc.c, and "crt0" the startup code    *)
(* that comes before all of them.                                          *)
(***************************************************************************)
EXTENDS main, fib, crc_32, nettle_aes, beebsc, crt0

CONSTANTS
  Heats,   \* the values of WARMUP_HEAT
  Jobs     \* the arguments with which the library is called

\* The job of the benchmark.
BenchmarkJob == [keysize |-> 32, key |-> key, text |-> plaintext, invert |-> FALSE,
                 answer |-> expected]

\* The caller of the library brings arrays of bytes, a key as long as its size
\* says, if that is a size at all.
ASSUME JobsAssumption ==
  \A j \in Jobs \cup {BenchmarkJob} :
    /\ j.text \in Seq(Byte) /\ j.invert \in BOOLEAN
    /\ j.keysize \in 16..32 => j.key \in Seq(Byte) /\ 4 * nk(j.keysize) <= Len(j.key)

\* A call that the library refuses: a check of it ends the program.
IsRefused(j) == j.keysize \notin 16..32 \/ Len(j.text) % AES_BLOCK_SIZE # 0

\* The answer that is known for the others is that of FIPS 197; so is the one
\* that the benchmark expects.
ASSUME AnswersAssumption ==
  \A j \in Jobs \cup {BenchmarkJob} :
    ~IsRefused(j) =>
      /\ j.answer \in Seq(Byte)
      /\ LET n == nr(j.keysize)
             words == KeySchedule(j.key, nk(j.keysize), 4 * (n + 1))
         IN IsCipherOf(j.answer, j.text, words, n)

VARIABLE program

vars == <<program, mainVars, number, crcVars, aesVars, heapVars, crtVars>>

Init == /\ program \in {"crc_32", "nettle-aes", "fib", "aes", "heap", "crt0"}
        /\ MainInit /\ FibInit /\ CrcInit /\ AesInit /\ HeapInit /\ CrtInit
        /\ job \in IF program = "aes" THEN Jobs ELSE {BenchmarkJob}
        /\ bss_end \in IF program = "crt0" THEN bss_ends ELSE {bss_start}

\* benchmark_body runs to its end before main goes on.
CrcMain == /\ crcAt = "idle"
           /\ \/ (\E heat \in Heats : WarmCaches(heat)) /\ UNCHANGED crcVars
              \/ Iterate /\ CrcCall
              \/ WarmedUp /\ UNCHANGED crcVars
              \/ Return(CrcResult) /\ UNCHANGED crcVars
              \/ Verify(CrcVerified(result)) /\ UNCHANGED crcVars

Crc == /\ program = "crc_32"
       /\ CrcMain \/ (CrcNext /\ UNCHANGED mainVars)
       /\ UNCHANGED <<program, number, aesVars, heapVars, crtVars>>

AesMain == /\ at \in {"idle", "done"}
           /\ \/ (\E heat \in Heats : WarmCaches(heat)) /\ UNCHANGED aesVars
              \/ Iterate /\ AesCall
              \/ WarmedUp /\ UNCHANGED aesVars
              \/ Return(0) /\ UNCHANGED aesVars
              \/ Verify(AesVerified) /\ UNCHANGED aesVars

NettleAes == /\ program = "nettle-aes"
             /\ AesMain \/ (AesNext /\ UNCHANGED mainVars)
             /\ UNCHANGED <<program, number, crcVars, heapVars, crtVars>>

Aes == /\ program = "aes"
       /\ (at = "idle" /\ AesCall) \/ AesNext
       /\ UNCHANGED <<program, mainVars, number, crcVars, heapVars, crtVars>>

Fib == /\ program = "fib" /\ FibStep
       /\ UNCHANGED <<program, mainVars, crcVars, aesVars, heapVars, crtVars>>

HeapClient == /\ program = "heap" /\ HeapNext
              /\ UNCHANGED <<program, mainVars, number, crcVars, aesVars, crtVars>>

Startup == /\ program = "crt0" /\ CrtNext
           /\ UNCHANGED <<program, mainVars, number, crcVars, aesVars, heapVars>>

\* The wfi loops of main.c and fib.c, the end of a call of the library, the
\* jump to main.
Ended == CASE program \in {"crc_32", "nettle-aes"} -> pc = "wfi"
           [] program = "fib" -> FibEnds
           [] program = "aes" -> at \in {"done", "exit"}
           [] program = "crt0" -> crtAt = "main_entry"
           [] OTHER -> FALSE
Wait == Ended /\ UNCHANGED vars

Next == Crc \/ NettleAes \/ Aes \/ Fib \/ HeapClient \/ Startup \/ Wait

Spec == Init /\ [][Next]_vars

-----------------------------------------------------------------------------
\* The benchmarks come to the wfi loop with the result their verify_benchmark
\* accepts, warmed up or not; fib comes to it with the number that its comment
\* names; a call of the library ends with the text, and with the answer that
\* FIPS 197 gives for it in between, or at a failed check; main starts with a
\* cleared BSS section (crt0.S).  (No program stops anywhere else: that is the
\* check for deadlock.)
ProgramsSucceed ==
  Ended => CASE program \in {"crc_32", "nettle-aes"} -> correct
             [] program = "fib" -> number.y = F47
             [] program = "crt0" -> BssIsClear
             [] OTHER -> IF IsRefused(job) THEN at = "exit"
                         ELSE at = "done" /\ out = [enc |-> job.answer, dec |-> job.text]

=============================================================================

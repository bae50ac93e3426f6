------------------------------- MODULE dmi_jtag -------------------------------
(***************************************************************************)
(* The test access port and the debug module interface that the SoC takes  *)
(* from another project (dmi_jtag), as the debugger uses them: the states  *)
(* of IEEE 1149.1, an instruction register of 5 bits, and a data register  *)
(* that passes requests to the debug module.  The debug module works in    *)
(* another clock domain and answers later; a request that comes before is  *)
(* dropped, and so are all that follow.                                    *)
(***************************************************************************)
EXTENDS debug_defs, FiniteSets

CONSTANT Latency   \* the most rising edges of TCK until an answer is there

VARIABLES tap,    \* state of the port
          ir,     \* the instruction
          sr,     \* the shift register
          busy,   \* rising edges until the debug module has answered
          error,  \* a request came too early
          seen    \* history: the requests the debug module got

tapVars == <<tap, ir, sr, busy, error, seen>>

ASSUME LatencyAssumption == Latency \in Nat \ {0}

\* The state after a rising edge of TCK.
TapNext(s, tms) ==
  LET go(zero, one) == IF tms = 0 THEN zero ELSE one
  IN CASE s = "TEST_LOGIC_RESET" -> go("RUN_TEST_IDLE", "TEST_LOGIC_RESET")
       [] s = "RUN_TEST_IDLE"  -> go("RUN_TEST_IDLE", "SELECT_DR_SCAN")
       [] s = "SELECT_DR_SCAN" -> go("CAPTURE_DR", "SELECT_IR_SCAN")
       [] s = "CAPTURE_DR"     -> go("SHIFT_DR", "EXIT1_DR")
       [] s = "SHIFT_DR"       -> go("SHIFT_DR", "EXIT1_DR")
       [] s = "EXIT1_DR"       -> go("PAUSE_DR", "UPDATE_DR")
       [] s = "PAUSE_DR"       -> go("PAUSE_DR", "EXIT2_DR")
       [] s = "EXIT2_DR"       -> go("SHIFT_DR", "UPDATE_DR")
       [] s = "UPDATE_DR"      -> go("RUN_TEST_IDLE", "SELECT_DR_SCAN")
       [] s = "SELECT_IR_SCAN" -> go("CAPTURE_IR", "TEST_LOGIC_RESET")
       [] s = "CAPTURE_IR"     -> go("SHIFT_IR", "EXIT1_IR")
       [] s = "SHIFT_IR"       -> go("SHIFT_IR", "EXIT1_IR")
       [] s = "EXIT1_IR"       -> go("PAUSE_IR", "UPDATE_IR")
       [] s = "PAUSE_IR"       -> go("PAUSE_IR", "EXIT2_IR")
       [] s = "EXIT2_IR"       -> go("SHIFT_IR", "UPDATE_IR")
       [] s = "UPDATE_IR"      -> go("RUN_TEST_IDLE", "SELECT_DR_SCAN")

\* The register that a data scan goes through; what it shows is not modelled.
Captured == Bits(0, CASE ir = DMI -> 41
                      [] ir \in {IDCODE, DTMCS} -> 32
                      [] OTHER -> 1)

ones(s) == {i - 1 : i \in {j \in DOMAIN s : s[j] = 1}}
number(s) == LET value[i \in 0..Len(s)] ==
                   IF i = 0 THEN 0 ELSE value[i - 1] + s[i] * 2^(i - 1)
             IN value[Len(s)]

\* A request: 2 bits of operation, 32 bits of data, 7 bits of address.
Decoded == LET op == number(SubSeq(sr, 1, 2))
           IN [op |-> op, address |-> number(SubSeq(sr, 35, 41)),
               data |-> IF op = DTM_WRITE THEN ones(SubSeq(sr, 3, 34)) ELSE {}]

TapInit == /\ tap = "TEST_LOGIC_RESET" /\ ir = IDCODE /\ sr = <<0>>
           /\ busy = 0 /\ error = FALSE /\ seen = <<>>

TapReset == /\ tap' = "TEST_LOGIC_RESET" /\ ir' = IDCODE /\ busy' = 0
            /\ error' = FALSE /\ UNCHANGED <<sr, seen>>

Later == IF busy = 0 THEN 0 ELSE busy - 1

NoAccess == busy' = Later /\ UNCHANGED <<error, seen>>

Capture == /\ tap \in {"CAPTURE_DR", "CAPTURE_IR"}
           /\ sr' = IF tap = "CAPTURE_IR" THEN <<1, 0, 1, 0, 0>> ELSE Captured
           /\ busy' = Later /\ UNCHANGED <<ir, seen>>
           /\ error' = (error \/ (tap = "CAPTURE_DR" /\ ir = DMI /\ busy > 0))

ShiftIn(tdi) == /\ tap \in {"SHIFT_DR", "SHIFT_IR"}
                /\ sr' = Append(Tail(sr), tdi)
                /\ NoAccess /\ UNCHANGED ir

UpdateIr == /\ tap = "UPDATE_IR"
            /\ ir' = number(sr)
            /\ NoAccess /\ UNCHANGED sr

UpdateDr == /\ tap = "UPDATE_DR"
            /\ IF ir = DMI /\ Decoded.op \in {DTM_READ, DTM_WRITE} /\ ~error
               THEN IF busy = 0
                    THEN /\ seen' = Append(seen, Decoded)
                         /\ busy' \in 1..Latency /\ UNCHANGED error
                    ELSE error' = TRUE /\ busy' = Later /\ UNCHANGED seen
               ELSE NoAccess
            /\ UNCHANGED <<ir, sr>>

Rest == /\ tap \notin {"CAPTURE_DR", "CAPTURE_IR", "SHIFT_DR", "SHIFT_IR",
                       "UPDATE_DR", "UPDATE_IR"}
        /\ ir' = IF tap = "TEST_LOGIC_RESET" THEN IDCODE ELSE ir
        /\ NoAccess /\ UNCHANGED sr

\* A rising edge of TCK.
TapEdge(tms, tdi) ==
  /\ tap' = TapNext(tap, tms)
  /\ Capture \/ ShiftIn(tdi) \/ UpdateIr \/ UpdateDr \/ Rest

=============================================================================

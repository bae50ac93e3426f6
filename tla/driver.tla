-------------------------------- MODULE driver --------------------------------
(***************************************************************************)
(* driver.cpp: puts transactions on the JTAG wires.  drive is called in    *)
(* every unit of simulated time; where it sees a falling edge of TCK it    *)
(* sets TMS and TDI for the coming rising edge and goes to the state in    *)
(* which that edge puts the test access port.  It never looks at the port: *)
(* both only agree if they agreed when it started, and the constructor     *)
(* does not initialize its state.  The counters of the model have no       *)
(* greatest value; to increment the greatest int is undefined in C++.      *)
(***************************************************************************)
EXTENDS Integers, Sequences

CONSTANT Garbage   \* what the counters may hold before they are initialized

VARIABLES tck, tms, tdi,                   \* the wires
          past_tck, rdy, bits, idle, state  \* the driver

wires == <<tms, tdi>>
driverVars == <<past_tck, rdy, bits, idle, state>>

ASSUME GarbageAssumption == Garbage \subseteq Int

num_idle == 8

DriverState ==
  {"TEST_LOGIC_RESET", "RUN_TEST_IDLE",
   "SELECT_DR_SCAN", "CAPTURE_DR", "SHIFT_DR", "EXIT1_DR", "PAUSE_DR",
   "EXIT2_DR", "UPDATE_DR",
   "SELECT_IR_SCAN", "CAPTURE_IR", "SHIFT_IR", "EXIT1_IR", "PAUSE_IR",
   "EXIT2_IR", "UPDATE_IR"}

\* Any value of the memory that the driver is made in; "other" stands for
\* the numbers without a state.
DriverInit ==
  /\ past_tck \in BOOLEAN /\ rdy = FALSE
  /\ bits \in Garbage /\ idle \in Garbage
  /\ state \in DriverState \cup {"other"}

\* What bit 0 of the request is.
Bit0(x) == IF x.req = <<>> THEN 0 ELSE Head(x.req)

GoTo(s, m) == state' = s /\ tms' = m

FallingEdge == past_tck /\ ~tck'

\* The comparison with len - 1 is one of unsigned numbers.
MoreBits(x) == 0 <= bits /\ bits < x.len - 1

Reset == /\ state = "TEST_LOGIC_RESET"
         /\ idle' = 0 /\ GoTo("RUN_TEST_IDLE", 0)
         /\ rdy' = FALSE /\ UNCHANGED <<tdi, bits>>

\* Wrong version: one cycle of idling is missing.
Idle_short == /\ state = "RUN_TEST_IDLE"
              /\ bits' = 0 /\ idle' = idle + 1
              /\ IF idle + 2 < num_idle THEN GoTo("RUN_TEST_IDLE", 0)
                 ELSE GoTo("SELECT_DR_SCAN", 1)
              /\ rdy' = FALSE /\ UNCHANGED tdi

Idle == /\ state = "RUN_TEST_IDLE"
        /\ bits' = 0 /\ idle' = idle + 1
        /\ IF idle + 1 < num_idle THEN GoTo("RUN_TEST_IDLE", 0)
           ELSE GoTo("SELECT_DR_SCAN", 1)
        /\ rdy' = FALSE /\ UNCHANGED tdi

Select(x) == /\ state = "SELECT_DR_SCAN"
             /\ IF x.mode = "JTAG_IR" THEN GoTo("SELECT_IR_SCAN", 1)
                ELSE GoTo("CAPTURE_DR", 0)
             /\ rdy' = FALSE /\ UNCHANGED <<tdi, bits, idle>>

\* Wrong version: the pause before the update of the instruction is left out.
Move_no_pause == /\ \/ state = "SELECT_IR_SCAN" /\ GoTo("CAPTURE_IR", 0)
                    \/ state = "CAPTURE_DR" /\ GoTo("SHIFT_DR", 0)
                    \/ state = "CAPTURE_IR" /\ GoTo("SHIFT_IR", 0)
                    \/ state = "PAUSE_DR" /\ GoTo("EXIT2_DR", 1)
                    \/ state = "PAUSE_IR" /\ GoTo("UPDATE_IR", 1)
                    \/ state = "EXIT2_DR" /\ GoTo("UPDATE_DR", 1)
                 /\ rdy' = FALSE /\ UNCHANGED <<tdi, bits, idle>>

Move == /\ \/ state = "SELECT_IR_SCAN" /\ GoTo("CAPTURE_IR", 0)
           \/ state = "CAPTURE_DR" /\ GoTo("SHIFT_DR", 0)
           \/ state = "CAPTURE_IR" /\ GoTo("SHIFT_IR", 0)
           \/ state = "PAUSE_DR" /\ GoTo("EXIT2_DR", 1)
           \/ state = "PAUSE_IR" /\ GoTo("EXIT2_IR", 1)
           \/ state = "EXIT2_DR" /\ GoTo("UPDATE_DR", 1)
           \/ state = "EXIT2_IR" /\ GoTo("UPDATE_IR", 1)
        /\ rdy' = FALSE /\ UNCHANGED <<tdi, bits, idle>>

Shift(x) ==
  /\ \/ state = "SHIFT_DR" /\ IF MoreBits(x) THEN GoTo("SHIFT_DR", 0)
                              ELSE GoTo("EXIT1_DR", 1)
     \/ state = "SHIFT_IR" /\ IF MoreBits(x) THEN GoTo("SHIFT_IR", 0)
                              ELSE GoTo("EXIT1_IR", 1)
  /\ tdi' = Bit0(x) /\ bits' = bits + 1
  /\ rdy' = FALSE /\ UNCHANGED idle

Exit1(x) == /\ \/ state = "EXIT1_DR" /\ GoTo("PAUSE_DR", 0)
               \/ state = "EXIT1_IR" /\ GoTo("PAUSE_IR", 0)
            /\ tdi' = Bit0(x)
            /\ rdy' = FALSE /\ UNCHANGED <<bits, idle>>

Update == /\ state \in {"UPDATE_DR", "UPDATE_IR"}
          /\ GoTo("RUN_TEST_IDLE", 0)
          /\ idle' = 0 /\ rdy' = TRUE /\ UNCHANGED <<tdi, bits>>

Default == /\ state \notin DriverState
           /\ GoTo("TEST_LOGIC_RESET", 1)
           /\ rdy' = FALSE /\ UNCHANGED <<tdi, bits, idle>>

Step(x) == \/ Reset \/ Idle \/ Select(x) \/ Move \/ Shift(x) \/ Exit1(x)
           \/ Update \/ Default

\* Between the edges of TCK only the readiness falls.
Wait == /\ ~FallingEdge
        /\ rdy' = FALSE /\ UNCHANGED <<wires, bits, idle, state>>

\* drive(x).
drive(x) == /\ (FallingEdge /\ Step(x)) \/ Wait
            /\ past_tck' = tck'

\* What drive leaves of the request of x.
Driven(x) == IF FallingEdge /\ state \in {"SHIFT_DR", "SHIFT_IR"} /\ x.req # <<>>
             THEN [x EXCEPT !.req = Tail(@)] ELSE x

=============================================================================

------------------------------- MODULE sim_main -------------------------------
(***************************************************************************)
(* sim_main.cpp of the debugger simulation: a queue of transactions, the   *)
(* loop that lets time pass, resets the SoC and calls the driver, and the  *)
(* test access port of the SoC.  One step is one iteration of the loop.    *)
(***************************************************************************)
EXTENDS driver, dmi_jtag

CONSTANT End   \* the time at which the loop ends

VARIABLES time,     \* contextp->time()
          seq,      \* the queue
          trst_n    \* wire: the reset of the port

vars == <<tck, wires, driverVars, tapVars, time, seq, trst_n>>

ASSUME EndAssumption == End \in Nat

zero == Bits(0, 32)
dmactive == Register(dmcontrol_t, [dmactive |-> 1])
haltreq == Register(dmcontrol_t, [dmactive |-> 1, haltreq |-> 1])
readDcsr == Register(command_t, [cmdtype |-> 0, control |-> 2^17 + DCSR])

Transactions ==
  <<instr_transaction(IDCODE), idcode_transaction(zero),
    instr_transaction(DMI),
    dmi_transaction(dmi_t(DTM_READ, zero, DMSTATUS)), dmi_transaction(Bits(0, 41)),
    dmi_transaction(dmi_t(DTM_WRITE, dmactive, DMCONTROL)),
    dmi_transaction(dmi_t(DTM_WRITE, haltreq, DMCONTROL)),
    dmi_transaction(dmi_t(DTM_WRITE, readDcsr, COMMAND)),
    dmi_transaction(dmi_t(DTM_READ, readDcsr, DATA0)), dmi_transaction(Bits(0, 41))>>

Popped == Len(Transactions) - Len(seq)

Init == /\ DriverInit /\ TapInit
        /\ tck = FALSE /\ tms = 0 /\ tdi = 0 /\ trst_n = 1
        /\ time = 0 /\ seq = Transactions

\* top->eval(): the port sees its reset and the rising edges of TCK.
Port == IF trst_n' = 0 THEN TapReset
        ELSE IF ~tck /\ tck' THEN TapEdge(tms', tdi')
        ELSE UNCHANGED tapVars

\* The driver gets the front of the queue even when it is ready for the next.
Feed == /\ drive(Head(seq))
        /\ seq' = IF rdy THEN Tail(seq) ELSE [seq EXCEPT ![1] = Driven(@)]

\* The front of the queue is read before the queue is found empty: the value
\* is undefined, and nothing is done with it.
Quiet == UNCHANGED <<wires, driverVars, seq>>

\* The resets change while clk100mhz is low, that is at even times.
Next == /\ time < End /\ time' = time + 1
        /\ tck' = IF time' % 10 = 0 THEN ~tck ELSE tck
        /\ trst_n' = IF time' % 2 = 1 THEN trst_n
                     ELSE IF time' > 10 /\ time' < 43 THEN 0 ELSE 1
        /\ IF time' > 100 /\ seq # <<>> THEN Feed ELSE Quiet
        /\ Port

Spec == Init /\ [][Next]_vars

-----------------------------------------------------------------------------
(* Properties *)

\* The driver and the port agree: the port is in the state the driver takes
\* it to be in, or the coming rising edge takes it there.
Agree == state = IF tck THEN tap ELSE TapNext(tap, tms)

\* Whatever the memory of the driver held before, it is in step with the port
\* from the third transaction on: the first two, which only read the
\* identification of the port, bring both together.
InStep == Popped >= 2 => Agree

Request(op, address, data) == [op |-> op, address |-> address, data |-> data]

\* What the debugger asks of the debug module: its status, to be activated,
\* the halt of the core, the transfer of the CSR dcsr to its data register,
\* and that register.  Writes with the bits that are set.
Session == <<Request(1, 17, {}), Request(2, 16, {0}), Request(2, 16, {0, 31}),
             Request(2, 23, {17, 4, 5, 7, 8, 9, 10}), Request(1, 4, {})>>

\* The debug module gets these requests, in this order, each once, with every
\* bit at the place where it looks for it, and nothing else.
DebugModuleSees == IsPrefix(seen, Session)

\* The memory that the driver is made in leaves time for the session: if it
\* has the driver idle, then 5 periods of TCK before its first call, 471 for
\* the session, and one for each that the counter is below zero; and the
\* counter is not the greatest int, which must not be incremented.
LeavesTime == state = "RUN_TEST_IDLE" => /\ idle + (End - 1) \div 20 >= 476
                                         /\ idle < 2147483647

\* If the driver is made in such memory (the constructor does not see to it),
\* the session fits into the simulated time although the driver idles before
\* each scan, and it idles long enough: no request comes before the debug
\* module has answered the last one, for then it would be dropped with all
\* that follow.
SessionFits == LeavesTime => [](time = End => seq = <<>> /\ seen = Session)

=============================================================================

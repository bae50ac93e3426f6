----------------------------- MODULE core2axi4l -----------------------------
(***************************************************************************)
(* rtl/core2axi4l.sv: the bridge that turns requests of a core memory port *)
(* (Ibex's instruction and data ports, the debug module's system bus       *)
(* master) into AXI4-Lite transactions.                                    *)
(*                                                                         *)
(* The variables are the one register of the bridge and its input wires    *)
(* during the current clock cycle.  The output wires are functions of      *)
(* them, and Edge is the rising clock edge that ends the cycle.  Whoever   *)
(* instantiates the module says how the inputs change.                     *)
(***************************************************************************)
EXTENDS core_if

VARIABLES
  state,     \* register of the FSM
  core,      \* input: the request of the core, or NONE
  awready,   \* input: the AXI slave takes a write address this cycle
  wready,    \* input: the AXI slave takes write data this cycle
  arready,   \* input: the AXI slave takes a read address this cycle
  b,         \* input: write response, or NONE
  r          \* input: read response, or NONE

State == {"IDLE", "READ_WAIT", "WRITE_DATA", "WRITE_ADDR", "WRITE_WAIT"}

-----------------------------------------------------------------------------
(* Output wires *)

\* A request that the FSM looks at: only in IDLE.
NewWrite == state = "IDLE" /\ core # NONE /\ core.we
NewRead  == state = "IDLE" /\ core # NONE /\ ~core.we

\* Wrong version: the address is offered in the first cycle only.
Awvalid_once == NewWrite

Awvalid == NewWrite \/ state = "WRITE_ADDR"

Wvalid == NewWrite \/ state = "WRITE_DATA"

Arvalid == NewRead

\* The payloads come straight from the core, which must hold them.
AW == IF Awvalid THEN core.addr ELSE NONE
W  == IF Wvalid THEN core.wdata ELSE NONE
AR == IF Arvalid THEN core.addr ELSE NONE

\* Wrong version: a write is granted with its address alone.
Gnt_with_address == \/ NewWrite /\ awready
                    \/ state = "WRITE_ADDR" /\ awready
                    \/ NewRead /\ arready

\* Wrong version: a read is granted when it is put on the bus.
Gnt_with_arvalid == \/ NewWrite /\ awready /\ wready
                    \/ state = "WRITE_DATA" /\ wready
                    \/ state = "WRITE_ADDR" /\ awready
                    \/ NewRead

\* The grant ends the request: it is given with the last beat the bus takes.
Gnt == \/ NewWrite /\ awready /\ wready
       \/ state = "WRITE_DATA" /\ wready
       \/ state = "WRITE_ADDR" /\ awready
       \/ NewRead /\ arready

Bready == state = "WRITE_WAIT"

Rready == state = "READ_WAIT" /\ r # NONE

\* The response to the core is passed through in the cycle it arrives.
Rvalid == \/ state = "WRITE_WAIT" /\ b # NONE
          \/ state = "READ_WAIT" /\ r # NONE

Rdata == r.data

\* Wrong version: errors of writes are lost.
Err_of_reads == r # NONE /\ r.resp # "OKAY"

Err == \/ r # NONE /\ r.resp # "OKAY"
       \/ b # NONE /\ b # "OKAY"

-----------------------------------------------------------------------------
(* The FSM: one action per branch of its case statement *)

Init == state = "IDLE"

\* No request: stay.
Idle == /\ state = "IDLE"
        /\ core = NONE
        /\ UNCHANGED state

\* Wrong version: a posted write, which does not wait for its response.
SendWrite_posted ==
  /\ NewWrite
  /\ \/ awready /\ wready /\ state' = "IDLE"
     \/ awready /\ ~wready /\ state' = "WRITE_DATA"
     \/ ~awready /\ wready /\ state' = "WRITE_ADDR"
     \/ ~awready /\ ~wready /\ UNCHANGED state

\* Wrong version: whenever the data is not taken, the address is thought to be.
SendWrite_address_assumed ==
  /\ NewWrite
  /\ \/ awready /\ wready /\ state' = "WRITE_WAIT"
     \/ ~wready /\ state' = "WRITE_DATA"
     \/ ~awready /\ wready /\ state' = "WRITE_ADDR"

\* A write offers address and data together; the bus may take both, either
\* or neither.
SendWrite ==
  /\ NewWrite
  /\ \/ awready /\ wready /\ state' = "WRITE_WAIT"
     \/ awready /\ ~wready /\ state' = "WRITE_DATA"
     \/ ~awready /\ wready /\ state' = "WRITE_ADDR"
     \/ ~awready /\ ~wready /\ UNCHANGED state

SendRead ==
  /\ NewRead
  /\ state' = IF arready THEN "READ_WAIT" ELSE "IDLE"

\* Wrong version: the late data beat is followed by the wait of a read.
SendData_then_read ==
  /\ state = "WRITE_DATA"
  /\ state' = IF wready THEN "READ_WAIT" ELSE "WRITE_DATA"

\* The address is gone, the data is not.
SendData ==
  /\ state = "WRITE_DATA"
  /\ state' = IF wready THEN "WRITE_WAIT" ELSE "WRITE_DATA"

\* The data is gone, the address is not.
SendAddr ==
  /\ state = "WRITE_ADDR"
  /\ state' = IF awready THEN "WRITE_WAIT" ELSE "WRITE_ADDR"

WriteResponse ==
  /\ state = "WRITE_WAIT"
  /\ state' = IF b # NONE THEN "IDLE" ELSE "WRITE_WAIT"

ReadResponse ==
  /\ state = "READ_WAIT"
  /\ state' = IF r # NONE THEN "IDLE" ELSE "READ_WAIT"

\* The rising edge of the clock.
Edge == \/ Idle
        \/ SendWrite
        \/ SendRead
        \/ SendData
        \/ SendAddr
        \/ WriteResponse
        \/ ReadResponse

\* The asynchronous reset.
Reset == state' = "IDLE"

=============================================================================

----------------------------- MODULE axi4l2core -----------------------------
(***************************************************************************)
(* rtl/axi4l2core.sv: the bridge that turns AXI4-Lite transactions into    *)
(* requests of a core memory port (the slave port of the debug module).    *)
(*                                                                         *)
(* The variables are the registers of the bridge and its input wires       *)
(* during the current clock cycle; the output wires are functions of them, *)
(* and Edge is the rising clock edge.                                      *)
(***************************************************************************)
EXTENDS core_if

VARIABLES
  state,   \* register of the FSM
  bbuf,    \* register bresp_buf
  rbuf,    \* registers rresp_buf and rdata_buf
  aw,      \* input: write address, or NONE
  w,       \* input: write data, or NONE
  ar,      \* input: read address, or NONE
  bready,  \* input: the AXI master takes a write response this cycle
  rready,  \* input: the AXI master takes a read response this cycle
  gnt,     \* input: the core side accepts the request this cycle
  rsp      \* input: the core side answers this cycle, or NONE

registers == <<state, bbuf, rbuf>>
inputs == <<aw, w, ar, bready, rready, gnt, rsp>>

State == {"IDLE", "READ", "READ_WAIT0", "READ_WAIT1",
          "WRITE", "WRITE_WAIT0", "WRITE_WAIT1"}

CoreResp == {resp(FALSE), resp(TRUE)}

-----------------------------------------------------------------------------
(* Output wires *)

\* Wrong version: a write starts when its response can be taken.
Writing_when_bready ==
  \/ state = "IDLE" /\ ar = NONE /\ aw # NONE /\ w # NONE /\ bready
  \/ state = "WRITE"

\* A read goes first; a write needs its address and its data.
Reading == \/ state = "IDLE" /\ ar # NONE
           \/ state = "READ"
Writing == \/ state = "IDLE" /\ ar = NONE /\ aw # NONE /\ w # NONE
           \/ state = "WRITE"

CoreRequest == IF Reading THEN [we |-> FALSE, addr |-> ar]
               ELSE IF Writing THEN [we |-> TRUE, addr |-> aw, wdata |-> w]
               ELSE NONE

\* Wrong version: the address is taken before the core side grants.
Arready_ungranted == Reading

Arready == Reading /\ gnt
Awready == Writing /\ gnt
Wready  == Awready

\* Wrong version: no buffer for the answer to a read.
R_unbuffered == CASE state \in {"READ_WAIT0", "READ_WAIT1"} /\ rsp # NONE ->
                       [resp |-> resp(rsp.err), data |-> rsp.rdata]
                  [] OTHER -> NONE

\* The answer of the core side, as it comes or out of the buffer.
R == CASE state = "READ_WAIT0" /\ rsp # NONE ->
            [resp |-> resp(rsp.err), data |-> rsp.rdata]
       [] state = "READ_WAIT1" -> rbuf
       [] OTHER -> NONE

B == CASE state = "WRITE_WAIT0" /\ rsp # NONE -> resp(rsp.err)
       [] state = "WRITE_WAIT1" -> bbuf
       [] OTHER -> NONE

-----------------------------------------------------------------------------
(* The FSM: one action per branch of its case statement.  The response     *)
(* buffers are written in READ_WAIT0 and WRITE_WAIT0 and have no reset.    *)

Init == /\ state = "IDLE"
        /\ bbuf \in CoreResp
        /\ rbuf \in [resp : CoreResp, data : Data]

Buffers == UNCHANGED <<bbuf, rbuf>>

Idle == /\ state = "IDLE"
        /\ ~Reading /\ ~Writing
        /\ UNCHANGED state /\ Buffers

StartRead == /\ state = "IDLE"
             /\ Reading
             /\ state' = IF gnt THEN "READ_WAIT0" ELSE "READ"
             /\ Buffers

\* Wrong version: a write that is not granted does not leave IDLE.
StartWrite_in_idle == /\ state = "IDLE"
                      /\ Writing
                      /\ state' = IF gnt THEN "WRITE_WAIT0" ELSE "IDLE"
                      /\ Buffers

StartWrite == /\ state = "IDLE"
              /\ Writing
              /\ state' = IF gnt THEN "WRITE_WAIT0" ELSE "WRITE"
              /\ Buffers

Read == /\ state = "READ"
        /\ state' = IF gnt THEN "READ_WAIT0" ELSE "READ"
        /\ Buffers

\* Wrong version: an answer the master does not take is dropped.
ReadAnswer_dropped ==
  /\ state = "READ_WAIT0"
  /\ state' = IF rsp # NONE THEN "IDLE" ELSE "READ_WAIT0"
  /\ Buffers

\* Wrong version: the buffer forgets the error.
ReadAnswer_no_error ==
  /\ state = "READ_WAIT0"
  /\ \/ rsp = NONE /\ UNCHANGED <<state, rbuf>>
     \/ /\ rsp # NONE
        /\ state' = IF rready THEN "IDLE" ELSE "READ_WAIT1"
        /\ rbuf' = [resp |-> resp(FALSE), data |-> rsp.rdata]
  /\ UNCHANGED bbuf

\* The core side answers for one cycle only: what the master does not take
\* in that cycle goes into the buffer.
ReadAnswer ==
  /\ state = "READ_WAIT0"
  /\ \/ rsp = NONE /\ UNCHANGED <<state, rbuf>>
     \/ /\ rsp # NONE
        /\ state' = IF rready THEN "IDLE" ELSE "READ_WAIT1"
        /\ rbuf' = [resp |-> resp(rsp.err), data |-> rsp.rdata]
  /\ UNCHANGED bbuf

ReadKept == /\ state = "READ_WAIT1"
            /\ state' = IF rready THEN "IDLE" ELSE "READ_WAIT1"
            /\ Buffers

Write == /\ state = "WRITE"
         /\ state' = IF gnt THEN "WRITE_WAIT0" ELSE "WRITE"
         /\ Buffers

\* Wrong version: waits for the master in WRITE_WAIT0.
WriteAnswer_waits ==
  /\ state = "WRITE_WAIT0"
  /\ state' = IF rsp # NONE /\ bready THEN "IDLE" ELSE "WRITE_WAIT0"
  /\ Buffers

WriteAnswer ==
  /\ state = "WRITE_WAIT0"
  /\ \/ rsp = NONE /\ UNCHANGED <<state, bbuf>>
     \/ /\ rsp # NONE
        /\ state' = IF bready THEN "IDLE" ELSE "WRITE_WAIT1"
        /\ bbuf' = resp(rsp.err)
  /\ UNCHANGED rbuf

\* Wrong version: the kept response is offered for one cycle.
WriteKept_once == /\ state = "WRITE_WAIT1"
                  /\ state' = "IDLE"
                  /\ Buffers

WriteKept == /\ state = "WRITE_WAIT1"
             /\ state' = IF bready THEN "IDLE" ELSE "WRITE_WAIT1"
             /\ Buffers

\* The rising edge of the clock.
Edge == \/ Idle
        \/ StartRead
        \/ StartWrite
        \/ Read
        \/ ReadAnswer
        \/ ReadKept
        \/ Write
        \/ WriteAnswer
        \/ WriteKept

\* The asynchronous reset reaches the FSM only.
Reset == state' = "IDLE" /\ Buffers

=============================================================================

----------------------------- MODULE axi4l_dm_top -----------------------------
(***************************************************************************)
(* The slave side of axi4l_dm_top.sv: axi4l2core in front of the debug     *)
(* module, whose core port has no handshake.  The wires gnt and rvalid are *)
(* tied high and err low; the read data is there in the cycle after the    *)
(* request, and may change in any later cycle.  The debug module itself is *)
(* not part of this repository.                                            *)
(***************************************************************************)
EXTENDS axi4l2core

VARIABLES
  asked,   \* the request on the core port last, while the bus waits for its answer
  fresh,   \* the cycle before this one had a request
  answer   \* the read data of the cycle after the last request

portHistory == <<asked, fresh, answer>>
portVars == <<registers, inputs, portHistory>>

-----------------------------------------------------------------------------
(* The debug module, the master and the history *)

\* gnt, rvalid and err are constant; the data is anything.
DebugModule == gnt' = TRUE /\ rsp' \in [err : {FALSE}, rdata : Data]

Held(x, ready, S) == IF x # NONE /\ ~ready THEN {x} ELSE Channel(S)

Master == /\ aw' \in Held(aw, Awready, Addr)
          /\ w' \in Held(w, Wready, WData)
          /\ ar' \in Held(ar, Arready, Addr)
          /\ bready' \in BOOLEAN /\ rready' \in BOOLEAN

Answered == (B # NONE /\ bready) \/ (R # NONE /\ rready)

Remember == /\ asked' = IF CoreRequest # NONE THEN CoreRequest
                        ELSE IF Answered THEN NONE ELSE asked
            /\ fresh' = (CoreRequest # NONE)
            /\ answer' = IF fresh THEN rsp.rdata ELSE answer

-----------------------------------------------------------------------------
(* Specification *)

TopInit == /\ Init
           /\ aw = NONE /\ w = NONE /\ ar = NONE
           /\ bready \in BOOLEAN /\ rready \in BOOLEAN
           /\ gnt = TRUE /\ rsp \in [err : {FALSE}, rdata : Data]
           /\ asked = NONE /\ fresh = FALSE /\ answer \in Data

PortClock == Edge /\ DebugModule /\ Master /\ Remember

\* The reset of the whole design, at any moment.
TopReset == /\ Reset /\ DebugModule
            /\ aw' = NONE /\ w' = NONE /\ ar' = NONE
            /\ bready' \in BOOLEAN /\ rready' \in BOOLEAN
            /\ asked' = NONE /\ fresh' = FALSE /\ UNCHANGED answer

PortNext == PortClock \/ TopReset

PortSpec == TopInit /\ [][PortNext]_portVars

-----------------------------------------------------------------------------
(* Properties *)

\* The debug module acts on every cycle with a request (an access to its
\* memory can start a command or acknowledge a halt): with a grant that is
\* always there, each transaction of the bus makes one such cycle, and none
\* is made while the answer to another has not been taken.
OneRequestCycle == CoreRequest # NONE => asked = NONE /\ ~fresh

\* Although rvalid is always high and the data changes every cycle, the bus
\* gets the data of the cycle after the request, however late it takes it.
AnswerIsTheNextCycles ==
  /\ R # NONE => /\ asked # NONE /\ ~asked.we
                 /\ R = [resp |-> "OKAY",
                         data |-> IF fresh THEN rsp.rdata ELSE answer]
  /\ B # NONE => asked # NONE /\ asked.we /\ B = "OKAY"

=============================================================================

--------------------------- MODULE axi4l_slave_tb ---------------------------
(***************************************************************************)
(* The handshake logic of the AXI4-Lite slaves with a master that obeys    *)
(* the protocol and the counters of outstanding beats, as the formal       *)
(* testbench fv/sby/axi4l_dpramx32/tb.sv has them.  What a slave does with *)
(* its beats is added by the modules that extend this one.  One step is    *)
(* one clock cycle.                                                        *)
(***************************************************************************)
EXTENDS axi4l_slave, Naturals

CONSTANTS
  Top,             \* where the counters wrap; 2^32 - 1 in the testbench
  WrAddr, RdAddr   \* the addresses that the master writes and reads

\* No channel ever has more than two beats outstanding.
ASSUME TopAssumption == Top \in Nat /\ Top > 2

ASSUME MasterAssumption == WrAddr \subseteq Addr /\ RdAddr \subseteq Addr

VARIABLES
  f_awr,  \* write addresses taken and not answered
  f_wr,   \* write data beats taken and not answered
  f_rd    \* read addresses taken and not answered

counters == <<f_awr, f_wr, f_rd>>
slaveVars == <<handshake, master, counters>>

-----------------------------------------------------------------------------
(* The master and the counters *)

\* A counter after a cycle with an arrival and/or a departure.
Counted(n, up, down) ==
  IF up /\ ~down THEN (IF n = Top THEN 0 ELSE n + 1)
  ELSE IF down /\ ~up THEN (IF n = 0 THEN Top ELSE n - 1)
  ELSE n

Count == /\ f_awr' = Counted(f_awr, AwTaken, BTaken)
         /\ f_wr'  = Counted(f_wr, WTaken, BTaken)
         /\ f_rd'  = Counted(f_rd, ArTaken, RTaken)

\* What is valid is held, payload included, until it is taken; the ready
\* wires of the master are free.
Offered(x, ready, S) == IF x # NONE /\ ~ready THEN {x} ELSE Channel(S)

MasterDrives == /\ aw' \in Offered(aw, awready, WrAddr)
                /\ w' \in Offered(w, wready, WData)
                /\ ar' \in Offered(ar, arready, RdAddr)
                /\ bready' \in BOOLEAN
                /\ rready' \in BOOLEAN

-----------------------------------------------------------------------------
(* Specification *)

\* Out of reset no response is valid, so that it does not matter whether the
\* master would take one.
SlaveInit == /\ HandshakeInit
             /\ aw = NONE /\ w = NONE /\ ar = NONE
             /\ bready = FALSE /\ rready = FALSE
             /\ f_awr = 0 /\ f_wr = 0 /\ f_rd = 0

SlaveClock == /\ WriteHandshake
              /\ ReadHandshake
              /\ Count
              /\ MasterDrives

\* The reset of the whole design, at any moment.
SlaveReset == /\ HandshakeReset
              /\ aw' = NONE /\ w' = NONE /\ ar' = NONE
              /\ bready' = FALSE /\ rready' = FALSE
              /\ f_awr' = 0 /\ f_wr' = 0 /\ f_rd' = 0

SlaveSpec == SlaveInit /\ [][SlaveClock \/ SlaveReset]_slaveVars

\* For progress: the clock runs, the master takes responses and sends the
\* other half of a write it has sent one half of.  Resets may come at any
\* time.
SentAhead(mine, x, other) == mine > other \/ (mine = other /\ x # NONE)

MasterFairness == /\ []<>(bvalid => bready)
                  /\ []<>(rvalid => rready)
                  /\ []<>(SentAhead(f_awr, aw, f_wr) => w # NONE)
                  /\ []<>(SentAhead(f_wr, w, f_awr) => aw # NONE)

SlaveLiveSpec == SlaveSpec /\ WF_slaveVars(SlaveClock) /\ MasterFairness

-----------------------------------------------------------------------------
(* Properties *)

\* The types.
SlaveTypeOK ==
  /\ awready \in BOOLEAN /\ wready \in BOOLEAN /\ arready \in BOOLEAN
  /\ pre_waddr \in Channel(Addr)
  /\ pre_w \in Channel(WData)
  /\ pre_raddr \in Channel(Addr)
  /\ bvalid \in BOOLEAN /\ rvalid \in BOOLEAN
  /\ aw \in Channel(Addr) /\ w \in Channel(WData) /\ ar \in Channel(Addr)
  /\ bready \in BOOLEAN /\ rready \in BOOLEAN
  /\ f_awr \in 0..2 /\ f_wr \in 0..2 /\ f_rd \in 0..2

\* Every beat that was taken is in one place: behind its ready wire, or, as
\* half of a performed access, on the response channel (the induction
\* hypotheses of the testbench).  So no beat is lost or used twice, and
\* every response belongs to an access.
BeatsAccounted ==
  /\ f_awr = (IF bvalid THEN 1 ELSE 0) + (IF awready THEN 0 ELSE 1)
  /\ f_wr = (IF bvalid THEN 1 ELSE 0) + (IF wready THEN 0 ELSE 1)
  /\ f_rd = (IF rvalid THEN 1 ELSE 0) + (IF arready THEN 0 ELSE 1)

\* The buffers are filled with whatever is on the wires; what was latched
\* while nothing was valid is never used for an access.
JunkNeverUsed ==
  /\ write_enable => waddr # NONE /\ wbeat # NONE
  /\ read_enable => raddr # NONE

\* A ready slave can lose no beat: while a response waits for the master,
\* the beats that are taken stay behind their ready wires.
StallKeepsBeats ==
  [][SlaveClock =>
       /\ write_response_stall =>
            /\ bvalid'
            /\ valid_write_address => ~awready' /\ waddr' = waddr
            /\ valid_write_data => ~wready' /\ wbeat' = wbeat
       /\ read_response_stall =>
            /\ rvalid'
            /\ valid_read_address => ~arready' /\ raddr' = raddr]_slaveVars

\* Every beat is taken in the end, and every access that was taken whole is
\* answered, unless a reset takes it back: a ready wire that fell in a stall
\* rises again.
BeatsServed == /\ aw # NONE ~> AwTaken \/ aw = NONE
               /\ w # NONE ~> WTaken \/ w = NONE
               /\ ar # NONE ~> ArTaken \/ ar = NONE
               /\ f_awr > 0 /\ f_wr > 0 ~> BTaken \/ f_awr = 0
               /\ f_rd > 0 ~> RTaken \/ f_rd = 0

=============================================================================

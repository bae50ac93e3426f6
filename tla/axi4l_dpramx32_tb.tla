-------------------------- MODULE axi4l_dpramx32_tb --------------------------
(***************************************************************************)
(* axi4l_dpramx32 with an AXI4-Lite master that obeys the protocol, as the *)
(* formal testbench fv/sby/axi4l_dpramx32/tb.sv puts it, with the counters *)
(* of that testbench.  One step is one clock cycle.                        *)
(***************************************************************************)
EXTENDS axi4l_dpramx32, axi4l_slave_tb

vars == <<slaveVars, mem, rdata>>

TBInit == RamInit /\ SlaveInit

Clock == RamEdge /\ Count /\ MasterDrives

TBReset == SlaveReset /\ RamReset

Next == Clock \/ TBReset

Spec == TBInit /\ [][Next]_vars

-----------------------------------------------------------------------------
(* Properties *)

\* What a write is meant to do, byte by byte, in a memory that repeats
\* itself every Words words.
WrittenByByte(m, a, wb) ==
  [i \in DOMAIN m |-> [l \in Lanes |->
     IF (a % (4 * Words)) \div 4 = i /\ l \in wb.strb THEN wb.data[l]
     ELSE m[i][l]]]

\* The memory keeps the promise of an AXI4-Lite device: however address and
\* data are skewed and responses delayed, every write pairs its own address,
\* data and strobes and happens once and in order, and every read returns
\* the memory of one moment between its address and its response.
Promise == INSTANCE AxiDevice WITH
  b <- B, r <- R, contents <- mem,
  awq <- IF awready THEN <<>> ELSE <<pre_waddr>>,
  wq <- IF wready THEN <<>> ELSE <<pre_w>>,
  bq <- IF bvalid THEN <<B>> ELSE <<>>,
  arq <- IF arready THEN <<>> ELSE <<pre_raddr>>,
  rq <- IF rvalid THEN <<R>> ELSE <<>>,
  Own <- LAMBDA m : {m},
  AfterReset <- LAMBDA m : m,
  Written <- WrittenByByte,
  WriteResp <- LAMBDA a : "OKAY",
  ReadBeats <- LAMBDA m, a : {[resp |-> "OKAY", data |-> m[(a % (4 * Words)) \div 4]]}

KeepsPromise == Promise!Spec

=============================================================================

------------------------------ MODULE axi4l_led ------------------------------
(***************************************************************************)
(* axi4l_led.sv: one register that drives LEDs.  A write changes it        *)
(* whatever its address is, and every read returns it; only the response   *)
(* tells a wrong address.  The master is that of axi4l_slave_tb.           *)
(***************************************************************************)
EXTENDS axi4l_registers, axi4l_slave_tb

VARIABLE led_reg

vars == <<slaveVars, responses, led_reg>>

-----------------------------------------------------------------------------
(* The device *)

LedWrite == led_reg' = IF write_enable THEN Merged(led_reg, wbeat) ELSE led_reg

LedInit == ResponsesInit /\ led_reg \in Word

LedEdge == /\ WriteHandshake /\ ReadHandshake
           /\ LedWrite /\ NoteWrite(note_enable)
           /\ ReadWord(read_enable, led_reg)

\* The register has no reset.
LedReset == /\ HandshakeReset
            /\ ResponsesReset(led_reg)
            /\ LedWrite \/ (write_enable /\ UNCHANGED led_reg)

-----------------------------------------------------------------------------
(* Specification *)

TBInit == SlaveInit /\ LedInit

Clock == LedEdge /\ Count /\ MasterDrives

TBReset == SlaveReset /\ LedReset

Next == Clock \/ TBReset

Spec == TBInit /\ [][Next]_vars

-----------------------------------------------------------------------------
(* The promise: an AXI4-Lite device with one register, whatever the        *)
(* address; only the response tells whether the address was right (see     *)
(* peripherals).                                                           *)

Promise == INSTANCE AxiDevice WITH
  b <- B, r <- R, contents <- led_reg,
  awq <- IF awready THEN <<>> ELSE <<pre_waddr>>,
  wq <- IF wready THEN <<>> ELSE <<pre_w>>,
  bq <- IF bvalid THEN <<B>> ELSE <<>>,
  arq <- IF arready THEN <<>> ELSE <<pre_raddr>>,
  rq <- IF rvalid THEN <<R>> ELSE <<>>,
  Own <- LAMBDA led : {led},
  AfterReset <- LAMBDA led : led,
  Written <- LAMBDA led, a, wb :
               [l \in Lanes |-> IF l \in wb.strb THEN wb.data[l] ELSE led[l]],
  WriteResp <- LAMBDA a : IF a % 4096 < 4 THEN "OKAY" ELSE "SLVERR",
  ReadBeats <- LAMBDA led, a :
                 {[resp |-> IF a % 4096 < 4 THEN "OKAY" ELSE "SLVERR", data |-> led]}

-----------------------------------------------------------------------------
(* Property *)

\* What fv/jasper/axi4l_led/fv_axi4l_led.sv says (AST_write_led_resp_ok): a
\* cycle that offers the address of the register and does not have it taken,
\* while responses are taken, is followed by an OKAY response.
AST_write_led_resp_ok ==
  [][Clock => (aw # NONE /\ Reg(aw) = 0 /\ ~awready /\ bready
                 => bvalid' /\ bresp' = "OKAY")]_vars

=============================================================================

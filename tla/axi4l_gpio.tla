------------------------------ MODULE axi4l_gpio ------------------------------
(***************************************************************************)
(* axi4l_gpio.sv: 32 pins with an output register, a direction register    *)
(* and a synchronizer of two flip-flops (sync_data.sv) on the input side,  *)
(* and an interrupt wire that is the OR of the synchronized pins.  The     *)
(* master is that of axi4l_slave_tb; the pins may change in any cycle.     *)
(***************************************************************************)
EXTENDS axi4l_registers, axi4l_slave_tb

CONSTANTS Low,   \* the word of 32 zeros
          Pins   \* the words that the pins may show

VARIABLES gpio_o, gpio_en,   \* registers
          gpio_i,            \* input: the pins
          q0, gpio_sync      \* the two stages of the synchronizer

pins == <<gpio_o, gpio_en, gpio_i, q0, gpio_sync>>
vars == <<slaveVars, responses, pins>>

GPIO_DATA == 0
GPIO_DIR == 1

GpioConstants ==
  /\ RegistersConstants /\ Regs = {GPIO_DATA, GPIO_DIR}
  /\ Low \in Word /\ Pins \subseteq Word

-----------------------------------------------------------------------------
(* The device *)

\* Wrong version: the pins are read before the synchronizer has settled.
Selected_unsynchronized ==
  CASE Reg(raddr) = GPIO_DATA -> q0
    [] Reg(raddr) = GPIO_DIR -> gpio_en
    [] OTHER -> rdata

\* The word a read takes; rdata keeps its value where there is no register.
Selected == CASE Reg(raddr) = GPIO_DATA -> gpio_sync
              [] Reg(raddr) = GPIO_DIR -> gpio_en
              [] OTHER -> rdata

gpio_irq == gpio_sync # Low

GpioInit == /\ ResponsesInit
            /\ gpio_o \in Word /\ gpio_en \in Word /\ gpio_i \in Pins
            /\ q0 = Low /\ gpio_sync = Low

WriteTo(reg, old) == IF write_enable /\ Reg(waddr) = reg
                     THEN Merged(old, wbeat) ELSE old

GpioWrite == /\ gpio_o' = WriteTo(GPIO_DATA, gpio_o)
             /\ gpio_en' = WriteTo(GPIO_DIR, gpio_en)

Synchronize == q0' = gpio_i /\ gpio_sync' = q0

GpioEdge == /\ WriteHandshake /\ ReadHandshake
            /\ GpioWrite /\ NoteWrite(note_enable)
            /\ ReadWord(read_enable, Selected)
            /\ Synchronize

\* The synchronizer has a reset, the registers have none.
GpioReset == /\ HandshakeReset
             /\ ResponsesReset(Selected)
             /\ GpioWrite \/ (write_enable /\ UNCHANGED <<gpio_o, gpio_en>>)
             /\ q0' = Low /\ gpio_sync' = Low

-----------------------------------------------------------------------------
(* Specification *)

TBInit == SlaveInit /\ GpioInit

Clock == GpioEdge /\ Count /\ MasterDrives /\ gpio_i' \in Pins

TBReset == SlaveReset /\ GpioReset /\ gpio_i' \in Pins

Next == Clock \/ TBReset

Spec == TBInit /\ [][Next]_vars

-----------------------------------------------------------------------------
(* The promise: an AXI4-Lite device with two registers; a write changes    *)
(* the register it addresses and no other, an access to any other address  *)
(* changes nothing and is answered with an error, and a read returns the   *)
(* direction, or the synchronized pins and not the output (see             *)
(* peripherals).                                                           *)

IsRegister(a) == a % 4096 < 8

Promise == INSTANCE AxiDevice WITH
  b <- B, r <- R,
  contents <- [out |-> gpio_o, dir |-> gpio_en, seen |-> gpio_sync],
  awq <- IF awready THEN <<>> ELSE <<pre_waddr>>,
  wq <- IF wready THEN <<>> ELSE <<pre_w>>,
  bq <- IF bvalid THEN <<B>> ELSE <<>>,
  arq <- IF arready THEN <<>> ELSE <<pre_raddr>>,
  rq <- IF rvalid THEN <<R>> ELSE <<>>,
  Own <- LAMBDA c : {[c EXCEPT !.seen = x] : x \in Word},
  AfterReset <- LAMBDA c : [c EXCEPT !.seen = Low],
  Written <- LAMBDA c, a, wb :
               LET new(old) == [l \in Lanes |-> IF l \in wb.strb THEN wb.data[l]
                                                ELSE old[l]]
               IN IF a % 4096 < 4 THEN [c EXCEPT !.out = new(@)]
                  ELSE IF a % 4096 < 8 THEN [c EXCEPT !.dir = new(@)]
                  ELSE c,
  WriteResp <- LAMBDA a : IF IsRegister(a) THEN "OKAY" ELSE "SLVERR",
  ReadBeats <- LAMBDA c, a :
                 IF a % 4096 < 4 THEN {[resp |-> "OKAY", data |-> c.seen]}
                 ELSE IF a % 4096 < 8 THEN {[resp |-> "OKAY", data |-> c.dir]}
                 ELSE [resp : {"SLVERR"}, data : Word]

=============================================================================

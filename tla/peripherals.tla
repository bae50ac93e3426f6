----------------------------- MODULE peripherals -----------------------------
(***************************************************************************)
(* The three peripherals (axi4l_led, axi4l_gpio, axi4l_timer), each behind *)
(* the handshake and the response registers they share, and each with a    *)
(* master of its own choice of accesses.  The first state chooses which    *)
(* of them this behaviour is about; one step is one clock cycle.           *)
(***************************************************************************)
EXTENDS Naturals

CONSTANTS
  Lanes, Byte, Addr, Data, NONE, Top,
  LedWrAddr, LedRdAddr, LedWData,        \* the accesses of each master
  GpioWrAddr, GpioRdAddr, GpioWData,
  TimerWrAddr, TimerRdAddr, TimerWData,
  Low, Pins                              \* see axi4l_gpio

VARIABLES
  device,   \* the peripheral at hand
  awready, wready, arready, pre_waddr, pre_w, pre_raddr, bvalid, rvalid,
  aw, w, ar, bready, rready, f_awr, f_wr, f_rd, bresp, rresp, rdata,
  led_reg,
  gpio_o, gpio_en, gpio_i, q0, gpio_sync,
  mtime, mtimecmp

ofGpio == <<gpio_o, gpio_en, gpio_i, q0, gpio_sync>>
ofTimer == <<mtime, mtimecmp>>
shared == <<awready, wready, arready, pre_waddr, pre_w, pre_raddr, bvalid,
            rvalid, aw, w, ar, bready, rready, f_awr, f_wr, f_rd, bresp,
            rresp, rdata>>
vars == <<device, shared, led_reg, ofGpio, ofTimer>>

Led == INSTANCE axi4l_led WITH
  Regs <- {0}, WrAddr <- LedWrAddr, RdAddr <- LedRdAddr, WData <- LedWData
Gpio == INSTANCE axi4l_gpio WITH
  Regs <- 0..1, WrAddr <- GpioWrAddr, RdAddr <- GpioRdAddr, WData <- GpioWData
Timer == INSTANCE axi4l_timer WITH
  Regs <- 0..3, WrAddr <- TimerWrAddr, RdAddr <- TimerRdAddr, WData <- TimerWData

\* The constants fit each of the peripherals.
ASSUME PeripheralsAssumption ==
  /\ Led!RegistersConstants /\ Gpio!GpioConstants /\ Timer!TimerConstants
  /\ LedWrAddr \cup LedRdAddr \cup GpioWrAddr \cup GpioRdAddr
       \cup TimerWrAddr \cup TimerRdAddr \subseteq Addr
  /\ NONE \notin Led!resp_t /\ NONE \notin Led!RBeat
  \* A consequence of what Byte and Lanes are; the prover knows no powers.
  /\ \A n \in 0..2 * Timer!Size : Timer!Radix^n \in Nat \ {0}

NoLed == led_reg = NONE
NoGpio == /\ gpio_o = NONE /\ gpio_en = NONE /\ gpio_i = NONE
          /\ q0 = NONE /\ gpio_sync = NONE
NoTimer == mtime = NONE /\ mtimecmp = NONE

Init == \/ device = "led" /\ Led!TBInit /\ NoGpio /\ NoTimer
        \/ device = "gpio" /\ Gpio!TBInit /\ NoLed /\ NoTimer
        \/ device = "timer" /\ Timer!TBInit /\ NoLed /\ NoGpio

Next ==
  /\ UNCHANGED device
  /\ \/ device = "led" /\ Led!Next /\ UNCHANGED <<ofGpio, ofTimer>>
     \/ device = "gpio" /\ Gpio!Next /\ UNCHANGED <<led_reg, ofTimer>>
     \/ device = "timer" /\ Timer!Next /\ UNCHANGED <<led_reg, ofGpio>>

Spec == Init /\ [][Next]_vars

-----------------------------------------------------------------------------
(* Properties *)

\* Each peripheral keeps the promise of an AXI4-Lite device (AxiDevice) with
\* its own registers: each write is performed once, in order, with its own
\* data and strobes, on the register it addresses and no other, and answered
\* with the code of its own address; each read returns the register, the
\* synchronized pins or the time of one moment between its address and its
\* response.
KeepsPromise ==
  /\ device = "led" => Led!Promise!Init
  /\ device = "gpio" => Gpio!Promise!Init
  /\ device = "timer" => Timer!Promise!Init
  /\ [][CASE device = "led" -> Led!Promise!Reset \/ Led!Promise!Cycle
          [] device = "gpio" -> Gpio!Promise!Reset \/ Gpio!Promise!Cycle
          [] device = "timer" -> Timer!Promise!Reset \/ Timer!Promise!Cycle]_vars

\* The interrupt wire of the GPIO and a read of its data register never
\* contradict each other: a read in a cycle with the interrupt pending shows
\* a pin that is high, and a read in any other cycle shows none.
IrqAgreesWithRead ==
  [][device = "gpio" /\ Gpio!read_enable /\ Gpio!Reg(Gpio!raddr) = Gpio!GPIO_DATA
       => (Gpio!gpio_irq <=> rdata' # Low) \/ Gpio!TBReset]_vars

=============================================================================

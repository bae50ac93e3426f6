----------------------------- MODULE axi4l_timer -----------------------------
(***************************************************************************)
(* axi4l_timer.sv: a free running counter of two words and a compare       *)
(* register of two words written byte by byte.  What the interrupt wire    *)
(* makes of the two is in led, with the program that uses it.  The master  *)
(* is that of axi4l_slave_tb.                                              *)
(***************************************************************************)
EXTENDS axi4l_registers, axi4l_slave_tb, FiniteSets

VARIABLES mtime,     \* the counter, as a number
          mtimecmp   \* the compare register: its low and its high word

vars == <<slaveVars, responses, mtime, mtimecmp>>

MTIME == 0
MTIMEH == 1
MTIMECMP == 2
MTIMECMPH == 3

\* Words are numbers written with the digits Byte, lane 0 first.
TimerConstants ==
  /\ RegistersConstants /\ Regs = {MTIME, MTIMEH, MTIMECMP, MTIMECMPH}
  /\ IsFiniteSet(Lanes) /\ Lanes # {} /\ Lanes = 0..(Cardinality(Lanes) - 1)
  /\ IsFiniteSet(Byte) /\ 1 \in Byte /\ Byte = 0..(Cardinality(Byte) - 1)

Radix == Cardinality(Byte)
Size == Cardinality(Lanes)

\* The word of Size digits of n from the digit k on.
Digits(n, k) == [l \in Lanes |-> (n \div Radix^(k + l)) % Radix]

\* The instants before the counter wraps.
Instants == Radix^(2 * Size)

\* The word with every bit set.
Highest == [l \in Lanes |-> Radix - 1]

-----------------------------------------------------------------------------
(* The device *)

\* Wrong version: the halves of the compare register are exchanged.
CompareWrite_exchanged ==
  mtimecmp' =
    IF ~write_enable THEN mtimecmp
    ELSE CASE Reg(waddr) = MTIMECMP -> [mtimecmp EXCEPT ![2] = Merged(@, wbeat)]
           [] Reg(waddr) = MTIMECMPH -> [mtimecmp EXCEPT ![1] = Merged(@, wbeat)]
           [] OTHER -> mtimecmp

\* The counter is read only; a write to it is accepted and has no effect.
CompareWrite ==
  mtimecmp' =
    IF ~write_enable THEN mtimecmp
    ELSE CASE Reg(waddr) = MTIMECMP -> [mtimecmp EXCEPT ![1] = Merged(@, wbeat)]
           [] Reg(waddr) = MTIMECMPH -> [mtimecmp EXCEPT ![2] = Merged(@, wbeat)]
           [] OTHER -> mtimecmp

\* The word a read takes; rdata keeps its value where there is no register.
Selected == CASE Reg(raddr) = MTIME -> Digits(mtime, 0)
              [] Reg(raddr) = MTIMEH -> Digits(mtime, Size)
              [] Reg(raddr) = MTIMECMP -> mtimecmp[1]
              [] Reg(raddr) = MTIMECMPH -> mtimecmp[2]
              [] OTHER -> rdata

Advance == mtime' = (mtime + 1) % Instants

TimerInit == /\ ResponsesInit
             /\ mtime = 0 /\ mtimecmp = <<Highest, Highest>>

TimerEdge == /\ WriteHandshake /\ ReadHandshake
             /\ CompareWrite /\ NoteWrite(note_enable)
             /\ ReadWord(read_enable, Selected)
             /\ Advance

\* A reset puts the interrupt off for as long as possible.
TimerReset == /\ HandshakeReset
              /\ ResponsesReset(Selected)
              /\ mtime' = 0 /\ mtimecmp' = <<Highest, Highest>>

-----------------------------------------------------------------------------
(* Specification *)

TBInit == SlaveInit /\ TimerInit

Clock == TimerEdge /\ Count /\ MasterDrives

TBReset == SlaveReset /\ TimerReset

Next == Clock \/ TBReset

Spec == TBInit /\ [][Next]_vars

-----------------------------------------------------------------------------
(* The promise: an AXI4-Lite device in which time passes, one instant per  *)
(* cycle, whatever is written and read, and compare words that change by   *)
(* writes to their own address only (see peripherals).                     *)

Half(a) == (a % 4096) \div 4

Promise == INSTANCE AxiDevice WITH
  b <- B, r <- R, contents <- [time |-> mtime, cmp |-> mtimecmp],
  awq <- IF awready THEN <<>> ELSE <<pre_waddr>>,
  wq <- IF wready THEN <<>> ELSE <<pre_w>>,
  bq <- IF bvalid THEN <<B>> ELSE <<>>,
  arq <- IF arready THEN <<>> ELSE <<pre_raddr>>,
  rq <- IF rvalid THEN <<R>> ELSE <<>>,
  Own <- LAMBDA c :
           {[c EXCEPT !.time = IF c.time + 1 = Instants THEN 0 ELSE c.time + 1]},
  AfterReset <- LAMBDA c : [time |-> 0, cmp |-> <<Highest, Highest>>],
  Written <- LAMBDA c, a, wb :
               LET new(old) == [l \in Lanes |-> IF l \in wb.strb THEN wb.data[l]
                                                ELSE old[l]]
               IN IF Half(a) = 2 THEN [c EXCEPT !.cmp[1] = new(@)]
                  ELSE IF Half(a) = 3 THEN [c EXCEPT !.cmp[2] = new(@)]
                  ELSE c,
  WriteResp <- LAMBDA a : IF Half(a) < 4 THEN "OKAY" ELSE "SLVERR",
  ReadBeats <- LAMBDA c, a :
                 IF Half(a) < 4
                 THEN {[resp |-> "OKAY",
                        data |-> CASE Half(a) = 0 -> Digits(c.time, 0)
                                   [] Half(a) = 1 -> Digits(c.time, Size)
                                   [] Half(a) = 2 -> c.cmp[1]
                                   [] Half(a) = 3 -> c.cmp[2]]}
                 ELSE [resp : {"SLVERR"}, data : Word]

=============================================================================

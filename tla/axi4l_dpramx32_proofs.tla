------------------------ MODULE axi4l_dpramx32_proofs ------------------------
(***************************************************************************)
(* First, for all addresses, data and masters, the safety properties and   *)
(* the progress of the handshake logic that every AXI4-Lite slave of the   *)
(* SoC has (axi4l_slave_tb).                                               *)
(*                                                                         *)
(* Then: the memory implements the abstract AXI4-Lite device, for any      *)
(* number of words, any word, any addresses and any master that obeys the  *)
(* protocol; each cycle of the memory is a cycle of the device, each reset *)
(* a reset.                                                                *)
(***************************************************************************)
EXTENDS axi4l_dpramx32_tb, Integers, Sequences, TLAPS

-----------------------------------------------------------------------------
(* The handshake *)

\* A buffer behind a low ready wire holds a beat.  With the accounting of
\* beats this is inductive.
Buffered == /\ ~awready => pre_waddr # NONE
            /\ ~wready => pre_w # NONE
            /\ ~arready => pre_raddr # NONE

\* The types, but for the bounds of the counters, which follow.
Types ==
  /\ awready \in BOOLEAN /\ wready \in BOOLEAN /\ arready \in BOOLEAN
  /\ pre_waddr \in Channel(Addr)
  /\ pre_w \in Channel(WData)
  /\ pre_raddr \in Channel(Addr)
  /\ bvalid \in BOOLEAN /\ rvalid \in BOOLEAN
  /\ aw \in Channel(Addr) /\ w \in Channel(WData) /\ ar \in Channel(Addr)
  /\ bready \in BOOLEAN /\ rready \in BOOLEAN

IInv == Types /\ BeatsAccounted /\ Buffered

LEMMA InitIInv == SlaveInit => IInv
  <1> SUFFICES ASSUME SlaveInit PROVE IInv
    OBVIOUS
  <1>1. Types
    BY DEF SlaveInit, HandshakeInit, Types, Channel
  <1>2. /\ awready /\ wready /\ arready
        /\ ~bvalid /\ ~rvalid
    BY DEF SlaveInit, HandshakeInit
  <1>3. f_awr = 0 /\ f_wr = 0 /\ f_rd = 0
    BY DEF SlaveInit
  <1>4. BeatsAccounted
    BY <1>2, <1>3 DEF BeatsAccounted
  <1> QED
    BY <1>1, <1>2, <1>4 DEF IInv, Buffered

\* The registers of the handshake after a clock cycle, as formulas.
LEMMA ClockWires ==
  SlaveClock =>
    /\ awready' <=> IF bvalid /\ ~bready THEN aw = NONE /\ awready
                    ELSE w # NONE \/ ~wready \/ (awready /\ aw = NONE)
    /\ wready' <=> IF bvalid /\ ~bready THEN w = NONE /\ wready
                   ELSE aw # NONE \/ ~awready \/ (wready /\ w = NONE)
    /\ arready' <=> ((rvalid /\ ~rready) => (ar = NONE /\ arready))
    /\ bvalid' <=> \/ (aw # NONE \/ ~awready) /\ (w # NONE \/ ~wready)
                   \/ bvalid /\ ~bready
    /\ rvalid' <=> ar # NONE \/ ~arready \/ (rvalid /\ ~rready)
  BY DEF SlaveClock, WriteHandshake, ReadHandshake, AwreadyNext, WreadyNext,
     ArreadyNext, BvalidNext, RvalidNext, valid_write_address,
     valid_write_data, valid_read_address, write_response_stall,
     read_response_stall

LEMMA ClockTypes == Types /\ SlaveClock => Types'
  <1> SUFFICES ASSUME Types, SlaveClock PROVE Types'
    OBVIOUS
  <1>1. /\ aw' \in Channel(Addr) /\ w' \in Channel(WData) /\ ar' \in Channel(Addr)
        /\ bready' \in BOOLEAN /\ rready' \in BOOLEAN
    BY MasterAssumption DEF Types, SlaveClock, MasterDrives, Offered, Channel
  <1>2. /\ awready' \in BOOLEAN /\ wready' \in BOOLEAN /\ bvalid' \in BOOLEAN
        /\ arready' \in BOOLEAN /\ rvalid' \in BOOLEAN
    BY DEF Types, SlaveClock, WriteHandshake, ReadHandshake, AwreadyNext,
       WreadyNext, ArreadyNext, BvalidNext, RvalidNext, valid_write_address,
       valid_write_data, valid_read_address, write_response_stall,
       read_response_stall
  <1>3. /\ pre_waddr' \in Channel(Addr) /\ pre_w' \in Channel(WData)
        /\ pre_raddr' \in Channel(Addr)
    BY DEF Types, SlaveClock, WriteHandshake, ReadHandshake
  <1> QED
    BY <1>1, <1>2, <1>3 DEF Types

\* What leaves a beat behind its ready wire is that it came, or was there.
LEMMA ClockBuffered == Types /\ Buffered /\ SlaveClock => Buffered'
  <1> SUFFICES ASSUME Types, Buffered, SlaveClock PROVE Buffered'
    OBVIOUS
  <1>1. ~awready' => pre_waddr' # NONE
    BY DEF Types, Buffered, SlaveClock, WriteHandshake, AwreadyNext,
       valid_write_address
  <1>2. ~wready' => pre_w' # NONE
    BY DEF Types, Buffered, SlaveClock, WriteHandshake, WreadyNext,
       valid_write_data
  <1>3. ~arready' => pre_raddr' # NONE
    BY DEF Types, Buffered, SlaveClock, ReadHandshake, ArreadyNext,
       valid_read_address
  <1> QED
    BY <1>1, <1>2, <1>3 DEF Buffered

\* Arrivals and departures of a cycle against the new ready and valid wires.
LEMMA ClockAccounted ==
  Types /\ BeatsAccounted /\ SlaveClock => BeatsAccounted'
  <1> SUFFICES ASSUME Types, BeatsAccounted, SlaveClock PROVE BeatsAccounted'
    OBVIOUS
  <1>1. f_awr' = (IF bvalid' THEN 1 ELSE 0) + (IF awready' THEN 0 ELSE 1)
    <2>1. f_awr' = Counted(f_awr, aw # NONE /\ awready, bvalid /\ bready)
      BY DEF SlaveClock, Count, AwTaken, BTaken
    <2>2. f_awr = (IF bvalid THEN 1 ELSE 0) + (IF awready THEN 0 ELSE 1)
      BY DEF BeatsAccounted
    <2> QED
      BY <2>1, <2>2, ClockWires, TopAssumption DEF Counted
  <1>2. f_wr' = (IF bvalid' THEN 1 ELSE 0) + (IF wready' THEN 0 ELSE 1)
    <2>1. f_wr' = Counted(f_wr, w # NONE /\ wready, bvalid /\ bready)
      BY DEF SlaveClock, Count, WTaken, BTaken
    <2>2. f_wr = (IF bvalid THEN 1 ELSE 0) + (IF wready THEN 0 ELSE 1)
      BY DEF BeatsAccounted
    <2> QED
      BY <2>1, <2>2, ClockWires, TopAssumption DEF Counted
  <1>3. f_rd' = (IF rvalid' THEN 1 ELSE 0) + (IF arready' THEN 0 ELSE 1)
    <2>1. f_rd' = Counted(f_rd, ar # NONE /\ arready, rvalid /\ rready)
      BY DEF SlaveClock, Count, ArTaken, RTaken
    <2>2. f_rd = (IF rvalid THEN 1 ELSE 0) + (IF arready THEN 0 ELSE 1)
      BY DEF BeatsAccounted
    <2> QED
      BY <2>1, <2>2, ClockWires, TopAssumption DEF Counted
  <1> QED
    BY <1>1, <1>2, <1>3 DEF BeatsAccounted

LEMMA NextIInv == IInv /\ [SlaveClock \/ SlaveReset]_slaveVars => IInv'
  <1> SUFFICES ASSUME IInv, [SlaveClock \/ SlaveReset]_slaveVars PROVE IInv'
    OBVIOUS
  <1>1. CASE SlaveClock
    BY <1>1, ClockTypes, ClockBuffered, ClockAccounted DEF IInv
  <1>2. CASE SlaveReset
    <2>1. Types'
      <3>1. /\ waddr \in Channel(Addr) /\ aw \in Channel(Addr)
            /\ wbeat \in Channel(WData) /\ w \in Channel(WData)
            /\ raddr \in Channel(Addr) /\ ar \in Channel(Addr)
        BY DEF IInv, Types, waddr, wbeat, raddr
      <3>2. /\ pre_waddr' \in Channel(Addr)
            /\ pre_w' \in Channel(WData)
            /\ pre_raddr' \in Channel(Addr)
        BY <1>2, <3>1 DEF SlaveReset, HandshakeReset, Channel
      <3> QED
        BY <1>2, <3>2 DEF SlaveReset, HandshakeReset, Types, Channel
    <2>2. /\ awready' /\ wready' /\ arready'
          /\ ~bvalid' /\ ~rvalid'
      BY <1>2 DEF SlaveReset, HandshakeReset
    <2>3. f_awr' = 0 /\ f_wr' = 0 /\ f_rd' = 0
      BY <1>2 DEF SlaveReset
    <2>4. BeatsAccounted'
      BY <2>2, <2>3 DEF BeatsAccounted
    <2> QED
      BY <2>1, <2>2, <2>4 DEF IInv, Buffered
  <1>3. CASE UNCHANGED slaveVars
    BY <1>3 DEF slaveVars, handshake, master, counters, IInv, Types,
       BeatsAccounted, Buffered
  <1> QED
    BY <1>1, <1>2, <1>3

LEMMA Invariance == SlaveSpec => []IInv
  BY InitIInv, NextIInv, PTL DEF SlaveSpec

-----------------------------------------------------------------------------
\* Types, and never more than two beats outstanding on a channel.
THEOREM SlaveTypeCorrect == SlaveSpec => []SlaveTypeOK
  <1>1. IInv => SlaveTypeOK
    BY DEF IInv, Types, BeatsAccounted, SlaveTypeOK
  <1> QED
    BY <1>1, Invariance, PTL

\* Every beat taken is behind its ready wire or on the response channel.
THEOREM NoBeatLost == SlaveSpec => []BeatsAccounted
  <1>1. IInv => BeatsAccounted
    BY DEF IInv
  <1> QED
    BY <1>1, Invariance, PTL

\* No access ever uses what a buffer latched while nothing was valid.
THEOREM NoJunk == SlaveSpec => []JunkNeverUsed
  <1>1. IInv => JunkNeverUsed
    BY DEF IInv, Buffered, JunkNeverUsed, write_enable, read_enable, waddr, wbeat,
       raddr, valid_write_address, valid_write_data, valid_read_address
  <1> QED
    BY <1>1, Invariance, PTL

\* In a stall, a beat that is inside or comes in stays behind its ready wire.
THEOREM StallsAreSafe == SlaveSpec => StallKeepsBeats
  <1>1. Types /\ SlaveClock =>
          /\ write_response_stall =>
               /\ bvalid'
               /\ valid_write_address => ~awready' /\ waddr' = waddr
               /\ valid_write_data => ~wready' /\ wbeat' = wbeat
          /\ read_response_stall =>
               /\ rvalid'
               /\ valid_read_address => ~arready' /\ raddr' = raddr
    <2> SUFFICES ASSUME Types, SlaveClock
                 PROVE  /\ write_response_stall =>
                             /\ bvalid'
                             /\ valid_write_address =>
                                  ~awready' /\ waddr' = waddr
                             /\ valid_write_data => ~wready' /\ wbeat' = wbeat
                        /\ read_response_stall =>
                             /\ rvalid'
                             /\ valid_read_address =>
                                  ~arready' /\ raddr' = raddr
      OBVIOUS
    <2>1. ASSUME write_response_stall
          PROVE  /\ bvalid'
                 /\ valid_write_address => ~awready' /\ waddr' = waddr
                 /\ valid_write_data => ~wready' /\ wbeat' = wbeat
      BY <2>1 DEF SlaveClock, WriteHandshake, AwreadyNext, WreadyNext, BvalidNext,
         write_response_stall, waddr, wbeat
    <2>2. ASSUME read_response_stall
          PROVE  /\ rvalid'
                 /\ valid_read_address => ~arready' /\ raddr' = raddr
      BY <2>2 DEF SlaveClock, ReadHandshake, ArreadyNext, RvalidNext,
         read_response_stall, raddr
    <2> QED
      BY <2>1, <2>2
  <1>2. IInv => Types
    BY DEF IInv
  <1> QED
    BY <1>1, <1>2, Invariance, PTL DEF SlaveSpec, StallKeepsBeats

-----------------------------------------------------------------------------
(* Progress of the handshake *)

\* The clock never stops.
ClockRuns == []<><<SlaveClock>>_slaveVars

\* What separates this from the fairness that the run assumes, WF_slaveVars(SlaveClock),
\* is that a cycle is possible at any time.
LEMMA ClockRunsIfItCan ==
  SlaveLiveSpec /\ [](ENABLED <<SlaveClock>>_slaveVars) => SlaveSpec /\ ClockRuns /\ MasterFairness
  BY PTL DEF SlaveLiveSpec, ClockRuns

\* What a beat, and an access, wait for.
AddressServed == AwTaken \/ aw = NONE
DataServed == WTaken \/ w = NONE
ReadServed == ArTaken \/ ar = NONE
WriteAnswered == BTaken \/ f_awr = 0
ReadAnswered == RTaken \/ f_rd = 0

\* A beat waits because the one before it is still in its buffer: alone, with
\* the other half of its write on the wires, or whole but in a stall.
Alone == ~awready /\ wready /\ aw # NONE
AloneData == awready /\ ~wready /\ w # NONE
Whole == ~awready /\ ~wready
WholeRead == ~arready

\* A step is a clock cycle that keeps what is offered, the reset, which takes
\* it back, or nothing.
LEMMA BeatsStay ==
  ASSUME [SlaveClock \/ SlaveReset]_slaveVars
  PROVE  \/ aw' = NONE /\ w' = NONE /\ ar' = NONE /\ f_awr' = 0 /\ f_rd' = 0
         \/ UNCHANGED slaveVars
         \/ /\ SlaveClock
            /\ aw # NONE /\ ~awready => aw' = aw
            /\ w # NONE /\ ~wready => w' = w
            /\ ar # NONE /\ ~arready => ar' = ar
  BY DEF SlaveClock, MasterDrives, Offered, SlaveReset

\* A whole write that is inside is performed as soon as there is no stall.
LEMMA WholeIsPerformed ==
  /\ SlaveSpec /\ ClockRuns /\ MasterFairness => (Whole /\ aw # NONE ~> AddressServed)
  /\ SlaveSpec /\ ClockRuns /\ MasterFairness => (Whole /\ w # NONE ~> DataServed)
  <1> DEFINE Step == [SlaveClock \/ SlaveReset]_slaveVars
             A == Whole /\ aw # NONE
             GoA == A /\ (bvalid => bready)
             D == Whole /\ w # NONE
             GoD == D /\ (bvalid => bready)
  <1>1. Step /\ A /\ ~AddressServed => A' \/ AddressServed'
    BY BeatsStay, ClockWires
       DEF Whole, AddressServed, AwTaken, slaveVars, handshake, master
  <1>2. Step /\ GoA /\ ~AddressServed => GoA' \/ AddressServed'
    BY BeatsStay, ClockWires
       DEF Whole, AddressServed, AwTaken, slaveVars, handshake, master
  <1>3. <<SlaveClock>>_slaveVars /\ GoA => AddressServed'
    BY BeatsStay, ClockWires DEF Whole, AddressServed, AwTaken
  <1>4. Step /\ D /\ ~DataServed => D' \/ DataServed'
    BY BeatsStay, ClockWires
       DEF Whole, DataServed, WTaken, slaveVars, handshake, master
  <1>5. Step /\ GoD /\ ~DataServed => GoD' \/ DataServed'
    BY BeatsStay, ClockWires
       DEF Whole, DataServed, WTaken, slaveVars, handshake, master
  <1>6. <<SlaveClock>>_slaveVars /\ GoD => DataServed'
    BY BeatsStay, ClockWires DEF Whole, DataServed, WTaken
  <1>7. /\ A /\ (bvalid => bready) => GoA
        /\ D /\ (bvalid => bready) => GoD
        /\ A <=> Whole /\ aw # NONE
        /\ D <=> Whole /\ w # NONE
    OBVIOUS
  <1> HIDE DEF A, GoA, D, GoD
  <1>8. SlaveSpec /\ ClockRuns /\ MasterFairness => (A ~> AddressServed)
    BY <1>1, <1>2, <1>3, <1>7, PTL DEF SlaveSpec, ClockRuns, MasterFairness
  <1>9. SlaveSpec /\ ClockRuns /\ MasterFairness => (D ~> DataServed)
    BY <1>4, <1>5, <1>6, <1>7, PTL DEF SlaveSpec, ClockRuns, MasterFairness
  <1> QED
    BY <1>8, <1>9 DEF A, D

\* An address that is inside waits for its data, which the master owes.
LEMMA AddressMeetsData ==
  SlaveSpec /\ ClockRuns /\ MasterFairness => (Alone ~> AddressServed)
  <1> DEFINE Step == [SlaveClock \/ SlaveReset]_slaveVars
             Met == Alone /\ w # NONE
             A == Whole /\ aw # NONE
  <1>1. Step /\ Alone /\ ~AddressServed => Alone' \/ A' \/ AddressServed'
    BY BeatsStay, ClockWires
       DEF Alone, Whole, AddressServed, AwTaken, slaveVars, handshake, master
  <1>2. Step /\ Met /\ ~AddressServed => Met' \/ A' \/ AddressServed'
    BY BeatsStay, ClockWires
       DEF Alone, Whole, AddressServed, AwTaken, slaveVars, handshake, master
  <1>3. <<SlaveClock>>_slaveVars /\ Met => A' \/ AddressServed'
    BY BeatsStay, ClockWires DEF Alone, Whole, AddressServed, AwTaken
  <1>4. IInv /\ Alone => SentAhead(f_awr, aw, f_wr)
    BY DEF IInv, BeatsAccounted, Alone, SentAhead
  <1>5. Alone /\ w # NONE => Met
    OBVIOUS
  <1>6. A => Whole /\ aw # NONE
    OBVIOUS
  <1> HIDE DEF Met, A
  <1> QED
    BY <1>1, <1>2, <1>3, <1>4, <1>5, <1>6, WholeIsPerformed, Invariance, PTL
       DEF SlaveSpec, ClockRuns, MasterFairness

\* Data that is inside waits for its address, which the master owes.
LEMMA DataMeetsAddress ==
  SlaveSpec /\ ClockRuns /\ MasterFairness => (AloneData ~> DataServed)
  <1> DEFINE Step == [SlaveClock \/ SlaveReset]_slaveVars
             Met == AloneData /\ aw # NONE
             D == Whole /\ w # NONE
  <1>1. Step /\ AloneData /\ ~DataServed => AloneData' \/ D' \/ DataServed'
    BY BeatsStay, ClockWires
       DEF AloneData, Whole, DataServed, WTaken, slaveVars, handshake, master
  <1>2. Step /\ Met /\ ~DataServed => Met' \/ D' \/ DataServed'
    BY BeatsStay, ClockWires
       DEF AloneData, Whole, DataServed, WTaken, slaveVars, handshake, master
  <1>3. <<SlaveClock>>_slaveVars /\ Met => D' \/ DataServed'
    BY BeatsStay, ClockWires DEF AloneData, Whole, DataServed, WTaken
  <1>4. IInv /\ AloneData => SentAhead(f_wr, w, f_awr)
    BY DEF IInv, BeatsAccounted, AloneData, SentAhead
  <1>5. AloneData /\ aw # NONE => Met
    OBVIOUS
  <1>6. D => Whole /\ w # NONE
    OBVIOUS
  <1> HIDE DEF Met, D
  <1> QED
    BY <1>1, <1>2, <1>3, <1>4, <1>5, <1>6, WholeIsPerformed, Invariance, PTL
       DEF SlaveSpec, ClockRuns, MasterFairness

\* A read that is inside is performed as soon as there is no stall.
LEMMA WholeReadIsPerformed ==
  SlaveSpec /\ ClockRuns /\ MasterFairness => (WholeRead /\ ar # NONE ~> ReadServed)
  <1> DEFINE Step == [SlaveClock \/ SlaveReset]_slaveVars
             A == WholeRead /\ ar # NONE
             Go == A /\ (rvalid => rready)
  <1>1. Step /\ A /\ ~ReadServed => A' \/ ReadServed'
    BY BeatsStay, ClockWires
       DEF WholeRead, ReadServed, ArTaken, slaveVars, handshake, master
  <1>2. Step /\ Go /\ ~ReadServed => Go' \/ ReadServed'
    BY BeatsStay, ClockWires
       DEF WholeRead, ReadServed, ArTaken, slaveVars, handshake, master
  <1>3. <<SlaveClock>>_slaveVars /\ Go => ReadServed'
    BY BeatsStay, ClockWires DEF WholeRead, ReadServed, ArTaken
  <1>4. A /\ (rvalid => rready) => Go
    OBVIOUS
  <1>5. A <=> WholeRead /\ ar # NONE
    OBVIOUS
  <1> HIDE DEF A, Go
  <1> QED
    BY <1>1, <1>2, <1>3, <1>4, <1>5, PTL DEF SlaveSpec, ClockRuns, MasterFairness

\* A response that is up is taken.
LEMMA ResponsesTaken ==
  /\ SlaveSpec /\ MasterFairness => (bvalid ~> WriteAnswered)
  /\ SlaveSpec /\ MasterFairness => (rvalid ~> ReadAnswered)
  <1> DEFINE Step == [SlaveClock \/ SlaveReset]_slaveVars
  <1>1. Step /\ bvalid /\ ~WriteAnswered => bvalid' \/ WriteAnswered'
    BY BeatsStay, ClockWires DEF WriteAnswered, BTaken, slaveVars, handshake
  <1>2. bvalid /\ bready => WriteAnswered
    BY DEF WriteAnswered, BTaken
  <1>3. Step /\ rvalid /\ ~ReadAnswered => rvalid' \/ ReadAnswered'
    BY BeatsStay, ClockWires DEF ReadAnswered, RTaken, slaveVars, handshake
  <1>4. rvalid /\ rready => ReadAnswered
    BY DEF ReadAnswered, RTaken
  <1>5. SlaveSpec /\ MasterFairness => (bvalid ~> WriteAnswered)
    BY <1>1, <1>2, PTL DEF SlaveSpec, MasterFairness
  <1>6. SlaveSpec /\ MasterFairness => (rvalid ~> ReadAnswered)
    BY <1>3, <1>4, PTL DEF SlaveSpec, MasterFairness
  <1> QED
    BY <1>5, <1>6

\* The response to a whole access goes up with the next clock cycle.
LEMMA ResponsesComeUp ==
  /\ SlaveSpec /\ ClockRuns /\ MasterFairness => (Whole ~> WriteAnswered)
  /\ SlaveSpec /\ ClockRuns /\ MasterFairness => (WholeRead ~> ReadAnswered)
  <1> DEFINE Step == [SlaveClock \/ SlaveReset]_slaveVars
  <1>1. Step /\ Whole => Whole' \/ bvalid' \/ WriteAnswered'
    BY BeatsStay, ClockWires DEF Whole, WriteAnswered, slaveVars, handshake
  <1>2. <<SlaveClock>>_slaveVars /\ Whole => bvalid'
    BY ClockWires DEF Whole
  <1>3. Step /\ WholeRead => WholeRead' \/ rvalid' \/ ReadAnswered'
    BY BeatsStay, ClockWires DEF WholeRead, ReadAnswered, slaveVars, handshake
  <1>4. <<SlaveClock>>_slaveVars /\ WholeRead => rvalid'
    BY ClockWires DEF WholeRead
  <1>5. SlaveSpec /\ ClockRuns /\ MasterFairness => (Whole ~> WriteAnswered)
    BY <1>1, <1>2, ResponsesTaken, PTL DEF SlaveSpec, ClockRuns
  <1>6. SlaveSpec /\ ClockRuns /\ MasterFairness => (WholeRead ~> ReadAnswered)
    BY <1>3, <1>4, ResponsesTaken, PTL DEF SlaveSpec, ClockRuns
  <1> QED
    BY <1>5, <1>6

\* As long as the clock runs, the master takes responses and sends the other
\* half of a write, every beat is taken and every access answered, whatever
\* stalls and resets come between: no ready wire stays low for good.
THEOREM EveryBeatServed == SlaveSpec /\ ClockRuns /\ MasterFairness => BeatsServed
  <1>1. IInv /\ aw # NONE => AddressServed \/ Alone \/ (Whole /\ aw # NONE)
    BY DEF IInv, Types, AddressServed, AwTaken, Alone, Whole
  <1>2. IInv /\ w # NONE => DataServed \/ AloneData \/ (Whole /\ w # NONE)
    BY DEF IInv, Types, DataServed, WTaken, AloneData, Whole
  <1>3. IInv /\ ar # NONE => ReadServed \/ (WholeRead /\ ar # NONE)
    BY DEF IInv, Types, ReadServed, ArTaken, WholeRead
  <1>4. IInv /\ f_awr > 0 /\ f_wr > 0 => bvalid \/ Whole
    BY DEF IInv, Types, BeatsAccounted, Whole
  <1>5. IInv /\ f_rd > 0 => rvalid \/ WholeRead
    BY DEF IInv, Types, BeatsAccounted, WholeRead
  <1> QED
    BY <1>1, <1>2, <1>3, <1>4, <1>5, WholeIsPerformed, AddressMeetsData, DataMeetsAddress,
       WholeReadIsPerformed, ResponsesTaken, ResponsesComeUp, Invariance, PTL
       DEF BeatsServed, AddressServed, DataServed, ReadServed, WriteAnswered, ReadAnswered

-----------------------------------------------------------------------------
(* The memory *)

\* What is stored are words.
Contents == mem \in [0..Words - 1 -> Word] /\ rdata \in Word

-----------------------------------------------------------------------------
(* The word that an address selects *)

\* A multiple that is smaller than a higher multiple has a smaller factor.
LEMMA SmallerFactor ==
  ASSUME NEW p \in Int, NEW q \in Int, NEW m \in Nat \ {0}, p * m < (q + 1) * m
  PROVE  p <= q
  <1> SUFFICES ASSUME p >= q + 1 PROVE FALSE
    OBVIOUS
  <1> DEFINE k == p - (q + 1)
  <1>1. k \in Nat /\ k * m >= 0
    OBVIOUS
  <1>2. p * m = (q + 1) * m + k * m
    OBVIOUS
  <1> QED
    BY <1>1, <1>2

\* Quotient and remainder are the only ones.
LEMMA OneQuotient ==
  ASSUME NEW n \in Nat, NEW m \in Nat \ {0}, NEW q \in Nat, NEW r \in 0..m - 1,
         n = q * m + r
  PROVE  n \div m = q /\ n % m = r
  <1> DEFINE d == n \div m
             e == n % m
  <1>1. d \in Nat /\ e \in 0..m - 1 /\ n = d * m + e
    OBVIOUS
  <1> HIDE DEF d, e
  <1>2. d * m < (q + 1) * m /\ q * m < (d + 1) * m
    BY <1>1
  <1>3. d = q
    BY <1>1, <1>2, SmallerFactor
  <1> QED
    BY <1>1, <1>3 DEF d, e

\* The bits of the address that the memory looks at are the number of the
\* word in a memory that repeats itself.
LEMMA IndexIsTheWord ==
  ASSUME NEW a \in Nat
  PROVE  Index(a) \in 0..Words - 1 /\ (a % (4 * Words)) \div 4 = Index(a)
  <1> DEFINE q == a \div 4
             r == a % 4
             s == q \div Words
             t == q % Words
  <1>1. q \in Nat /\ r \in 0..3 /\ a = 4 * q + r
    OBVIOUS
  <1>2. Words \in Nat \ {0}
    BY DpramAssumption
  <1>3. Index(a) = t
    BY DEF Index
  <1> HIDE DEF q, r
  <1>4. s \in Nat /\ t \in 0..Words - 1 /\ q = s * Words + t
    BY <1>1, <1>2
  <1> HIDE DEF s, t
  <1> DEFINE m == 4 * Words
             u == 4 * t + r
  <1>5. u \in Nat /\ m \in Nat \ {0} /\ u \in 0..m - 1
    BY <1>1, <1>2, <1>4
  <1>6. a = s * m + u
    <2> DEFINE v == s * Words
    <2>1. v \in Nat /\ q = v + t /\ s * m = 4 * v
      BY <1>2, <1>4
    <2> HIDE DEF v, m
    <2> QED
      BY <1>1, <1>4, <2>1
  <1>7. u = t * 4 + r
    BY <1>1, <1>4
  <1>8. u \div 4 = t
    BY <1>1, <1>4, <1>5, <1>7, OneQuotient
  <1> HIDE DEF m, u
  <1>9. a % m = u
    BY <1>4, <1>5, <1>6, OneQuotient
  <1> QED
    BY <1>3, <1>4, <1>8, <1>9 DEF m

\* What the lanes of a write do is what a write is meant to do.
LEMMA WriteIsMeant ==
  ASSUME NEW m \in [0..Words - 1 -> Word], NEW a \in Addr, NEW d \in WData
  PROVE  /\ Stored(m, a, d) = WrittenByByte(m, a, d)
         /\ Stored(m, a, d) \in [0..Words - 1 -> Word]
  <1>1. a \in Nat
    BY DpramAssumption
  <1>2. d.data \in Word /\ d.strb \subseteq Lanes
    BY DpramAssumption
  <1> DEFINE i == Index(a)
             new == [l \in Lanes |-> IF l \in d.strb THEN d.data[l] ELSE m[i][l]]
  <1>3. i \in 0..Words - 1 /\ (a % (4 * Words)) \div 4 = i
    BY <1>1, IndexIsTheWord
  <1>4. Stored(m, a, d) = [m EXCEPT ![i] = new]
    BY DEF Stored
  <1> HIDE DEF i
  <1>5. new \in Word
    BY <1>2, <1>3 DEF Word
  <1>6. ASSUME NEW k \in 0..Words - 1, k # i
        PROVE  m[k] = [l \in Lanes |-> IF i = k /\ l \in d.strb THEN d.data[l] ELSE m[k][l]]
    <2>1. m[k] \in [Lanes -> Byte]
      BY DEF Word
    <2> QED
      BY <1>6, <2>1
  <1>7. new = [l \in Lanes |-> IF i = i /\ l \in d.strb THEN d.data[l] ELSE m[i][l]]
    OBVIOUS
  <1> HIDE DEF new
  <1>8. [m EXCEPT ![i] = new] \in [0..Words - 1 -> Word]
    BY <1>5
  <1>9. WrittenByByte(m, a, d) =
          [k \in 0..Words - 1 |-> [l \in Lanes |->
             IF i = k /\ l \in d.strb THEN d.data[l] ELSE m[k][l]]]
    BY <1>3 DEF WrittenByByte
  <1>10. [m EXCEPT ![i] = new] = [k \in 0..Words - 1 |-> IF k = i THEN new ELSE m[k]]
    OBVIOUS
  <1>11. [k \in 0..Words - 1 |-> IF k = i THEN new ELSE m[k]] =
           [k \in 0..Words - 1 |-> [l \in Lanes |->
              IF i = k /\ l \in d.strb THEN d.data[l] ELSE m[k][l]]]
    BY <1>6, <1>7
  <1> QED
    BY <1>4, <1>8, <1>9, <1>10, <1>11

-----------------------------------------------------------------------------
(* The queues of the device *)

\* What the wires of a response carry is not NONE.
LEMMA Codes == "OKAY" # NONE
  BY NoneAssumption DEF resp_t

LEMMA ReadBeat ==
  ASSUME NEW x \in Word
  PROVE  [resp |-> "OKAY", data |-> x] # NONE
  <1>1. [resp |-> "OKAY", data |-> x] \in RBeat
    BY DpramAssumption DEF RBeat, LiteResp, resp_t
  <1> QED
    BY <1>1, NoneAssumption

\* Behind each channel there is one beat at most once those of the cycle
\* have arrived, and one response at most once those taken have left.
LEMMA Arrived ==
  ASSUME Types
  PROVE  /\ Promise!awIn = IF valid_write_address THEN <<waddr>> ELSE <<>>
         /\ Promise!wIn = IF valid_write_data THEN <<wbeat>> ELSE <<>>
         /\ Promise!arIn = IF valid_read_address THEN <<raddr>> ELSE <<>>
  <1>1. Promise!awIn = IF valid_write_address THEN <<waddr>> ELSE <<>>
    BY DEF Types, Promise!awIn, Promise!With, valid_write_address, waddr
  <1>2. Promise!wIn = IF valid_write_data THEN <<wbeat>> ELSE <<>>
    BY DEF Types, Promise!wIn, Promise!With, valid_write_data, wbeat
  <1>3. Promise!arIn = IF valid_read_address THEN <<raddr>> ELSE <<>>
    BY DEF Types, Promise!arIn, Promise!With, valid_read_address, raddr
  <1> QED
    BY <1>1, <1>2, <1>3

LEMMA Left ==
  ASSUME Types, Contents
  PROVE  /\ Promise!bOut = IF write_response_stall THEN <<"OKAY">> ELSE <<>>
         /\ Promise!rOut = IF read_response_stall
                           THEN <<[resp |-> "OKAY", data |-> rdata]>> ELSE <<>>
  <1>1. Promise!bOut = IF write_response_stall THEN <<"OKAY">> ELSE <<>>
    BY Codes DEF Types, Promise!bOut, Promise!Without, write_response_stall, B
  <1>2. [resp |-> "OKAY", data |-> rdata] # NONE
    BY ReadBeat DEF Contents
  <1>3. Promise!rOut = IF read_response_stall
                       THEN <<[resp |-> "OKAY", data |-> rdata]>> ELSE <<>>
    BY <1>2 DEF Types, Promise!rOut, Promise!Without, read_response_stall, R
  <1> QED
    BY <1>1, <1>3

\* The beats to use are payloads.
LEMMA BeatsAreThere ==
  ASSUME Types, Buffered
  PROVE  /\ valid_write_address => waddr \in Addr
         /\ valid_write_data => wbeat \in WData
         /\ valid_read_address => raddr \in Addr
  BY DEF Types, Buffered, Channel, valid_write_address, valid_write_data,
     valid_read_address, waddr, wbeat, raddr

-----------------------------------------------------------------------------
(* A clock cycle *)

LEMMA WriteSide ==
  ASSUME IInv, Contents, Clock
  PROVE  Promise!PerformWrite \/ Promise!NoWrite
  <1>1. Types /\ Buffered
    BY DEF IInv
  <1>2. /\ awready' = AwreadyNext /\ wready' = WreadyNext /\ bvalid' = BvalidNext
        /\ pre_waddr' = (IF awready THEN aw ELSE pre_waddr)
        /\ pre_w' = (IF wready THEN w ELSE pre_w)
        /\ mem' = IF write_enable THEN Stored(mem, waddr, wbeat) ELSE mem
    BY DEF Clock, RamEdge, WriteHandshake, RamWrite
  <1>3. B' = IF bvalid' THEN "OKAY" ELSE NONE
    BY DEF B
  <1>4. CASE write_enable
    <2>1. ~write_response_stall /\ valid_write_address /\ valid_write_data
      BY <1>4 DEF write_enable
    <2>2. awready' /\ wready' /\ bvalid'
      BY <1>2, <2>1 DEF AwreadyNext, WreadyNext, BvalidNext
    <2>3. mem' = WrittenByByte(mem, waddr, wbeat)
      BY <1>1, <1>2, <1>4, <2>1, BeatsAreThere, WriteIsMeant DEF Contents
    <2>4. /\ Promise!awIn = <<waddr>> /\ Promise!wIn = <<wbeat>>
          /\ Promise!bOut = <<>>
      BY <1>1, <2>1, Arrived, Left
    <2> QED
      BY <1>3, <2>2, <2>3, <2>4 DEF Promise!PerformWrite
  <1>5. CASE ~write_enable /\ write_response_stall
    <2>1. /\ awready' = ~valid_write_address /\ wready' = ~valid_write_data
          /\ bvalid'
      BY <1>2, <1>5 DEF AwreadyNext, WreadyNext, BvalidNext, write_response_stall
    <2>2. /\ valid_write_address => pre_waddr' = waddr
          /\ valid_write_data => pre_w' = wbeat
      BY <1>2 DEF waddr, wbeat
    <2> QED
      BY <1>1, <1>2, <1>3, <1>5, <2>1, <2>2, Arrived, Left DEF Promise!NoWrite
  <1>6. CASE ~write_enable /\ ~write_response_stall
    <2>1. ~(valid_write_address /\ valid_write_data)
      BY <1>6 DEF write_enable
    <2>2. /\ awready' = ~valid_write_address /\ wready' = ~valid_write_data
          /\ ~bvalid'
      BY <1>1, <1>2, <1>6, <2>1 DEF Types, AwreadyNext, WreadyNext, BvalidNext,
         write_response_stall, valid_write_address, valid_write_data
    <2>3. /\ valid_write_address => pre_waddr' = waddr
          /\ valid_write_data => pre_w' = wbeat
      BY <1>2 DEF waddr, wbeat
    <2> QED
      BY <1>1, <1>2, <1>6, <2>2, <2>3, Arrived, Left DEF Promise!NoWrite
  <1> QED
    BY <1>4, <1>5, <1>6

LEMMA ReadSide ==
  ASSUME IInv, Contents, Clock
  PROVE  Promise!PerformRead \/ Promise!NoRead
  <1>1. Types /\ Buffered
    BY DEF IInv
  <1>2. /\ arready' = ArreadyNext /\ rvalid' = RvalidNext
        /\ pre_raddr' = (IF arready THEN ar ELSE pre_raddr)
        /\ rdata' = IF read_enable THEN mem[Index(raddr)] ELSE rdata
    BY DEF Clock, RamEdge, ReadHandshake, RamRead
  <1>3. R' = IF rvalid' THEN [resp |-> "OKAY", data |-> rdata'] ELSE NONE
    BY DEF R
  <1>4. CASE read_enable
    <2>1. ~read_response_stall /\ valid_read_address
      BY <1>4 DEF read_enable
    <2>2. arready' /\ rvalid'
      BY <1>2, <2>1 DEF ArreadyNext, RvalidNext
    <2>3. raddr \in Nat
      BY <1>1, <2>1, BeatsAreThere, DpramAssumption
    <2>4. rdata' = mem[(raddr % (4 * Words)) \div 4]
      BY <1>2, <1>4, <2>3, IndexIsTheWord
    <2>5. Promise!arIn = <<raddr>> /\ Promise!rOut = <<>>
      BY <1>1, <2>1, Arrived, Left
    <2> QED
      BY <1>3, <2>2, <2>4, <2>5 DEF Promise!PerformRead
  <1>5. CASE ~read_enable
    <2>1. /\ arready' <=> ~valid_read_address
          /\ rvalid' <=> read_response_stall
          /\ valid_read_address => pre_raddr' = raddr
      BY <1>1, <1>2, <1>5 DEF Types, ArreadyNext, RvalidNext, read_enable,
         read_response_stall, valid_read_address, raddr
    <2>2. (IF arready THEN <<>> ELSE <<pre_raddr>>)' = Promise!arIn
      BY <1>1, <2>1, Arrived
    <2>3. (IF rvalid THEN <<R>> ELSE <<>>)' = Promise!rOut
      BY <1>1, <1>2, <1>3, <1>5, <2>1, Left
    <2> QED
      BY <2>2, <2>3 DEF Promise!NoRead
  <1> QED
    BY <1>4, <1>5

\* A response that waits is held, and what is offered is what is queued.
LEMMA ResponsesOffered ==
  ASSUME IInv, Contents, Clock
  PROVE  /\ Promise!Offers(B, bready, B', (IF bvalid THEN <<B>> ELSE <<>>)')
         /\ Promise!Offers(R, rready, R', (IF rvalid THEN <<R>> ELSE <<>>)')
  <1>1. Types
    BY DEF IInv
  <1>2. bvalid' = BvalidNext
    BY DEF Clock, RamEdge, WriteHandshake
  <1>3. /\ rvalid' = RvalidNext
        /\ rdata' = IF read_enable THEN mem[Index(raddr)] ELSE rdata
    BY DEF Clock, RamEdge, ReadHandshake, RamRead
  <1>4. bvalid /\ ~bready => bvalid'
    BY <1>2 DEF BvalidNext
  <1>5. rvalid /\ ~rready => rvalid' /\ rdata' = rdata
    BY <1>3 DEF RvalidNext, read_enable, read_response_stall
  <1> QED
    BY <1>1, <1>4, <1>5, Codes DEF Types, Promise!Offers, B, R

LEMMA ClockIsCycle ==
  ASSUME IInv, Contents, Clock
  PROVE  Promise!Cycle /\ Contents'
  <1>1. Promise!Cycle
    BY WriteSide, ReadSide, ResponsesOffered DEF Promise!Cycle
  <1>2. /\ mem' = IF write_enable THEN Stored(mem, waddr, wbeat) ELSE mem
        /\ rdata' = IF read_enable THEN mem[Index(raddr)] ELSE rdata
    BY DEF Clock, RamEdge, RamWrite, RamRead
  <1>3. /\ write_enable => waddr \in Addr /\ wbeat \in WData
        /\ read_enable => raddr \in Nat
    BY BeatsAreThere, DpramAssumption DEF IInv, write_enable, read_enable
  <1>4. write_enable => Stored(mem, waddr, wbeat) \in [0..Words - 1 -> Word]
    BY <1>3, WriteIsMeant DEF Contents
  <1>5. read_enable => mem[Index(raddr)] \in Word
    BY <1>3, IndexIsTheWord DEF Contents
  <1> QED
    BY <1>1, <1>2, <1>4, <1>5 DEF Contents

-----------------------------------------------------------------------------
(* A reset *)

\* The memory has no reset: it stays, or the write is performed that the
\* master shows in the first cycle of the reset.
LEMMA ResetIsReset ==
  ASSUME IInv, Contents, TBReset
  PROVE  Promise!Reset /\ Contents'
  <1>1. Types
    BY DEF IInv
  <1>2. /\ awready' /\ wready' /\ arready' /\ ~bvalid' /\ ~rvalid'
    BY DEF TBReset, RamReset, HandshakeReset
  <1>3. B' = NONE /\ R' = NONE
    BY <1>2 DEF B, R
  <1>4. PICK a \in {aw, NONE}, d \in {w, NONE} :
          mem' = IF a # NONE /\ d # NONE THEN Stored(mem, a, d) ELSE mem
    BY DEF TBReset, RamReset
  <1>5. PICK c \in {ar, NONE} : rdata' = IF c # NONE THEN mem[Index(c)] ELSE rdata
    BY DEF TBReset, RamReset
  <1>6. /\ a # NONE => a = aw /\ a \in Addr
        /\ d # NONE => d = w /\ d \in WData
        /\ c # NONE => c \in Nat
    BY <1>1, <1>4, <1>5, DpramAssumption DEF Types, Channel
  <1>7. rdata' \in Word
    BY <1>5, <1>6, IndexIsTheWord DEF Contents
  <1>8. CASE a # NONE /\ d # NONE
    <2>1. /\ mem' = WrittenByByte(mem, a, d)
          /\ mem' \in [0..Words - 1 -> Word]
      BY <1>4, <1>6, <1>8, WriteIsMeant DEF Contents
    <2>2. /\ a \in Promise!UnderWay(IF awready THEN <<>> ELSE <<pre_waddr>>, aw)
          /\ d \in Promise!UnderWay(IF wready THEN <<>> ELSE <<pre_w>>, w)
      BY <1>6, <1>8 DEF Promise!UnderWay
    <2> QED
      BY <1>2, <1>3, <1>7, <2>1, <2>2 DEF Promise!Reset, Contents
  <1>9. CASE ~(a # NONE /\ d # NONE)
    <2>1. mem' = mem
      BY <1>4, <1>9
    <2> QED
      BY <1>2, <1>3, <1>7, <2>1 DEF Promise!Reset, Contents
  <1> QED
    BY <1>8, <1>9

-----------------------------------------------------------------------------
LEMMA StepIsStep ==
  IInv /\ Contents /\ [Next]_vars =>
    /\ IInv' /\ Contents'
    /\ [Promise!Reset \/ Promise!Cycle]_(Promise!vars)
  <1> SUFFICES ASSUME IInv, Contents, [Next]_vars
               PROVE  /\ IInv' /\ Contents'
                      /\ [Promise!Reset \/ Promise!Cycle]_(Promise!vars)
    OBVIOUS
  <1>1. CASE Clock
    <2>1. SlaveClock
      BY <1>1 DEF Clock, RamEdge, SlaveClock
    <2> QED
      BY <1>1, <2>1, NextIInv, ClockIsCycle
  <1>2. CASE TBReset
    <2>1. SlaveReset
      BY <1>2 DEF TBReset
    <2> QED
      BY <1>2, <2>1, NextIInv, ResetIsReset
  <1>3. CASE UNCHANGED vars
    <2>1. UNCHANGED slaveVars /\ mem' = mem /\ rdata' = rdata
      BY <1>3 DEF vars
    <2>2. IInv' /\ Contents'
      BY <2>1, NextIInv DEF Contents
    <2>3. UNCHANGED Promise!vars
      BY <2>1 DEF slaveVars, handshake, master, Promise!vars, B, R
    <2> QED
      BY <2>2, <2>3
  <1> QED
    BY <1>1, <1>2, <1>3 DEF Next

LEMMA InitIsInit == TBInit => IInv /\ Contents /\ Promise!Init
  <1> SUFFICES ASSUME TBInit PROVE IInv /\ Contents /\ Promise!Init
    OBVIOUS
  <1>1. IInv
    BY InitIInv DEF TBInit
  <1>2. Contents
    BY DEF TBInit, RamInit, Contents
  <1>3. awready /\ wready /\ arready /\ ~bvalid /\ ~rvalid
    BY DEF TBInit, SlaveInit, HandshakeInit
  <1>4. Promise!Init
    BY <1>3 DEF Promise!Init, B, R
  <1> QED
    BY <1>1, <1>2, <1>4

\* The memory keeps the promise of the device, whatever its size, the width
\* of its words, the addresses and the pace of its master.
THEOREM MemoryIsADevice == Spec => KeepsPromise
  BY InitIsInit, StepIsStep, PTL DEF Spec, KeepsPromise, Promise!Spec

=============================================================================

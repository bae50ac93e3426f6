-------------------------- MODULE peripherals_proofs --------------------------
(***************************************************************************)
(* Each of the three peripherals implements the abstract AXI4-Lite device  *)
(* with its own registers, for any words, any addresses and any master     *)
(* that obeys the protocol.  What they share, the handshake and the        *)
(* response registers, is proved once, for the handshake logic alone       *)
(* (Slave).                                                                *)
(***************************************************************************)
EXTENDS peripherals, Integers, Sequences, FiniteSets, FiniteSetTheorems, TLAPS

Slave == INSTANCE axi4l_slave WITH WData <- LedWData

Codes == {"OKAY", "SLVERR"}
Word == [Lanes -> Byte]
Writes == [data : Word, strb : SUBSET Lanes]

\* The types of the handshake.
Typed ==
  /\ awready \in BOOLEAN /\ wready \in BOOLEAN /\ arready \in BOOLEAN
  /\ pre_waddr \in Nat \cup {NONE} /\ pre_w \in Writes \cup {NONE}
  /\ pre_raddr \in Nat \cup {NONE}
  /\ bvalid \in BOOLEAN /\ rvalid \in BOOLEAN
  /\ aw \in Nat \cup {NONE} /\ w \in Writes \cup {NONE} /\ ar \in Nat \cup {NONE}
  /\ bready \in BOOLEAN /\ rready \in BOOLEAN

\* A buffer behind a low ready wire holds a beat.
Buffered == /\ ~awready => pre_waddr # NONE
            /\ ~wready => pre_w # NONE
            /\ ~arready => pre_raddr # NONE

\* The response registers hold a code and a word at any time.
Noted == bresp \in Codes /\ rresp \in Codes /\ rdata \in Word

Shared == Typed /\ Buffered /\ Noted

\* What each device stores.
LedStores == led_reg \in Word
GpioStores == /\ gpio_o \in Word /\ gpio_en \in Word /\ gpio_i \in Word
              /\ q0 \in Word /\ gpio_sync \in Word
TimerStores == mtime \in 0..Timer!Instants - 1 /\ mtimecmp \in Word \X Word

IInv == /\ device \in {"led", "gpio", "timer"}
        /\ Shared
        /\ device = "led" => LedStores
        /\ device = "gpio" => GpioStores
        /\ device = "timer" => TimerStores

-----------------------------------------------------------------------------
(* What the constants say *)

LEMMA Constants ==
  /\ NONE \notin Codes
  /\ \A c \in Codes, x \in Word : [resp |-> c, data |-> x] # NONE
  /\ LedWrAddr \subseteq Nat /\ LedRdAddr \subseteq Nat /\ LedWData \subseteq Writes
  /\ GpioWrAddr \subseteq Nat /\ GpioRdAddr \subseteq Nat /\ GpioWData \subseteq Writes
  /\ TimerWrAddr \subseteq Nat /\ TimerRdAddr \subseteq Nat /\ TimerWData \subseteq Writes
  /\ Low \in Word /\ Pins \subseteq Word
  <1>1. Data = Word /\ Addr \subseteq Nat
    BY PeripheralsAssumption DEF Led!RegistersConstants, Led!Word, Word
  <1>2. NONE \notin Codes
    BY PeripheralsAssumption DEF Led!resp_t, Codes
  <1>3. ASSUME NEW c \in Codes, NEW x \in Word PROVE [resp |-> c, data |-> x] # NONE
    <2>1. [resp |-> c, data |-> x] \in Led!RBeat
      BY <1>1 DEF Led!RBeat, Led!LiteResp, Led!resp_t, Codes
    <2> QED
      BY <2>1, PeripheralsAssumption
  <1>4. LedWData \subseteq Writes
    BY PeripheralsAssumption DEF Led!RegistersConstants, Led!Word, Word, Writes
  <1>5. GpioWData \subseteq Writes /\ Low \in Word /\ Pins \subseteq Word
    BY PeripheralsAssumption DEF Gpio!GpioConstants, Gpio!RegistersConstants, Gpio!Word,
       Word, Writes
  <1>6. TimerWData \subseteq Writes
    BY PeripheralsAssumption DEF Timer!TimerConstants, Timer!RegistersConstants,
       Timer!Word, Word, Writes
  <1> QED
    BY <1>1, <1>2, <1>3, <1>4, <1>5, <1>6, PeripheralsAssumption

\* The bits of the address that select a register are the word within 4 KiB.
LEMMA RegisterOf ==
  ASSUME NEW a \in Nat
  PROVE  /\ (a \div 4) % 1024 = (a % 4096) \div 4
         /\ (a \div 4) % 1024 \in Nat
         /\ (a \div 4) % 1024 = 0 <=> a % 4096 < 4
         /\ (a \div 4) % 1024 = 1 <=> a % 4096 >= 4 /\ a % 4096 < 8
  OBVIOUS

\* A register after a write is a word again.
LEMMA MergedIsWord ==
  ASSUME NEW x \in Word, NEW d \in Writes
  PROVE  [l \in Lanes |-> IF l \in d.strb THEN d.data[l] ELSE x[l]] \in Word
  <1>1. d.data \in [Lanes -> Byte]
    BY DEF Writes, Word
  <1> QED
    BY <1>1 DEF Word

-----------------------------------------------------------------------------
(* The handshake *)

\* The master of axi4l_slave_tb.
Offered(x, ready, S) == IF x # NONE /\ ~ready THEN {x} ELSE S \cup {NONE}

Handshake ==
  /\ Slave!WriteHandshake /\ Slave!ReadHandshake
  /\ aw' \in Offered(aw, awready, Nat) /\ w' \in Offered(w, wready, Writes)
  /\ ar' \in Offered(ar, arready, Nat)
  /\ bready' \in BOOLEAN /\ rready' \in BOOLEAN

\* A clock cycle of a device is one of the handshake.
LEMMA LedHandshake == Led!Clock => Handshake
  BY Constants DEF Led!Clock, Led!LedEdge, Led!MasterDrives, Led!Offered, Led!Channel,
     Led!WriteHandshake, Led!ReadHandshake, Led!AwreadyNext, Led!WreadyNext,
     Led!ArreadyNext, Led!BvalidNext, Led!RvalidNext, Led!valid_write_address,
     Led!valid_write_data, Led!valid_read_address, Led!write_response_stall,
     Led!read_response_stall, Handshake, Offered,
     Slave!WriteHandshake, Slave!ReadHandshake, Slave!AwreadyNext, Slave!WreadyNext,
     Slave!ArreadyNext, Slave!BvalidNext, Slave!RvalidNext,
     Slave!valid_write_address, Slave!valid_write_data, Slave!valid_read_address,
     Slave!write_response_stall, Slave!read_response_stall

LEMMA GpioHandshake == Gpio!Clock => Handshake
  BY Constants DEF Gpio!Clock, Gpio!GpioEdge, Gpio!MasterDrives, Gpio!Offered, Gpio!Channel,
     Gpio!WriteHandshake, Gpio!ReadHandshake, Gpio!AwreadyNext, Gpio!WreadyNext,
     Gpio!ArreadyNext, Gpio!BvalidNext, Gpio!RvalidNext, Gpio!valid_write_address,
     Gpio!valid_write_data, Gpio!valid_read_address, Gpio!write_response_stall,
     Gpio!read_response_stall, Handshake, Offered,
     Slave!WriteHandshake, Slave!ReadHandshake, Slave!AwreadyNext, Slave!WreadyNext,
     Slave!ArreadyNext, Slave!BvalidNext, Slave!RvalidNext,
     Slave!valid_write_address, Slave!valid_write_data, Slave!valid_read_address,
     Slave!write_response_stall, Slave!read_response_stall

LEMMA TimerHandshake == Timer!Clock => Handshake
  BY Constants DEF Timer!Clock, Timer!TimerEdge, Timer!MasterDrives, Timer!Offered, Timer!Channel,
     Timer!WriteHandshake, Timer!ReadHandshake, Timer!AwreadyNext, Timer!WreadyNext,
     Timer!ArreadyNext, Timer!BvalidNext, Timer!RvalidNext, Timer!valid_write_address,
     Timer!valid_write_data, Timer!valid_read_address, Timer!write_response_stall,
     Timer!read_response_stall, Handshake, Offered,
     Slave!WriteHandshake, Slave!ReadHandshake, Slave!AwreadyNext, Slave!WreadyNext,
     Slave!ArreadyNext, Slave!BvalidNext, Slave!RvalidNext,
     Slave!valid_write_address, Slave!valid_write_data, Slave!valid_read_address,
     Slave!write_response_stall, Slave!read_response_stall

\* What a cycle leaves is typed, and what it leaves behind a ready wire came
\* or was there.
LEMMA HandshakeTypes ==
  ASSUME Typed, Buffered,
         Handshake
  PROVE  Typed' /\ Buffered'
  <1>1. /\ awready' \in BOOLEAN /\ wready' \in BOOLEAN /\ arready' \in BOOLEAN
        /\ bvalid' \in BOOLEAN /\ rvalid' \in BOOLEAN
    BY DEF Typed, Handshake, Slave!WriteHandshake, Slave!ReadHandshake,
       Slave!AwreadyNext, Slave!WreadyNext, Slave!ArreadyNext, Slave!BvalidNext,
       Slave!RvalidNext, Slave!valid_write_address, Slave!valid_write_data,
       Slave!valid_read_address, Slave!write_response_stall, Slave!read_response_stall
  <1>2. /\ pre_waddr' \in Nat \cup {NONE} /\ pre_w' \in Writes \cup {NONE}
        /\ pre_raddr' \in Nat \cup {NONE}
    BY DEF Typed, Handshake, Slave!WriteHandshake, Slave!ReadHandshake
  <1>3. /\ aw' \in Nat \cup {NONE} /\ w' \in Writes \cup {NONE} /\ ar' \in Nat \cup {NONE}
        /\ bready' \in BOOLEAN /\ rready' \in BOOLEAN
    BY DEF Typed, Handshake, Offered
  <1>4. Buffered'
    BY DEF Typed, Buffered, Handshake, Slave!WriteHandshake, Slave!ReadHandshake,
       Slave!AwreadyNext, Slave!WreadyNext, Slave!ArreadyNext,
       Slave!valid_write_address, Slave!valid_write_data, Slave!valid_read_address,
       Slave!write_response_stall, Slave!read_response_stall
  <1> QED
    BY <1>1, <1>2, <1>3, <1>4 DEF Typed

\* The beats to use are payloads.
LEMMA BeatsAreThere ==
  ASSUME Typed, Buffered
  PROVE  /\ Slave!valid_write_address => Slave!waddr \in Nat
         /\ Slave!valid_write_data => Slave!wbeat \in Writes
         /\ Slave!valid_read_address => Slave!raddr \in Nat
  BY DEF Typed, Buffered, Slave!valid_write_address, Slave!valid_write_data,
     Slave!valid_read_address, Slave!waddr, Slave!wbeat, Slave!raddr

-----------------------------------------------------------------------------
(* The queues of the promise *)

awq == IF awready THEN <<>> ELSE <<pre_waddr>>
wq == IF wready THEN <<>> ELSE <<pre_w>>
arq == IF arready THEN <<>> ELSE <<pre_raddr>>
bq == IF bvalid THEN <<bresp>> ELSE <<>>
beat == [resp |-> rresp, data |-> rdata]
rq == IF rvalid THEN <<beat>> ELSE <<>>

B == IF bvalid THEN bresp ELSE NONE
R == IF rvalid THEN beat ELSE NONE

With(q, x, ready) == IF x # NONE /\ ready THEN Append(q, x) ELSE q
Without(q, x, ready) == IF x # NONE /\ ready THEN Tail(q) ELSE q

\* Behind each channel there is one beat at most once those of the cycle
\* have arrived, and one response at most once those taken have left.
LEMMA Arrived ==
  ASSUME Typed
  PROVE  /\ With(awq, aw, awready) = IF Slave!valid_write_address THEN <<Slave!waddr>> ELSE <<>>
         /\ With(wq, w, wready) = IF Slave!valid_write_data THEN <<Slave!wbeat>> ELSE <<>>
         /\ With(arq, ar, arready) = IF Slave!valid_read_address THEN <<Slave!raddr>> ELSE <<>>
  BY DEF Typed, With, awq, wq, arq, Slave!valid_write_address, Slave!valid_write_data,
     Slave!valid_read_address, Slave!waddr, Slave!wbeat, Slave!raddr

LEMMA Left ==
  ASSUME Typed, Noted
  PROVE  /\ Without(bq, B, bready) = IF Slave!write_response_stall THEN <<bresp>> ELSE <<>>
         /\ Without(rq, R, rready) = IF Slave!read_response_stall THEN <<beat>> ELSE <<>>
  <1>1. bresp # NONE /\ beat # NONE
    BY Constants DEF Noted, beat
  <1> QED
    BY <1>1 DEF Typed, Without, bq, rq, B, R, Slave!write_response_stall,
       Slave!read_response_stall

\* A response is queued when an access is performed or its response waits.
LEMMA ValidNext ==
  ASSUME Typed, Handshake
  PROVE  /\ bvalid' = (Slave!write_enable \/ Slave!write_response_stall)
         /\ rvalid' = (Slave!read_enable \/ Slave!read_response_stall)
  BY DEF Typed, Handshake, Slave!WriteHandshake, Slave!ReadHandshake,
     Slave!BvalidNext, Slave!RvalidNext, Slave!write_enable, Slave!read_enable,
     Slave!write_response_stall, Slave!read_response_stall

\* The write queues of a cycle: both heads are used up, or everything stays.
LEMMA WriteQueues ==
  ASSUME Typed, Buffered, Handshake
  PROVE  /\ Slave!write_enable => /\ Slave!valid_write_address /\ Slave!valid_write_data
                                 /\ ~Slave!write_response_stall
                                 /\ awq' = <<>> /\ wq' = <<>>
         /\ ~Slave!write_enable => /\ awq' = With(awq, aw, awready)
                                  /\ wq' = With(wq, w, wready)
  <1>1. /\ awready' = Slave!AwreadyNext /\ wready' = Slave!WreadyNext
        /\ bvalid' = Slave!BvalidNext
        /\ pre_waddr' = (IF awready THEN aw ELSE pre_waddr)
        /\ pre_w' = (IF wready THEN w ELSE pre_w)
    BY DEF Handshake, Slave!WriteHandshake
  <1>2. /\ Slave!valid_write_address => pre_waddr' = Slave!waddr
        /\ Slave!valid_write_data => pre_w' = Slave!wbeat
    BY <1>1 DEF Slave!waddr, Slave!wbeat
  <1>3. CASE Slave!write_enable
    BY <1>1, <1>3 DEF Slave!write_enable, Slave!AwreadyNext, Slave!WreadyNext,
       Slave!BvalidNext, awq, wq
  <1>4. CASE ~Slave!write_enable /\ Slave!write_response_stall
    <2>1. /\ awready' = ~Slave!valid_write_address /\ wready' = ~Slave!valid_write_data
          /\ bvalid'
      BY <1>1, <1>4 DEF Slave!AwreadyNext, Slave!WreadyNext, Slave!BvalidNext,
         Slave!write_response_stall
    <2> QED
      BY <1>2, <1>4, <2>1, Arrived DEF awq, wq
  <1>5. CASE ~Slave!write_enable /\ ~Slave!write_response_stall
    <2>1. ~(Slave!valid_write_address /\ Slave!valid_write_data)
      BY <1>5 DEF Slave!write_enable
    <2>2. /\ awready' = ~Slave!valid_write_address /\ wready' = ~Slave!valid_write_data
          /\ ~bvalid'
      BY <1>1, <1>5, <2>1 DEF Typed, Slave!AwreadyNext, Slave!WreadyNext,
         Slave!BvalidNext, Slave!write_response_stall, Slave!valid_write_address,
         Slave!valid_write_data
    <2> QED
      BY <1>2, <1>5, <2>2, Arrived DEF awq, wq
  <1> QED
    BY <1>3, <1>4, <1>5

LEMMA ReadQueues ==
  ASSUME Typed, Buffered, Handshake
  PROVE  /\ Slave!read_enable => /\ Slave!valid_read_address /\ ~Slave!read_response_stall
                                /\ arq' = <<>>
         /\ ~Slave!read_enable => /\ arq' = With(arq, ar, arready)
  <1>1. /\ arready' = Slave!ArreadyNext /\ rvalid' = Slave!RvalidNext
        /\ pre_raddr' = (IF arready THEN ar ELSE pre_raddr)
    BY DEF Handshake, Slave!ReadHandshake
  <1>2. CASE Slave!read_enable
    BY <1>1, <1>2 DEF Slave!read_enable, Slave!ArreadyNext, Slave!RvalidNext, arq
  <1>3. CASE ~Slave!read_enable
    <2>1. /\ arready' <=> ~Slave!valid_read_address
          /\ rvalid' <=> Slave!read_response_stall
          /\ Slave!valid_read_address => pre_raddr' = Slave!raddr
      BY <1>1, <1>3 DEF Typed, Slave!ArreadyNext, Slave!RvalidNext, Slave!read_enable,
         Slave!read_response_stall, Slave!valid_read_address, Slave!raddr
    <2> QED
      BY <1>3, <2>1, Arrived DEF arq
  <1> QED
    BY <1>2, <1>3

-----------------------------------------------------------------------------
(* The response registers *)

\* The code of an address, for a device with registers in size bytes.
Code(size, a) == IF a % 4096 < size THEN "OKAY" ELSE "SLVERR"

LEMMA ChecksAreCodes ==
  ASSUME NEW a \in Nat
  PROVE  /\ Led!check(a) = Code(4, a)
         /\ Gpio!check(a) = Code(8, a)
         /\ Timer!check(a) = Code(16, a)
  BY RegisterOf DEF Led!check, Led!Reg, Gpio!check, Gpio!Reg, Timer!check, Timer!Reg, Code

\* A cycle in which a read would take the word x.
Noting(size, x) ==
  /\ bresp' = IF ~Slave!write_response_stall /\ Slave!valid_write_address
              THEN Code(size, Slave!waddr) ELSE bresp
  /\ IF Slave!read_enable THEN rdata' = x /\ rresp' = Code(size, Slave!raddr)
     ELSE rdata' = rdata /\ rresp' = rresp

LEMMA NotedAgain ==
  ASSUME Noted, NEW size, NEW x \in Word, Noting(size, x)
  PROVE  Noted'
  BY DEF Noted, Noting, Code, Codes

\* A response that waits is held, and what is offered is what is queued.
Offers(x, ready, xNext, qNext) ==
  IF x # NONE /\ ~ready THEN xNext = x /\ qNext # <<>> /\ x = Head(qNext)
  ELSE xNext = NONE \/ (qNext # <<>> /\ xNext = Head(qNext))

LEMMA ResponsesOffered ==
  ASSUME Typed, Noted, Buffered, Handshake,
         NEW size, NEW x, Noting(size, x)
  PROVE  Offers(B, bready, B', bq') /\ Offers(R, rready, R', rq')
  <1>1. bvalid /\ ~bready => bvalid' /\ bresp' = bresp
    BY DEF Handshake, Slave!WriteHandshake, Slave!BvalidNext, Noting,
       Slave!write_response_stall
  <1>2. rvalid /\ ~rready => rvalid' /\ beat' = beat
    BY DEF Handshake, Slave!ReadHandshake, Slave!RvalidNext, Noting,
       Slave!read_response_stall, Slave!read_enable, beat
  <1> QED
    BY <1>1, <1>2 DEF Typed, Offers, B, R, bq, rq

\* The response queues of a cycle: the response of an access that is performed
\* is queued behind those that are left.
LEMMA ResponseQueues ==
  ASSUME Typed, Noted, Buffered, Handshake,
         NEW size, NEW x, Noting(size, x)
  PROVE  /\ bq' = IF Slave!write_enable THEN <<Code(size, Slave!waddr)>>
                  ELSE Without(bq, B, bready)
         /\ rq' = IF Slave!read_enable
                  THEN <<[resp |-> Code(size, Slave!raddr), data |-> x]>>
                  ELSE Without(rq, R, rready)
  <1>1. Slave!write_enable => bresp' = Code(size, Slave!waddr)
    BY DEF Noting, Slave!write_enable
  <1>2. Slave!write_response_stall => bresp' = bresp
    BY DEF Noting
  <1>3. bq' = IF Slave!write_enable THEN <<Code(size, Slave!waddr)>>
              ELSE Without(bq, B, bready)
    <2>1. bq' = IF bvalid' THEN <<bresp'>> ELSE <<>>
      BY DEF bq
    <2>2. bvalid' = (Slave!write_enable \/ Slave!write_response_stall)
      BY ValidNext
    <2>3. Without(bq, B, bready) = IF Slave!write_response_stall THEN <<bresp>> ELSE <<>>
      BY Left
    <2> QED
      BY <1>1, <1>2, <2>1, <2>2, <2>3
  <1>4. beat' = IF Slave!read_enable THEN [resp |-> Code(size, Slave!raddr), data |-> x]
                ELSE beat
    BY DEF Noting, beat
  <1>5. rq' = IF Slave!read_enable
              THEN <<[resp |-> Code(size, Slave!raddr), data |-> x]>>
              ELSE Without(rq, R, rready)
    <2>1. rq' = IF rvalid' THEN <<beat'>> ELSE <<>>
      BY DEF rq
    <2>2. rvalid' = (Slave!read_enable \/ Slave!read_response_stall)
      BY ValidNext
    <2>3. Without(rq, R, rready) = IF Slave!read_response_stall THEN <<beat>> ELSE <<>>
      BY Left
    <2> QED
      BY <1>4, <2>1, <2>2, <2>3
  <1> QED
    BY <1>3, <1>5

\* Nothing is left of the responses when an access is performed.
LEMMA NoneLeft ==
  ASSUME Typed, Noted
  PROVE  /\ Slave!write_enable => Without(bq, B, bready) = <<>>
         /\ Slave!read_enable => Without(rq, R, rready) = <<>>
  BY Left DEF Slave!write_enable, Slave!read_enable

-----------------------------------------------------------------------------
(* A reset *)

HandshakeResets ==
  /\ Slave!HandshakeReset
  /\ aw' = NONE /\ w' = NONE /\ ar' = NONE
  /\ bready' = FALSE /\ rready' = FALSE

LEMMA LedResets == Led!TBReset => HandshakeResets
  BY DEF Led!TBReset, Led!SlaveReset, Led!HandshakeReset, Led!waddr, Led!wbeat, Led!raddr,
     HandshakeResets, Slave!HandshakeReset, Slave!waddr, Slave!wbeat, Slave!raddr

LEMMA GpioResets == Gpio!TBReset => HandshakeResets
  BY DEF Gpio!TBReset, Gpio!SlaveReset, Gpio!HandshakeReset, Gpio!waddr, Gpio!wbeat,
     Gpio!raddr, HandshakeResets, Slave!HandshakeReset, Slave!waddr, Slave!wbeat,
     Slave!raddr

LEMMA TimerResets == Timer!TBReset => HandshakeResets
  BY DEF Timer!TBReset, Timer!SlaveReset, Timer!HandshakeReset, Timer!waddr, Timer!wbeat,
     Timer!raddr, HandshakeResets, Slave!HandshakeReset, Slave!waddr, Slave!wbeat,
     Slave!raddr

LEMMA ResetTypes ==
  ASSUME Typed, HandshakeResets
  PROVE  Typed' /\ Buffered'
  BY DEF Typed, Buffered, HandshakeResets, Slave!HandshakeReset, Slave!waddr, Slave!wbeat,
     Slave!raddr

\* Whatever is noted is a code and a word.
Renoted(x) == /\ bresp' \in Codes \cup {bresp} /\ rresp' \in Codes \cup {rresp}
              /\ rdata' \in {x, rdata}

LEMMA RenotedIsNoted ==
  ASSUME Noted, NEW x \in Word, Renoted(x)
  PROVE  Noted'
  BY DEF Noted, Renoted

\* A reset empties the queues.
LEMMA QueuesEmptied ==
  ASSUME HandshakeResets
  PROVE  /\ awq' = <<>> /\ wq' = <<>> /\ arq' = <<>> /\ bq' = <<>> /\ rq' = <<>>
         /\ B' = NONE /\ R' = NONE
  BY DEF HandshakeResets, Slave!HandshakeReset, awq, wq, arq, bq, rq, B, R

\* The write that is about to be performed when the reset comes is under way.
UnderWay(q, x) == {q[i] : i \in DOMAIN q} \cup ({x} \ {NONE})

LEMMA WriteUnderWay ==
  ASSUME Typed, Slave!write_enable
  PROVE  Slave!waddr \in UnderWay(awq, aw) /\ Slave!wbeat \in UnderWay(wq, w)
  <1>1. Slave!waddr \in UnderWay(awq, aw)
    <2>1. CASE awready
      BY <2>1 DEF Slave!write_enable, Slave!valid_write_address, Slave!waddr, UnderWay
    <2>2. CASE ~awready
      BY <2>2 DEF Slave!waddr, UnderWay, awq
    <2> QED
      BY <2>1, <2>2
  <1>2. Slave!wbeat \in UnderWay(wq, w)
    <2>1. CASE wready
      BY <2>1 DEF Slave!write_enable, Slave!valid_write_data, Slave!wbeat, UnderWay
    <2>2. CASE ~wready
      BY <2>2 DEF Slave!wbeat, UnderWay, wq
    <2> QED
      BY <2>1, <2>2
  <1> QED
    BY <1>1, <1>2

-----------------------------------------------------------------------------
(* The LED register *)

\* The queues of its promise are those above.
LEMMA LedQueues ==
  /\ Led!Promise!awIn = With(awq, aw, awready)
  /\ Led!Promise!wIn = With(wq, w, wready)
  /\ Led!Promise!arIn = With(arq, ar, arready)
  /\ Led!Promise!bOut = Without(bq, B, bready)
  /\ Led!Promise!rOut = Without(rq, R, rready)
  BY DEF Led!Promise!awIn, Led!Promise!wIn, Led!Promise!arIn, Led!Promise!bOut,
     Led!Promise!rOut, Led!Promise!With, Led!Promise!Without, Led!B, Led!R,
     With, Without, awq, wq, arq, bq, rq, B, R, beat

LEMMA LedNotes ==
  ASSUME Shared, Led!Clock
  PROVE  /\ Noting(4, led_reg)
         /\ led_reg' = IF Slave!write_enable
                       THEN [l \in Lanes |-> IF l \in Slave!wbeat.strb
                                             THEN Slave!wbeat.data[l] ELSE led_reg[l]]
                       ELSE led_reg
  <1>1. /\ Slave!valid_write_address => Led!check(Slave!waddr) = Code(4, Slave!waddr)
        /\ Slave!read_enable => Led!check(Slave!raddr) = Code(4, Slave!raddr)
    BY BeatsAreThere, ChecksAreCodes DEF Shared, Slave!read_enable
  <1>2. /\ bresp' = IF ~Slave!write_response_stall /\ Slave!valid_write_address
                    THEN Led!check(Slave!waddr) ELSE bresp
        /\ IF Slave!read_enable THEN rdata' = led_reg /\ rresp' = Led!check(Slave!raddr)
           ELSE rdata' = rdata /\ rresp' = rresp
    BY DEF Led!Clock, Led!LedEdge, Led!NoteWrite, Led!ReadWord, Led!note_enable,
       Led!read_enable, Led!write_response_stall, Led!valid_write_address, Led!waddr,
       Led!raddr, Led!read_response_stall, Led!valid_read_address,
       Slave!read_enable, Slave!write_response_stall, Slave!valid_write_address,
       Slave!waddr, Slave!raddr, Slave!read_response_stall, Slave!valid_read_address
  <1>3. led_reg' = IF Slave!write_enable
                   THEN [l \in Lanes |-> IF l \in Slave!wbeat.strb
                                         THEN Slave!wbeat.data[l] ELSE led_reg[l]]
                   ELSE led_reg
    BY DEF Led!Clock, Led!LedEdge, Led!LedWrite, Led!Merged, Led!write_enable, Led!wbeat,
       Led!write_response_stall, Led!valid_write_address, Led!valid_write_data,
       Slave!write_enable, Slave!wbeat, Slave!write_response_stall,
       Slave!valid_write_address, Slave!valid_write_data
  <1> QED
    BY <1>1, <1>2, <1>3 DEF Noting

LEMMA LedCycle ==
  ASSUME Shared, LedStores, Led!Clock
  PROVE  Led!Promise!Cycle /\ Shared' /\ LedStores'
  <1>1. /\ Typed /\ Buffered /\ Noted /\ Handshake /\ Noting(4, led_reg)
    BY LedHandshake, LedNotes DEF Shared
  <1>2. Shared'
    BY <1>1, HandshakeTypes, NotedAgain DEF Shared, LedStores
  <1>3. LedStores'
    <2>1. Slave!write_enable => Slave!wbeat \in Writes
      BY <1>1, BeatsAreThere DEF Slave!write_enable
    <2> QED
      BY <2>1, LedNotes, MergedIsWord DEF LedStores
  <1>4. Led!Promise!PerformWrite \/ Led!Promise!NoWrite
    <2>1. /\ awq' = (IF awready THEN <<>> ELSE <<pre_waddr>>)'
          /\ wq' = (IF wready THEN <<>> ELSE <<pre_w>>)'
          /\ bq' = (IF bvalid THEN <<Led!B>> ELSE <<>>)'
      BY DEF awq, wq, bq, Led!B
    <2>2. CASE Slave!write_enable
      <3>1. /\ Led!Promise!awIn = <<Slave!waddr>> /\ Led!Promise!wIn = <<Slave!wbeat>>
            /\ Led!Promise!bOut = <<>>
        BY <1>1, <2>2, LedQueues, WriteQueues, Arrived, NoneLeft
      <3>2. /\ awq' = <<>> /\ wq' = <<>>
            /\ bq' = <<Code(4, Slave!waddr)>>
        BY <1>1, <2>2, WriteQueues, ResponseQueues
      <3> QED
        BY <2>1, <2>2, <3>1, <3>2, LedNotes DEF Led!Promise!PerformWrite, Code
    <2>3. CASE ~Slave!write_enable
      <3>1. /\ awq' = Led!Promise!awIn /\ wq' = Led!Promise!wIn
            /\ bq' = Led!Promise!bOut
        BY <1>1, <2>3, LedQueues, WriteQueues, ResponseQueues
      <3> QED
        BY <2>1, <2>3, <3>1, LedNotes DEF Led!Promise!NoWrite
    <2> QED
      BY <2>2, <2>3
  <1>5. Led!Promise!PerformRead \/ Led!Promise!NoRead
    <2>1. /\ arq' = (IF arready THEN <<>> ELSE <<pre_raddr>>)'
          /\ rq' = (IF rvalid THEN <<Led!R>> ELSE <<>>)'
      BY DEF arq, rq, beat, Led!R
    <2>2. CASE Slave!read_enable
      <3>1. /\ Led!Promise!arIn = <<Slave!raddr>> /\ Led!Promise!rOut = <<>>
        BY <1>1, <2>2, LedQueues, ReadQueues, Arrived, NoneLeft
      <3>2. /\ arq' = <<>>
            /\ rq' = <<[resp |-> Code(4, Slave!raddr), data |-> led_reg]>>
        BY <1>1, <2>2, ReadQueues, ResponseQueues
      <3> QED
        BY <2>1, <3>1, <3>2 DEF Led!Promise!PerformRead, Code
    <2>3. CASE ~Slave!read_enable
      <3>1. arq' = Led!Promise!arIn /\ rq' = Led!Promise!rOut
        BY <1>1, <2>3, LedQueues, ReadQueues, ResponseQueues
      <3> QED
        BY <2>1, <3>1 DEF Led!Promise!NoRead
    <2> QED
      BY <2>2, <2>3
  <1>6. /\ Led!Promise!Offers(Led!B, bready, Led!B', (IF bvalid THEN <<Led!B>> ELSE <<>>)')
        /\ Led!Promise!Offers(Led!R, rready, Led!R', (IF rvalid THEN <<Led!R>> ELSE <<>>)')
    BY <1>1, ResponsesOffered DEF Led!Promise!Offers, Led!B, Led!R, Offers, B, R, bq, rq, beat
  <1> QED
    BY <1>2, <1>3, <1>4, <1>5, <1>6 DEF Led!Promise!Cycle

LEMMA LedResetStep ==
  ASSUME Shared, LedStores, Led!TBReset
  PROVE  Led!Promise!Reset /\ Shared' /\ LedStores'
  <1>1. Typed /\ Buffered /\ Noted /\ HandshakeResets
    BY LedResets DEF Shared
  <1>2. Renoted(led_reg)
    BY DEF Led!TBReset, Led!LedReset, Led!ResponsesReset, Led!NoteWrite, Led!ReadWord,
       Led!check, Renoted, Codes
  <1>3. Shared'
    BY <1>1, <1>2, ResetTypes, RenotedIsNoted DEF Shared, LedStores
  <1>4. \/ led_reg' = led_reg
        \/ /\ Slave!write_enable
           /\ led_reg' = [l \in Lanes |-> IF l \in Slave!wbeat.strb
                                          THEN Slave!wbeat.data[l] ELSE led_reg[l]]
    BY DEF Led!TBReset, Led!LedReset, Led!LedWrite, Led!Merged, Led!write_enable, Led!wbeat,
       Led!write_response_stall, Led!valid_write_address, Led!valid_write_data,
       Slave!write_enable, Slave!wbeat, Slave!write_response_stall,
       Slave!valid_write_address, Slave!valid_write_data
  <1>5. LedStores'
    <2>1. Slave!write_enable => Slave!wbeat \in Writes
      BY <1>1, BeatsAreThere DEF Slave!write_enable
    <2> QED
      BY <1>4, <2>1, MergedIsWord DEF LedStores
  <1>6. Led!Promise!Reset
    <2>1. /\ (IF awready THEN <<>> ELSE <<pre_waddr>>)' = <<>>
          /\ (IF wready THEN <<>> ELSE <<pre_w>>)' = <<>>
          /\ (IF bvalid THEN <<Led!B>> ELSE <<>>)' = <<>>
          /\ (IF arready THEN <<>> ELSE <<pre_raddr>>)' = <<>>
          /\ (IF rvalid THEN <<Led!R>> ELSE <<>>)' = <<>>
          /\ Led!B' = NONE /\ Led!R' = NONE
      BY <1>1 DEF HandshakeResets, Slave!HandshakeReset, Led!B, Led!R
    <2>2. Slave!write_enable =>
            /\ Slave!waddr \in Led!Promise!UnderWay(IF awready THEN <<>> ELSE <<pre_waddr>>, aw)
            /\ Slave!wbeat \in Led!Promise!UnderWay(IF wready THEN <<>> ELSE <<pre_w>>, w)
      BY <1>1, WriteUnderWay DEF UnderWay, Led!Promise!UnderWay, awq, wq
    <2> QED
      BY <1>4, <2>1, <2>2 DEF Led!Promise!Reset
  <1> QED
    BY <1>3, <1>5, <1>6

-----------------------------------------------------------------------------
(* The GPIO *)

\* A register after the write of this cycle.
MergedBy(old) == [l \in Lanes |-> IF l \in Slave!wbeat.strb THEN Slave!wbeat.data[l]
                                  ELSE old[l]]

\* The write of this cycle selects the registers of the GPIO: nothing, the
\* output or the direction changes.
GpioWritten ==
  /\ gpio_o' = IF Slave!waddr % 4096 < 4 THEN MergedBy(gpio_o) ELSE gpio_o
  /\ gpio_en' = IF Slave!waddr % 4096 >= 4 /\ Slave!waddr % 4096 < 8
                THEN MergedBy(gpio_en) ELSE gpio_en

LEMMA GpioQueues ==
  /\ Gpio!Promise!awIn = With(awq, aw, awready)
  /\ Gpio!Promise!wIn = With(wq, w, wready)
  /\ Gpio!Promise!arIn = With(arq, ar, arready)
  /\ Gpio!Promise!bOut = Without(bq, B, bready)
  /\ Gpio!Promise!rOut = Without(rq, R, rready)
  BY DEF Gpio!Promise!awIn, Gpio!Promise!wIn, Gpio!Promise!arIn, Gpio!Promise!bOut,
     Gpio!Promise!rOut, Gpio!Promise!With, Gpio!Promise!Without, Gpio!B, Gpio!R,
     With, Without, awq, wq, arq, bq, rq, B, R, beat

\* The word a read takes, by its address.
GpioRead(a) == IF a % 4096 < 4 THEN gpio_sync ELSE IF a % 4096 < 8 THEN gpio_en ELSE rdata

LEMMA GpioSelects ==
  ASSUME Slave!raddr \in Nat
  PROVE  Gpio!Selected = GpioRead(Slave!raddr)
  <1>1. /\ (Slave!raddr \div 4) % 1024 = 0 <=> Slave!raddr % 4096 < 4
        /\ (Slave!raddr \div 4) % 1024 = 1
             <=> Slave!raddr % 4096 >= 4 /\ Slave!raddr % 4096 < 8
        /\ Slave!raddr % 4096 \in Nat
    BY RegisterOf
  <1>2. Gpio!raddr = Slave!raddr
    BY DEF Gpio!raddr, Slave!raddr
  <1> QED
    BY <1>1, <1>2 DEF Gpio!Selected, Gpio!GPIO_DATA, Gpio!GPIO_DIR, Gpio!Reg, GpioRead

LEMMA GpioWrites ==
  ASSUME Typed, Buffered, Gpio!GpioWrite
  PROVE  /\ Slave!write_enable => GpioWritten
         /\ ~Slave!write_enable => gpio_o' = gpio_o /\ gpio_en' = gpio_en
  <1>1. Gpio!write_enable <=> Slave!write_enable
    BY DEF Gpio!write_enable, Gpio!write_response_stall, Gpio!valid_write_address,
       Gpio!valid_write_data, Slave!write_enable, Slave!write_response_stall,
       Slave!valid_write_address, Slave!valid_write_data
  <1>2. Gpio!waddr = Slave!waddr /\ Gpio!wbeat = Slave!wbeat
    BY DEF Gpio!waddr, Gpio!wbeat, Slave!waddr, Slave!wbeat
  <1>3. CASE Slave!write_enable
    <2>1. Slave!waddr \in Nat
      BY <1>3, BeatsAreThere DEF Slave!write_enable
    <2>2. /\ (Slave!waddr \div 4) % 1024 = 0 <=> Slave!waddr % 4096 < 4
          /\ (Slave!waddr \div 4) % 1024 = 1
               <=> Slave!waddr % 4096 >= 4 /\ Slave!waddr % 4096 < 8
      BY <2>1, RegisterOf
    <2> QED
      BY <1>1, <1>2, <1>3, <2>2
      DEF Gpio!GpioWrite, Gpio!WriteTo, Gpio!Merged, Gpio!Reg, Gpio!GPIO_DATA,
          Gpio!GPIO_DIR, GpioWritten, MergedBy
  <1>4. CASE ~Slave!write_enable
    BY <1>1, <1>4 DEF Gpio!GpioWrite, Gpio!WriteTo
  <1> QED
    BY <1>3, <1>4

LEMMA GpioNotes ==
  ASSUME Shared, Gpio!Clock
  PROVE  /\ Noting(8, Gpio!Selected)
         /\ Slave!write_enable => GpioWritten
         /\ ~Slave!write_enable => gpio_o' = gpio_o /\ gpio_en' = gpio_en
         /\ gpio_i' \in Pins /\ q0' = gpio_i /\ gpio_sync' = q0
  <1>1. /\ Slave!valid_write_address => Gpio!check(Slave!waddr) = Code(8, Slave!waddr)
        /\ Slave!read_enable => Gpio!check(Slave!raddr) = Code(8, Slave!raddr)
    BY BeatsAreThere, ChecksAreCodes DEF Shared, Slave!read_enable
  <1>2. /\ bresp' = IF ~Slave!write_response_stall /\ Slave!valid_write_address
                    THEN Gpio!check(Slave!waddr) ELSE bresp
        /\ IF Slave!read_enable THEN rdata' = Gpio!Selected /\ rresp' = Gpio!check(Slave!raddr)
           ELSE rdata' = rdata /\ rresp' = rresp
    BY DEF Gpio!Clock, Gpio!GpioEdge, Gpio!NoteWrite, Gpio!ReadWord, Gpio!note_enable,
       Gpio!read_enable, Gpio!write_response_stall, Gpio!valid_write_address, Gpio!waddr,
       Gpio!raddr, Gpio!read_response_stall, Gpio!valid_read_address,
       Slave!read_enable, Slave!write_response_stall, Slave!valid_write_address,
       Slave!waddr, Slave!raddr, Slave!read_response_stall, Slave!valid_read_address
  <1>3. Gpio!GpioWrite => /\ Slave!write_enable => GpioWritten
                          /\ ~Slave!write_enable => gpio_o' = gpio_o /\ gpio_en' = gpio_en
    BY GpioWrites DEF Shared
  <1> QED
    BY <1>1, <1>2, <1>3 DEF Noting, Gpio!Clock, Gpio!GpioEdge, Gpio!Synchronize

LEMMA GpioCycle ==
  ASSUME Shared, GpioStores, Gpio!Clock
  PROVE  Gpio!Promise!Cycle /\ Shared' /\ GpioStores'
  <1>1. /\ Typed /\ Buffered /\ Noted /\ Handshake /\ Noting(8, Gpio!Selected)
        /\ Gpio!Selected \in Word
    BY GpioHandshake, GpioNotes DEF Shared, Noted, GpioStores, Gpio!Selected
  <1>2. Shared'
    BY <1>1, HandshakeTypes, NotedAgain DEF Shared
  <1>3. GpioStores'
    <2>1. CASE Slave!write_enable
      <3>1. Slave!wbeat \in Writes
        BY <1>1, <2>1, BeatsAreThere DEF Slave!write_enable
      <3>2. MergedBy(gpio_o) \in Word /\ MergedBy(gpio_en) \in Word
        BY <3>1, MergedIsWord DEF MergedBy, GpioStores
      <3> QED
        BY <2>1, <3>2, GpioNotes, Constants DEF GpioStores, GpioWritten
    <2>2. CASE ~Slave!write_enable
      BY <2>2, GpioNotes, Constants DEF GpioStores
    <2> QED
      BY <2>1, <2>2
  <1>4. Gpio!Promise!PerformWrite \/ Gpio!Promise!NoWrite
    <2>1. /\ awq' = (IF awready THEN <<>> ELSE <<pre_waddr>>)'
          /\ wq' = (IF wready THEN <<>> ELSE <<pre_w>>)'
          /\ bq' = (IF bvalid THEN <<Gpio!B>> ELSE <<>>)'
      BY DEF awq, wq, bq, Gpio!B
    <2> DEFINE c == [out |-> gpio_o, dir |-> gpio_en, seen |-> gpio_sync]
               d == [out |-> gpio_o, dir |-> gpio_en, seen |-> gpio_sync']
    <2>2. d \in {[c EXCEPT !.seen = x] : x \in Gpio!Word}
      BY GpioNotes DEF GpioStores, Gpio!Word, Word
    <2>3. CASE Slave!write_enable
      <3>1. /\ Gpio!Promise!awIn = <<Slave!waddr>> /\ Gpio!Promise!wIn = <<Slave!wbeat>>
            /\ Gpio!Promise!bOut = <<>>
        BY <1>1, <2>3, GpioQueues, WriteQueues, Arrived, NoneLeft
      <3>2. /\ awq' = <<>> /\ wq' = <<>>
            /\ bq' = <<Code(8, Slave!waddr)>>
        BY <1>1, <2>3, WriteQueues, ResponseQueues
      <3> DEFINE a == Head(Gpio!Promise!awIn)
                 wb == Head(Gpio!Promise!wIn)
                 new(old) == [l \in Lanes |-> IF l \in wb.strb THEN wb.data[l] ELSE old[l]]
                 After(x) == IF a % 4096 < 4 THEN [x EXCEPT !.out = new(@)]
                             ELSE IF a % 4096 < 8 THEN [x EXCEPT !.dir = new(@)]
                             ELSE x
      <3>3. /\ a = Slave!waddr /\ wb = Slave!wbeat /\ Slave!waddr \in Nat
            /\ \A x : new(x) = MergedBy(x)
        BY <1>1, <2>3, <3>1, BeatsAreThere DEF Slave!write_enable, MergedBy
      <3>4. c' = After(d)
        <4> HIDE DEF a, wb, new
        <4> QED
          BY <2>3, <3>3, GpioNotes DEF GpioWritten
      <3>5. \E x \in {[c EXCEPT !.seen = x] : x \in Gpio!Word} : c' = After(x)
        <4> HIDE DEF c, d, After
        <4> QED
          BY <2>2, <3>4
      <3>6. /\ Gpio!Promise!awIn # <<>> /\ Gpio!Promise!wIn # <<>>
            /\ awq' = Tail(Gpio!Promise!awIn) /\ wq' = Tail(Gpio!Promise!wIn)
            /\ bq' = Append(Gpio!Promise!bOut,
                            IF Gpio!IsRegister(a) THEN "OKAY" ELSE "SLVERR")
        BY <3>1, <3>2, <3>3 DEF Gpio!IsRegister, Code
      <3>7. /\ (IF awready THEN <<>> ELSE <<pre_waddr>>)' = Tail(Gpio!Promise!awIn)
            /\ (IF wready THEN <<>> ELSE <<pre_w>>)' = Tail(Gpio!Promise!wIn)
            /\ (IF bvalid THEN <<Gpio!B>> ELSE <<>>)'
                 = Append(Gpio!Promise!bOut,
                          IF Gpio!IsRegister(a) THEN "OKAY" ELSE "SLVERR")
        BY <2>1, <3>6
      <3> QED
        BY <3>5, <3>6, <3>7 DEF Gpio!Promise!PerformWrite
    <2>4. CASE ~Slave!write_enable
      <3>1. /\ awq' = Gpio!Promise!awIn /\ wq' = Gpio!Promise!wIn
            /\ bq' = Gpio!Promise!bOut
        BY <1>1, <2>4, GpioQueues, WriteQueues, ResponseQueues
      <3>2. c' = d
        BY <2>4, GpioNotes
      <3> HIDE DEF d
      <3> QED
        BY <2>1, <2>2, <3>1, <3>2 DEF Gpio!Promise!NoWrite
    <2> QED
      BY <2>3, <2>4
  <1>5. Gpio!Promise!PerformRead \/ Gpio!Promise!NoRead
    <2>1. /\ arq' = (IF arready THEN <<>> ELSE <<pre_raddr>>)'
          /\ rq' = (IF rvalid THEN <<Gpio!R>> ELSE <<>>)'
      BY DEF arq, rq, beat, Gpio!R
    <2>2. CASE Slave!read_enable
      <3>1. /\ Gpio!Promise!arIn = <<Slave!raddr>> /\ Gpio!Promise!rOut = <<>>
        BY <1>1, <2>2, GpioQueues, ReadQueues, Arrived, NoneLeft
      <3>2. Slave!raddr \in Nat
        BY <1>1, <2>2, BeatsAreThere DEF Slave!read_enable
      <3> DEFINE a == Head(Gpio!Promise!arIn)
                 c == [out |-> gpio_o, dir |-> gpio_en, seen |-> gpio_sync]
                 Beats(x) == IF a % 4096 < 4 THEN {[resp |-> "OKAY", data |-> x.seen]}
                             ELSE IF a % 4096 < 8 THEN {[resp |-> "OKAY", data |-> x.dir]}
                             ELSE [resp : {"SLVERR"}, data : Gpio!Word]
                 y == [resp |-> Code(8, a), data |-> GpioRead(a)]
      <3>3. a = Slave!raddr /\ a \in Nat
        BY <3>1, <3>2
      <3>4. arq' = <<>> /\ rq' = <<y>>
        BY <1>1, <2>2, <3>3, GpioSelects, ReadQueues, ResponseQueues
      <3>5. y \in Beats(c)
        <4> HIDE DEF a
        <4>1. CASE a % 4096 < 4
          BY <3>3, <4>1 DEF Code, GpioRead
        <4>2. CASE ~(a % 4096 < 4) /\ a % 4096 < 8
          BY <3>3, <4>2 DEF Code, GpioRead
        <4>3. CASE ~(a % 4096 < 4) /\ ~(a % 4096 < 8)
          BY <1>1, <3>3, <4>3 DEF Noted, Gpio!Word, Word, Code, GpioRead
        <4> QED
          BY <3>3, <4>1, <4>2, <4>3
      <3>6. \E x \in Beats(c) \cup Beats(c') :
              (IF rvalid THEN <<Gpio!R>> ELSE <<>>)' = Append(Gpio!Promise!rOut, x)
        <4> HIDE DEF y, Beats, c
        <4> QED
          BY <2>1, <3>1, <3>4, <3>5
      <3>7. /\ Gpio!Promise!arIn # <<>>
            /\ (IF arready THEN <<>> ELSE <<pre_raddr>>)' = Tail(Gpio!Promise!arIn)
        BY <2>1, <3>1, <3>4
      <3> QED
        BY <3>6, <3>7 DEF Gpio!Promise!PerformRead
    <2>3. CASE ~Slave!read_enable
      <3>1. arq' = Gpio!Promise!arIn /\ rq' = Gpio!Promise!rOut
        BY <1>1, <2>3, GpioQueues, ReadQueues, ResponseQueues
      <3> QED
        BY <2>1, <3>1 DEF Gpio!Promise!NoRead
    <2> QED
      BY <2>2, <2>3
  <1>6. /\ Gpio!Promise!Offers(Gpio!B, bready, Gpio!B', (IF bvalid THEN <<Gpio!B>> ELSE <<>>)')
        /\ Gpio!Promise!Offers(Gpio!R, rready, Gpio!R', (IF rvalid THEN <<Gpio!R>> ELSE <<>>)')
    BY <1>1, ResponsesOffered
    DEF Gpio!Promise!Offers, Gpio!B, Gpio!R, Offers, B, R, bq, rq, beat
  <1> QED
    BY <1>2, <1>3, <1>4, <1>5, <1>6 DEF Gpio!Promise!Cycle

LEMMA GpioResetStep ==
  ASSUME Shared, GpioStores, Gpio!TBReset
  PROVE  Gpio!Promise!Reset /\ Shared' /\ GpioStores'
  <1>1. /\ Typed /\ Buffered /\ Noted /\ HandshakeResets
        /\ Gpio!Selected \in Word
    BY GpioResets DEF Shared, Noted, GpioStores, Gpio!Selected
  <1>2. Renoted(Gpio!Selected)
    <2>1. \A x : Gpio!check(x) \in Codes
      BY DEF Gpio!check, Codes
    <2>2. Gpio!ResponsesReset(Gpio!Selected)
      BY DEF Gpio!TBReset, Gpio!GpioReset
    <2> HIDE DEF Gpio!Selected
    <2> QED
      BY <2>1, <2>2 DEF Gpio!ResponsesReset, Gpio!NoteWrite, Gpio!ReadWord, Renoted
  <1>3. Shared'
    BY <1>1, <1>2, ResetTypes, RenotedIsNoted DEF Shared
  <1>4. /\ \/ gpio_o' = gpio_o /\ gpio_en' = gpio_en
           \/ Slave!write_enable /\ GpioWritten
        /\ q0' = Low /\ gpio_sync' = Low /\ gpio_i' \in Pins
    BY <1>1, GpioWrites DEF Gpio!TBReset, Gpio!GpioReset
  <1>5. Slave!write_enable => Slave!waddr \in Nat /\ Slave!wbeat \in Writes
    BY <1>1, BeatsAreThere DEF Slave!write_enable
  <1>6. GpioStores'
    <2>1. CASE Slave!write_enable /\ GpioWritten
      <3>1. MergedBy(gpio_o) \in Word /\ MergedBy(gpio_en) \in Word
        BY <1>5, <2>1, MergedIsWord DEF MergedBy, GpioStores
      <3> QED
        BY <1>4, <2>1, <3>1, Constants DEF GpioStores, GpioWritten
    <2>2. CASE gpio_o' = gpio_o /\ gpio_en' = gpio_en
      BY <1>4, <2>2, Constants DEF GpioStores
    <2> QED
      BY <1>4, <2>1, <2>2
  <1>7. Gpio!Promise!Reset
    <2>1. /\ (IF awready THEN <<>> ELSE <<pre_waddr>>)' = <<>>
          /\ (IF wready THEN <<>> ELSE <<pre_w>>)' = <<>>
          /\ (IF bvalid THEN <<Gpio!B>> ELSE <<>>)' = <<>>
          /\ (IF arready THEN <<>> ELSE <<pre_raddr>>)' = <<>>
          /\ (IF rvalid THEN <<Gpio!R>> ELSE <<>>)' = <<>>
          /\ Gpio!B' = NONE /\ Gpio!R' = NONE
      BY <1>1 DEF HandshakeResets, Slave!HandshakeReset, Gpio!B, Gpio!R
    <2> DEFINE c == [out |-> gpio_o, dir |-> gpio_en, seen |-> gpio_sync]
               As == Gpio!Promise!UnderWay(IF awready THEN <<>> ELSE <<pre_waddr>>, aw)
               Ds == Gpio!Promise!UnderWay(IF wready THEN <<>> ELSE <<pre_w>>, w)
               new(old, wb) == [l \in Lanes |-> IF l \in wb.strb THEN wb.data[l] ELSE old[l]]
               After(a, wb) == IF a % 4096 < 4 THEN [c EXCEPT !.out = new(@, wb)]
                               ELSE IF a % 4096 < 8 THEN [c EXCEPT !.dir = new(@, wb)]
                               ELSE c
    <2>2. \/ c' = [c EXCEPT !.seen = Low]
          \/ \E a \in As, wb \in Ds : c' = [After(a, wb) EXCEPT !.seen = Low]
      <3>1. CASE gpio_o' = gpio_o /\ gpio_en' = gpio_en
        BY <1>4, <3>1
      <3>2. CASE Slave!write_enable /\ GpioWritten
        <4>1. Slave!waddr \in As /\ Slave!wbeat \in Ds
          BY <1>1, <3>2, WriteUnderWay DEF UnderWay, Gpio!Promise!UnderWay, awq, wq
        <4>2. c' = [After(Slave!waddr, Slave!wbeat) EXCEPT !.seen = Low]
          <5>1. /\ new(gpio_o, Slave!wbeat) = MergedBy(gpio_o)
                /\ new(gpio_en, Slave!wbeat) = MergedBy(gpio_en)
                /\ c.out = gpio_o /\ c.dir = gpio_en
            BY DEF MergedBy
          <5> HIDE DEF new
          <5>2. CASE Slave!waddr % 4096 < 4
            <6>1. c' = [out |-> new(c.out, Slave!wbeat), dir |-> gpio_en, seen |-> Low]
              BY <1>4, <1>5, <3>2, <5>1, <5>2 DEF GpioWritten
            <6>2. After(Slave!waddr, Slave!wbeat) = [c EXCEPT !.out = new(c.out, Slave!wbeat)]
              BY <5>2
            <6>3. ASSUME NEW v, NEW e, e = [[c EXCEPT !.out = v] EXCEPT !.seen = Low]
                  PROVE  e = [out |-> v, dir |-> gpio_en, seen |-> Low]
              <7>1. e = [out |-> e.out, dir |-> e.dir, seen |-> e.seen]
                BY <6>3
              <7> QED
                BY <6>3, <7>1
            <6> HIDE DEF After, c
            <6> QED
              BY <6>1, <6>2, <6>3
          <5>3. CASE ~(Slave!waddr % 4096 < 4) /\ Slave!waddr % 4096 < 8
            <6>1. c' = [out |-> gpio_o, dir |-> new(c.dir, Slave!wbeat), seen |-> Low]
              BY <1>4, <1>5, <3>2, <5>1, <5>3 DEF GpioWritten
            <6>2. After(Slave!waddr, Slave!wbeat) = [c EXCEPT !.dir = new(c.dir, Slave!wbeat)]
              BY <5>3
            <6>3. ASSUME NEW v, NEW e, e = [[c EXCEPT !.dir = v] EXCEPT !.seen = Low]
                  PROVE  e = [out |-> gpio_o, dir |-> v, seen |-> Low]
              <7>1. e = [out |-> e.out, dir |-> e.dir, seen |-> e.seen]
                BY <6>3
              <7> QED
                BY <6>3, <7>1
            <6> HIDE DEF After, c
            <6> QED
              BY <6>1, <6>2, <6>3
          <5>4. CASE ~(Slave!waddr % 4096 < 4) /\ ~(Slave!waddr % 4096 < 8)
            BY <1>4, <1>5, <3>2, <5>1, <5>4 DEF GpioWritten
          <5> QED
            BY <5>2, <5>3, <5>4
        <4> HIDE DEF c, As, Ds, After
        <4> QED
          BY <4>1, <4>2
      <3> QED
        BY <1>4, <3>1, <3>2
    <2> QED
      BY <2>1, <2>2 DEF Gpio!Promise!Reset
  <1> QED
    BY <1>3, <1>6, <1>7

-----------------------------------------------------------------------------
(* The timer *)

LEMMA TimerQueues ==
  /\ Timer!Promise!awIn = With(awq, aw, awready)
  /\ Timer!Promise!wIn = With(wq, w, wready)
  /\ Timer!Promise!arIn = With(arq, ar, arready)
  /\ Timer!Promise!bOut = Without(bq, B, bready)
  /\ Timer!Promise!rOut = Without(rq, R, rready)
  BY DEF Timer!Promise!awIn, Timer!Promise!wIn, Timer!Promise!arIn, Timer!Promise!bOut,
     Timer!Promise!rOut, Timer!Promise!With, Timer!Promise!Without, Timer!B, Timer!R,
     With, Without, awq, wq, arq, bq, rq, B, R, beat

\* A byte is a digit, and there is an instant.
LEMMA Digital ==
  /\ Timer!Radix \in Nat \ {0} /\ Byte = 0..Timer!Radix - 1
  /\ Timer!Size \in Nat /\ Lanes = 0..Timer!Size - 1
  /\ \A n \in 0..2 * Timer!Size : Timer!Radix^n \in Nat \ {0}
  /\ Timer!Instants \in Nat \ {0}
  <1>1. /\ Timer!Size = Cardinality(Lanes) /\ Timer!Radix = Cardinality(Byte)
        /\ Timer!IsFiniteSet(Lanes) <=> IsFiniteSet(Lanes)
        /\ Timer!IsFiniteSet(Byte) <=> IsFiniteSet(Byte)
    BY DEF Timer!Size, Timer!Radix, Timer!Cardinality, Cardinality,
       Timer!IsFiniteSet, IsFiniteSet
  <1>2. /\ IsFiniteSet(Lanes) /\ Lanes = 0..(Timer!Size - 1)
        /\ IsFiniteSet(Byte) /\ 1 \in Byte /\ Byte = 0..(Timer!Radix - 1)
    BY <1>1, PeripheralsAssumption DEF Timer!TimerConstants, Timer!Size, Timer!Radix
  <1>3. Timer!Radix \in Nat /\ Timer!Size \in Nat
    BY <1>1, <1>2, FS_CardinalityType
  <1>4. Timer!Radix # 0
    BY <1>2, <1>3
  <1>5. \A n \in 0..2 * Timer!Size : Timer!Radix^n \in Nat \ {0}
    BY PeripheralsAssumption
  <1>6. 2 * Timer!Size \in 0..2 * Timer!Size
    BY <1>3
  <1> QED
    BY <1>2, <1>3, <1>4, <1>5, <1>6 DEF Timer!Instants

\* The digits of an instant are words.
LEMMA DigitsAreWords ==
  ASSUME NEW n \in Nat
  PROVE  Timer!Digits(n, 0) \in Word /\ Timer!Digits(n, Timer!Size) \in Word
  <1>1. ASSUME NEW k \in {0, Timer!Size}, NEW l \in Lanes
        PROVE  (n \div Timer!Radix^(k + l)) % Timer!Radix \in Byte
    <2>1. k + l \in 0..2 * Timer!Size
      BY Digital
    <2>2. Timer!Radix^(k + l) \in Nat \ {0}
      BY <2>1, Digital
    <2>3. \A p \in Nat \ {0}, q \in Nat \ {0} : (n \div p) % q \in 0..q - 1
      OBVIOUS
    <2> QED
      BY <2>2, <2>3, Digital
  <1> QED
    BY <1>1 DEF Timer!Digits, Word

LEMMA HighestIsWord == Timer!Highest \in Word
  BY Digital DEF Timer!Highest, Word

\* The register an address selects.
LEMMA HalfOf ==
  ASSUME NEW a \in Nat
  PROVE  /\ (a \div 4) % 1024 = Timer!Half(a)
         /\ Timer!Half(a) \in Nat
         /\ Timer!Half(a) < 4 <=> a % 4096 < 16
  BY RegisterOf DEF Timer!Half

\* The word a read takes, by its address.
TimerRead(a) == CASE Timer!Half(a) = 0 -> Timer!Digits(mtime, 0)
                  [] Timer!Half(a) = 1 -> Timer!Digits(mtime, Timer!Size)
                  [] Timer!Half(a) = 2 -> mtimecmp[1]
                  [] Timer!Half(a) = 3 -> mtimecmp[2]
                  [] OTHER -> rdata

LEMMA TimerSelects ==
  ASSUME Slave!raddr \in Nat
  PROVE  Timer!Selected = TimerRead(Slave!raddr)
  <1>1. Timer!raddr = Slave!raddr
    BY DEF Timer!raddr, Slave!raddr
  <1>2. Timer!Reg(Slave!raddr) = Timer!Half(Slave!raddr)
    BY HalfOf DEF Timer!Reg
  <1> QED
    BY <1>1, <1>2 DEF Timer!Selected, Timer!MTIME, Timer!MTIMEH, Timer!MTIMECMP,
       Timer!MTIMECMPH, TimerRead

\* The write of this cycle selects a word of the compare register, or none.
TimerWritten ==
  mtimecmp' = CASE Timer!Half(Slave!waddr) = 2 -> [mtimecmp EXCEPT ![1] = MergedBy(@)]
                [] Timer!Half(Slave!waddr) = 3 -> [mtimecmp EXCEPT ![2] = MergedBy(@)]
                [] OTHER -> mtimecmp

LEMMA TimerNotes ==
  ASSUME Shared, Timer!Clock
  PROVE  /\ Noting(16, Timer!Selected)
         /\ Slave!write_enable => TimerWritten
         /\ ~Slave!write_enable => mtimecmp' = mtimecmp
         /\ Timer!Advance
  <1>1. /\ Slave!valid_write_address => Timer!check(Slave!waddr) = Code(16, Slave!waddr)
        /\ Slave!read_enable => Timer!check(Slave!raddr) = Code(16, Slave!raddr)
    BY BeatsAreThere, ChecksAreCodes DEF Shared, Slave!read_enable
  <1>2. /\ bresp' = IF ~Slave!write_response_stall /\ Slave!valid_write_address
                    THEN Timer!check(Slave!waddr) ELSE bresp
        /\ IF Slave!read_enable
           THEN rdata' = Timer!Selected /\ rresp' = Timer!check(Slave!raddr)
           ELSE rdata' = rdata /\ rresp' = rresp
    BY DEF Timer!Clock, Timer!TimerEdge, Timer!NoteWrite, Timer!ReadWord,
       Timer!note_enable, Timer!read_enable, Timer!write_response_stall,
       Timer!valid_write_address, Timer!waddr, Timer!raddr, Timer!read_response_stall,
       Timer!valid_read_address, Slave!read_enable, Slave!write_response_stall,
       Slave!valid_write_address, Slave!waddr, Slave!raddr, Slave!read_response_stall,
       Slave!valid_read_address
  <1>3. Timer!write_enable = Slave!write_enable
    BY DEF Timer!write_enable, Timer!write_response_stall, Timer!valid_write_address,
       Timer!valid_write_data, Slave!write_enable, Slave!write_response_stall,
       Slave!valid_write_address, Slave!valid_write_data
  <1>4. /\ Slave!write_enable => TimerWritten
        /\ ~Slave!write_enable => mtimecmp' = mtimecmp
    <2>1. Timer!CompareWrite
      BY DEF Timer!Clock, Timer!TimerEdge
    <2>2. CASE Slave!write_enable
      <3>1. Slave!waddr \in Nat
        BY <2>2, BeatsAreThere DEF Shared, Slave!write_enable
      <3>2. Timer!Reg(Slave!waddr) = Timer!Half(Slave!waddr)
        BY <3>1, HalfOf DEF Timer!Reg
      <3>3. Timer!waddr = Slave!waddr /\ Timer!wbeat = Slave!wbeat
        BY DEF Timer!waddr, Timer!wbeat, Slave!waddr, Slave!wbeat
      <3> QED
        BY <1>3, <2>1, <2>2, <3>2, <3>3
        DEF Timer!CompareWrite, Timer!Merged, Timer!MTIMECMP, Timer!MTIMECMPH,
            TimerWritten, MergedBy
    <2>3. CASE ~Slave!write_enable
      BY <1>3, <2>1, <2>3 DEF Timer!CompareWrite
    <2> QED
      BY <2>2, <2>3
  <1> QED
    BY <1>1, <1>2, <1>4 DEF Noting, Timer!Clock, Timer!TimerEdge

\* A pair of words with one of them written.
LEMMA PairWritten ==
  ASSUME NEW p \in Word \X Word, NEW x \in Word
  PROVE  /\ [p EXCEPT ![1] = x] \in Word \X Word
         /\ [p EXCEPT ![2] = x] \in Word \X Word
         /\ p[1] \in Word /\ p[2] \in Word
  <1>1. PICK u \in Word, v \in Word : p = <<u, v>>
    OBVIOUS
  <1>2. [p EXCEPT ![1] = x] = <<x, v>>
    BY <1>1
  <1>3. [p EXCEPT ![2] = x] = <<u, x>>
    BY <1>1
  <1> QED
    BY <1>1, <1>2, <1>3

LEMMA TimerCycle ==
  ASSUME Shared, TimerStores, Timer!Clock
  PROVE  Timer!Promise!Cycle /\ Shared' /\ TimerStores'
  <1>1. /\ Typed /\ Buffered /\ Noted /\ Handshake /\ Noting(16, Timer!Selected)
        /\ Timer!Selected \in Word
    <2>1. mtime \in Nat
      BY Digital DEF TimerStores
    <2>2. mtimecmp[1] \in Word /\ mtimecmp[2] \in Word
      BY PairWritten DEF TimerStores
    <2> QED
      BY <2>1, <2>2, DigitsAreWords, TimerHandshake, TimerNotes
      DEF Shared, Noted, Timer!Selected
  <1>2. Shared'
    BY <1>1, HandshakeTypes, NotedAgain DEF Shared
  <1>3. /\ mtime' = IF mtime + 1 = Timer!Instants THEN 0 ELSE mtime + 1
        /\ mtime' \in 0..Timer!Instants - 1
    <2>1. \A n \in Nat \ {0} : \A t \in 0..n - 1 :
            (t + 1) % n = (IF t + 1 = n THEN 0 ELSE t + 1)
      OBVIOUS
    <2>2. mtime' = (mtime + 1) % Timer!Instants
      BY TimerNotes DEF Timer!Advance
    <2>3. mtime' = IF mtime + 1 = Timer!Instants THEN 0 ELSE mtime + 1
      BY <2>1, <2>2, Digital DEF TimerStores
    <2> QED
      BY <2>3, Digital DEF TimerStores
  <1>4. TimerStores'
    <2>1. CASE Slave!write_enable
      <3>1. Slave!wbeat \in Writes
        BY <1>1, <2>1, BeatsAreThere DEF Slave!write_enable
      <3>2. MergedBy(mtimecmp[1]) \in Word /\ MergedBy(mtimecmp[2]) \in Word
        BY <3>1, MergedIsWord, PairWritten DEF MergedBy, TimerStores
      <3> QED
        BY <1>3, <2>1, <3>2, TimerNotes, PairWritten DEF TimerStores, TimerWritten
    <2>2. CASE ~Slave!write_enable
      BY <1>3, <2>2, TimerNotes DEF TimerStores
    <2> QED
      BY <2>1, <2>2
  <1>5. Timer!Promise!PerformWrite \/ Timer!Promise!NoWrite
    <2>1. /\ awq' = (IF awready THEN <<>> ELSE <<pre_waddr>>)'
          /\ wq' = (IF wready THEN <<>> ELSE <<pre_w>>)'
          /\ bq' = (IF bvalid THEN <<Timer!B>> ELSE <<>>)'
      BY DEF awq, wq, bq, Timer!B
    <2> DEFINE c == [time |-> mtime, cmp |-> mtimecmp]
               d == [time |-> mtime', cmp |-> mtimecmp]
    <2>2. d \in {[c EXCEPT !.time = IF c.time + 1 = Timer!Instants THEN 0 ELSE c.time + 1]}
      BY <1>3
    <2>3. CASE Slave!write_enable
      <3>1. /\ Timer!Promise!awIn = <<Slave!waddr>> /\ Timer!Promise!wIn = <<Slave!wbeat>>
            /\ Timer!Promise!bOut = <<>>
        BY <1>1, <2>3, TimerQueues, WriteQueues, Arrived, NoneLeft
      <3>2. /\ awq' = <<>> /\ wq' = <<>>
            /\ bq' = <<Code(16, Slave!waddr)>>
        BY <1>1, <2>3, WriteQueues, ResponseQueues
      <3> DEFINE a == Head(Timer!Promise!awIn)
                 wb == Head(Timer!Promise!wIn)
                 new(old) == [l \in Lanes |-> IF l \in wb.strb THEN wb.data[l] ELSE old[l]]
                 After(x) == IF Timer!Half(a) = 2 THEN [x EXCEPT !.cmp[1] = new(@)]
                             ELSE IF Timer!Half(a) = 3 THEN [x EXCEPT !.cmp[2] = new(@)]
                             ELSE x
      <3>3. /\ a = Slave!waddr /\ wb = Slave!wbeat /\ Slave!waddr \in Nat
            /\ \A x : new(x) = MergedBy(x)
        BY <1>1, <2>3, <3>1, BeatsAreThere DEF Slave!write_enable, MergedBy
      <3>4. c' = After(d)
        <4> HIDE DEF a, wb, new
        <4> QED
          BY <2>3, <3>3, TimerNotes DEF TimerWritten
      <3>5. \E x \in {[c EXCEPT !.time = IF c.time + 1 = Timer!Instants THEN 0
                                         ELSE c.time + 1]} : c' = After(x)
        <4> HIDE DEF c, d, After
        <4> QED
          BY <2>2, <3>4
      <3>6. /\ Timer!Promise!awIn # <<>> /\ Timer!Promise!wIn # <<>>
            /\ awq' = Tail(Timer!Promise!awIn) /\ wq' = Tail(Timer!Promise!wIn)
            /\ bq' = Append(Timer!Promise!bOut,
                            IF Timer!Half(a) < 4 THEN "OKAY" ELSE "SLVERR")
        BY <3>1, <3>2, <3>3, HalfOf DEF Code
      <3>7. /\ (IF awready THEN <<>> ELSE <<pre_waddr>>)' = Tail(Timer!Promise!awIn)
            /\ (IF wready THEN <<>> ELSE <<pre_w>>)' = Tail(Timer!Promise!wIn)
            /\ (IF bvalid THEN <<Timer!B>> ELSE <<>>)'
                 = Append(Timer!Promise!bOut,
                          IF Timer!Half(a) < 4 THEN "OKAY" ELSE "SLVERR")
        BY <2>1, <3>6
      <3> QED
        BY <3>5, <3>6, <3>7 DEF Timer!Promise!PerformWrite
    <2>4. CASE ~Slave!write_enable
      <3>1. /\ awq' = Timer!Promise!awIn /\ wq' = Timer!Promise!wIn
            /\ bq' = Timer!Promise!bOut
        BY <1>1, <2>4, TimerQueues, WriteQueues, ResponseQueues
      <3>2. c' = d
        BY <2>4, TimerNotes
      <3> HIDE DEF d
      <3> QED
        BY <2>1, <2>2, <3>1, <3>2 DEF Timer!Promise!NoWrite
    <2> QED
      BY <2>3, <2>4
  <1>6. Timer!Promise!PerformRead \/ Timer!Promise!NoRead
    <2>1. /\ arq' = (IF arready THEN <<>> ELSE <<pre_raddr>>)'
          /\ rq' = (IF rvalid THEN <<Timer!R>> ELSE <<>>)'
      BY DEF arq, rq, beat, Timer!R
    <2>2. CASE Slave!read_enable
      <3>1. /\ Timer!Promise!arIn = <<Slave!raddr>> /\ Timer!Promise!rOut = <<>>
        BY <1>1, <2>2, TimerQueues, ReadQueues, Arrived, NoneLeft
      <3>2. Slave!raddr \in Nat
        BY <1>1, <2>2, BeatsAreThere DEF Slave!read_enable
      <3> DEFINE a == Head(Timer!Promise!arIn)
                 c == [time |-> mtime, cmp |-> mtimecmp]
                 Beats(x) == IF Timer!Half(a) < 4
                             THEN {[resp |-> "OKAY",
                                    data |-> CASE Timer!Half(a) = 0 -> Timer!Digits(x.time, 0)
                                               [] Timer!Half(a) = 1
                                                    -> Timer!Digits(x.time, Timer!Size)
                                               [] Timer!Half(a) = 2 -> x.cmp[1]
                                               [] Timer!Half(a) = 3 -> x.cmp[2]]}
                             ELSE [resp : {"SLVERR"}, data : Timer!Word]
                 y == [resp |-> Code(16, a), data |-> TimerRead(a)]
      <3>3. a = Slave!raddr /\ a \in Nat
        BY <3>1, <3>2
      <3>4. arq' = <<>> /\ rq' = <<y>>
        BY <1>1, <2>2, <3>3, TimerSelects, ReadQueues, ResponseQueues
      <3>5. y \in Beats(c)
        <4> HIDE DEF a
        <4>1. Timer!Half(a) \in Nat /\ (Timer!Half(a) < 4 <=> a % 4096 < 16)
          BY <3>3, HalfOf
        <4>2. CASE Timer!Half(a) < 4
          BY <4>1, <4>2 DEF Code, TimerRead
        <4>3. CASE ~(Timer!Half(a) < 4)
          BY <1>1, <4>1, <4>3 DEF Noted, Timer!Word, Word, Code, TimerRead
        <4> QED
          BY <4>2, <4>3
      <3>6. \E x \in Beats(c) \cup Beats(c') :
              (IF rvalid THEN <<Timer!R>> ELSE <<>>)' = Append(Timer!Promise!rOut, x)
        <4> HIDE DEF y, Beats, c
        <4> QED
          BY <2>1, <3>1, <3>4, <3>5
      <3>7. /\ Timer!Promise!arIn # <<>>
            /\ (IF arready THEN <<>> ELSE <<pre_raddr>>)' = Tail(Timer!Promise!arIn)
        BY <2>1, <3>1, <3>4
      <3> QED
        BY <3>6, <3>7 DEF Timer!Promise!PerformRead
    <2>3. CASE ~Slave!read_enable
      <3>1. arq' = Timer!Promise!arIn /\ rq' = Timer!Promise!rOut
        BY <1>1, <2>3, TimerQueues, ReadQueues, ResponseQueues
      <3> QED
        BY <2>1, <3>1 DEF Timer!Promise!NoRead
    <2> QED
      BY <2>2, <2>3
  <1>7. /\ Timer!Promise!Offers(Timer!B, bready, Timer!B',
                               (IF bvalid THEN <<Timer!B>> ELSE <<>>)')
        /\ Timer!Promise!Offers(Timer!R, rready, Timer!R',
                               (IF rvalid THEN <<Timer!R>> ELSE <<>>)')
    BY <1>1, ResponsesOffered
    DEF Timer!Promise!Offers, Timer!B, Timer!R, Offers, B, R, bq, rq, beat
  <1> QED
    BY <1>2, <1>4, <1>5, <1>6, <1>7 DEF Timer!Promise!Cycle

LEMMA TimerResetStep ==
  ASSUME Shared, TimerStores, Timer!TBReset
  PROVE  Timer!Promise!Reset /\ Shared' /\ TimerStores'
  <1>1. /\ Typed /\ Buffered /\ Noted /\ HandshakeResets
        /\ Timer!Selected \in Word
    <2>1. mtime \in Nat
      BY Digital DEF TimerStores
    <2>2. mtimecmp[1] \in Word /\ mtimecmp[2] \in Word
      BY PairWritten DEF TimerStores
    <2> QED
      BY <2>1, <2>2, DigitsAreWords, TimerResets DEF Shared, Noted, Timer!Selected
  <1>2. Renoted(Timer!Selected)
    <2>1. \A x : Timer!check(x) \in Codes
      BY DEF Timer!check, Codes
    <2>2. Timer!ResponsesReset(Timer!Selected)
      BY DEF Timer!TBReset, Timer!TimerReset
    <2> HIDE DEF Timer!Selected
    <2> QED
      BY <2>1, <2>2 DEF Timer!ResponsesReset, Timer!NoteWrite, Timer!ReadWord, Renoted
  <1>3. Shared'
    BY <1>1, <1>2, ResetTypes, RenotedIsNoted DEF Shared
  <1>4. mtime' = 0 /\ mtimecmp' = <<Timer!Highest, Timer!Highest>>
    BY DEF Timer!TBReset, Timer!TimerReset
  <1>5. TimerStores'
    BY <1>4, Digital, HighestIsWord DEF TimerStores
  <1>6. Timer!Promise!Reset
    <2>1. /\ (IF awready THEN <<>> ELSE <<pre_waddr>>)' = <<>>
          /\ (IF wready THEN <<>> ELSE <<pre_w>>)' = <<>>
          /\ (IF bvalid THEN <<Timer!B>> ELSE <<>>)' = <<>>
          /\ (IF arready THEN <<>> ELSE <<pre_raddr>>)' = <<>>
          /\ (IF rvalid THEN <<Timer!R>> ELSE <<>>)' = <<>>
          /\ Timer!B' = NONE /\ Timer!R' = NONE
      BY <1>1 DEF HandshakeResets, Slave!HandshakeReset, Timer!B, Timer!R
    <2> QED
      BY <1>4, <2>1 DEF Timer!Promise!Reset
  <1> QED
    BY <1>3, <1>5, <1>6

-----------------------------------------------------------------------------
(* The specification *)

LEMMA InitShared ==
  ASSUME Slave!HandshakeInit, aw = NONE, w = NONE, ar = NONE,
         bready = FALSE, rready = FALSE,
         bresp \in Codes, rresp \in Codes, rdata \in Word
  PROVE  Shared
  BY DEF Slave!HandshakeInit, Shared, Typed, Buffered, Noted

LEMMA LedInit ==
  ASSUME Led!TBInit
  PROVE  Shared /\ LedStores /\ Led!Promise!Init
  <1>1. Shared
    BY InitShared DEF Led!TBInit, Led!SlaveInit, Led!LedInit, Led!ResponsesInit,
       Led!HandshakeInit, Slave!HandshakeInit, Codes, Led!Word, Word
  <1>2. LedStores
    BY DEF Led!TBInit, Led!LedInit, LedStores, Led!Word, Word
  <1>3. Led!Promise!Init
    BY DEF Led!TBInit, Led!SlaveInit, Led!HandshakeInit, Led!Promise!Init, Led!B, Led!R
  <1> QED
    BY <1>1, <1>2, <1>3

LEMMA GpioInit ==
  ASSUME Gpio!TBInit
  PROVE  Shared /\ GpioStores /\ Gpio!Promise!Init
  <1>1. Shared
    BY InitShared DEF Gpio!TBInit, Gpio!SlaveInit, Gpio!GpioInit, Gpio!ResponsesInit,
       Gpio!HandshakeInit, Slave!HandshakeInit, Codes, Gpio!Word, Word
  <1>2. GpioStores
    BY Constants DEF Gpio!TBInit, Gpio!GpioInit, GpioStores, Gpio!Word, Word
  <1>3. Gpio!Promise!Init
    BY DEF Gpio!TBInit, Gpio!SlaveInit, Gpio!HandshakeInit, Gpio!Promise!Init, Gpio!B, Gpio!R
  <1> QED
    BY <1>1, <1>2, <1>3

LEMMA TimerInit ==
  ASSUME Timer!TBInit
  PROVE  Shared /\ TimerStores /\ Timer!Promise!Init
  <1>1. Shared
    BY InitShared DEF Timer!TBInit, Timer!SlaveInit, Timer!TimerInit, Timer!ResponsesInit,
       Timer!HandshakeInit, Slave!HandshakeInit, Codes, Timer!Word, Word
  <1>2. TimerStores
    BY Digital, HighestIsWord DEF Timer!TBInit, Timer!TimerInit, TimerStores
  <1>3. Timer!Promise!Init
    BY DEF Timer!TBInit, Timer!SlaveInit, Timer!HandshakeInit, Timer!Promise!Init, Timer!B, Timer!R
  <1> QED
    BY <1>1, <1>2, <1>3

\* A step of the promise, for the device at hand.
Kept == CASE device = "led" -> Led!Promise!Reset \/ Led!Promise!Cycle
          [] device = "gpio" -> Gpio!Promise!Reset \/ Gpio!Promise!Cycle
          [] device = "timer" -> Timer!Promise!Reset \/ Timer!Promise!Cycle

KeptInit == /\ device = "led" => Led!Promise!Init
            /\ device = "gpio" => Gpio!Promise!Init
            /\ device = "timer" => Timer!Promise!Init

\* What holds at first: the types, and nothing under way.
LEMMA InitIInv == Init => IInv /\ KeptInit
  <1> SUFFICES ASSUME Init PROVE IInv /\ KeptInit
    OBVIOUS
  <1>1. CASE device = "led" /\ Led!TBInit
    BY <1>1, LedInit DEF IInv, KeptInit
  <1>2. CASE device = "gpio" /\ Gpio!TBInit
    BY <1>2, GpioInit DEF IInv, KeptInit
  <1>3. CASE device = "timer" /\ Timer!TBInit
    BY <1>3, TimerInit DEF IInv, KeptInit
  <1> QED
    BY <1>1, <1>2, <1>3 DEF Init

\* Every step keeps the invariant and is a step of the promise.
LEMMA NextIInv == IInv /\ Next => IInv' /\ Kept
  <1> SUFFICES ASSUME IInv, Next PROVE IInv' /\ Kept
    OBVIOUS
  <1> USE DEF IInv
  <1>1. CASE device = "led" /\ Led!Next
    <2>1. device' = "led"
      BY <1>1 DEF Next
    <2>2. (Led!Promise!Reset \/ Led!Promise!Cycle) /\ Shared' /\ LedStores'
      BY <1>1, LedCycle, LedResetStep DEF Led!Next
    <2> QED
      BY <1>1, <2>1, <2>2 DEF Kept
  <1>2. CASE device = "gpio" /\ Gpio!Next
    <2>1. device' = "gpio"
      BY <1>2 DEF Next
    <2>2. (Gpio!Promise!Reset \/ Gpio!Promise!Cycle) /\ Shared' /\ GpioStores'
      BY <1>2, GpioCycle, GpioResetStep DEF Gpio!Next
    <2> QED
      BY <1>2, <2>1, <2>2 DEF Kept
  <1>3. CASE device = "timer" /\ Timer!Next
    <2>1. device' = "timer"
      BY <1>3 DEF Next
    <2>2. (Timer!Promise!Reset \/ Timer!Promise!Cycle) /\ Shared' /\ TimerStores'
      BY <1>3, TimerCycle, TimerResetStep DEF Timer!Next
    <2> QED
      BY <1>3, <2>1, <2>2 DEF Kept
  <1> QED
    BY <1>1, <1>2, <1>3 DEF Next

LEMMA StutterIInv == IInv /\ UNCHANGED vars => IInv'
  BY DEF vars, shared, ofGpio, ofTimer, IInv, Shared, Typed, Buffered, Noted, LedStores,
     GpioStores, TimerStores

\* The registers hold words, the counter an instant, and a low ready wire
\* stands for a beat, in every cycle of the three peripherals.
THEOREM PeripheralsTypeCorrect == Spec => []IInv
  BY InitIInv, NextIInv, StutterIInv, PTL DEF Spec

\* Each of the three peripherals (axi4l_led, axi4l_gpio, axi4l_timer)
\* implements the abstract AXI4-Lite device with its own registers: every
\* cycle and every reset is one of the promise.
THEOREM PeripheralsKeepThePromise == Spec => KeepsPromise
  <1>1. Init => KeptInit
    BY InitIInv
  <1>2. IInv /\ [Next]_vars => [Kept]_vars
    BY NextIInv
  <1>3. Spec => KeptInit /\ [][Kept]_vars
    BY <1>1, <1>2, PeripheralsTypeCorrect, PTL DEF Spec
  <1> QED
    BY <1>3 DEF KeepsPromise, Kept, KeptInit

\* The interrupt wire of the GPIO agrees with what a read of its data register
\* takes in the same cycle.
THEOREM IrqIsReadable == Spec => IrqAgreesWithRead
  <1>1. [Next]_vars =>
          [device = "gpio" /\ Gpio!read_enable /\ Gpio!Reg(Gpio!raddr) = Gpio!GPIO_DATA
             => (Gpio!gpio_irq <=> rdata' # Low) \/ Gpio!TBReset]_vars
    <2> SUFFICES ASSUME Next, device = "gpio", Gpio!read_enable,
                        Gpio!Reg(Gpio!raddr) = Gpio!GPIO_DATA, ~Gpio!TBReset
                 PROVE  Gpio!gpio_irq <=> rdata' # Low
      OBVIOUS
    <2>1. Gpio!Clock
      BY DEF Next, Gpio!Next
    <2>2. rdata' = Gpio!Selected
      BY <2>1 DEF Gpio!Clock, Gpio!GpioEdge, Gpio!ReadWord
    <2>3. Gpio!Selected = gpio_sync
      BY DEF Gpio!Selected, Gpio!GPIO_DATA, Gpio!GPIO_DIR
    <2> QED
      BY <2>2, <2>3 DEF Gpio!gpio_irq
  <1> QED
    BY <1>1, PTL DEF Spec, IrqAgreesWithRead

=============================================================================

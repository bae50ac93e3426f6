---------------------------- MODULE bridges_proofs ----------------------------
(***************************************************************************)
(* Proofs, for all addresses and data, of the safety properties of the     *)
(* path from core port to core port, and of progress as long as the clock  *)
(* runs.                                                                   *)
(***************************************************************************)
EXTENDS bridges, TLAPS

\* What the wires carry.
Wires ==
  /\ core \in Channel(Request)
  /\ c_awready \in BOOLEAN /\ c_wready \in BOOLEAN /\ c_arready \in BOOLEAN
  /\ t_bready \in BOOLEAN /\ t_rready \in BOOLEAN
  /\ gnt \in BOOLEAN
  /\ rsp \in Channel(Response)

(* An access is in one place at a time.  The phases name the place; in each *)
(* of them all other places are empty.                                      *)

NoAddresses == aws = NONE /\ ws = NONE /\ ars = NONE
NoAnswers == bs = NONE /\ rs = NONE
NotGranted == pend = NONE /\ asked = 0 /\ given = NONE /\ rsp = NONE

\* In the core, or nowhere.
InCore == /\ c_state = "IDLE" /\ t_state = "IDLE"
          /\ NoAddresses /\ NoAnswers /\ NotGranted

\* A write of which the bus has one half; the core holds the whole.
Half == /\ core # NONE /\ core.we
        /\ t_state = "IDLE" /\ ars = NONE /\ NoAnswers /\ NotGranted
        /\ \/ c_state = "WRITE_DATA" /\ aws = core.addr /\ ws = NONE
           \/ c_state = "WRITE_ADDR" /\ ws = core.wdata /\ aws = NONE

\* A granted access that waits for its answer; the rest says where.
Waiting(we, wait) == /\ c_state = wait
                     /\ pend \in Request /\ pend.we = we

\* On the bus, before the grant of the target.
OnBus(we, states) == /\ t_state \in states
                     /\ IF we THEN aws = pend.addr /\ ws = pend.wdata /\ ars = NONE
                        ELSE aws = NONE /\ ws = NONE /\ ars = pend.addr
                     /\ NoAnswers /\ asked = 0 /\ given = NONE /\ rsp = NONE

\* In the target.
InTarget(wait0) == /\ t_state = wait0
                   /\ NoAddresses /\ NoAnswers /\ asked = 1 /\ given = NONE

\* Answered: in the buffer of axi4l2core, or on the bus back.
Kept(wait1) == /\ t_state = wait1
               /\ NoAddresses /\ NoAnswers /\ asked = 1 /\ given \in Response /\ rsp = NONE
Back == /\ t_state = "IDLE"
        /\ NoAddresses /\ asked = 1 /\ given \in Response /\ rsp = NONE

Code(answer) == IF answer.err THEN "SLVERR" ELSE "OKAY"
Beat(answer) == [resp |-> Code(answer), data |-> answer.rdata]

Writing ==
  /\ Waiting(TRUE, "WRITE_WAIT")
  /\ \/ OnBus(TRUE, {"IDLE", "WRITE"})
     \/ InTarget("WRITE_WAIT0")
     \/ Kept("WRITE_WAIT1") /\ bbuf = Code(given)
     \/ Back /\ bs = Code(given) /\ rs = NONE

Reading ==
  /\ Waiting(FALSE, "READ_WAIT")
  /\ \/ OnBus(FALSE, {"IDLE", "READ"})
     \/ InTarget("READ_WAIT0")
     \/ Kept("READ_WAIT1") /\ rbuf = Beat(given)
     \/ Back /\ rs = Beat(given) /\ bs = NONE

Phases == InCore \/ Half \/ Writing \/ Reading

IInv == Wires /\ Phases

-----------------------------------------------------------------------------
(* Payloads *)

LEMMA RequestFacts ==
  ASSUME NEW q \in Request
  PROVE  /\ q # NONE
         /\ q.we \in BOOLEAN
         /\ q.addr \in Addr /\ q.addr # NONE
         /\ q.we => /\ q.wdata \in WData /\ q.wdata # NONE
                    /\ q = [we |-> TRUE, addr |-> q.addr, wdata |-> q.wdata]
         /\ ~q.we => q = [we |-> FALSE, addr |-> q.addr]
  <1>1. CASE q \in [we : {FALSE}, addr : Addr]
    BY <1>1, NoneAssumption
  <1>2. CASE q \in [we : {TRUE}, addr : Addr, wdata : WData]
    BY <1>2, NoneAssumption
  <1> QED
    BY <1>1, <1>2 DEF Request

LEMMA AnswerFacts ==
  ASSUME NEW q \in Response
  PROVE  /\ q # NONE
         /\ Code(q) # NONE /\ Beat(q) # NONE
         /\ T!resp(q.err) = Code(q)
         /\ Code(q) # "OKAY" <=> q.err
         /\ q.err \in BOOLEAN
  <1>1. q.err \in BOOLEAN /\ q.rdata \in Data /\ q # NONE
    BY NoneAssumption DEF Response
  <1>2. Code(q) \in resp_t /\ Beat(q) \in RBeat
    BY <1>1 DEF Code, Beat, RBeat, LiteResp, resp_t
  <1> QED
    BY <1>1, <1>2, NoneAssumption DEF Code, T!resp

LEMMA InitIInv == Init => IInv
  BY DEF Init, C!Init, T!Init, IInv, Wires, Phases, InCore, NoAddresses, NoAnswers, NotGranted,
     Channel

\* The wires after a cycle.
LEMMA WiresStep ==
  ASSUME Wires, BusReadies, CoreAsks, TargetServes
  PROVE  Wires'
  BY DEF Wires, BusReadies, CoreAsks, TargetServes, Channel

\* Answers come to those who wait for them.
LEMMA NoAnswerElsewhere ==
  ASSUME TargetServes, ~TargetGrants, t_state \notin {"READ_WAIT0", "WRITE_WAIT0"}
  PROVE  rsp' = NONE
  BY DEF TargetServes

-----------------------------------------------------------------------------
(* One lemma per phase *)

\* The target side has nothing to do before a read or both halves of a write
\* are on the bus.
LEMMA TargetIdle ==
  ASSUME t_state = "IDLE", ars = NONE, aws = NONE \/ ws = NONE,
         T!Edge, TargetServes
  PROVE  /\ t_state' = "IDLE" /\ rsp' = NONE
         /\ ~T!Awready /\ ~T!Wready /\ ~T!Arready /\ T!B = NONE /\ T!R = NONE
         /\ ~TargetGrants
  <1>1. ~T!Reading /\ ~T!Writing
    BY DEF T!Reading, T!Writing
  <1>2. t_state' = "IDLE"
    BY <1>1 DEF T!Edge, T!Idle, T!StartRead, T!StartWrite, T!Read, T!ReadAnswer, T!ReadKept,
       T!Write, T!WriteAnswer, T!WriteKept
  <1>3. T!CoreRequest = NONE /\ ~TargetGrants
    BY <1>1 DEF T!CoreRequest, TargetGrants
  <1> QED
    BY <1>1, <1>2, <1>3, NoAnswerElsewhere DEF T!Awready, T!Wready, T!Arready, T!B, T!R

\* The core side does nothing while it waits for an answer that is not there.
LEMMA CoreWaits ==
  ASSUME c_state \in {"WRITE_WAIT", "READ_WAIT"}, bs = NONE, rs = NONE, C!Edge
  PROVE  /\ c_state' = c_state
         /\ C!AW = NONE /\ C!W = NONE /\ C!AR = NONE
         /\ ~C!Gnt /\ ~C!Rvalid
  BY DEF C!Edge, C!Idle, C!SendWrite, C!SendRead, C!SendData, C!SendAddr, C!WriteResponse,
     C!ReadResponse, C!NewWrite, C!NewRead, C!Awvalid, C!Wvalid, C!Arvalid, C!AW, C!W, C!AR,
     C!Gnt, C!Rvalid

\* What the core puts on the bus from IDLE.
LEMMA CoreSends ==
  ASSUME c_state = "IDLE", core \in Channel(Request)
  PROVE  /\ C!NewWrite <=> core # NONE /\ core.we
         /\ C!NewRead <=> core # NONE /\ ~core.we
         /\ C!AW = IF C!NewWrite THEN core.addr ELSE NONE
         /\ C!W = IF C!NewWrite THEN core.wdata ELSE NONE
         /\ C!AR = IF C!NewRead THEN core.addr ELSE NONE
         /\ C!Gnt <=> \/ C!NewWrite /\ c_awready /\ c_wready
                      \/ C!NewRead /\ c_arready
         /\ ~C!Bready /\ ~C!Rready /\ ~C!Rvalid
  BY DEF C!NewWrite, C!NewRead, C!Awvalid, C!Wvalid, C!Arvalid, C!AW, C!W, C!AR, C!Gnt,
     C!Bready, C!Rready, C!Rvalid

LEMMA InCoreStep ==
  ASSUME Wires, InCore, Clock
  PROVE  Phases'
  <1>1. /\ c_state = "IDLE" /\ t_state = "IDLE" /\ core \in Channel(Request)
        /\ aws = NONE /\ ws = NONE /\ ars = NONE /\ bs = NONE /\ rs = NONE
        /\ pend = NONE /\ asked = 0 /\ given = NONE /\ rsp = NONE
    BY DEF Wires, InCore, NoAddresses, NoAnswers, NotGranted
  <1>2. /\ t_state' = "IDLE" /\ rsp' = NONE /\ ~TargetGrants
        /\ ~T!Awready /\ ~T!Wready /\ ~T!Arready /\ T!B = NONE /\ T!R = NONE
    BY <1>1, TargetIdle DEF Clock
  <1>3. /\ bs' = NONE /\ rs' = NONE
        /\ aws' = IF C!AW # NONE /\ c_awready THEN C!AW ELSE NONE
        /\ ws' = IF C!W # NONE /\ c_wready THEN C!W ELSE NONE
        /\ ars' = IF C!AR # NONE /\ c_arready THEN C!AR ELSE NONE
    BY <1>1, <1>2 DEF Clock, Carry, Carried
  <1>4. /\ asked' = 0 /\ given' = NONE
        /\ pend' = IF core # NONE /\ C!Gnt THEN core ELSE NONE
        /\ core # NONE /\ ~C!Gnt => core' = core
    BY <1>1, <1>2, CoreSends DEF Clock, Remember, CoreAsks
  <1>5. CASE core = NONE
    <2>1. c_state' = "IDLE" /\ C!AW = NONE /\ C!W = NONE /\ C!AR = NONE
      BY <1>1, <1>5, CoreSends DEF Clock, C!Edge, C!Idle, C!SendWrite, C!SendRead, C!SendData,
         C!SendAddr, C!WriteResponse, C!ReadResponse
    <2> QED
      BY <1>2, <1>3, <1>4, <1>5, <2>1 DEF Phases, InCore, NoAddresses, NoAnswers, NotGranted
  <1>6. CASE core # NONE /\ ~core.we
    <2>1. /\ core \in Request /\ core.we = FALSE /\ core.addr # NONE
          /\ C!NewRead /\ ~C!NewWrite
          /\ C!AW = NONE /\ C!W = NONE /\ C!AR = core.addr /\ (C!Gnt <=> c_arready)
      BY <1>1, <1>6, CoreSends, RequestFacts DEF Channel
    <2>2. c_state' = IF c_arready THEN "READ_WAIT" ELSE "IDLE"
      BY <1>1, <1>6, <2>1 DEF Clock, C!Edge, C!Idle, C!SendWrite, C!SendRead, C!SendData,
         C!SendAddr, C!WriteResponse, C!ReadResponse
    <2>3. CASE c_arready
      <3>1. pend' = core /\ ars' = core.addr /\ aws' = NONE /\ ws' = NONE
        BY <1>3, <1>4, <1>6, <2>1, <2>3
      <3>2. Waiting(FALSE, "READ_WAIT")' /\ OnBus(FALSE, {"IDLE", "READ"})'
        BY <1>2, <1>3, <1>4, <2>1, <2>2, <2>3, <3>1 DEF Waiting, OnBus, NoAnswers
      <3> QED
        BY <3>2 DEF Phases, Reading
    <2>4. CASE ~c_arready
      BY <1>2, <1>3, <1>4, <2>1, <2>2, <2>4
         DEF Phases, InCore, NoAddresses, NoAnswers, NotGranted
    <2> QED
      BY <2>3, <2>4
  <1>7. CASE core # NONE /\ core.we
    <2>1. /\ core \in Request /\ core.we = TRUE /\ core.addr # NONE /\ core.wdata # NONE
          /\ C!NewWrite /\ ~C!NewRead
          /\ C!AW = core.addr /\ C!W = core.wdata /\ C!AR = NONE
          /\ (C!Gnt <=> c_awready /\ c_wready)
      BY <1>1, <1>7, CoreSends, RequestFacts DEF Channel
    <2>2. c_state' = IF c_awready THEN IF c_wready THEN "WRITE_WAIT" ELSE "WRITE_DATA"
                     ELSE IF c_wready THEN "WRITE_ADDR" ELSE "IDLE"
      BY <1>1, <1>7, <2>1 DEF Clock, C!Edge, C!Idle, C!SendWrite, C!SendRead, C!SendData,
         C!SendAddr, C!WriteResponse, C!ReadResponse
    <2>3. /\ ars' = NONE
          /\ aws' = IF c_awready THEN core.addr ELSE NONE
          /\ ws' = IF c_wready THEN core.wdata ELSE NONE
      BY <1>3, <2>1
    <2>4. CASE c_awready /\ c_wready
      <3>1. pend' = core
        BY <1>4, <1>7, <2>1, <2>4
      <3>2. Waiting(TRUE, "WRITE_WAIT")' /\ OnBus(TRUE, {"IDLE", "WRITE"})'
        BY <1>2, <1>3, <1>4, <2>1, <2>2, <2>3, <2>4, <3>1 DEF Waiting, OnBus, NoAnswers
      <3> QED
        BY <3>2 DEF Phases, Writing
    <2>5. CASE ~(c_awready /\ c_wready)
      <3>1. pend' = NONE /\ core' = core
        BY <1>4, <1>7, <2>1, <2>5
      <3>2. NoAnswers' /\ NotGranted' /\ t_state' = "IDLE" /\ ars' = NONE
        BY <1>2, <1>3, <1>4, <2>3, <3>1 DEF NoAnswers, NotGranted
      <3>3. CASE ~c_awready /\ ~c_wready
        <4>1. InCore'
          BY <2>2, <2>3, <3>2, <3>3 DEF InCore, NoAddresses
        <4> QED
          BY <4>1 DEF Phases
      <3>4. CASE c_awready \/ c_wready
        <4>1. Half'
          BY <1>7, <2>1, <2>2, <2>3, <2>5, <3>1, <3>2, <3>4 DEF Half
        <4> QED
          BY <4>1 DEF Phases
      <3> QED
        BY <3>3, <3>4
    <2> QED
      BY <2>4, <2>5
  <1> QED
    BY <1>5, <1>6, <1>7

LEMMA HalfStep ==
  ASSUME Wires, Half, Clock
  PROVE  Phases'
  <1>1. /\ core \in Request /\ core # NONE /\ core.we = TRUE
        /\ core.addr # NONE /\ core.wdata # NONE
        /\ t_state = "IDLE" /\ ars = NONE /\ bs = NONE /\ rs = NONE
        /\ pend = NONE /\ asked = 0 /\ given = NONE /\ rsp = NONE
    BY RequestFacts DEF Wires, Half, NoAnswers, NotGranted, Channel
  <1>2. aws = NONE \/ ws = NONE
    BY DEF Half
  <1>3. /\ t_state' = "IDLE" /\ rsp' = NONE /\ ~TargetGrants
        /\ ~T!Awready /\ ~T!Wready /\ ~T!Arready /\ T!B = NONE /\ T!R = NONE
    BY <1>1, <1>2, TargetIdle DEF Clock
  <1> DEFINE ready == IF c_state = "WRITE_DATA" THEN c_wready ELSE c_awready
  <1>4. /\ C!AR = NONE /\ ~C!Rvalid /\ (C!Gnt <=> ready)
        /\ c_state = "WRITE_DATA" => C!AW = NONE /\ C!W = core.wdata
        /\ c_state = "WRITE_ADDR" => C!AW = core.addr /\ C!W = NONE
    BY DEF Half, C!NewWrite, C!NewRead, C!Awvalid, C!Wvalid, C!Arvalid, C!AW, C!W, C!AR, C!Gnt,
       C!Rvalid
  <1>5. c_state' = IF ready THEN "WRITE_WAIT" ELSE c_state
    BY DEF Half, Clock, C!Edge, C!Idle, C!SendWrite, C!SendRead, C!SendData, C!SendAddr,
       C!WriteResponse, C!ReadResponse, C!NewWrite, C!NewRead
  <1>6. /\ ars' = NONE /\ bs' = NONE /\ rs' = NONE
        /\ ready => aws' = core.addr /\ ws' = core.wdata
        /\ ~ready => aws' = aws /\ ws' = ws
    BY <1>1, <1>3, <1>4 DEF Half, Clock, Carry, Carried
  <1>7. /\ asked' = 0 /\ given' = NONE
        /\ pend' = IF ready THEN core ELSE NONE
        /\ ~ready => core' = core
    BY <1>1, <1>3, <1>4 DEF Clock, Remember, CoreAsks
  <1>8. CASE ready
    <2>1. Waiting(TRUE, "WRITE_WAIT")' /\ OnBus(TRUE, {"IDLE", "WRITE"})'
      BY <1>1, <1>3, <1>5, <1>6, <1>7, <1>8 DEF Waiting, OnBus, NoAnswers
    <2> QED
      BY <2>1 DEF Phases, Writing
  <1>9. CASE ~ready
    <2>1. Half'
      BY <1>1, <1>3, <1>5, <1>6, <1>7, <1>9 DEF Half, NoAnswers, NotGranted
    <2> QED
      BY <2>1 DEF Phases
  <1> QED
    BY <1>8, <1>9

\* On the bus: the target side sees what was granted, and nothing else; its
\* grant takes it from there.
LEMMA OnBusStep ==
  ASSUME Wires, Clock, NEW we \in BOOLEAN,
         IF we THEN Waiting(TRUE, "WRITE_WAIT") /\ OnBus(TRUE, {"IDLE", "WRITE"})
         ELSE Waiting(FALSE, "READ_WAIT") /\ OnBus(FALSE, {"IDLE", "READ"})
  PROVE  Phases'
  <1>1. /\ pend \in Request /\ pend # NONE /\ pend.we = we
        /\ pend.addr # NONE /\ (we => pend.wdata # NONE)
        /\ c_state = (IF we THEN "WRITE_WAIT" ELSE "READ_WAIT")
        /\ t_state \in (IF we THEN {"IDLE", "WRITE"} ELSE {"IDLE", "READ"})
        /\ aws = (IF we THEN pend.addr ELSE NONE) /\ ws = (IF we THEN pend.wdata ELSE NONE)
        /\ ars = (IF we THEN NONE ELSE pend.addr)
        /\ bs = NONE /\ rs = NONE /\ asked = 0 /\ given = NONE /\ rsp = NONE
    BY RequestFacts DEF Waiting, OnBus, NoAnswers
  <1>2. /\ c_state' = c_state
        /\ C!AW = NONE /\ C!W = NONE /\ C!AR = NONE /\ ~C!Gnt /\ ~C!Rvalid
    BY <1>1, CoreWaits DEF Clock
  <1>3. /\ T!Reading <=> ~we
        /\ T!Writing <=> we
        /\ T!B = NONE /\ T!R = NONE
    BY <1>1 DEF T!Reading, T!Writing, T!B, T!R
  <1>4. T!CoreRequest # NONE /\ (TargetGrants <=> gnt)
    <2>1. T!CoreRequest = pend
      BY <1>1, <1>3, RequestFacts DEF T!CoreRequest
    <2> QED
      BY <1>1, <2>1 DEF TargetGrants, Wires
  <1>5. /\ T!Awready <=> we /\ gnt
        /\ T!Wready <=> we /\ gnt
        /\ T!Arready <=> ~we /\ gnt
    BY <1>3 DEF T!Awready, T!Wready, T!Arready
  <1>6. t_state' = IF gnt THEN IF we THEN "WRITE_WAIT0" ELSE "READ_WAIT0"
                   ELSE IF we THEN "WRITE" ELSE "READ"
    BY <1>1, <1>3 DEF Clock, T!Edge, T!Idle, T!StartRead, T!StartWrite, T!Read, T!ReadAnswer,
       T!ReadKept, T!Write, T!WriteAnswer, T!WriteKept
  <1>7. /\ bs' = NONE /\ rs' = NONE
        /\ gnt => aws' = NONE /\ ws' = NONE /\ ars' = NONE
        /\ ~gnt => aws' = aws /\ ws' = ws /\ ars' = ars
    BY <1>1, <1>2, <1>3, <1>5 DEF Clock, Carry, Carried
  <1>8. /\ pend' = pend /\ given' = NONE
        /\ asked' = IF gnt THEN 1 ELSE 0
    BY <1>1, <1>2, <1>4 DEF Clock, Remember
  <1>9. CASE gnt
    <2>1. IF we THEN InTarget("WRITE_WAIT0")' ELSE InTarget("READ_WAIT0")'
      BY <1>6, <1>7, <1>8, <1>9 DEF InTarget, NoAddresses, NoAnswers
    <2>2. IF we THEN Waiting(TRUE, "WRITE_WAIT")' ELSE Waiting(FALSE, "READ_WAIT")'
      BY <1>1, <1>2, <1>8 DEF Waiting
    <2> QED
      BY <2>1, <2>2 DEF Phases, Writing, Reading
  <1>10. CASE ~gnt
    <2>1. rsp' = NONE
      BY <1>1, <1>4, <1>10, NoAnswerElsewhere DEF Clock
    <2>2. IF we THEN OnBus(TRUE, {"IDLE", "WRITE"})' ELSE OnBus(FALSE, {"IDLE", "READ"})'
      BY <1>1, <1>6, <1>7, <1>8, <1>10, <2>1 DEF OnBus, NoAnswers
    <2>3. IF we THEN Waiting(TRUE, "WRITE_WAIT")' ELSE Waiting(FALSE, "READ_WAIT")'
      BY <1>1, <1>2, <1>8 DEF Waiting
    <2> QED
      BY <2>2, <2>3 DEF Phases, Writing, Reading
  <1> QED
    BY <1>9, <1>10

\* In the target: its answer goes to the bus, or to the buffer when the bus
\* does not take it.
LEMMA InTargetStep ==
  ASSUME Wires, Clock, NEW we \in BOOLEAN,
         IF we THEN Waiting(TRUE, "WRITE_WAIT") /\ InTarget("WRITE_WAIT0")
         ELSE Waiting(FALSE, "READ_WAIT") /\ InTarget("READ_WAIT0")
  PROVE  Phases'
  <1>1. /\ pend \in Request /\ pend.we = we
        /\ c_state = (IF we THEN "WRITE_WAIT" ELSE "READ_WAIT")
        /\ t_state = (IF we THEN "WRITE_WAIT0" ELSE "READ_WAIT0")
        /\ aws = NONE /\ ws = NONE /\ ars = NONE /\ bs = NONE /\ rs = NONE
        /\ asked = 1 /\ given = NONE
    BY DEF Waiting, InTarget, NoAddresses, NoAnswers
  <1>2. /\ c_state' = c_state
        /\ C!AW = NONE /\ C!W = NONE /\ C!AR = NONE /\ ~C!Gnt /\ ~C!Rvalid
    BY <1>1, CoreWaits DEF Clock
  <1>3. T!CoreRequest = NONE /\ ~TargetGrants
    BY <1>1 DEF T!Reading, T!Writing, T!CoreRequest, TargetGrants
  <1>4. aws' = NONE /\ ws' = NONE /\ ars' = NONE
    BY <1>1, <1>2 DEF Clock, Carry, Carried
  <1>5. pend' = pend /\ asked' = 1
    BY <1>1, <1>2, <1>3 DEF Clock, Remember
  <1>6. IF we THEN Waiting(TRUE, "WRITE_WAIT")' ELSE Waiting(FALSE, "READ_WAIT")'
    BY <1>1, <1>2, <1>5 DEF Waiting
  <1>7. CASE rsp = NONE
    <2>1. t_state' = t_state /\ T!B = NONE /\ T!R = NONE
      BY <1>1, <1>7 DEF Clock, T!Edge, T!Idle, T!StartRead, T!StartWrite, T!Read, T!ReadAnswer,
         T!ReadKept, T!Write, T!WriteAnswer, T!WriteKept, T!B, T!R
    <2>2. bs' = NONE /\ rs' = NONE /\ given' = NONE
      BY <1>1, <1>2, <1>7, <2>1 DEF Clock, Carry, Carried, Remember
    <2>3. IF we THEN InTarget("WRITE_WAIT0")' ELSE InTarget("READ_WAIT0")'
      BY <1>1, <1>4, <1>5, <2>1, <2>2 DEF InTarget, NoAddresses, NoAnswers
    <2> QED
      BY <1>6, <2>3 DEF Phases, Writing, Reading
  <1>8. CASE rsp # NONE
    <2>1. /\ rsp \in Response /\ T!resp(rsp.err) = Code(rsp)
          /\ Code(rsp) # NONE /\ Beat(rsp) # NONE
      BY <1>8, AnswerFacts DEF Wires, Channel
    <2>2. given' = rsp
      BY <1>2, <1>8 DEF Clock, Remember
    <2>3. rsp' = NONE
      BY <1>3, <1>8 DEF Clock, TargetServes
    <2>4. CASE we
      <3>1. T!B = Code(rsp) /\ T!R = NONE
        BY <1>1, <1>8, <2>1, <2>4 DEF T!B, T!R
      <3>2. t_state' = (IF t_bready THEN "IDLE" ELSE "WRITE_WAIT1") /\ bbuf' = Code(rsp)
        BY <1>1, <1>8, <2>1, <2>4 DEF Clock, T!Edge, T!Idle, T!StartRead, T!StartWrite, T!Read,
           T!ReadAnswer, T!ReadKept, T!Write, T!WriteAnswer, T!WriteKept
      <3>3. rs' = NONE /\ bs' = IF t_bready THEN Code(rsp) ELSE NONE
        BY <1>1, <2>1, <3>1 DEF Clock, Carry, Carried
      <3>4. IF t_bready THEN Back' /\ bs' = Code(given') /\ rs' = NONE
            ELSE Kept("WRITE_WAIT1")' /\ bbuf' = Code(given')
        BY <1>4, <1>5, <2>1, <2>2, <2>3, <3>2, <3>3 DEF Back, Kept, NoAddresses, NoAnswers
      <3>5. Code(given)' = Code(given')
        BY DEF Code
      <3> QED
        BY <1>6, <2>4, <3>4, <3>5 DEF Phases, Writing
    <2>5. CASE ~we
      <3>1. T!R = Beat(rsp) /\ T!B = NONE
        BY <1>1, <1>8, <2>1, <2>5 DEF T!B, T!R, Beat
      <3>2. t_state' = (IF t_rready THEN "IDLE" ELSE "READ_WAIT1") /\ rbuf' = Beat(rsp)
        BY <1>1, <1>8, <2>1, <2>5 DEF Clock, T!Edge, T!Idle, T!StartRead, T!StartWrite, T!Read,
           T!ReadAnswer, T!ReadKept, T!Write, T!WriteAnswer, T!WriteKept, Beat
      <3>3. bs' = NONE /\ rs' = IF t_rready THEN Beat(rsp) ELSE NONE
        BY <1>1, <2>1, <3>1 DEF Clock, Carry, Carried
      <3>4. IF t_rready THEN Back' /\ rs' = Beat(given') /\ bs' = NONE
            ELSE Kept("READ_WAIT1")' /\ rbuf' = Beat(given')
        BY <1>4, <1>5, <2>1, <2>2, <2>3, <3>2, <3>3 DEF Back, Kept, NoAddresses, NoAnswers
      <3>5. Beat(given)' = Beat(given')
        BY DEF Beat, Code
      <3> QED
        BY <1>6, <2>5, <3>4, <3>5 DEF Phases, Reading
    <2> QED
      BY <2>4, <2>5
  <1> QED
    BY <1>7, <1>8

\* In the buffer until the bus takes it.
LEMMA KeptStep ==
  ASSUME Wires, Clock, NEW we \in BOOLEAN,
         IF we THEN Waiting(TRUE, "WRITE_WAIT") /\ Kept("WRITE_WAIT1") /\ bbuf = Code(given)
         ELSE Waiting(FALSE, "READ_WAIT") /\ Kept("READ_WAIT1") /\ rbuf = Beat(given)
  PROVE  Phases'
  <1>1. /\ pend \in Request /\ pend.we = we
        /\ c_state = (IF we THEN "WRITE_WAIT" ELSE "READ_WAIT")
        /\ t_state = (IF we THEN "WRITE_WAIT1" ELSE "READ_WAIT1")
        /\ IF we THEN bbuf = Code(given) ELSE rbuf = Beat(given)
        /\ aws = NONE /\ ws = NONE /\ ars = NONE /\ bs = NONE /\ rs = NONE
        /\ asked = 1 /\ given \in Response /\ rsp = NONE
    BY DEF Waiting, Kept, NoAddresses, NoAnswers
  <1>2. /\ c_state' = c_state
        /\ C!AW = NONE /\ C!W = NONE /\ C!AR = NONE /\ ~C!Gnt /\ ~C!Rvalid
    BY <1>1, CoreWaits DEF Clock
  <1>3. T!CoreRequest = NONE /\ ~TargetGrants
    BY <1>1 DEF T!Reading, T!Writing, T!CoreRequest, TargetGrants
  <1>4. aws' = NONE /\ ws' = NONE /\ ars' = NONE
    BY <1>1, <1>2 DEF Clock, Carry, Carried
  <1>5. pend' = pend /\ asked' = 1 /\ given' = given
    BY <1>1, <1>2, <1>3 DEF Clock, Remember
  <1>6. rsp' = NONE
    BY <1>1, <1>3, NoAnswerElsewhere DEF Clock
  <1>7. IF we THEN Waiting(TRUE, "WRITE_WAIT")' ELSE Waiting(FALSE, "READ_WAIT")'
    BY <1>1, <1>2, <1>5 DEF Waiting
  <1>8. /\ Code(given) # NONE /\ Beat(given) # NONE
        /\ Code(given)' = Code(given) /\ Beat(given)' = Beat(given)
    BY <1>1, <1>5, AnswerFacts DEF Code, Beat
  <1>9. CASE we
    <2>1. T!B = Code(given) /\ T!R = NONE
      BY <1>1, <1>9 DEF T!B, T!R
    <2>2. t_state' = (IF t_bready THEN "IDLE" ELSE "WRITE_WAIT1") /\ bbuf' = bbuf
      BY <1>1, <1>9 DEF Clock, T!Edge, T!Idle, T!StartRead, T!StartWrite, T!Read,
         T!ReadAnswer, T!ReadKept, T!Write, T!WriteAnswer, T!WriteKept, T!Buffers
    <2>3. rs' = NONE /\ bs' = IF t_bready THEN Code(given) ELSE NONE
      BY <1>1, <1>8, <2>1 DEF Clock, Carry, Carried
    <2>4. IF t_bready THEN Back' /\ bs' = Code(given)' /\ rs' = NONE
          ELSE Kept("WRITE_WAIT1")' /\ bbuf' = Code(given)'
      BY <1>1, <1>4, <1>5, <1>6, <1>8, <1>9, <2>2, <2>3
         DEF Back, Kept, NoAddresses, NoAnswers
    <2> QED
      BY <1>7, <1>9, <2>4 DEF Phases, Writing
  <1>10. CASE ~we
    <2>1. T!R = Beat(given) /\ T!B = NONE
      BY <1>1, <1>10 DEF T!B, T!R
    <2>2. t_state' = (IF t_rready THEN "IDLE" ELSE "READ_WAIT1") /\ rbuf' = rbuf
      BY <1>1, <1>10 DEF Clock, T!Edge, T!Idle, T!StartRead, T!StartWrite, T!Read,
         T!ReadAnswer, T!ReadKept, T!Write, T!WriteAnswer, T!WriteKept, T!Buffers
    <2>3. bs' = NONE /\ rs' = IF t_rready THEN Beat(given) ELSE NONE
      BY <1>1, <1>8, <2>1 DEF Clock, Carry, Carried
    <2>4. IF t_rready THEN Back' /\ rs' = Beat(given)' /\ bs' = NONE
          ELSE Kept("READ_WAIT1")' /\ rbuf' = Beat(given)'
      BY <1>1, <1>4, <1>5, <1>6, <1>8, <1>10, <2>2, <2>3
         DEF Back, Kept, NoAddresses, NoAnswers
    <2> QED
      BY <1>7, <1>10, <2>4 DEF Phases, Reading
  <1> QED
    BY <1>9, <1>10

\* On the bus back: the core takes it in the first cycle.
LEMMA BackStep ==
  ASSUME Wires, Clock, NEW we \in BOOLEAN, Back,
         IF we THEN Waiting(TRUE, "WRITE_WAIT") /\ bs = Code(given) /\ rs = NONE
         ELSE Waiting(FALSE, "READ_WAIT") /\ rs = Beat(given) /\ bs = NONE
  PROVE  Phases'
  <1>1. /\ c_state = (IF we THEN "WRITE_WAIT" ELSE "READ_WAIT") /\ t_state = "IDLE"
        /\ IF we THEN bs # NONE /\ rs = NONE ELSE bs = NONE /\ rs # NONE
        /\ aws = NONE /\ ws = NONE /\ ars = NONE
    BY AnswerFacts DEF Waiting, Back, NoAddresses
  <1>2. /\ c_state' = "IDLE"
        /\ C!AW = NONE /\ C!W = NONE /\ C!AR = NONE /\ ~C!Gnt /\ C!Rvalid
        /\ IF we THEN C!Bready ELSE C!Rready
    BY <1>1 DEF Clock, C!Edge, C!Idle, C!SendWrite, C!SendRead, C!SendData, C!SendAddr,
       C!WriteResponse, C!ReadResponse, C!NewWrite, C!NewRead, C!Awvalid, C!Wvalid, C!Arvalid,
       C!AW, C!W, C!AR, C!Gnt, C!Rvalid, C!Bready, C!Rready
  <1>3. /\ t_state' = "IDLE" /\ rsp' = NONE
        /\ ~T!Awready /\ ~T!Wready /\ ~T!Arready /\ T!B = NONE /\ T!R = NONE
    BY <1>1, TargetIdle DEF Clock
  <1>4. aws' = NONE /\ ws' = NONE /\ ars' = NONE /\ bs' = NONE /\ rs' = NONE
    BY <1>1, <1>2, <1>3 DEF Clock, Carry, Carried
  <1>5. pend' = NONE /\ asked' = 0 /\ given' = NONE
    BY <1>2 DEF Clock, Remember
  <1> QED
    BY <1>2, <1>3, <1>4, <1>5 DEF Phases, InCore, NoAddresses, NoAnswers, NotGranted

-----------------------------------------------------------------------------
(* The invariant *)

LEMMA ClockStep ==
  ASSUME Wires, Phases, Clock
  PROVE  Phases'
  <1>1. CASE InCore
    BY <1>1, InCoreStep
  <1>2. CASE Half
    BY <1>2, HalfStep
  <1>3. CASE Writing
    <2>1. CASE Waiting(TRUE, "WRITE_WAIT") /\ OnBus(TRUE, {"IDLE", "WRITE"})
      BY <2>1, OnBusStep
    <2>2. CASE Waiting(TRUE, "WRITE_WAIT") /\ InTarget("WRITE_WAIT0")
      BY <2>2, InTargetStep
    <2>3. CASE Waiting(TRUE, "WRITE_WAIT") /\ Kept("WRITE_WAIT1") /\ bbuf = Code(given)
      BY <2>3, KeptStep
    <2>4. CASE Waiting(TRUE, "WRITE_WAIT") /\ Back /\ bs = Code(given) /\ rs = NONE
      BY <2>4, BackStep
    <2> QED
      BY <1>3, <2>1, <2>2, <2>3, <2>4 DEF Writing
  <1>4. CASE Reading
    <2>1. CASE Waiting(FALSE, "READ_WAIT") /\ OnBus(FALSE, {"IDLE", "READ"})
      BY <2>1, OnBusStep
    <2>2. CASE Waiting(FALSE, "READ_WAIT") /\ InTarget("READ_WAIT0")
      BY <2>2, InTargetStep
    <2>3. CASE Waiting(FALSE, "READ_WAIT") /\ Kept("READ_WAIT1") /\ rbuf = Beat(given)
      BY <2>3, KeptStep
    <2>4. CASE Waiting(FALSE, "READ_WAIT") /\ Back /\ rs = Beat(given) /\ bs = NONE
      BY <2>4, BackStep
    <2> QED
      BY <1>4, <2>1, <2>2, <2>3, <2>4 DEF Reading
  <1> QED
    BY <1>1, <1>2, <1>3, <1>4 DEF Phases

LEMMA NextIInv == IInv /\ [Next]_vars => IInv'
  <1> SUFFICES ASSUME IInv, [Next]_vars PROVE IInv'
    OBVIOUS
  <1>1. CASE Clock
    <2>1. Wires'
      BY <1>1, WiresStep DEF Clock, IInv
    <2> QED
      BY <1>1, <2>1, ClockStep DEF IInv
  <1>2. CASE Reset
    <2>1. InCore'
      BY <1>2 DEF Reset, C!Reset, T!Reset, InCore, NoAddresses, NoAnswers, NotGranted
    <2>2. Wires'
      BY <1>2 DEF Reset, BusReadies, Wires, Channel
    <2> QED
      BY <2>1, <2>2 DEF IInv, Phases
  <1>3. CASE UNCHANGED vars
    BY <1>3 DEF vars, registers, wires, bus, history, IInv, Wires, Phases, InCore, Half,
       Writing, Reading, Waiting, OnBus, InTarget, Kept, Back, Code, Beat, NoAddresses,
       NoAnswers, NotGranted
  <1> QED
    BY <1>1, <1>2, <1>3 DEF Next

LEMMA Invariance == Spec => []IInv
  BY InitIInv, NextIInv, PTL DEF Spec

-----------------------------------------------------------------------------
\* The target is asked for what the core asked, whole and once.
THEOREM AskedTheSame == Spec => []TargetAskedTheSame
  <1>1. IInv => TargetAskedTheSame
    <2> SUFFICES ASSUME IInv, T!CoreRequest # NONE
                 PROVE  T!CoreRequest = pend /\ asked = 0
      BY DEF TargetAskedTheSame
    <2>1. /\ T!Reading \/ T!Writing
          /\ T!Reading => t_state \in {"IDLE", "READ"} /\ (t_state = "IDLE" => ars # NONE)
          /\ T!Writing => /\ t_state \in {"IDLE", "WRITE"}
                          /\ t_state = "IDLE" => aws # NONE /\ ws # NONE /\ ars = NONE
      BY DEF T!CoreRequest, T!Reading, T!Writing
    <2>2. CASE Writing /\ OnBus(TRUE, {"IDLE", "WRITE"})
      <3>1. /\ pend \in Request /\ pend.we
            /\ aws = pend.addr /\ ws = pend.wdata /\ ars = NONE /\ asked = 0
        BY <2>2 DEF Writing, Waiting, OnBus
      <3>2. ~T!Reading
        BY <2>2, <3>1 DEF T!Reading, OnBus
      <3> QED
        BY <2>1, <3>1, <3>2, RequestFacts DEF T!CoreRequest
    <2>3. CASE Reading /\ OnBus(FALSE, {"IDLE", "READ"})
      <3>1. pend \in Request /\ ~pend.we /\ ars = pend.addr /\ aws = NONE /\ asked = 0
        BY <2>3 DEF Reading, Waiting, OnBus
      <3>2. ~T!Writing
        BY <2>3, <3>1 DEF T!Writing, OnBus
      <3> QED
        BY <2>1, <3>1, <3>2, RequestFacts DEF T!CoreRequest
    <2> QED
      BY <2>1, <2>2, <2>3 DEF IInv, Phases, InCore, Half, Writing, Reading, InTarget, Kept, Back,
         NoAddresses
  <1> QED
    BY <1>1, Invariance, PTL

\* The core gets what the target answered.
THEOREM AnsweredTheSame == Spec => []CoreAnsweredTheSame
  <1>1. IInv => CoreAnsweredTheSame
    <2> SUFFICES ASSUME IInv, C!Rvalid PROVE CoreAnsweredTheSame
      BY DEF CoreAnsweredTheSame
    <2>1. \/ c_state = "WRITE_WAIT" /\ bs # NONE
          \/ c_state = "READ_WAIT" /\ rs # NONE
      BY DEF C!Rvalid
    <2>2. /\ Back /\ pend \in Request
          /\ \/ pend.we /\ bs = Code(given) /\ rs = NONE
             \/ ~pend.we /\ rs = Beat(given) /\ bs = NONE
      BY <2>1 DEF IInv, Phases, InCore, Half, Writing, Reading, Waiting, OnBus, InTarget, Kept,
         NoAnswers
    <2>3. /\ pend # NONE /\ asked = 1 /\ given \in Response /\ given # NONE
          /\ Code(given) # NONE /\ Beat(given) # NONE /\ given.err \in BOOLEAN
          /\ Code(given) # "OKAY" <=> given.err
      BY <2>2, RequestFacts, AnswerFacts DEF Back
    <2>4. C!Err = given.err
      <3>1. C!Err <=> Code(given) # "OKAY"
        BY <2>2, <2>3 DEF C!Err, Beat
      <3>2. C!Err \in BOOLEAN
        BY DEF C!Err
      <3> HIDE DEF C!Err
      <3> QED
        BY <2>3, <3>1, <3>2
    <2>5. ~pend.we => C!Rdata = given.rdata
      BY <2>2 DEF C!Rdata, Beat
    <2> QED
      BY <2>3, <2>4, <2>5 DEF CoreAnsweredTheSame
  <1> QED
    BY <1>1, Invariance, PTL

\* Once an access is answered nothing of it is left on the path.
THEOREM NothingIsLeft == Spec => []NothingLeft
  <1>1. IInv => NothingLeft
    <2>1. ASSUME IInv, pend = NONE PROVE InCore \/ Half
      BY <2>1, RequestFacts DEF IInv, Phases, Writing, Reading, Waiting
    <2> QED
      BY <2>1 DEF InCore, Half, NoAddresses, NoAnswers, NotGranted, NothingLeft
  <1> QED
    BY <1>1, Invariance, PTL

-----------------------------------------------------------------------------
(* Progress *)

\* The clock never stops.
ClockRuns == []<><<Clock>>_vars

\* What separates this from the fairness that the run assumes, WF_vars(Clock),
\* is that a cycle is possible at any time.
LEMMA ClockRunsIfItCan ==
  LiveSpec /\ [](ENABLED <<Clock>>_vars) => Spec /\ ClockRuns /\ BusFairness /\ TargetFairness
  BY PTL DEF LiveSpec, ClockRuns

\* What the core waits for, before and after its grant.
GrantedOrGone == C!Gnt \/ core = NONE
AnsweredOrGone == C!Rvalid \/ pend = NONE

\* Where a request is that is not granted ...
ReadAsked == c_state = "IDLE" /\ core # NONE /\ ~core.we
WriteAsked == c_state = "IDLE" /\ core # NONE /\ core.we
DataLeft == c_state = "WRITE_DATA" /\ core # NONE
AddressLeft == c_state = "WRITE_ADDR" /\ core # NONE

\* ... and where it is after the grant, until its answer is back.
Travels == pend # NONE /\ asked = 0
AtTarget == t_state \in {"READ_WAIT0", "WRITE_WAIT0"}
KeptRead == t_state = "READ_WAIT1"
KeptWrite == t_state = "WRITE_WAIT1"
AskedOnce == pend # NONE /\ asked # 0

\* A request of which nothing is granted is in the core, and the channel that it
\* still needs is empty.
LEMMA Places ==
  /\ IInv /\ pend = NONE /\ core # NONE =>
       ReadAsked \/ WriteAsked \/ DataLeft \/ AddressLeft
  /\ IInv /\ ReadAsked => ars = NONE
  /\ IInv /\ WriteAsked => aws = NONE /\ ws = NONE
  /\ IInv /\ DataLeft => ws = NONE
  /\ IInv /\ AddressLeft => aws = NONE
  <1> USE DEF ReadAsked, WriteAsked, DataLeft, AddressLeft, IInv, Phases, InCore, Half, Writing,
     Reading, Waiting, NoAddresses
  <1>1. IInv /\ pend = NONE => InCore \/ Half
    BY RequestFacts
  <1>2. IInv /\ pend = NONE /\ core # NONE =>
          ReadAsked \/ WriteAsked \/ DataLeft \/ AddressLeft
    BY <1>1
  <1> QED
    BY <1>2

\* A granted access is on its way to the target, in it, kept behind it, or back.
LEMMA PlacesOfGranted ==
  /\ IInv /\ Travels => T!CoreRequest # NONE /\ c_state \in {"WRITE_WAIT", "READ_WAIT"}
                        /\ bs = NONE /\ rs = NONE
  /\ IInv /\ (AtTarget \/ KeptRead \/ KeptWrite) =>
       /\ c_state \in {"WRITE_WAIT", "READ_WAIT"} /\ bs = NONE /\ rs = NONE
       /\ AskedOnce /\ asked = 1
  /\ IInv /\ AskedOnce => AtTarget \/ KeptRead \/ KeptWrite \/ C!Rvalid
  <1> USE DEF Travels, AtTarget, KeptRead, KeptWrite, AskedOnce
  <1>1. ASSUME IInv, Travels
        PROVE  /\ T!CoreRequest # NONE /\ c_state \in {"WRITE_WAIT", "READ_WAIT"}
               /\ bs = NONE /\ rs = NONE
    <2>1. \/ Waiting(TRUE, "WRITE_WAIT") /\ OnBus(TRUE, {"IDLE", "WRITE"})
          \/ Waiting(FALSE, "READ_WAIT") /\ OnBus(FALSE, {"IDLE", "READ"})
      <3>1. Writing \/ Reading
        BY <1>1 DEF IInv, Phases, InCore, Half, NotGranted
      <3>2. asked # 1
        BY <1>1
      <3>3. CASE Writing
        BY <3>2, <3>3 DEF Writing, InTarget, Kept, Back
      <3>4. CASE Reading
        BY <3>2, <3>4 DEF Reading, InTarget, Kept, Back
      <3> QED
        BY <3>1, <3>3, <3>4
    <2>2. pend \in Request
      BY <2>1 DEF Waiting
    <2>3. (aws # NONE /\ ws # NONE /\ ars = NONE) \/ ars # NONE
      BY <2>1, <2>2, RequestFacts DEF Waiting, OnBus
    <2>4. T!Reading \/ T!Writing
      BY <2>1, <2>3 DEF T!Reading, T!Writing, OnBus, Waiting
    <2>5. T!CoreRequest = [we |-> FALSE, addr |-> ars]
          \/ T!CoreRequest = [we |-> TRUE, addr |-> aws, wdata |-> ws]
      BY <2>4 DEF T!CoreRequest
    <2>6. T!CoreRequest # NONE
      <3>1. CASE T!Reading
        <4>1. ars # NONE
          BY <2>1, <2>2, <3>1, RequestFacts DEF T!Reading, OnBus, Waiting
        <4>2. ars \in Addr
          BY <2>1, <2>2, <4>1, RequestFacts DEF OnBus, Waiting
        <4>3. [we |-> FALSE, addr |-> ars] \in Request
          BY <4>2 DEF Request
        <4> QED
          BY <3>1, <4>3, RequestFacts DEF T!CoreRequest
      <3>2. CASE ~T!Reading
        <4>1. T!Writing
          BY <2>4, <3>2
        <4>2. Waiting(TRUE, "WRITE_WAIT") /\ OnBus(TRUE, {"IDLE", "WRITE"})
          BY <2>1, <2>3, <3>2, <4>1 DEF T!Reading, T!Writing, OnBus, Waiting
        <4>3. aws \in Addr /\ ws \in WData
          BY <2>2, <4>2, RequestFacts DEF OnBus, Waiting
        <4>4. [we |-> TRUE, addr |-> aws, wdata |-> ws] \in Request
          BY <4>3 DEF Request
        <4> QED
          BY <3>2, <4>1, <4>4, RequestFacts DEF T!CoreRequest
      <3> QED
        BY <3>1, <3>2
    <2> QED
      BY <2>1, <2>6 DEF Waiting, OnBus, NoAnswers
  <1>2. ASSUME IInv, AtTarget \/ KeptRead \/ KeptWrite
        PROVE  /\ c_state \in {"WRITE_WAIT", "READ_WAIT"} /\ bs = NONE /\ rs = NONE
               /\ AskedOnce /\ asked = 1
    BY <1>2, RequestFacts
       DEF IInv, Phases, InCore, Half, Writing, Reading, Waiting, OnBus, InTarget, Kept, Back,
           NoAnswers
  <1>3. ASSUME IInv, AskedOnce
        PROVE  AtTarget \/ KeptRead \/ KeptWrite \/ C!Rvalid
    BY <1>3, AnswerFacts
       DEF IInv, Phases, InCore, Half, NotGranted, Writing, Reading, Waiting, OnBus, InTarget,
           Kept, Back, C!Rvalid
  <1> QED
    BY <1>1, <1>2, <1>3

\* The core holds a request that is not granted.
LEMMA CoreHolds ==
  ASSUME [Next]_vars, ~GrantedOrGone
  PROVE  \/ GrantedOrGone'
         \/ core' = core /\ UNCHANGED <<c_state, c_awready, c_wready, c_arready>>
         \/ core' = core /\ Clock
  BY DEF Next, Clock, CoreAsks, Reset, GrantedOrGone, vars, registers, wires

\* A step leaves a granted access where it is, is a clock cycle that keeps it
\* granted, or a reset.
LEMMA AccessStays ==
  ASSUME IInv, [Next]_vars, Travels \/ AtTarget \/ KeptRead \/ KeptWrite
  PROVE  \/ AnsweredOrGone'
         \/ UNCHANGED vars
         \/ /\ Clock /\ pend' = pend /\ pend # NONE
            /\ asked' = IF TargetGrants THEN asked + 1 ELSE asked
  <1>1. /\ c_state \in {"WRITE_WAIT", "READ_WAIT"} /\ bs = NONE /\ rs = NONE
        /\ pend # NONE
    BY PlacesOfGranted DEF Travels, AskedOnce
  <1>2. CASE Clock
    <2>1. ~C!Gnt /\ ~C!Rvalid
      BY <1>1, <1>2, CoreWaits DEF Clock
    <2> QED
      BY <1>1, <1>2, <2>1 DEF Clock, Remember
  <1>3. CASE Reset
    BY <1>3 DEF Reset, AnsweredOrGone
  <1> QED
    BY <1>2, <1>3 DEF Next

-----------------------------------------------------------------------------
\* A request of the core with nothing before it is granted: a read,
LEMMA ReadGranted == Spec /\ BusFairness => (ReadAsked ~> GrantedOrGone)
  <1>1. [Next]_vars /\ ReadAsked /\ ~GrantedOrGone => ReadAsked' \/ GrantedOrGone'
    <2> SUFFICES ASSUME [Next]_vars, ReadAsked, ~GrantedOrGone PROVE ReadAsked' \/ GrantedOrGone'
      OBVIOUS
    <2>1. ~c_arready
      BY DEF ReadAsked, GrantedOrGone, C!Gnt, C!NewRead
    <2> QED
      BY <2>1, CoreHolds
         DEF ReadAsked, Clock, C!Edge, C!Idle, C!SendWrite, C!SendRead, C!SendData, C!SendAddr,
             C!WriteResponse, C!ReadResponse, C!NewWrite, C!NewRead
  <1>2. ReadAsked /\ c_arready => GrantedOrGone
    BY DEF ReadAsked, GrantedOrGone, C!Gnt, C!NewRead
  <1>3. IInv /\ ReadAsked => ars = NONE
    BY Places
  <1> QED
    BY <1>1, <1>2, <1>3, Invariance, PTL DEF Spec, BusFairness

\* The late half of a write: its data ...
LEMMA DataGranted == Spec /\ BusFairness => (DataLeft ~> GrantedOrGone)
  <1>1. [Next]_vars /\ DataLeft /\ ~GrantedOrGone => DataLeft' \/ GrantedOrGone'
    <2> SUFFICES ASSUME [Next]_vars, DataLeft, ~GrantedOrGone PROVE DataLeft' \/ GrantedOrGone'
      OBVIOUS
    <2>1. ~c_wready
      BY DEF DataLeft, GrantedOrGone, C!Gnt
    <2> QED
      BY <2>1, CoreHolds
         DEF DataLeft, Clock, C!Edge, C!Idle, C!SendWrite, C!SendRead, C!SendData, C!SendAddr,
             C!WriteResponse, C!ReadResponse, C!NewWrite, C!NewRead
  <1>2. DataLeft /\ c_wready => GrantedOrGone
    BY DEF DataLeft, GrantedOrGone, C!Gnt
  <1>3. IInv /\ DataLeft => ws = NONE
    BY Places
  <1> QED
    BY <1>1, <1>2, <1>3, Invariance, PTL DEF Spec, BusFairness

\* ... or its address.
LEMMA AddressGranted == Spec /\ BusFairness => (AddressLeft ~> GrantedOrGone)
  <1>1. [Next]_vars /\ AddressLeft /\ ~GrantedOrGone => AddressLeft' \/ GrantedOrGone'
    <2> SUFFICES ASSUME [Next]_vars, AddressLeft, ~GrantedOrGone
                 PROVE  AddressLeft' \/ GrantedOrGone'
      OBVIOUS
    <2>1. ~c_awready
      BY DEF AddressLeft, GrantedOrGone, C!Gnt
    <2> QED
      BY <2>1, CoreHolds
         DEF AddressLeft, Clock, C!Edge, C!Idle, C!SendWrite, C!SendRead, C!SendData, C!SendAddr,
             C!WriteResponse, C!ReadResponse, C!NewWrite, C!NewRead
  <1>2. AddressLeft /\ c_awready => GrantedOrGone
    BY DEF AddressLeft, GrantedOrGone, C!Gnt
  <1>3. IInv /\ AddressLeft => aws = NONE
    BY Places
  <1> QED
    BY <1>1, <1>2, <1>3, Invariance, PTL DEF Spec, BusFairness

\* A write goes in one cycle, or its address and its data go one by one.
LEMMA WriteGranted == Spec /\ ClockRuns /\ BusFairness => (WriteAsked ~> GrantedOrGone)
  <1> DEFINE Goes == WriteAsked /\ c_awready
  <1>1. [Next]_vars /\ WriteAsked /\ ~GrantedOrGone
          => WriteAsked' \/ DataLeft' \/ AddressLeft' \/ GrantedOrGone'
    BY CoreHolds
       DEF WriteAsked, DataLeft, AddressLeft, GrantedOrGone, C!Gnt, Clock, C!Edge, C!Idle,
           C!SendWrite, C!SendRead, C!SendData, C!SendAddr, C!WriteResponse, C!ReadResponse,
           C!NewWrite, C!NewRead
  <1>2. [Next]_vars /\ Goes /\ ~GrantedOrGone => Goes' \/ DataLeft' \/ GrantedOrGone'
    BY CoreHolds
       DEF WriteAsked, DataLeft, GrantedOrGone, C!Gnt, Clock, C!Edge, C!Idle,
           C!SendWrite, C!SendRead, C!SendData, C!SendAddr, C!WriteResponse, C!ReadResponse,
           C!NewWrite, C!NewRead
  <1>3. <<Clock>>_vars /\ Goes /\ ~GrantedOrGone => DataLeft' \/ GrantedOrGone'
    <2> SUFFICES ASSUME Clock, Goes, ~GrantedOrGone PROVE DataLeft' \/ GrantedOrGone'
      OBVIOUS
    <2>1. core' = core
      BY DEF GrantedOrGone, Clock, CoreAsks
    <2> QED
      BY <2>1
         DEF WriteAsked, DataLeft, GrantedOrGone, C!Gnt, Clock, C!Edge, C!Idle,
             C!SendWrite, C!SendRead, C!SendData, C!SendAddr, C!WriteResponse, C!ReadResponse,
             C!NewWrite, C!NewRead
  <1>4. WriteAsked /\ c_awready => Goes
    OBVIOUS
  <1>5. IInv /\ WriteAsked => aws = NONE
    BY Places
  <1> HIDE DEF Goes
  <1> QED
    BY <1>1, <1>2, <1>3, <1>4, <1>5, DataGranted, AddressGranted, Invariance, PTL
       DEF Spec, ClockRuns, BusFairness

-----------------------------------------------------------------------------
\* A kept answer goes to the bus, and shows on the core port next.
LEMMA KeptComes ==
  /\ Spec /\ ClockRuns /\ BusFairness => (KeptRead ~> AnsweredOrGone)
  /\ Spec /\ ClockRuns /\ BusFairness => (KeptWrite ~> AnsweredOrGone)
  <1> DEFINE Home == AskedOnce /\ ~AtTarget /\ ~KeptRead /\ ~KeptWrite
             GoR == KeptRead /\ t_rready
             GoW == KeptWrite /\ t_bready
  <1> USE DEF AtTarget, KeptRead, KeptWrite, AskedOnce
  <1>1. IInv /\ [Next]_vars /\ KeptRead => KeptRead' \/ Home' \/ AnsweredOrGone'
    <2> SUFFICES ASSUME IInv, [Next]_vars, KeptRead, ~AnsweredOrGone', ~UNCHANGED vars
                 PROVE  KeptRead' \/ Home'
      BY DEF vars, registers
    <2>1. Clock /\ pend' # NONE /\ asked' # 0
      BY AccessStays, PlacesOfGranted
    <2> QED
      BY <2>1
         DEF Clock, T!Edge, T!Idle, T!StartRead, T!StartWrite, T!Read, T!ReadAnswer,
             T!ReadKept, T!Write, T!WriteAnswer, T!WriteKept
  <1>2. IInv /\ [Next]_vars /\ GoR => GoR' \/ Home' \/ AnsweredOrGone'
    <2> SUFFICES ASSUME IInv, [Next]_vars, GoR, ~AnsweredOrGone', ~UNCHANGED vars
                 PROVE  Home'
      BY DEF vars, registers, wires
    <2>1. Clock /\ pend' # NONE /\ asked' # 0
      BY AccessStays, PlacesOfGranted
    <2> QED
      BY <2>1
         DEF Clock, T!Edge, T!Idle, T!StartRead, T!StartWrite, T!Read, T!ReadAnswer,
             T!ReadKept, T!Write, T!WriteAnswer, T!WriteKept
  <1>3. <<Clock>>_vars /\ GoR => ~KeptRead'
    BY DEF Clock, T!Edge, T!Idle, T!StartRead, T!StartWrite, T!Read, T!ReadAnswer,
           T!ReadKept, T!Write, T!WriteAnswer, T!WriteKept
  <1>4. IInv /\ [Next]_vars /\ KeptWrite => KeptWrite' \/ Home' \/ AnsweredOrGone'
    <2> SUFFICES ASSUME IInv, [Next]_vars, KeptWrite, ~AnsweredOrGone', ~UNCHANGED vars
                 PROVE  KeptWrite' \/ Home'
      BY DEF vars, registers
    <2>1. Clock /\ pend' # NONE /\ asked' # 0
      BY AccessStays, PlacesOfGranted
    <2> QED
      BY <2>1
         DEF Clock, T!Edge, T!Idle, T!StartRead, T!StartWrite, T!Read, T!ReadAnswer,
             T!ReadKept, T!Write, T!WriteAnswer, T!WriteKept
  <1>5. IInv /\ [Next]_vars /\ GoW => GoW' \/ Home' \/ AnsweredOrGone'
    <2> SUFFICES ASSUME IInv, [Next]_vars, GoW, ~AnsweredOrGone', ~UNCHANGED vars
                 PROVE  Home'
      BY DEF vars, registers, wires
    <2>1. Clock /\ pend' # NONE /\ asked' # 0
      BY AccessStays, PlacesOfGranted
    <2> QED
      BY <2>1
         DEF Clock, T!Edge, T!Idle, T!StartRead, T!StartWrite, T!Read, T!ReadAnswer,
             T!ReadKept, T!Write, T!WriteAnswer, T!WriteKept
  <1>6. <<Clock>>_vars /\ GoW => ~KeptWrite'
    BY DEF Clock, T!Edge, T!Idle, T!StartRead, T!StartWrite, T!Read, T!ReadAnswer,
           T!ReadKept, T!Write, T!WriteAnswer, T!WriteKept
  <1>7. IInv /\ Home => AnsweredOrGone
    BY PlacesOfGranted DEF AnsweredOrGone
  <1>8. /\ IInv /\ KeptRead => rs = NONE
        /\ IInv /\ KeptWrite => bs = NONE
        /\ KeptRead /\ t_rready => GoR
        /\ KeptWrite /\ t_bready => GoW
        /\ GoR => KeptRead
        /\ GoW => KeptWrite
    BY PlacesOfGranted
  <1> HIDE DEF Home, GoR, GoW, AtTarget, KeptRead, KeptWrite, AskedOnce
  <1>9. Spec /\ ClockRuns /\ BusFairness => (KeptRead ~> AnsweredOrGone)
    BY <1>1, <1>2, <1>3, <1>7, <1>8, Invariance, PTL DEF Spec, ClockRuns, BusFairness
  <1>10. Spec /\ ClockRuns /\ BusFairness => (KeptWrite ~> AnsweredOrGone)
    BY <1>4, <1>5, <1>6, <1>7, <1>8, Invariance, PTL DEF Spec, ClockRuns, BusFairness
  <1> QED
    BY <1>9, <1>10

\* The target answers what it granted.
LEMMA TargetAnswers ==
  Spec /\ ClockRuns /\ BusFairness /\ TargetFairness => (AtTarget ~> AnsweredOrGone)
  <1> DEFINE Come == AtTarget /\ rsp # NONE
  <1> USE DEF AtTarget, AskedOnce
  <1>1. IInv /\ [Next]_vars /\ AtTarget => AskedOnce' \/ AnsweredOrGone'
    <2> SUFFICES ASSUME IInv, [Next]_vars, AtTarget, ~AnsweredOrGone', ~UNCHANGED vars
                 PROVE  AskedOnce'
      BY PlacesOfGranted DEF vars, history
    <2> QED
      BY AccessStays, PlacesOfGranted
  <1>2. [Next]_vars /\ Come => Come' \/ ~AtTarget'
    BY DEF Next, vars, registers, wires, Reset, T!Reset, Clock, T!Edge, T!Idle, T!StartRead,
           T!StartWrite, T!Read, T!ReadAnswer, T!ReadKept, T!Write, T!WriteAnswer, T!WriteKept
  <1>3. <<Clock>>_vars /\ Come => ~AtTarget'
    BY DEF Clock, T!Edge, T!Idle, T!StartRead, T!StartWrite, T!Read, T!ReadAnswer, T!ReadKept,
           T!Write, T!WriteAnswer, T!WriteKept
  <1>4. IInv /\ AskedOnce => AtTarget \/ KeptRead \/ KeptWrite \/ AnsweredOrGone
    BY PlacesOfGranted DEF AnsweredOrGone
  <1>5. AtTarget /\ rsp # NONE => Come
    OBVIOUS
  <1>6. AtTarget => t_state \in {"READ_WAIT0", "WRITE_WAIT0"}
    OBVIOUS
  <1> HIDE DEF Come, AtTarget, AskedOnce
  <1> QED
    BY <1>1, <1>2, <1>3, <1>4, <1>5, <1>6, KeptComes, Invariance, PTL
       DEF Spec, ClockRuns, TargetFairness

\* The target grants what comes out of the bus.
LEMMA TargetIsAsked ==
  Spec /\ ClockRuns /\ BusFairness /\ TargetFairness => (Travels ~> AnsweredOrGone)
  <1> DEFINE Goes == Travels /\ gnt
  <1> USE DEF Travels, AskedOnce
  <1>1. IInv /\ [Next]_vars /\ Travels => Travels' \/ AskedOnce' \/ AnsweredOrGone'
    BY AccessStays DEF vars, history
  <1>2. IInv /\ [Next]_vars /\ Goes => Goes' \/ AskedOnce' \/ AnsweredOrGone'
    <2> SUFFICES ASSUME IInv, [Next]_vars, Goes, ~AnsweredOrGone', ~UNCHANGED vars
                 PROVE  AskedOnce'
      BY DEF vars, history, wires
    <2>1. TargetGrants
      BY PlacesOfGranted DEF TargetGrants
    <2> QED
      BY <2>1, AccessStays
  <1>3. IInv /\ <<Clock>>_vars /\ Goes => ~Travels' \/ AnsweredOrGone'
    <2> SUFFICES ASSUME IInv, Clock, ~UNCHANGED vars, Goes, ~AnsweredOrGone' PROVE ~Travels'
      OBVIOUS
    <2>1. TargetGrants
      BY PlacesOfGranted DEF TargetGrants
    <2> QED
      BY <2>1, AccessStays DEF Next
  <1>4. IInv /\ AskedOnce => AtTarget \/ KeptRead \/ KeptWrite \/ AnsweredOrGone
    BY PlacesOfGranted DEF AnsweredOrGone
  <1>5. /\ IInv /\ Travels => T!CoreRequest # NONE
        /\ Travels /\ gnt => Goes
    BY PlacesOfGranted
  <1> HIDE DEF Goes, Travels, AskedOnce
  <1> QED
    BY <1>1, <1>2, <1>3, <1>4, <1>5, KeptComes, TargetAnswers, Invariance, PTL
       DEF Spec, ClockRuns, TargetFairness

\* From wherever a granted access is, its answer comes back to the core.
LEMMA AnswerComes ==
  Spec /\ ClockRuns /\ BusFairness /\ TargetFairness => (pend # NONE ~> AnsweredOrGone)
  <1>1. IInv /\ pend # NONE =>
          Travels \/ AtTarget \/ KeptRead \/ KeptWrite \/ AnsweredOrGone
    BY PlacesOfGranted DEF Travels, AskedOnce, AnsweredOrGone
  <1> QED
    BY <1>1, TargetIsAsked, TargetAnswers, KeptComes, Invariance, PTL

\* As long as the clock runs, the bus carries beats and the target grants and
\* answers, every request is granted and every granted request answered,
\* across both bridges and the bus, through resets.
THEOREM EveryAccessServed ==
  Spec /\ ClockRuns /\ BusFairness /\ TargetFairness => Served
  <1>1. [Next]_vars /\ core # NONE /\ ~GrantedOrGone => (core # NONE)' \/ GrantedOrGone'
    BY CoreHolds
  <1>2. IInv /\ pend = NONE /\ core # NONE =>
          ReadAsked \/ WriteAsked \/ DataLeft \/ AddressLeft
    BY Places
  <1>3. [Next]_vars /\ C!Rvalid => C!Rvalid' \/ (pend = NONE)'
    <2>1. Clock /\ C!Rvalid => (pend = NONE)'
      BY DEF Clock, Remember, C!Rvalid, C!Gnt, C!NewWrite, C!NewRead
    <2> QED
      BY <2>1 DEF Next, Reset, vars, registers, bus, C!Rvalid
  <1>4. <<Clock>>_vars /\ C!Rvalid => (pend = NONE)'
    BY DEF Clock, Remember, C!Rvalid, C!Gnt, C!NewWrite, C!NewRead
  <1>5. (core # NONE <=> ~(core = NONE)) /\ (pend # NONE <=> ~(pend = NONE))
    OBVIOUS
  <1> QED
    BY <1>1, <1>2, <1>3, <1>4, <1>5, ReadGranted, WriteGranted, DataGranted, AddressGranted,
       AnswerComes, Invariance, PTL
       DEF Spec, ClockRuns, Served, GrantedOrGone, AnsweredOrGone

=============================================================================

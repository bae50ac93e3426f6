-------------------------- MODULE core2axi4l_proofs --------------------------
(***************************************************************************)
(* Proofs, for all addresses, data and slaves, of the safety properties    *)
(* of core2axi4l_tb, and of progress as long as the clock runs.            *)
(***************************************************************************)
EXTENDS core2axi4l_tb, TLAPS

\* The properties are not inductive: they speak of the grant and the answer,
\* not of the cycles between them.  What ties those together is the state
\* of the FSM: it knows which beats are out, and whose they are.
Underway ==
  /\ state = "IDLE" =>
       f_core = 0 /\ f_awr = 0 /\ f_wr = 0 /\ f_rd = 0
  /\ state = "WRITE_DATA" =>
       /\ f_core = 0 /\ f_awr = 1 /\ f_wr = 0 /\ f_rd = 0
       /\ core \in Request /\ core.we /\ aw_seen = core.addr
  /\ state = "WRITE_ADDR" =>
       /\ f_core = 0 /\ f_awr = 0 /\ f_wr = 1 /\ f_rd = 0
       /\ core \in Request /\ core.we /\ w_seen = core.wdata
  /\ state = "WRITE_WAIT" =>
       /\ f_core = 1 /\ f_awr = 1 /\ f_wr = 1 /\ f_rd = 0
       /\ pend \in Request /\ pend.we
       /\ aw_seen = pend.addr /\ w_seen = pend.wdata
  /\ state = "READ_WAIT" =>
       /\ f_core = 1 /\ f_awr = 0 /\ f_wr = 0 /\ f_rd = 1
       /\ pend \in Request /\ ~pend.we
       /\ ar_seen = pend.addr
  /\ b # NONE => state = "WRITE_WAIT"
  /\ r # NONE => state = "READ_WAIT"

IInv == TypeOK /\ Underway

-----------------------------------------------------------------------------
(* What a request carries *)

LEMMA RequestFields ==
  ASSUME NEW q \in Request
  PROVE  /\ q # NONE
         /\ q.we \in BOOLEAN
         /\ q.addr \in Addr /\ q.addr # NONE
         /\ q.we => q.wdata \in WData /\ q.wdata # NONE
  BY NoneAssumption DEF Request

LEMMA InitIInv == TBInit => IInv
  BY DEF TBInit, Init, IInv, TypeOK, Underway, State, Channel

-----------------------------------------------------------------------------
(* One lemma per branch of the FSM *)

\* The part of a clock cycle that is the same in every branch.
Around == Count /\ Observe /\ CoreAsks /\ SlaveReadies /\ SlaveAnswers

\* What the environment does keeps its wires in their types.
LEMMA AroundTypes ==
  ASSUME IInv, Around
  PROVE  /\ core' \in Channel(Request)
         /\ awready' \in BOOLEAN /\ wready' \in BOOLEAN /\ arready' \in BOOLEAN
         /\ b' \in Channel(LiteResp)
         /\ r' \in Channel(RBeat)
  BY DEF IInv, TypeOK, Around, CoreAsks, SlaveReadies, SlaveAnswers, Channel

\* Nothing to do: no wire is up, nothing is counted.
LEMMA IdleStep == IInv /\ Idle /\ Around => IInv'
  <1> SUFFICES ASSUME IInv, Idle, Around PROVE IInv'
    OBVIOUS
  <1>1. /\ state = "IDLE" /\ core = NONE /\ state' = "IDLE"
        /\ f_core = 0 /\ f_awr = 0 /\ f_wr = 0 /\ f_rd = 0
        /\ b = NONE /\ r = NONE
    BY DEF IInv, Underway, Idle
  <1>2. ~Gnt /\ ~Rvalid /\ ~AwTaken /\ ~WTaken /\ ~ArTaken /\ ~BTaken /\ ~RTaken
    BY <1>1 DEF Gnt, Rvalid, AwTaken, WTaken, ArTaken, BTaken, RTaken, NewWrite,
       NewRead, Awvalid, Wvalid, Arvalid, Bready, Rready
  <1>3. /\ f_core' = 0 /\ f_awr' = 0 /\ f_wr' = 0 /\ f_rd' = 0
        /\ pend' = pend /\ aw_seen' = aw_seen /\ w_seen' = w_seen
        /\ ar_seen' = ar_seen
    BY <1>1, <1>2 DEF Around, Count, Observe, Counted, Observed
  <1>4. b' = NONE /\ r' = NONE
    BY <1>1, <1>3 DEF Around, SlaveAnswers
  <1> QED
    BY <1>1, <1>3, <1>4, AroundTypes DEF IInv, TypeOK, Underway, State

\* A write in IDLE: the address is counted if it was taken, the data if it
\* was taken, and the request is granted if both were.
LEMMA SendWriteStep == IInv /\ SendWrite /\ Around => IInv'
  <1> SUFFICES ASSUME IInv, SendWrite, Around PROVE IInv'
    OBVIOUS
  <1>1. /\ state = "IDLE" /\ core \in Request /\ core.we
        /\ f_core = 0 /\ f_awr = 0 /\ f_wr = 0 /\ f_rd = 0
        /\ b = NONE /\ r = NONE
    BY DEF IInv, TypeOK, Underway, SendWrite, NewWrite, Channel
  <1>2. /\ core # NONE
        /\ core.addr \in Addr /\ core.wdata \in WData
    BY <1>1, RequestFields
  <1>3. /\ Gnt <=> awready /\ wready
        /\ AwTaken <=> awready
        /\ WTaken <=> wready
        /\ ~ArTaken /\ ~BTaken /\ ~RTaken /\ ~Rvalid
        /\ AW = core.addr /\ W = core.wdata
    BY <1>1, <1>2 DEF Gnt, Rvalid, AwTaken, WTaken, ArTaken, BTaken, RTaken,
       NewWrite, NewRead, Awvalid, Wvalid, Arvalid, Bready, Rready, AW, W
  <1>4. /\ f_core' = (IF awready /\ wready THEN 1 ELSE 0)
        /\ f_awr' = (IF awready THEN 1 ELSE 0)
        /\ f_wr' = (IF wready THEN 1 ELSE 0)
        /\ f_rd' = 0
    BY <1>1, <1>2, <1>3 DEF Around, Count, Counted
  <1>5. /\ pend' = (IF awready /\ wready THEN core ELSE pend)
        /\ aw_seen' = (IF awready THEN core.addr ELSE aw_seen)
        /\ w_seen' = (IF wready THEN core.wdata ELSE w_seen)
        /\ ar_seen' = ar_seen
    BY <1>2, <1>3 DEF Around, Observe, Observed
  <1>6. ~(awready /\ wready) => core' = core
    BY <1>2, <1>3 DEF Around, CoreAsks
  <1>7. r' = NONE /\ (b' # NONE => awready /\ wready)
    BY <1>1, <1>4 DEF Around, SlaveAnswers
  <1>8. TypeOK'
    BY <1>1, <1>2, <1>4, <1>5, AroundTypes
       DEF IInv, TypeOK, SendWrite, State, Channel
  <1>9. Underway'
    BY <1>1, <1>2, <1>4, <1>5, <1>6, <1>7 DEF Underway, SendWrite
  <1> QED
    BY <1>8, <1>9 DEF IInv

\* A read in IDLE: counted and granted when the address is taken.
LEMMA SendReadStep == IInv /\ SendRead /\ Around => IInv'
  <1> SUFFICES ASSUME IInv, SendRead, Around PROVE IInv'
    OBVIOUS
  <1>1. /\ state = "IDLE" /\ core \in Request /\ ~core.we
        /\ f_core = 0 /\ f_awr = 0 /\ f_wr = 0 /\ f_rd = 0
        /\ b = NONE /\ r = NONE
    BY DEF IInv, TypeOK, Underway, SendRead, NewRead, Channel
  <1>2. core # NONE /\ core.addr \in Addr
    BY <1>1, RequestFields
  <1>3. /\ Gnt <=> arready
        /\ ArTaken <=> arready
        /\ ~AwTaken /\ ~WTaken /\ ~BTaken /\ ~RTaken /\ ~Rvalid
        /\ AR = core.addr
    BY <1>1, <1>2 DEF Gnt, Rvalid, AwTaken, WTaken, ArTaken, BTaken, RTaken,
       NewWrite, NewRead, Awvalid, Wvalid, Arvalid, Bready, Rready, AR
  <1>4. /\ f_core' = (IF arready THEN 1 ELSE 0)
        /\ f_rd' = (IF arready THEN 1 ELSE 0)
        /\ f_awr' = 0 /\ f_wr' = 0
    BY <1>1, <1>2, <1>3 DEF Around, Count, Counted
  <1>5. /\ pend' = (IF arready THEN core ELSE pend)
        /\ ar_seen' = (IF arready THEN core.addr ELSE ar_seen)
        /\ aw_seen' = aw_seen /\ w_seen' = w_seen
    BY <1>2, <1>3 DEF Around, Observe, Observed
  <1>6. b' = NONE /\ (r' # NONE => arready)
    BY <1>1, <1>4 DEF Around, SlaveAnswers
  <1>7. TypeOK'
    BY <1>1, <1>2, <1>4, <1>5, AroundTypes
       DEF IInv, TypeOK, SendRead, State, Channel
  <1>8. Underway'
    BY <1>1, <1>2, <1>4, <1>5, <1>6 DEF Underway, SendRead
  <1> QED
    BY <1>7, <1>8 DEF IInv

\* The second half of a write whose address went first.
LEMMA SendDataStep == IInv /\ SendData /\ Around => IInv'
  <1> SUFFICES ASSUME IInv, SendData, Around PROVE IInv'
    OBVIOUS
  <1>1. /\ state = "WRITE_DATA" /\ core \in Request /\ core.we
        /\ f_core = 0 /\ f_awr = 1 /\ f_wr = 0 /\ f_rd = 0
        /\ aw_seen = core.addr
        /\ b = NONE /\ r = NONE
    BY DEF IInv, Underway, SendData
  <1>2. /\ core # NONE
        /\ core.addr \in Addr /\ core.wdata \in WData
    BY <1>1, RequestFields
  <1>3. /\ Gnt <=> wready
        /\ WTaken <=> wready
        /\ ~AwTaken /\ ~ArTaken /\ ~BTaken /\ ~RTaken /\ ~Rvalid
        /\ W = core.wdata
    BY <1>1, <1>2 DEF Gnt, Rvalid, AwTaken, WTaken, ArTaken, BTaken, RTaken,
       NewWrite, NewRead, Awvalid, Wvalid, Arvalid, Bready, Rready, W
  <1>4. /\ f_core' = (IF wready THEN 1 ELSE 0)
        /\ f_wr' = (IF wready THEN 1 ELSE 0)
        /\ f_awr' = 1 /\ f_rd' = 0
    BY <1>1, <1>2, <1>3 DEF Around, Count, Counted
  <1>5. /\ pend' = (IF wready THEN core ELSE pend)
        /\ w_seen' = (IF wready THEN core.wdata ELSE w_seen)
        /\ aw_seen' = aw_seen /\ ar_seen' = ar_seen
    BY <1>2, <1>3 DEF Around, Observe, Observed
  <1>6. ~wready => core' = core
    BY <1>2, <1>3 DEF Around, CoreAsks
  <1>7. r' = NONE /\ (b' # NONE => wready)
    BY <1>1, <1>4 DEF Around, SlaveAnswers
  <1>8. TypeOK'
    BY <1>1, <1>2, <1>4, <1>5, AroundTypes
       DEF IInv, TypeOK, SendData, State, Channel
  <1>9. Underway'
    BY <1>1, <1>2, <1>4, <1>5, <1>6, <1>7 DEF Underway, SendData
  <1> QED
    BY <1>8, <1>9 DEF IInv

\* The second half of a write whose data went first.
LEMMA SendAddrStep == IInv /\ SendAddr /\ Around => IInv'
  <1> SUFFICES ASSUME IInv, SendAddr, Around PROVE IInv'
    OBVIOUS
  <1>1. /\ state = "WRITE_ADDR" /\ core \in Request /\ core.we
        /\ f_core = 0 /\ f_awr = 0 /\ f_wr = 1 /\ f_rd = 0
        /\ w_seen = core.wdata
        /\ b = NONE /\ r = NONE
    BY DEF IInv, Underway, SendAddr
  <1>2. /\ core # NONE
        /\ core.addr \in Addr /\ core.wdata \in WData
    BY <1>1, RequestFields
  <1>3. /\ Gnt <=> awready
        /\ AwTaken <=> awready
        /\ ~WTaken /\ ~ArTaken /\ ~BTaken /\ ~RTaken /\ ~Rvalid
        /\ AW = core.addr
    BY <1>1, <1>2 DEF Gnt, Rvalid, AwTaken, WTaken, ArTaken, BTaken, RTaken,
       NewWrite, NewRead, Awvalid, Wvalid, Arvalid, Bready, Rready, AW
  <1>4. /\ f_core' = (IF awready THEN 1 ELSE 0)
        /\ f_awr' = (IF awready THEN 1 ELSE 0)
        /\ f_wr' = 1 /\ f_rd' = 0
    BY <1>1, <1>2, <1>3 DEF Around, Count, Counted
  <1>5. /\ pend' = (IF awready THEN core ELSE pend)
        /\ aw_seen' = (IF awready THEN core.addr ELSE aw_seen)
        /\ w_seen' = w_seen /\ ar_seen' = ar_seen
    BY <1>2, <1>3 DEF Around, Observe, Observed
  <1>6. ~awready => core' = core
    BY <1>2, <1>3 DEF Around, CoreAsks
  <1>7. r' = NONE /\ (b' # NONE => awready)
    BY <1>1, <1>4 DEF Around, SlaveAnswers
  <1>8. TypeOK'
    BY <1>1, <1>2, <1>4, <1>5, AroundTypes
       DEF IInv, TypeOK, SendAddr, State, Channel
  <1>9. Underway'
    BY <1>1, <1>2, <1>4, <1>5, <1>6, <1>7 DEF Underway, SendAddr
  <1> QED
    BY <1>8, <1>9 DEF IInv

\* Waiting for the write response: it is counted off both write channels and
\* off the core port at once.
LEMMA WriteResponseStep == IInv /\ WriteResponse /\ Around => IInv'
  <1> SUFFICES ASSUME IInv, WriteResponse, Around PROVE IInv'
    OBVIOUS
  <1>1. /\ state = "WRITE_WAIT"
        /\ f_core = 1 /\ f_awr = 1 /\ f_wr = 1 /\ f_rd = 0
        /\ pend \in Request /\ pend.we
        /\ aw_seen = pend.addr /\ w_seen = pend.wdata
        /\ r = NONE
    BY DEF IInv, Underway, WriteResponse
  <1>2. /\ Rvalid <=> b # NONE
        /\ BTaken <=> b # NONE
        /\ ~Gnt /\ ~AwTaken /\ ~WTaken /\ ~ArTaken /\ ~RTaken
    BY <1>1 DEF Gnt, Rvalid, AwTaken, WTaken, ArTaken, BTaken, RTaken, NewWrite,
       NewRead, Awvalid, Wvalid, Arvalid, Bready, Rready
  <1>3. /\ f_core' = (IF b # NONE THEN 0 ELSE 1)
        /\ f_awr' = (IF b # NONE THEN 0 ELSE 1)
        /\ f_wr' = (IF b # NONE THEN 0 ELSE 1)
        /\ f_rd' = 0
    BY <1>1, <1>2 DEF Around, Count, Counted
  <1>4. /\ pend' = (IF b # NONE THEN NONE ELSE pend)
        /\ aw_seen' = (IF b # NONE THEN NONE ELSE aw_seen)
        /\ w_seen' = (IF b # NONE THEN NONE ELSE w_seen)
        /\ ar_seen' = (IF b # NONE THEN NONE ELSE ar_seen)
    BY <1>2 DEF Around, Observe, Observed
  <1>5. r' = NONE /\ (b' # NONE => b = NONE)
    BY <1>1, <1>3 DEF Around, SlaveAnswers, Bready
  <1>6. TypeOK'
    BY <1>1, <1>3, <1>4, AroundTypes
       DEF IInv, TypeOK, WriteResponse, State, Channel
  <1>7. Underway'
    BY <1>1, <1>3, <1>4, <1>5 DEF Underway, WriteResponse
  <1> QED
    BY <1>6, <1>7 DEF IInv

\* Waiting for the read response.
LEMMA ReadResponseStep == IInv /\ ReadResponse /\ Around => IInv'
  <1> SUFFICES ASSUME IInv, ReadResponse, Around PROVE IInv'
    OBVIOUS
  <1>1. /\ state = "READ_WAIT"
        /\ f_core = 1 /\ f_awr = 0 /\ f_wr = 0 /\ f_rd = 1
        /\ pend \in Request /\ ~pend.we /\ ar_seen = pend.addr
        /\ b = NONE
    BY DEF IInv, Underway, ReadResponse
  <1>2. /\ Rvalid <=> r # NONE
        /\ RTaken <=> r # NONE
        /\ ~Gnt /\ ~AwTaken /\ ~WTaken /\ ~ArTaken /\ ~BTaken
    BY <1>1 DEF Gnt, Rvalid, AwTaken, WTaken, ArTaken, BTaken, RTaken, NewWrite,
       NewRead, Awvalid, Wvalid, Arvalid, Bready, Rready
  <1>3. /\ f_core' = (IF r # NONE THEN 0 ELSE 1)
        /\ f_rd' = (IF r # NONE THEN 0 ELSE 1)
        /\ f_awr' = 0 /\ f_wr' = 0
    BY <1>1, <1>2 DEF Around, Count, Counted
  <1>4. /\ pend' = (IF r # NONE THEN NONE ELSE pend)
        /\ aw_seen' = (IF r # NONE THEN NONE ELSE aw_seen)
        /\ w_seen' = (IF r # NONE THEN NONE ELSE w_seen)
        /\ ar_seen' = (IF r # NONE THEN NONE ELSE ar_seen)
    BY <1>2 DEF Around, Observe, Observed
  <1>5. b' = NONE /\ (r' # NONE => r = NONE)
    BY <1>1, <1>3 DEF Around, SlaveAnswers, Rready
  <1>6. TypeOK'
    BY <1>1, <1>3, <1>4, AroundTypes
       DEF IInv, TypeOK, ReadResponse, State, Channel
  <1>7. Underway'
    BY <1>1, <1>3, <1>4, <1>5 DEF Underway, ReadResponse
  <1> QED
    BY <1>6, <1>7 DEF IInv

-----------------------------------------------------------------------------
(* The invariant *)

LEMMA NextIInv == IInv /\ [Next]_vars => IInv'
  <1> SUFFICES ASSUME IInv, [Next]_vars PROVE IInv'
    OBVIOUS
  <1>1. CASE Clock
    <2>1. Edge /\ Around
      BY <1>1 DEF Clock, Around
    <2> QED
      BY <2>1, IdleStep, SendWriteStep, SendReadStep, SendDataStep, SendAddrStep,
         WriteResponseStep, ReadResponseStep DEF Edge
  <1>2. CASE TBReset
    BY <1>2 DEF TBReset, Reset, SlaveReadies, IInv, TypeOK, Underway, State,
       Channel
  <1>3. CASE UNCHANGED vars
    BY <1>3 DEF vars, inputs, counters, seen, IInv, TypeOK, Underway
  <1> QED
    BY <1>1, <1>2, <1>3 DEF Next

\* Every reachable state is typed, and the FSM knows what is under way.
THEOREM Invariance == Spec => []IInv
  BY InitIInv, NextIInv, PTL DEF Spec

-----------------------------------------------------------------------------
(* What follows from it *)

LEMMA IInvImplies ==
  IInv => OneBeatEach /\ BeatsMatch /\ AnswersPassedOn /\ ErrIsOwn
  <1> SUFFICES ASSUME IInv
               PROVE  OneBeatEach /\ BeatsMatch /\ AnswersPassedOn /\ ErrIsOwn
    OBVIOUS
  <1>1. state \in State /\ Underway /\ f_core \in 0..1 /\ pend \in Channel(Request)
    BY DEF IInv, TypeOK
  <1>2. OneBeatEach
    BY <1>1 DEF OneBeatEach, Underway, State
  <1>3. BeatsMatch
    BY <1>1, RequestFields DEF BeatsMatch, Underway, State
  <1>4. AnswersPassedOn
    BY <1>1 DEF AnswersPassedOn, Underway, State, BTaken, RTaken, Rvalid, Bready,
       Rready
  <1>5. ErrIsOwn
    BY <1>1 DEF ErrIsOwn, Underway, State, Rvalid, Err
  <1> QED
    BY <1>2, <1>3, <1>4, <1>5

\* The types and the bound of one transaction at a time.
THEOREM TypeCorrect == Spec => []TypeOK
  <1>1. IInv => TypeOK
    BY DEF IInv
  <1> QED
    BY <1>1, Invariance, PTL

\* A granted write has put exactly one address and one data beat on the
\* bus, a granted read exactly one address, whatever the slave does.
THEOREM ExactlyOneBeat == Spec => []OneBeatEach
  BY IInvImplies, Invariance, PTL

\* The beats carry the payload of the request that is granted for them.
THEOREM BeatsAreTheRequest == Spec => []BeatsMatch
  BY IInvImplies, Invariance, PTL

\* Every response is handed to the core in its first cycle, and the core is
\* answered only when it is owed an answer.
THEOREM NoAnswerLost == Spec => []AnswersPassedOn
  BY IInvImplies, Invariance, PTL

\* The error flag tells of the transaction that is being answered.
THEOREM ErrorIsOwn == Spec => []ErrIsOwn
  BY IInvImplies, Invariance, PTL

-----------------------------------------------------------------------------
(* The handshake rule of AXI4-Lite *)

\* While a beat waits for its ready wire, no grant is given, so that the core
\* keeps the request, and the FSM stays where it offers the beat.
LEMMA StableStep ==
  IInv /\ Clock => /\ Holds(Awvalid, awready, AW, AW')
                   /\ Holds(Wvalid, wready, W, W')
                   /\ Holds(Arvalid, arready, AR, AR')
  <1> SUFFICES ASSUME IInv, Clock
               PROVE  /\ Holds(Awvalid, awready, AW, AW')
                      /\ Holds(Wvalid, wready, W, W')
                      /\ Holds(Arvalid, arready, AR, AR')
    OBVIOUS
  <1>1. Awvalid \/ Wvalid \/ Arvalid => core \in Request /\ core # NONE
    BY NoneAssumption DEF IInv, TypeOK, Underway, Awvalid, Wvalid, Arvalid,
       NewWrite, NewRead, Channel
  <1>2. core # NONE /\ ~Gnt => core' = core
    BY DEF Clock, CoreAsks
  <1>3. ASSUME Awvalid, ~awready PROVE AW' = AW
    <2>1. ~Gnt
      BY <1>3 DEF Gnt, Awvalid, NewWrite, NewRead
    <2>2. core' = core /\ core # NONE
      BY <1>1, <1>2, <1>3, <2>1
    <2>3. Awvalid'
      BY <1>3, <2>2 DEF Awvalid, NewWrite, Clock, Edge, Idle, SendWrite, SendRead,
         NewRead, SendData, SendAddr, WriteResponse, ReadResponse
    <2> QED
      BY <1>3, <2>2, <2>3 DEF AW
  <1>4. ASSUME Wvalid, ~wready PROVE W' = W
    <2>1. ~Gnt
      BY <1>4 DEF Gnt, Wvalid, NewWrite, NewRead
    <2>2. core' = core /\ core # NONE
      BY <1>1, <1>2, <1>4, <2>1
    <2>3. Wvalid'
      BY <1>4, <2>2 DEF Wvalid, NewWrite, Clock, Edge, Idle, SendWrite, SendRead,
         NewRead, SendData, SendAddr, WriteResponse, ReadResponse
    <2> QED
      BY <1>4, <2>2, <2>3 DEF W
  <1>5. ASSUME Arvalid, ~arready PROVE AR' = AR
    <2>1. ~Gnt
      BY <1>5 DEF Gnt, Arvalid, NewWrite, NewRead
    <2>2. core' = core /\ core # NONE
      BY <1>1, <1>2, <1>5, <2>1
    <2>3. Arvalid'
      BY <1>5, <2>2 DEF Arvalid, NewWrite, Clock, Edge, Idle, SendWrite, SendRead,
         NewRead, SendData, SendAddr, WriteResponse, ReadResponse
    <2> QED
      BY <1>5, <2>2, <2>3 DEF AR
  <1> QED
    BY <1>3, <1>4, <1>5 DEF Holds

\* A valid wire that met no ready stays up, with its payload.
THEOREM BeatsAreStable == Spec => AxiStable
  <1>1. IInv /\ [Next]_vars =>
          [Clock => /\ Holds(Awvalid, awready, AW, AW')
                    /\ Holds(Wvalid, wready, W, W')
                    /\ Holds(Arvalid, arready, AR, AR')]_vars
    BY StableStep
  <1> QED
    BY <1>1, Invariance, PTL DEF Spec, AxiStable

-----------------------------------------------------------------------------
(* Progress *)

\* The clock never stops.
ClockRuns == []<><<Clock>>_vars

\* What separates this from the fairness that the run assumes, WF_vars(Clock),
\* is that a cycle is possible at any time.
LEMMA ClockRunsIfItCan ==
  LiveSpec /\ [](ENABLED <<Clock>>_vars) => Spec /\ ClockRuns /\ SlaveFairness
  BY PTL DEF LiveSpec, ClockRuns

\* What the core waits for.
Served == Gnt \/ core = NONE
Answered == Rvalid \/ f_core = 0

\* Where a request of the core can be.
ReadAsked == state = "IDLE" /\ core # NONE /\ ~core.we
WriteAsked == state = "IDLE" /\ core # NONE /\ core.we
DataLeft == state = "WRITE_DATA" /\ core # NONE
AddressLeft == state = "WRITE_ADDR" /\ core # NONE
BehindWrite == state = "WRITE_WAIT" /\ core # NONE
BehindRead == state = "READ_WAIT" /\ core # NONE
Asked == ReadAsked \/ WriteAsked

\* The FSM looks at a request at once, or serves the access before it first.
LEMMA Places == IInv /\ core # NONE => \/ Asked \/ DataLeft \/ AddressLeft
                                       \/ BehindWrite \/ BehindRead
  BY DEF IInv, TypeOK, State, Asked, ReadAsked, WriteAsked, DataLeft, AddressLeft,
     BehindWrite, BehindRead

\* The core holds its request.
LEMMA CoreHolds ==
  ASSUME [Next]_vars, ~Served
  PROVE  core' = core \/ Served'
  BY DEF Next, Clock, CoreAsks, TBReset, Served, vars, inputs

\* The edge changes the state as its branch says.
LEMMA StateMoves ==
  ASSUME [Next]_vars, ~Served
  PROVE  \/ Served'
         \/ core' = core /\ state' = state /\ awready' = awready /\ b' = b /\ r' = r
         \/ core' = core /\ Edge
  BY DEF Next, Clock, CoreAsks, TBReset, Served, vars, inputs

\* A read is granted when the bus takes its address.
LEMMA ReadGranted == Spec /\ SlaveFairness => (ReadAsked ~> Served)
  <1>1. IInv /\ [Next]_vars /\ ReadAsked /\ ~Served => ReadAsked' \/ Served'
    <2> SUFFICES ASSUME IInv, [Next]_vars, ReadAsked, ~Served PROVE ReadAsked' \/ Served'
      OBVIOUS
    <2>1. ~arready
      BY DEF ReadAsked, Served, Gnt, NewRead
    <2> QED
      BY <2>1, StateMoves
             DEF ReadAsked, Edge, Idle, SendWrite, SendRead, SendData, SendAddr, WriteResponse,
                 ReadResponse, NewWrite, NewRead
  <1>2. ReadAsked => Arvalid
    BY DEF ReadAsked, Arvalid, NewRead
  <1>3. ReadAsked /\ arready => Served
    BY DEF ReadAsked, Served, Gnt, NewRead
  <1> QED
    BY <1>1, <1>2, <1>3, Invariance, PTL DEF Spec, SlaveFairness

\* A write of which the address is gone is granted when its data goes.
LEMMA DataGranted == Spec /\ SlaveFairness => (DataLeft ~> Served)
  <1>1. IInv /\ [Next]_vars /\ DataLeft /\ ~Served => DataLeft' \/ Served'
    <2> SUFFICES ASSUME IInv, [Next]_vars, DataLeft, ~Served PROVE DataLeft' \/ Served'
      OBVIOUS
    <2>1. ~wready
      BY DEF DataLeft, Served, Gnt
    <2> QED
      BY <2>1, StateMoves
             DEF DataLeft, Edge, Idle, SendWrite, SendRead, SendData, SendAddr, WriteResponse,
                 ReadResponse, NewWrite, NewRead
  <1>2. DataLeft => Wvalid
    BY DEF DataLeft, Wvalid
  <1>3. DataLeft /\ wready => Served
    BY DEF DataLeft, Served, Gnt
  <1> QED
    BY <1>1, <1>2, <1>3, Invariance, PTL DEF Spec, SlaveFairness

\* A write of which the data is gone is granted when its address goes.
LEMMA AddressGranted == Spec /\ SlaveFairness => (AddressLeft ~> Served)
  <1>1. IInv /\ [Next]_vars /\ AddressLeft /\ ~Served => AddressLeft' \/ Served'
    <2> SUFFICES ASSUME IInv, [Next]_vars, AddressLeft, ~Served PROVE AddressLeft' \/ Served'
      OBVIOUS
    <2>1. ~awready
      BY DEF AddressLeft, Served, Gnt
    <2> QED
      BY <2>1, StateMoves
             DEF AddressLeft, Edge, Idle, SendWrite, SendRead, SendData, SendAddr,
                 WriteResponse,
                 ReadResponse, NewWrite, NewRead
  <1>2. AddressLeft => Awvalid
    BY DEF AddressLeft, Awvalid
  <1>3. AddressLeft /\ awready => Served
    BY DEF AddressLeft, Served, Gnt
  <1> QED
    BY <1>1, <1>2, <1>3, Invariance, PTL DEF Spec, SlaveFairness

\* The bus has taken the address of the write; it may keep the data waiting.
AddressGoes == WriteAsked /\ awready

\* A write is granted at once, or one of its halves stays behind; that the bus
\* would take the address again and again does not help unless the clock runs.
LEMMA WriteGranted == Spec /\ ClockRuns /\ SlaveFairness => (WriteAsked ~> Served)
  <1>1. [Next]_vars /\ WriteAsked /\ ~Served
          => WriteAsked' \/ DataLeft' \/ AddressLeft' \/ Served'
    <2> SUFFICES ASSUME [Next]_vars, WriteAsked, ~Served
                 PROVE  WriteAsked' \/ DataLeft' \/ AddressLeft' \/ Served'
      OBVIOUS
    <2>1. ~(awready /\ wready)
      BY DEF WriteAsked, Served, Gnt, NewWrite
    <2> QED
      BY <2>1, StateMoves
             DEF WriteAsked, DataLeft, AddressLeft, Edge, Idle, SendWrite, SendRead,
                 SendData, SendAddr,
                 WriteResponse, ReadResponse, NewWrite, NewRead
  <1>2. [Next]_vars /\ AddressGoes /\ ~Served => AddressGoes' \/ DataLeft' \/ Served'
    <2> SUFFICES ASSUME [Next]_vars, AddressGoes, ~Served
                 PROVE  AddressGoes' \/ DataLeft' \/ Served'
      OBVIOUS
    <2>1. ~wready /\ awready
      BY DEF AddressGoes, WriteAsked, Served, Gnt, NewWrite
    <2> QED
      BY <2>1, StateMoves
             DEF AddressGoes, WriteAsked, DataLeft, Edge, Idle, SendWrite, SendRead,
                 SendData, SendAddr,
                 WriteResponse, ReadResponse, NewWrite, NewRead
  <1>3. <<Clock>>_vars /\ AddressGoes /\ ~Served => DataLeft' \/ Served'
    <2> SUFFICES ASSUME Clock, AddressGoes, ~Served PROVE DataLeft' \/ Served'
      OBVIOUS
    <2>1. ~wready /\ awready
      BY DEF AddressGoes, WriteAsked, Served, Gnt, NewWrite
    <2>2. core' = core \/ Served'
      BY CoreHolds DEF Next
    <2>3. Edge
      BY DEF Clock
    <2> QED
      BY <2>1, <2>2, <2>3
             DEF AddressGoes, WriteAsked, DataLeft, Edge, Idle, SendWrite, SendRead,
                 SendData, SendAddr,
                 WriteResponse, ReadResponse, NewWrite, NewRead
  <1>4. WriteAsked => Awvalid
    BY DEF WriteAsked, Awvalid, NewWrite
  <1>5. WriteAsked /\ awready => AddressGoes
    BY DEF AddressGoes
  <1> QED
    BY <1>1, <1>2, <1>3, <1>4, <1>5, DataGranted, AddressGranted, PTL
           DEF Spec, SlaveFairness, ClockRuns

\* So every request that the FSM looks at is granted.
LEMMA AskedGranted == Spec /\ ClockRuns /\ SlaveFairness => (Asked ~> Served)
  BY ReadGranted, WriteGranted, PTL DEF Asked

\* The response of the access before is there.
WriteAnswered == BehindWrite /\ b # NONE
ReadAnswered == BehindRead /\ r # NONE

\* With the response, the FSM is back to look at the next request.
LEMMA NextIsAsked ==
  ASSUME Clock, WriteAnswered \/ ReadAnswered, ~Served
  PROVE  Asked' \/ Served'
  <1>1. core' = core \/ Served'
    BY CoreHolds DEF Next
  <1>2. Edge
    BY DEF Clock
  <1> QED
    BY <1>1, <1>2
           DEF WriteAnswered, ReadAnswered, BehindWrite, BehindRead, Asked, ReadAsked,
               WriteAsked, Edge, Idle,
               SendWrite, SendRead, SendData, SendAddr, WriteResponse, ReadResponse, NewWrite, NewRead

\* A request behind a write waits for the write response, which the slave owes.
LEMMA BehindWriteGranted == Spec /\ ClockRuns /\ SlaveFairness => (BehindWrite ~> Served)
  <1>1. [Next]_vars /\ BehindWrite /\ ~Served => BehindWrite' \/ Asked' \/ Served'
    BY StateMoves
       DEF BehindWrite, Asked, ReadAsked, WriteAsked, Edge, Idle, SendWrite, SendRead,
           SendData, SendAddr,
           WriteResponse, ReadResponse, NewWrite, NewRead
  <1>2. [Next]_vars /\ WriteAnswered /\ ~Served => WriteAnswered' \/ Asked' \/ Served'
    BY StateMoves
       DEF WriteAnswered, BehindWrite, Asked, ReadAsked, WriteAsked, Edge, Idle, SendWrite,
           SendRead, SendData,
           SendAddr, WriteResponse, ReadResponse, NewWrite, NewRead
  <1>3. <<Clock>>_vars /\ WriteAnswered /\ ~Served => Asked' \/ Served'
    BY NextIsAsked
  <1>4. IInv /\ BehindWrite => f_awr > 0 /\ f_wr > 0
    BY DEF IInv, Underway, BehindWrite
  <1>5. BehindWrite /\ b # NONE => WriteAnswered
    BY DEF WriteAnswered
  <1> QED
    BY <1>1, <1>2, <1>3, <1>4, <1>5, AskedGranted, Invariance, PTL
           DEF Spec, SlaveFairness, ClockRuns

\* A request behind a read waits for the read response, which the slave owes.
LEMMA BehindReadGranted == Spec /\ ClockRuns /\ SlaveFairness => (BehindRead ~> Served)
  <1>1. [Next]_vars /\ BehindRead /\ ~Served => BehindRead' \/ Asked' \/ Served'
    BY StateMoves
       DEF BehindRead, Asked, ReadAsked, WriteAsked, Edge, Idle, SendWrite, SendRead,
           SendData, SendAddr,
           WriteResponse, ReadResponse, NewWrite, NewRead
  <1>2. [Next]_vars /\ ReadAnswered /\ ~Served => ReadAnswered' \/ Asked' \/ Served'
    BY StateMoves
       DEF ReadAnswered, BehindRead, Asked, ReadAsked, WriteAsked, Edge, Idle, SendWrite,
           SendRead, SendData,
           SendAddr, WriteResponse, ReadResponse, NewWrite, NewRead
  <1>3. <<Clock>>_vars /\ ReadAnswered /\ ~Served => Asked' \/ Served'
    BY NextIsAsked
  <1>4. IInv /\ BehindRead => f_rd > 0
    BY DEF IInv, Underway, BehindRead
  <1>5. BehindRead /\ r # NONE => ReadAnswered
    BY DEF ReadAnswered
  <1> QED
    BY <1>1, <1>2, <1>3, <1>4, <1>5, AskedGranted, Invariance, PTL
           DEF Spec, SlaveFairness, ClockRuns

\* Where the core waits for its answer.
InWrite == state = "WRITE_WAIT"
InRead == state = "READ_WAIT"

\* The answer to a granted request comes when the slave responds: the core is
\* answered in that very cycle.
LEMMA AnswerComes == Spec /\ SlaveFairness => (f_core = 1 ~> Rvalid \/ f_core = 0)
  <1>1. IInv /\ f_core = 1 => InWrite \/ InRead
    BY DEF IInv, TypeOK, State, Underway, InWrite, InRead
  <1>2. IInv /\ [Next]_vars /\ InWrite /\ ~Answered => InWrite' \/ Answered'
    <2> SUFFICES ASSUME IInv, [Next]_vars, InWrite, ~Answered PROVE InWrite' \/ Answered'
      OBVIOUS
    <2>1. b = NONE
      BY DEF InWrite, Answered, Rvalid
    <2> QED
      BY <2>1
             DEF Next, Clock, TBReset, vars, InWrite, Answered, Edge, Idle, SendWrite,
                 SendRead, SendData,
                 SendAddr, WriteResponse, ReadResponse, NewWrite, NewRead
  <1>3. IInv /\ [Next]_vars /\ InRead /\ ~Answered => InRead' \/ Answered'
    <2> SUFFICES ASSUME IInv, [Next]_vars, InRead, ~Answered PROVE InRead' \/ Answered'
      OBVIOUS
    <2>1. r = NONE
      BY DEF InRead, Answered, Rvalid
    <2> QED
      BY <2>1
             DEF Next, Clock, TBReset, vars, InRead, Answered, Edge, Idle, SendWrite,
                 SendRead, SendData,
                 SendAddr, WriteResponse, ReadResponse, NewWrite, NewRead
  <1>4. IInv /\ InWrite => f_awr > 0 /\ f_wr > 0
    BY DEF IInv, Underway, InWrite
  <1>5. IInv /\ InRead => f_rd > 0
    BY DEF IInv, Underway, InRead
  <1>6. (InWrite /\ b # NONE) \/ (InRead /\ r # NONE) => Answered
    BY DEF InWrite, InRead, Answered, Rvalid
  <1> QED
    BY <1>1, <1>2, <1>3, <1>4, <1>5, <1>6, Invariance, PTL DEF Spec, SlaveFairness, Answered

\* As long as the clock runs and the slave does its part, every request of the
\* core is granted and every granted request answered, in whatever order the
\* slave takes address and data, and through resets.
THEOREM EveryRequestServed == Spec /\ ClockRuns /\ SlaveFairness => RequestServed
  <1> QED
    BY Places, AskedGranted, DataGranted, AddressGranted, BehindWriteGranted, BehindReadGranted,
              AnswerComes, Invariance, PTL DEF RequestServed, Served

=============================================================================

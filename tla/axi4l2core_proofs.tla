-------------------------- MODULE axi4l2core_proofs --------------------------
(***************************************************************************)
(* Proofs, for all addresses, data and partners, of the safety properties  *)
(* of axi4l2core, between the partners of its testbench (axi4l2core_tb)    *)
(* and then in front of the debug module (axi4l_dm_top); at the end, of    *)
(* progress as long as the clock runs.                                     *)
(***************************************************************************)
EXTENDS axi4l2core_tb, axi4l_dm_top, TLAPS

\* What the state of the FSM knows about the transaction under way.  In the
\* two states that follow a grant the core side owes its answer; in the two
\* that follow a missed cycle the buffer is the answer it gave.
Underway ==
  /\ state \in {"IDLE", "READ", "WRITE"} =>
       f_core = 0 /\ f_awr = 0 /\ f_wr = 0 /\ f_rd = 0 /\ given = NONE
  /\ state = "READ" => ar # NONE
  /\ state = "WRITE" => aw # NONE /\ w # NONE
  /\ state = "READ_WAIT0" =>
       /\ f_core = 1 /\ f_awr = 0 /\ f_wr = 0 /\ f_rd = 1
       /\ ~pend.we /\ given = NONE
  /\ state = "READ_WAIT1" =>
       /\ f_core = 0 /\ f_awr = 0 /\ f_wr = 0 /\ f_rd = 1
       /\ ~pend.we /\ given # NONE
       /\ rbuf = [resp |-> resp(given.err), data |-> given.rdata]
  /\ state = "WRITE_WAIT0" =>
       /\ f_core = 1 /\ f_awr = 1 /\ f_wr = 1 /\ f_rd = 0
       /\ pend.we /\ given = NONE
  /\ state = "WRITE_WAIT1" =>
       /\ f_core = 0 /\ f_awr = 1 /\ f_wr = 1 /\ f_rd = 0
       /\ pend.we /\ given # NONE
       /\ bbuf = resp(given.err)
  /\ rsp # NONE => f_core = 1

IInv == TypeOK /\ Underway

-----------------------------------------------------------------------------
(* Payloads *)

LEMMA RespFacts ==
  /\ \A e : resp(e) \in CoreResp
  /\ \A x \in CoreResp : x # NONE
  /\ \A x \in [resp : CoreResp, data : Data] : x # NONE
  <1>1. \A e : resp(e) \in CoreResp
    BY DEF resp, CoreResp
  <1>2. CoreResp \subseteq LiteResp /\ CoreResp \subseteq resp_t
    BY DEF resp, CoreResp, LiteResp, resp_t
  <1>3. \A x \in [resp : CoreResp, data : Data] : x \in RBeat
    BY <1>2 DEF RBeat
  <1> QED
    BY <1>1, <1>2, <1>3, NoneAssumption

LEMMA AnswerFacts ==
  ASSUME NEW q \in Response
  PROVE  /\ q # NONE
         /\ [resp |-> resp(q.err), data |-> q.rdata]
              \in [resp : CoreResp, data : Data]
         /\ [resp |-> resp(q.err), data |-> q.rdata] # NONE
         /\ resp(q.err) \in CoreResp
         /\ resp(q.err) # NONE
  BY RespFacts, NoneAssumption DEF Response

LEMMA RequestFacts ==
  /\ \A a \in Addr : [we |-> FALSE, addr |-> a] \in Request
  /\ \A a \in Addr, d \in WData : [we |-> TRUE, addr |-> a, wdata |-> d] \in Request
  BY DEF Request

LEMMA InitIInv == TBInit => IInv
  <1> SUFFICES ASSUME TBInit PROVE IInv
    OBVIOUS
  <1>1. gnt \in BOOLEAN
    BY DEF TBInit
  <1>2. TypeOK
    BY <1>1 DEF TBInit, Init, TypeOK, State, Channel
  <1>3. Underway
    BY DEF TBInit, Init, Underway
  <1> QED
    BY <1>2, <1>3 DEF IInv

-----------------------------------------------------------------------------
(* One lemma per kind of cycle *)

\* The part of a clock cycle that is the same in every branch.
Around == Count /\ Observe /\ MasterSends /\ MasterReadies /\ CoreServes

LEMMA AroundTypes ==
  ASSUME IInv, Around
  PROVE  /\ aw' \in Channel(Addr) /\ w' \in Channel(WData) /\ ar' \in Channel(Addr)
         /\ bready' \in BOOLEAN /\ rready' \in BOOLEAN /\ gnt' \in BOOLEAN
         /\ rsp' \in Channel(Response)
         /\ rsp' # NONE => f_core' > 0
  BY DEF IInv, TypeOK, Around, MasterSends, MasterReadies, CoreServes, Offered,
     Channel

\* Nothing to do.
LEMMA IdleStep == IInv /\ Idle /\ Around => IInv'
  <1> SUFFICES ASSUME IInv, Idle, Around PROVE IInv'
    OBVIOUS
  <1>1. /\ state = "IDLE" /\ state' = "IDLE" /\ bbuf' = bbuf /\ rbuf' = rbuf
        /\ f_core = 0 /\ f_awr = 0 /\ f_wr = 0 /\ f_rd = 0
        /\ given = NONE /\ rsp = NONE
    BY DEF IInv, Underway, Idle, Buffers
  <1>2. /\ ~Reading /\ ~Writing /\ CoreRequest = NONE
        /\ B = NONE /\ R = NONE
    BY <1>1 DEF Idle, CoreRequest, B, R
  <1>3. ~AwTaken /\ ~WTaken /\ ~ArTaken /\ ~BTaken /\ ~RTaken /\ ~Granted
    BY <1>2 DEF AwTaken, WTaken, ArTaken, BTaken, RTaken, Granted, Arready,
       Awready, Wready
  <1>4. /\ f_core' = 0 /\ f_awr' = 0 /\ f_wr' = 0 /\ f_rd' = 0
        /\ pend' = pend /\ given' = NONE
    BY <1>1, <1>3 DEF Around, Count, Observe, Counted
  <1> QED
    BY <1>1, <1>4, AroundTypes DEF IInv, TypeOK, Underway, State, Channel

\* A read that is put to the core side, at once or after waiting for its
\* grant: with the grant it is taken from the bus and owed by the core side.
LEMMA ReadAsked ==
  IInv /\ (StartRead \/ Read) /\ Around => IInv'
  <1> SUFFICES ASSUME IInv, StartRead \/ Read, Around PROVE IInv'
    OBVIOUS
  <1>1. /\ state \in {"IDLE", "READ"} /\ bbuf' = bbuf /\ rbuf' = rbuf
        /\ state' = IF gnt THEN "READ_WAIT0" ELSE "READ"
        /\ f_core = 0 /\ f_awr = 0 /\ f_wr = 0 /\ f_rd = 0
        /\ given = NONE /\ rsp = NONE
    BY DEF IInv, Underway, StartRead, Read, Buffers
  <1>2. /\ Reading /\ ~Writing
        /\ ar # NONE
        /\ ar \in Addr
    BY <1>1 DEF IInv, TypeOK, Underway, StartRead, Read, Reading, Writing, Channel
  <1>3. /\ CoreRequest = [we |-> FALSE, addr |-> ar]
        /\ CoreRequest \in Request /\ CoreRequest # NONE
        /\ B = NONE /\ R = NONE
    BY <1>1, <1>2, RequestFacts, NoneAssumption DEF CoreRequest, B, R
  <1>4. /\ Granted <=> gnt
        /\ ArTaken <=> gnt
        /\ ~AwTaken /\ ~WTaken
        /\ ~BTaken /\ ~RTaken
    BY <1>2, <1>3 DEF AwTaken, WTaken, ArTaken, BTaken, RTaken, Granted, Arready,
       Awready, Wready
  <1>5. /\ f_core' = (IF gnt THEN 1 ELSE 0)
        /\ f_awr' = 0
        /\ f_wr' = 0
        /\ f_rd' = (IF gnt THEN 1 ELSE 0)
    BY <1>1, <1>4 DEF Around, Count, Counted
  <1>6. pend' = (IF gnt THEN CoreRequest ELSE pend) /\ given' = NONE
    BY <1>1, <1>4 DEF Around, Observe
  <1>7. ~gnt => ar' = ar
    BY <1>2 DEF Around, MasterSends, Offered, Arready, Awready, Wready
  <1>8. TypeOK'
    BY <1>1, <1>3, <1>5, <1>6, AroundTypes DEF IInv, TypeOK, State, Channel
  <1>9. Underway'
    BY <1>1, <1>2, <1>3, <1>5, <1>6, <1>7, AroundTypes DEF Underway
  <1> QED
    BY <1>8, <1>9 DEF IInv

\* A write that is put to the core side, at once or after waiting for its
\* grant: with the grant it is taken from the bus and owed by the core side.
LEMMA WriteAsked ==
  IInv /\ (StartWrite \/ Write) /\ Around => IInv'
  <1> SUFFICES ASSUME IInv, StartWrite \/ Write, Around PROVE IInv'
    OBVIOUS
  <1>1. /\ state \in {"IDLE", "WRITE"} /\ bbuf' = bbuf /\ rbuf' = rbuf
        /\ state' = IF gnt THEN "WRITE_WAIT0" ELSE "WRITE"
        /\ f_core = 0 /\ f_awr = 0 /\ f_wr = 0 /\ f_rd = 0
        /\ given = NONE /\ rsp = NONE
    BY DEF IInv, Underway, StartWrite, Write, Buffers
  <1>2. /\ Writing /\ ~Reading
        /\ aw # NONE /\ w # NONE
        /\ aw \in Addr /\ w \in WData
    BY <1>1 DEF IInv, TypeOK, Underway, StartWrite, Write, Reading, Writing, Channel
  <1>3. /\ CoreRequest = [we |-> TRUE, addr |-> aw, wdata |-> w]
        /\ CoreRequest \in Request /\ CoreRequest # NONE
        /\ B = NONE /\ R = NONE
    BY <1>1, <1>2, RequestFacts, NoneAssumption DEF CoreRequest, B, R
  <1>4. /\ Granted <=> gnt
        /\ AwTaken <=> gnt
        /\ WTaken <=> gnt
        /\ ~ArTaken /\ ~BTaken /\ ~RTaken
    BY <1>2, <1>3 DEF AwTaken, WTaken, ArTaken, BTaken, RTaken, Granted, Arready,
       Awready, Wready
  <1>5. /\ f_core' = (IF gnt THEN 1 ELSE 0)
        /\ f_awr' = (IF gnt THEN 1 ELSE 0)
        /\ f_wr' = (IF gnt THEN 1 ELSE 0)
        /\ f_rd' = 0
    BY <1>1, <1>4 DEF Around, Count, Counted
  <1>6. pend' = (IF gnt THEN CoreRequest ELSE pend) /\ given' = NONE
    BY <1>1, <1>4 DEF Around, Observe
  <1>7. ~gnt => aw' = aw /\ w' = w
    BY <1>2 DEF Around, MasterSends, Offered, Arready, Awready, Wready
  <1>8. TypeOK'
    BY <1>1, <1>3, <1>5, <1>6, AroundTypes DEF IInv, TypeOK, State, Channel
  <1>9. Underway'
    BY <1>1, <1>2, <1>3, <1>5, <1>6, <1>7, AroundTypes DEF Underway
  <1> QED
    BY <1>8, <1>9 DEF IInv

\* The core side owes the answer to a read.  When it comes, it is offered at
\* once, and kept if the master does not take it.
LEMMA ReadAnswerStep == IInv /\ ReadAnswer /\ Around => IInv'
  <1> SUFFICES ASSUME IInv, ReadAnswer, Around PROVE IInv'
    OBVIOUS
  <1>1. /\ state = "READ_WAIT0" /\ bbuf' = bbuf
        /\ f_core = 1 /\ f_awr = 0 /\ f_wr = 0 /\ f_rd = 1
        /\ ~pend.we /\ given = NONE
    BY DEF IInv, Underway, ReadAnswer
  <1>2. /\ ~Reading /\ ~Writing /\ CoreRequest = NONE /\ B = NONE
        /\ ~AwTaken /\ ~WTaken /\ ~ArTaken /\ ~BTaken /\ ~Granted
    BY <1>1 DEF Reading, Writing, CoreRequest, R, B, AwTaken, WTaken, ArTaken, RTaken,
       BTaken, Granted, Arready, Awready, Wready
  <1>3. CASE rsp = NONE
    <2>1. state' = state /\ rbuf' = rbuf
      BY <1>1, <1>3 DEF ReadAnswer
    <2>2. R = NONE /\ ~RTaken
      BY <1>1, <1>3 DEF R, RTaken
    <2>3. /\ f_core' = 1 /\ f_awr' = f_awr /\ f_wr' = f_wr /\ f_rd' = f_rd
          /\ pend' = pend /\ given' = NONE
      BY <1>1, <1>2, <1>3, <2>2 DEF Around, Count, Observe, Counted
    <2> QED
      BY <1>1, <2>1, <2>3, AroundTypes DEF IInv, TypeOK, Underway, State, Channel
  <1>4. CASE rsp # NONE
    <2>1. /\ rsp \in Response
          /\ [resp |-> resp(rsp.err), data |-> rsp.rdata] # NONE
          /\ [resp |-> resp(rsp.err), data |-> rsp.rdata] \in [resp : CoreResp, data : Data]
      BY <1>4, AnswerFacts DEF IInv, TypeOK, Channel
    <2>2. /\ state' = IF rready THEN "IDLE" ELSE "READ_WAIT1"
          /\ rbuf' = [resp |-> resp(rsp.err), data |-> rsp.rdata]
      BY <1>1, <1>4 DEF ReadAnswer
    <2>3. R = [resp |-> resp(rsp.err), data |-> rsp.rdata] /\ (RTaken <=> rready)
      BY <1>1, <1>4, <2>1 DEF R, RTaken
    <2>4. /\ f_core' = 0
          /\ f_awr' = 0 /\ f_wr' = 0
          /\ f_rd' = (IF rready THEN 0 ELSE 1)
      BY <1>1, <1>2, <1>4, <2>3 DEF Around, Count, Counted
    <2>5. pend' = (IF rready THEN NONE ELSE pend) /\ given' = (IF rready THEN NONE ELSE rsp)
      BY <1>2, <1>4, <2>3 DEF Around, Observe
    <2>6. TypeOK'
      BY <1>1, <2>1, <2>2, <2>4, <2>5, AroundTypes DEF IInv, TypeOK, State, Channel
    <2>7. Underway'
      BY <1>1, <1>4, <2>2, <2>4, <2>5, AroundTypes DEF Underway
    <2> QED
      BY <2>6, <2>7 DEF IInv
  <1> QED
    BY <1>3, <1>4

\* The answer is in the buffer until the master takes it.
LEMMA ReadKeptStep == IInv /\ ReadKept /\ Around => IInv'
  <1> SUFFICES ASSUME IInv, ReadKept, Around PROVE IInv'
    OBVIOUS
  <1>1. /\ state = "READ_WAIT1" /\ bbuf' = bbuf /\ rbuf' = rbuf
        /\ state' = IF rready THEN "IDLE" ELSE "READ_WAIT1"
        /\ f_core = 0 /\ f_awr = 0 /\ f_wr = 0 /\ f_rd = 1
        /\ ~pend.we /\ given # NONE /\ rsp = NONE
    BY DEF IInv, Underway, ReadKept, Buffers
  <1>2. /\ ~Reading /\ ~Writing /\ CoreRequest = NONE /\ B = NONE
        /\ ~AwTaken /\ ~WTaken /\ ~ArTaken /\ ~BTaken /\ ~Granted
    BY <1>1 DEF Reading, Writing, CoreRequest, R, B, AwTaken, WTaken, ArTaken, RTaken,
       BTaken, Granted, Arready, Awready, Wready
  <1>3. R # NONE /\ (RTaken <=> rready)
    BY <1>1, RespFacts DEF R, RTaken, IInv, TypeOK
  <1>4. /\ f_core' = 0
        /\ f_awr' = 0 /\ f_wr' = 0
        /\ f_rd' = (IF rready THEN 0 ELSE 1)
    BY <1>1, <1>2, <1>3 DEF Around, Count, Counted
  <1>5. /\ pend' = (IF rready THEN NONE ELSE pend)
        /\ given' = (IF rready THEN NONE ELSE given)
    BY <1>1, <1>2, <1>3 DEF Around, Observe
  <1>6. TypeOK'
    BY <1>1, <1>4, <1>5, AroundTypes DEF IInv, TypeOK, State, Channel
  <1>7. Underway'
    BY <1>1, <1>4, <1>5, AroundTypes DEF IInv, Underway
  <1> QED
    BY <1>6, <1>7 DEF IInv

\* The core side owes the answer to a write.  When it comes, it is offered at
\* once, and kept if the master does not take it.
LEMMA WriteAnswerStep == IInv /\ WriteAnswer /\ Around => IInv'
  <1> SUFFICES ASSUME IInv, WriteAnswer, Around PROVE IInv'
    OBVIOUS
  <1>1. /\ state = "WRITE_WAIT0" /\ rbuf' = rbuf
        /\ f_core = 1 /\ f_awr = 1 /\ f_wr = 1 /\ f_rd = 0
        /\ pend.we /\ given = NONE
    BY DEF IInv, Underway, WriteAnswer
  <1>2. /\ ~Reading /\ ~Writing /\ CoreRequest = NONE /\ R = NONE
        /\ ~AwTaken /\ ~WTaken /\ ~ArTaken /\ ~RTaken /\ ~Granted
    BY <1>1 DEF Reading, Writing, CoreRequest, R, B, AwTaken, WTaken, ArTaken, RTaken,
       BTaken, Granted, Arready, Awready, Wready
  <1>3. CASE rsp = NONE
    <2>1. state' = state /\ bbuf' = bbuf
      BY <1>1, <1>3 DEF WriteAnswer
    <2>2. B = NONE /\ ~BTaken
      BY <1>1, <1>3 DEF B, BTaken
    <2>3. /\ f_core' = 1 /\ f_awr' = f_awr /\ f_wr' = f_wr /\ f_rd' = f_rd
          /\ pend' = pend /\ given' = NONE
      BY <1>1, <1>2, <1>3, <2>2 DEF Around, Count, Observe, Counted
    <2> QED
      BY <1>1, <2>1, <2>3, AroundTypes DEF IInv, TypeOK, Underway, State, Channel
  <1>4. CASE rsp # NONE
    <2>1. /\ rsp \in Response
          /\ resp(rsp.err) # NONE
          /\ resp(rsp.err) \in CoreResp
      BY <1>4, AnswerFacts DEF IInv, TypeOK, Channel
    <2>2. /\ state' = IF bready THEN "IDLE" ELSE "WRITE_WAIT1"
          /\ bbuf' = resp(rsp.err)
      BY <1>1, <1>4 DEF WriteAnswer
    <2>3. B = resp(rsp.err) /\ (BTaken <=> bready)
      BY <1>1, <1>4, <2>1 DEF B, BTaken
    <2>4. /\ f_core' = 0
          /\ f_rd' = 0
          /\ f_awr' = (IF bready THEN 0 ELSE 1)
          /\ f_wr' = (IF bready THEN 0 ELSE 1)
      BY <1>1, <1>2, <1>4, <2>3 DEF Around, Count, Counted
    <2>5. pend' = (IF bready THEN NONE ELSE pend) /\ given' = (IF bready THEN NONE ELSE rsp)
      BY <1>2, <1>4, <2>3 DEF Around, Observe
    <2>6. TypeOK'
      BY <1>1, <2>1, <2>2, <2>4, <2>5, AroundTypes DEF IInv, TypeOK, State, Channel
    <2>7. Underway'
      BY <1>1, <1>4, <2>2, <2>4, <2>5, AroundTypes DEF Underway
    <2> QED
      BY <2>6, <2>7 DEF IInv
  <1> QED
    BY <1>3, <1>4

\* The answer is in the buffer until the master takes it.
LEMMA WriteKeptStep == IInv /\ WriteKept /\ Around => IInv'
  <1> SUFFICES ASSUME IInv, WriteKept, Around PROVE IInv'
    OBVIOUS
  <1>1. /\ state = "WRITE_WAIT1" /\ bbuf' = bbuf /\ rbuf' = rbuf
        /\ state' = IF bready THEN "IDLE" ELSE "WRITE_WAIT1"
        /\ f_core = 0 /\ f_awr = 1 /\ f_wr = 1 /\ f_rd = 0
        /\ pend.we /\ given # NONE /\ rsp = NONE
    BY DEF IInv, Underway, WriteKept, Buffers
  <1>2. /\ ~Reading /\ ~Writing /\ CoreRequest = NONE /\ R = NONE
        /\ ~AwTaken /\ ~WTaken /\ ~ArTaken /\ ~RTaken /\ ~Granted
    BY <1>1 DEF Reading, Writing, CoreRequest, R, B, AwTaken, WTaken, ArTaken, RTaken,
       BTaken, Granted, Arready, Awready, Wready
  <1>3. B # NONE /\ (BTaken <=> bready)
    BY <1>1, RespFacts DEF B, BTaken, IInv, TypeOK
  <1>4. /\ f_core' = 0
        /\ f_rd' = 0
        /\ f_awr' = (IF bready THEN 0 ELSE 1)
        /\ f_wr' = (IF bready THEN 0 ELSE 1)
    BY <1>1, <1>2, <1>3 DEF Around, Count, Counted
  <1>5. /\ pend' = (IF bready THEN NONE ELSE pend)
        /\ given' = (IF bready THEN NONE ELSE given)
    BY <1>1, <1>2, <1>3 DEF Around, Observe
  <1>6. TypeOK'
    BY <1>1, <1>4, <1>5, AroundTypes DEF IInv, TypeOK, State, Channel
  <1>7. Underway'
    BY <1>1, <1>4, <1>5, AroundTypes DEF IInv, Underway
  <1> QED
    BY <1>6, <1>7 DEF IInv

-----------------------------------------------------------------------------
(* The invariant *)

LEMMA NextIInv == IInv /\ [Next]_vars => IInv'
  <1> SUFFICES ASSUME IInv, [Next]_vars PROVE IInv'
    OBVIOUS
  <1>1. CASE Clock
    <2>1. Edge /\ Around
      BY <1>1 DEF Clock, Around
    <2> QED
      BY <2>1, IdleStep, ReadAsked, WriteAsked, ReadAnswerStep, WriteAnswerStep,
         ReadKeptStep, WriteKeptStep DEF Edge
  <1>2. CASE TBReset
    BY <1>2 DEF TBReset, Reset, Buffers, MasterReadies, IInv, TypeOK, Underway,
       State, Channel
  <1>3. CASE UNCHANGED vars
    BY <1>3 DEF vars, registers, inputs, counters, IInv, TypeOK, Underway
  <1> QED
    BY <1>1, <1>2, <1>3 DEF Next

LEMMA Invariance == Spec => []IInv
  BY InitIInv, NextIInv, PTL DEF Spec

-----------------------------------------------------------------------------
(* What follows from it *)

\* Types, and one transaction at a time.
THEOREM TypeCorrect == Spec => []TypeOK
  <1>1. IInv => TypeOK
    BY DEF IInv
  <1> QED
    BY <1>1, Invariance, PTL

\* A transaction is put to the core side exactly once.
THEOREM EachAskedOnce == Spec => []AskedOnce
  <1>1. IInv => AskedOnce
    <2> SUFFICES ASSUME IInv PROVE AskedOnce
      OBVIOUS
    <2>1. state \in State
      BY DEF IInv, TypeOK
    <2>2. state \notin {"IDLE", "READ", "WRITE"} => CoreRequest = NONE
      BY DEF CoreRequest, Reading, Writing
    <2> QED
      BY <2>1, <2>2 DEF IInv, Underway, AskedOnce, State
  <1> QED
    BY <1>1, Invariance, PTL

\* What the bus sees is the answer the core side gave, however late the
\* master takes it.
THEOREM AnswersAreTheCores == Spec => []AnswerIsTheCores
  <1>1. IInv => AnswerIsTheCores
    <2> SUFFICES ASSUME IInv PROVE AnswerIsTheCores
      OBVIOUS
    <2> DEFINE owed == IF rsp # NONE THEN rsp ELSE given
    <2>1. state \in State /\ Underway /\ rsp \in Channel(Response)
      BY DEF IInv, TypeOK
    <2>2. R # NONE => /\ f_rd = 1 /\ ~pend.we
                      /\ R = [resp |-> resp(owed.err), data |-> owed.rdata]
      BY <2>1 DEF R, Underway
    <2>3. B # NONE => /\ f_awr = 1 /\ pend.we
                      /\ B = resp(owed.err)
      BY <2>1 DEF B, Underway
    <2>4. rsp # NONE => R # NONE \/ B # NONE
      <3> SUFFICES ASSUME rsp # NONE PROVE R # NONE \/ B # NONE
        OBVIOUS
      <3>1. rsp \in Response
        BY <2>1 DEF Channel
      <3>2. state = "READ_WAIT0" \/ state = "WRITE_WAIT0"
        BY <2>1 DEF Underway, State
      <3> QED
        BY <3>1, <3>2, AnswerFacts DEF R, B
    <2> QED
      BY <2>2, <2>3, <2>4 DEF AnswerIsTheCores
  <1> QED
    BY <1>1, Invariance, PTL

\* The core side sees a request that does not change before its grant.
THEOREM RequestsAreHeld == Spec => RequestHeld
  <1>1. IInv /\ Clock => (CoreRequest # NONE /\ ~gnt => CoreRequest' = CoreRequest)
    <2> SUFFICES ASSUME IInv, Clock, CoreRequest # NONE, ~gnt
                 PROVE  CoreRequest' = CoreRequest
      OBVIOUS
    <2>1. CASE Reading
      <3>1. ar # NONE /\ ar' = ar
        BY <2>1 DEF IInv, Underway, Reading, Clock, MasterSends, Offered, Arready
      <3>2. state' = "READ"
        BY <2>1 DEF Reading, Writing, Clock, Edge, Idle, StartRead, StartWrite, Read, Write,
           ReadAnswer, ReadKept, WriteAnswer, WriteKept
      <3> QED
        BY <2>1, <3>1, <3>2 DEF CoreRequest, Reading
    <2>2. CASE ~Reading /\ Writing
      <3>1. aw # NONE /\ w # NONE /\ aw' = aw /\ w' = w
        BY <2>2 DEF IInv, Underway, Writing, Clock, MasterSends, Offered, Awready,
           Wready
      <3>2. state' = "WRITE"
        BY <2>2 DEF Reading, Writing, Clock, Edge, Idle, StartRead, StartWrite,
           Read, Write, ReadAnswer, ReadKept, WriteAnswer, WriteKept
      <3> QED
        BY <2>2, <3>1, <3>2 DEF CoreRequest, Reading, Writing
    <2> QED
      BY <2>1, <2>2 DEF CoreRequest
  <1> QED
    BY <1>1, Invariance, PTL DEF Spec, RequestHeld

\* A response that is not taken stays up, unchanged.
THEOREM ResponsesAreHeld == Spec => ResponseHeld
  <1>1. IInv /\ Clock => /\ B # NONE /\ ~bready => B' = B
                         /\ R # NONE /\ ~rready => R' = R
    <2> SUFFICES ASSUME IInv, Clock
                 PROVE  /\ B # NONE /\ ~bready => B' = B
                        /\ R # NONE /\ ~rready => R' = R
      OBVIOUS
    <2>1. ASSUME B # NONE, ~bready PROVE B' = B
      <3>1. /\ state \in {"WRITE_WAIT0", "WRITE_WAIT1"}
            /\ state = "WRITE_WAIT0" => rsp # NONE
        BY <2>1 DEF B
      <3>2. state' = "WRITE_WAIT1" /\ bbuf' = B
        BY <2>1, <3>1 DEF B, Clock, Edge, Buffers, Idle, StartRead, StartWrite,
           Read, Write, ReadAnswer, ReadKept, WriteAnswer, WriteKept
      <3> QED
        BY <3>2 DEF B
    <2>2. ASSUME R # NONE, ~rready PROVE R' = R
      <3>1. /\ state \in {"READ_WAIT0", "READ_WAIT1"}
            /\ state = "READ_WAIT0" => rsp # NONE
        BY <2>2 DEF R
      <3>2. state' = "READ_WAIT1" /\ rbuf' = R
        BY <2>2, <3>1 DEF R, Clock, Edge, Buffers, Idle, StartRead, StartWrite,
           Read, Write, ReadAnswer, ReadKept, WriteAnswer, WriteKept
      <3> QED
        BY <3>2 DEF R
    <2> QED
      BY <2>1, <2>2
  <1> QED
    BY <1>1, Invariance, PTL DEF Spec, ResponseHeld

-----------------------------------------------------------------------------
(* The port of the debug module *)

\* The types of the wires and of the history that the argument looks at.
PortTypes ==
  /\ aw \in Channel(Addr) /\ w \in Channel(WData) /\ ar \in Channel(Addr)
  /\ gnt = TRUE /\ rsp \in [err : {FALSE}, rdata : Data]
  /\ fresh \in BOOLEAN /\ answer \in Data

\* What the state of the FSM knows.  With a grant in every cycle nothing waits
\* for one; in the cycle after the request the data is on the wires; in the
\* state after that cycle it is in the history and in the buffer.
PortUnderway ==
  /\ state \in {"IDLE", "READ_WAIT0", "READ_WAIT1", "WRITE_WAIT0", "WRITE_WAIT1"}
  /\ fresh <=> state \in {"READ_WAIT0", "WRITE_WAIT0"}
  /\ state = "IDLE" => asked = NONE
  /\ state # "IDLE" => asked # NONE
  /\ state \in {"READ_WAIT0", "READ_WAIT1"} => ~asked.we
  /\ state \in {"WRITE_WAIT0", "WRITE_WAIT1"} => asked.we
  /\ state = "READ_WAIT1" => rbuf = [resp |-> "OKAY", data |-> answer]
  /\ state = "WRITE_WAIT1" => bbuf = "OKAY"

PortInv == PortTypes /\ PortUnderway

\* What the debug module answers is there and is no error.
LEMMA RspFacts ==
  ASSUME NEW q \in [err : {FALSE}, rdata : Data]
  PROVE  /\ q # NONE
         /\ resp(q.err) = "OKAY"
         /\ [resp |-> resp(q.err), data |-> q.rdata] # NONE
         /\ "OKAY" # NONE
  <1>1. q \in Response
    BY DEF Response
  <1>2. resp(q.err) = "OKAY"
    BY DEF resp
  <1>3. [resp |-> "OKAY", data |-> q.rdata] \in RBeat /\ "OKAY" \in resp_t
    BY DEF RBeat, LiteResp, resp_t
  <1> QED
    BY <1>1, <1>2, <1>3, NoneAssumption

\* A request is told apart from NONE, and says what it is.
LEMMA AskedFacts ==
  ASSUME PortTypes, state = "IDLE"
  PROVE  /\ Reading => CoreRequest # NONE /\ ~CoreRequest.we
         /\ ~Reading /\ Writing => CoreRequest # NONE /\ CoreRequest.we
         /\ ~Reading /\ ~Writing => CoreRequest = NONE
  <1>1. /\ \A a \in Addr : [we |-> FALSE, addr |-> a] \in Request
        /\ \A a \in Addr, d \in WData : [we |-> TRUE, addr |-> a, wdata |-> d] \in Request
    BY DEF Request
  <1>2. Reading => ar \in Addr
    BY DEF PortTypes, Reading, Channel
  <1>3. Writing => aw \in Addr /\ w \in WData
    BY DEF PortTypes, Writing, Channel
  <1> QED
    BY <1>1, <1>2, <1>3, NoneAssumption DEF CoreRequest

\* The wires and the history after a cycle.
LEMMA PortAround ==
  ASSUME PortTypes, DebugModule, Master, Remember
  PROVE  PortTypes'
  BY DEF PortTypes, DebugModule, Master, Remember, Held, Channel

LEMMA InitPortInv == TopInit => PortInv
  BY DEF TopInit, Init, PortInv, PortTypes, PortUnderway, Channel

-----------------------------------------------------------------------------
(* The port of the debug module: one lemma per kind of cycle *)

\* Without a grant to wait for, a request leads to the state of its answer.
LEMMA PortAskStep ==
  ASSUME PortInv, state = "IDLE", Edge, Remember
  PROVE  PortUnderway'
  <1>1. ~fresh /\ asked = NONE /\ gnt
    BY DEF PortInv, PortTypes, PortUnderway
  <1>2. B = NONE /\ R = NONE
    BY DEF B, R
  <1>3. CASE Reading
    <2>1. state' = "READ_WAIT0"
      BY <1>1, <1>3 DEF Edge, Idle, StartRead, StartWrite, Read, ReadAnswer, ReadKept, Write,
         WriteAnswer, WriteKept, Reading, Writing
    <2>2. asked' = CoreRequest /\ fresh' = TRUE /\ asked' # NONE /\ ~asked'.we
      BY <1>3, AskedFacts DEF Remember, PortInv
    <2> QED
      BY <2>1, <2>2 DEF PortUnderway
  <1>4. CASE ~Reading /\ Writing
    <2>1. state' = "WRITE_WAIT0"
      BY <1>1, <1>4 DEF Edge, Idle, StartRead, StartWrite, Read, ReadAnswer, ReadKept, Write,
         WriteAnswer, WriteKept
    <2>2. asked' = CoreRequest /\ fresh' = TRUE /\ asked' # NONE /\ asked'.we
      BY <1>4, AskedFacts DEF Remember, PortInv
    <2> QED
      BY <2>1, <2>2 DEF PortUnderway
  <1>5. CASE ~Reading /\ ~Writing
    <2>1. state' = "IDLE"
      BY <1>5 DEF Edge, Idle, StartRead, StartWrite, Read, ReadAnswer, ReadKept, Write,
         WriteAnswer, WriteKept
    <2>2. asked' = NONE /\ fresh' = FALSE
      BY <1>1, <1>2, <1>5, AskedFacts DEF Remember, Answered, PortInv
    <2> QED
      BY <2>1, <2>2 DEF PortUnderway
  <1> QED
    BY <1>3, <1>4, <1>5

\* A read that was asked is answered, in the next cycle or out of the buffer.
LEMMA PortReadStep ==
  ASSUME PortInv, state \in {"READ_WAIT0", "READ_WAIT1"}, Edge, Remember
  PROVE  PortUnderway'
  <1>1. ReadAnswer \/ ReadKept
    BY DEF Edge, Idle, StartRead, StartWrite, Read, ReadAnswer, ReadKept, Write, WriteAnswer,
       WriteKept
  <1>2. CoreRequest = NONE /\ B = NONE
    BY DEF CoreRequest, Reading, Writing, B
  <1>3. /\ rsp # NONE
        /\ [resp |-> resp(rsp.err), data |-> rsp.rdata] # NONE
        /\ resp(rsp.err) = "OKAY"
    BY RspFacts DEF PortInv, PortTypes
  <1>4. rbuf # NONE \/ state = "READ_WAIT0"
    <2>1. [resp |-> "OKAY", data |-> answer] \in RBeat
      BY DEF PortInv, PortTypes, RBeat, LiteResp, resp_t
    <2> QED
      BY <2>1, NoneAssumption DEF PortInv, PortUnderway
  <1>5. R # NONE
    BY <1>3, <1>4 DEF R
  <1>6. fresh' = FALSE /\ asked' = IF rready THEN NONE ELSE asked
    BY <1>2, <1>5 DEF Remember, Answered
  <1>7. state' = IF rready THEN "IDLE" ELSE "READ_WAIT1"
    BY <1>1, <1>3 DEF ReadAnswer, ReadKept
  <1>8. rbuf' = [resp |-> "OKAY", data |-> answer']
    BY <1>1, <1>3 DEF ReadAnswer, ReadKept, Buffers, Remember, PortInv, PortUnderway
  <1> QED
    BY <1>6, <1>7, <1>8 DEF PortInv, PortUnderway

\* A write that was asked is answered in the same way.
LEMMA PortWriteStep ==
  ASSUME PortInv, state \in {"WRITE_WAIT0", "WRITE_WAIT1"}, Edge, Remember
  PROVE  PortUnderway'
  <1>1. WriteAnswer \/ WriteKept
    BY DEF Edge, Idle, StartRead, StartWrite, Read, ReadAnswer, ReadKept, Write, WriteAnswer,
       WriteKept
  <1>2. CoreRequest = NONE /\ R = NONE
    BY DEF CoreRequest, Reading, Writing, R
  <1>3. rsp # NONE /\ resp(rsp.err) = "OKAY" /\ "OKAY" # NONE
    BY RspFacts DEF PortInv, PortTypes
  <1>4. B = "OKAY"
    BY <1>3 DEF B, PortInv, PortUnderway
  <1>5. fresh' = FALSE /\ asked' = IF bready THEN NONE ELSE asked
    BY <1>2, <1>3, <1>4 DEF Remember, Answered
  <1>6. state' = IF bready THEN "IDLE" ELSE "WRITE_WAIT1"
    BY <1>1, <1>3 DEF WriteAnswer, WriteKept
  <1>7. bbuf' = "OKAY"
    BY <1>1, <1>3 DEF WriteAnswer, WriteKept, Buffers, PortInv, PortUnderway
  <1> QED
    BY <1>5, <1>6, <1>7 DEF PortInv, PortUnderway

LEMMA NextPortInv == PortInv /\ [PortNext]_portVars => PortInv'
  <1> SUFFICES ASSUME PortInv, [PortNext]_portVars PROVE PortInv'
    OBVIOUS
  <1>1. CASE PortClock
    <2>1. PortTypes'
      BY <1>1, PortAround DEF PortClock, PortInv
    <2>2. PortUnderway'
      BY <1>1, PortAskStep, PortReadStep, PortWriteStep DEF PortClock, PortInv, PortUnderway
    <2> QED
      BY <2>1, <2>2 DEF PortInv
  <1>2. CASE TopReset
    BY <1>2 DEF TopReset, Reset, DebugModule, PortInv, PortTypes, PortUnderway, Channel
  <1>3. CASE UNCHANGED portVars
    BY <1>3 DEF portVars, registers, inputs, portHistory, PortInv, PortTypes, PortUnderway
  <1> QED
    BY <1>1, <1>2, <1>3 DEF PortNext

LEMMA PortInvariance == PortSpec => []PortInv
  BY InitPortInv, NextPortInv, PTL DEF PortSpec

-----------------------------------------------------------------------------
\* The debug module sees each transaction in one cycle, and none while the
\* answer to another is still waited for.
THEOREM OneCycleEach == PortSpec => []OneRequestCycle
  <1>1. PortInv => OneRequestCycle
    BY DEF PortInv, PortUnderway, OneRequestCycle, CoreRequest, Reading, Writing
  <1> QED
    BY <1>1, PortInvariance, PTL

\* The bus gets the data of the cycle after the request, although valid is
\* tied high and the data changes in every cycle.
THEOREM AnswersAreTheNextCycles == PortSpec => []AnswerIsTheNextCycles
  <1>1. PortInv => AnswerIsTheNextCycles
    <2> SUFFICES ASSUME PortInv PROVE AnswerIsTheNextCycles
      OBVIOUS
    <2>1. rsp # NONE /\ resp(rsp.err) = "OKAY"
      BY RspFacts DEF PortInv, PortTypes
    <2>2. R # NONE => /\ state \in {"READ_WAIT0", "READ_WAIT1"}
                      /\ R = [resp |-> "OKAY", data |-> IF fresh THEN rsp.rdata ELSE answer]
      BY <2>1 DEF R, PortInv, PortUnderway
    <2>3. B # NONE => state \in {"WRITE_WAIT0", "WRITE_WAIT1"} /\ B = "OKAY"
      BY <2>1 DEF B, PortInv, PortUnderway
    <2> QED
      BY <2>2, <2>3 DEF PortInv, PortUnderway, AnswerIsTheNextCycles
  <1> QED
    BY <1>1, PortInvariance, PTL

-----------------------------------------------------------------------------
(* Progress, between the partners of the testbench *)

\* The clock never stops.
ClockRuns == []<><<Clock>>_vars

\* What separates this from the fairness that the run assumes, WF_vars(Clock),
\* is that a cycle is possible at any time.
LEMMA ClockRunsIfItCan ==
  LiveSpec /\ [](ENABLED <<Clock>>_vars) => Spec /\ ClockRuns /\ PartnerFairness
  BY PTL DEF LiveSpec, ClockRuns

\* What an address, and what a transaction that was taken, wait for.
AddressServed == Arready \/ ar = NONE
AnswerServed == BTaken \/ RTaken \/ f_awr + f_rd = 0

\* A read address that waits for the access before it, or is on its way.
ReadBehind(s) == state = s /\ ar # NONE
ReadOffered == Reading /\ ar # NONE

\* The edge changes the state as its branch says, and an address that is not
\* taken stays.
LEMMA AddressStays ==
  ASSUME [Next]_vars, ~AddressServed
  PROVE  \/ AddressServed'
         \/ /\ ar' = ar /\ state' = state
            /\ gnt' = gnt /\ rsp' = rsp /\ bready' = bready /\ rready' = rready
         \/ ar' = ar /\ Clock
  <1>1. CASE Clock
    <2>1. ar' = ar
      BY <1>1 DEF AddressServed, Clock, MasterSends, Offered
    <2> QED
      BY <1>1, <2>1
  <1>2. CASE TBReset
    BY <1>2 DEF TBReset, AddressServed
  <1>3. CASE UNCHANGED vars
    BY <1>3 DEF vars, registers, inputs
  <1> QED
    BY <1>1, <1>2, <1>3 DEF Next

\* A read that is offered to the core side is granted.
LEMMA OfferedIsTaken == Spec /\ PartnerFairness => (ReadOffered ~> AddressServed)
  <1>1. [Next]_vars /\ ReadOffered /\ ~AddressServed => ReadOffered' \/ AddressServed'
    <2> SUFFICES ASSUME [Next]_vars, ReadOffered, ~AddressServed, ~AddressServed'
                 PROVE  ReadOffered'
      OBVIOUS
    <2>1. ~gnt
      BY DEF ReadOffered, AddressServed, Arready
    <2> QED
      BY <2>1, AddressStays
         DEF ReadOffered, Reading, Clock, Edge, Idle, StartRead, StartWrite, Read, ReadAnswer,
             ReadKept, Write, WriteAnswer, WriteKept, Writing
  <1>2. ReadOffered => Reading
    BY DEF ReadOffered
  <1>3. ReadOffered /\ gnt => AddressServed
    BY DEF ReadOffered, AddressServed, Arready
  <1> QED
    BY <1>1, <1>2, <1>3, PTL DEF Spec, PartnerFairness

\* Behind a read whose response is kept: the master takes the response.
LEMMA BehindReadKept ==
  Spec /\ ClockRuns /\ PartnerFairness => (ReadBehind("READ_WAIT1") ~> AddressServed)
  <1> DEFINE P == ReadBehind("READ_WAIT1")
             G == P /\ rready
             After == ReadOffered
  <1>1. [Next]_vars /\ P /\ ~AddressServed => P' \/ After' \/ AddressServed'
    BY AddressStays
       DEF ReadBehind, ReadOffered, Reading, Clock, Edge, Idle, StartRead, StartWrite, Read,
           ReadAnswer, ReadKept, Write, WriteAnswer, WriteKept, Writing
  <1>2. [Next]_vars /\ G /\ ~AddressServed => G' \/ After' \/ AddressServed'
    BY AddressStays
       DEF ReadBehind, ReadOffered, Reading, Clock, Edge, Idle, StartRead, StartWrite, Read,
           ReadAnswer, ReadKept, Write, WriteAnswer, WriteKept, Writing
  <1>3. <<Clock>>_vars /\ G /\ ~AddressServed => After' \/ AddressServed'
    <2> SUFFICES ASSUME Clock, G, ~AddressServed PROVE After' \/ AddressServed'
      OBVIOUS
    <2>1. ar' = ar
      BY DEF AddressServed, Clock, MasterSends, Offered
    <2> QED
      BY <2>1
         DEF ReadBehind, ReadOffered, Reading, Clock, Edge, Idle, StartRead, StartWrite, Read,
               ReadAnswer, ReadKept, Write, WriteAnswer, WriteKept, Writing
  <1>4. IInv /\ P => R # NONE
    BY RespFacts DEF IInv, TypeOK, ReadBehind, R
  <1>5. P /\ rready => G
    OBVIOUS
  <1>6. After => ReadOffered
    BY DEF ReadBehind, ReadOffered
  <1> HIDE DEF P, G, After
  <1>7. Spec /\ ClockRuns /\ PartnerFairness => (P ~> AddressServed)
    BY <1>1, <1>2, <1>3, <1>4, <1>5, <1>6, OfferedIsTaken, Invariance, PTL
       DEF Spec, ClockRuns, PartnerFairness
  <1> QED
    BY <1>7 DEF P

\* Behind a write whose response is kept: the master takes the response.
LEMMA BehindWriteKept ==
  Spec /\ ClockRuns /\ PartnerFairness => (ReadBehind("WRITE_WAIT1") ~> AddressServed)
  <1> DEFINE P == ReadBehind("WRITE_WAIT1")
             G == P /\ bready
             After == ReadOffered
  <1>1. [Next]_vars /\ P /\ ~AddressServed => P' \/ After' \/ AddressServed'
    BY AddressStays
       DEF ReadBehind, ReadOffered, Reading, Clock, Edge, Idle, StartRead, StartWrite, Read,
           ReadAnswer, ReadKept, Write, WriteAnswer, WriteKept, Writing
  <1>2. [Next]_vars /\ G /\ ~AddressServed => G' \/ After' \/ AddressServed'
    BY AddressStays
       DEF ReadBehind, ReadOffered, Reading, Clock, Edge, Idle, StartRead, StartWrite, Read,
           ReadAnswer, ReadKept, Write, WriteAnswer, WriteKept, Writing
  <1>3. <<Clock>>_vars /\ G /\ ~AddressServed => After' \/ AddressServed'
    <2> SUFFICES ASSUME Clock, G, ~AddressServed PROVE After' \/ AddressServed'
      OBVIOUS
    <2>1. ar' = ar
      BY DEF AddressServed, Clock, MasterSends, Offered
    <2> QED
      BY <2>1
         DEF ReadBehind, ReadOffered, Reading, Clock, Edge, Idle, StartRead, StartWrite, Read,
               ReadAnswer, ReadKept, Write, WriteAnswer, WriteKept, Writing
  <1>4. IInv /\ P => B # NONE
    BY RespFacts DEF IInv, TypeOK, ReadBehind, B
  <1>5. P /\ bready => G
    OBVIOUS
  <1>6. After => ReadOffered
    BY DEF ReadBehind, ReadOffered
  <1> HIDE DEF P, G, After
  <1>7. Spec /\ ClockRuns /\ PartnerFairness => (P ~> AddressServed)
    BY <1>1, <1>2, <1>3, <1>4, <1>5, <1>6, OfferedIsTaken, Invariance, PTL
       DEF Spec, ClockRuns, PartnerFairness
  <1> QED
    BY <1>7 DEF P

\* Behind a read the core side owes the answer to: it answers.
LEMMA BehindRead ==
  Spec /\ ClockRuns /\ PartnerFairness => (ReadBehind("READ_WAIT0") ~> AddressServed)
  <1> DEFINE P == ReadBehind("READ_WAIT0")
             G == P /\ rsp # NONE
             After == ReadOffered \/ ReadBehind("READ_WAIT1")
  <1>1. [Next]_vars /\ P /\ ~AddressServed => P' \/ After' \/ AddressServed'
    BY AddressStays
       DEF ReadBehind, ReadOffered, Reading, Clock, Edge, Idle, StartRead, StartWrite, Read,
           ReadAnswer, ReadKept, Write, WriteAnswer, WriteKept, Writing
  <1>2. [Next]_vars /\ G /\ ~AddressServed => G' \/ After' \/ AddressServed'
    BY AddressStays
       DEF ReadBehind, ReadOffered, Reading, Clock, Edge, Idle, StartRead, StartWrite, Read,
           ReadAnswer, ReadKept, Write, WriteAnswer, WriteKept, Writing
  <1>3. <<Clock>>_vars /\ G /\ ~AddressServed => After' \/ AddressServed'
    <2> SUFFICES ASSUME Clock, G, ~AddressServed PROVE After' \/ AddressServed'
      OBVIOUS
    <2>1. ar' = ar
      BY DEF AddressServed, Clock, MasterSends, Offered
    <2> QED
      BY <2>1
         DEF ReadBehind, ReadOffered, Reading, Clock, Edge, Idle, StartRead, StartWrite, Read,
               ReadAnswer, ReadKept, Write, WriteAnswer, WriteKept, Writing
  <1>4. IInv /\ P => f_core > 0
    BY DEF IInv, Underway, ReadBehind
  <1>5. P /\ rsp # NONE => G
    OBVIOUS
  <1>6. After => ReadOffered \/ ReadBehind("READ_WAIT1")
    BY DEF ReadBehind, ReadOffered
  <1> HIDE DEF P, G, After
  <1>7. Spec /\ ClockRuns /\ PartnerFairness => (P ~> AddressServed)
    BY <1>1, <1>2, <1>3, <1>4, <1>5, <1>6, OfferedIsTaken, BehindReadKept, Invariance, PTL
       DEF Spec, ClockRuns, PartnerFairness
  <1> QED
    BY <1>7 DEF P

\* Behind a write the core side owes the answer to: it answers.
LEMMA BehindWriteAnswer ==
  Spec /\ ClockRuns /\ PartnerFairness => (ReadBehind("WRITE_WAIT0") ~> AddressServed)
  <1> DEFINE P == ReadBehind("WRITE_WAIT0")
             G == P /\ rsp # NONE
             After == ReadOffered \/ ReadBehind("WRITE_WAIT1")
  <1>1. [Next]_vars /\ P /\ ~AddressServed => P' \/ After' \/ AddressServed'
    BY AddressStays
       DEF ReadBehind, ReadOffered, Reading, Clock, Edge, Idle, StartRead, StartWrite, Read,
           ReadAnswer, ReadKept, Write, WriteAnswer, WriteKept, Writing
  <1>2. [Next]_vars /\ G /\ ~AddressServed => G' \/ After' \/ AddressServed'
    BY AddressStays
       DEF ReadBehind, ReadOffered, Reading, Clock, Edge, Idle, StartRead, StartWrite, Read,
           ReadAnswer, ReadKept, Write, WriteAnswer, WriteKept, Writing
  <1>3. <<Clock>>_vars /\ G /\ ~AddressServed => After' \/ AddressServed'
    <2> SUFFICES ASSUME Clock, G, ~AddressServed PROVE After' \/ AddressServed'
      OBVIOUS
    <2>1. ar' = ar
      BY DEF AddressServed, Clock, MasterSends, Offered
    <2> QED
      BY <2>1
         DEF ReadBehind, ReadOffered, Reading, Clock, Edge, Idle, StartRead, StartWrite, Read,
               ReadAnswer, ReadKept, Write, WriteAnswer, WriteKept, Writing
  <1>4. IInv /\ P => f_core > 0
    BY DEF IInv, Underway, ReadBehind
  <1>5. P /\ rsp # NONE => G
    OBVIOUS
  <1>6. After => ReadOffered \/ ReadBehind("WRITE_WAIT1")
    BY DEF ReadBehind, ReadOffered
  <1> HIDE DEF P, G, After
  <1>7. Spec /\ ClockRuns /\ PartnerFairness => (P ~> AddressServed)
    BY <1>1, <1>2, <1>3, <1>4, <1>5, <1>6, OfferedIsTaken, BehindWriteKept, Invariance, PTL
       DEF Spec, ClockRuns, PartnerFairness
  <1> QED
    BY <1>7 DEF P

\* Behind a write that is offered to the core side: it grants.
LEMMA BehindWrite ==
  Spec /\ ClockRuns /\ PartnerFairness => (ReadBehind("WRITE") ~> AddressServed)
  <1> DEFINE P == ReadBehind("WRITE")
             G == P /\ gnt
             After == ReadOffered \/ ReadBehind("WRITE_WAIT0")
  <1>1. [Next]_vars /\ P /\ ~AddressServed => P' \/ After' \/ AddressServed'
    BY AddressStays
       DEF ReadBehind, ReadOffered, Reading, Clock, Edge, Idle, StartRead, StartWrite, Read,
           ReadAnswer, ReadKept, Write, WriteAnswer, WriteKept, Writing
  <1>2. [Next]_vars /\ G /\ ~AddressServed => G' \/ After' \/ AddressServed'
    BY AddressStays
       DEF ReadBehind, ReadOffered, Reading, Clock, Edge, Idle, StartRead, StartWrite, Read,
           ReadAnswer, ReadKept, Write, WriteAnswer, WriteKept, Writing
  <1>3. <<Clock>>_vars /\ G /\ ~AddressServed => After' \/ AddressServed'
    <2> SUFFICES ASSUME Clock, G, ~AddressServed PROVE After' \/ AddressServed'
      OBVIOUS
    <2>1. ar' = ar
      BY DEF AddressServed, Clock, MasterSends, Offered
    <2> QED
      BY <2>1
         DEF ReadBehind, ReadOffered, Reading, Clock, Edge, Idle, StartRead, StartWrite, Read,
               ReadAnswer, ReadKept, Write, WriteAnswer, WriteKept, Writing
  <1>4. IInv /\ P => Writing
    BY DEF ReadBehind, Writing
  <1>5. P /\ gnt => G
    OBVIOUS
  <1>6. After => ReadOffered \/ ReadBehind("WRITE_WAIT0")
    BY DEF ReadBehind, ReadOffered
  <1> HIDE DEF P, G, After
  <1>7. Spec /\ ClockRuns /\ PartnerFairness => (P ~> AddressServed)
    BY <1>1, <1>2, <1>3, <1>4, <1>5, <1>6, OfferedIsTaken, BehindWriteAnswer, Invariance, PTL
       DEF Spec, ClockRuns, PartnerFairness
  <1> QED
    BY <1>7 DEF P

-----------------------------------------------------------------------------
\* Until the answer to a transaction is taken, the state goes from the wait
\* for the core side to the wait for the master only.
Owed == state \in {"READ_WAIT0", "WRITE_WAIT0"}
KeptRead == state = "READ_WAIT1"
KeptWrite == state = "WRITE_WAIT1"

\* A step leaves the transaction where it is, unless it is a clock cycle.
LEMMA OwedStep ==
  ASSUME IInv, [Next]_vars, ~AnswerServed
  PROVE  \/ AnswerServed'
         \/ /\ state' = state /\ rsp' = rsp
         \/ Clock /\ ~BTaken /\ ~RTaken
  BY DEF Next, TBReset, AnswerServed, vars, registers, inputs

\* A kept response is taken.
LEMMA KeptReadIsTaken == Spec /\ PartnerFairness => (KeptRead ~> AnswerServed)
  <1>1. IInv => (KeptRead => R # NONE)
    BY RespFacts DEF IInv, TypeOK, KeptRead, R
  <1>2. IInv /\ [Next]_vars /\ KeptRead /\ ~AnswerServed => KeptRead' \/ AnswerServed'
    BY <1>1, OwedStep
       DEF KeptRead, RTaken, Clock, Edge, Idle, StartRead, StartWrite, Read, ReadAnswer,
           ReadKept, Write, WriteAnswer, WriteKept
  <1>3. KeptRead /\ R # NONE /\ rready => AnswerServed
    BY DEF AnswerServed, RTaken
  <1> QED
    BY <1>1, <1>2, <1>3, Invariance, PTL DEF Spec, PartnerFairness

\* The same for a write.
LEMMA KeptWriteIsTaken == Spec /\ PartnerFairness => (KeptWrite ~> AnswerServed)
  <1>1. IInv => (KeptWrite => B # NONE)
    BY RespFacts DEF IInv, TypeOK, KeptWrite, B
  <1>2. IInv /\ [Next]_vars /\ KeptWrite /\ ~AnswerServed => KeptWrite' \/ AnswerServed'
    BY <1>1, OwedStep
       DEF KeptWrite, BTaken, Clock, Edge, Idle, StartRead, StartWrite, Read, ReadAnswer,
           ReadKept, Write, WriteAnswer, WriteKept
  <1>3. KeptWrite /\ B # NONE /\ bready => AnswerServed
    BY DEF AnswerServed, BTaken
  <1> QED
    BY <1>1, <1>2, <1>3, Invariance, PTL DEF Spec, PartnerFairness

\* The answer of the core side comes, and is taken at once or kept.
LEMMA OwedIsAnswered == Spec /\ ClockRuns /\ PartnerFairness => (Owed ~> AnswerServed)
  <1> DEFINE Come == Owed /\ rsp # NONE
             Kept == KeptRead \/ KeptWrite
  <1>1. IInv /\ [Next]_vars /\ Owed /\ ~AnswerServed => Owed' \/ Kept' \/ AnswerServed'
    <2> SUFFICES ASSUME IInv, Clock, ~BTaken, ~RTaken, Owed, ~AnswerServed
                 PROVE  Owed' \/ Kept'
      BY OwedStep DEF Owed
    <2>1. rsp # NONE => state' \in {"READ_WAIT1", "WRITE_WAIT1"}
      BY AnswerFacts
         DEF IInv, TypeOK, Channel, Owed, BTaken, RTaken, B, R, Clock, Edge, Idle, StartRead,
             StartWrite, Read, ReadAnswer, ReadKept, Write, WriteAnswer, WriteKept
    <2> QED
      BY <2>1
         DEF Owed, KeptRead, KeptWrite, Clock, Edge, Idle, StartRead, StartWrite, Read,
             ReadAnswer, ReadKept, Write, WriteAnswer, WriteKept
  <1>2. IInv /\ [Next]_vars /\ Come /\ ~AnswerServed => Come' \/ Kept' \/ AnswerServed'
    <2> SUFFICES ASSUME IInv, Clock, ~BTaken, ~RTaken, Come, ~AnswerServed
                 PROVE  Kept'
      BY OwedStep DEF Owed
    <2>1. rsp \in Response
      BY DEF IInv, TypeOK, Channel
    <2>2. state = "READ_WAIT0" => ~rready
      BY <2>1, AnswerFacts DEF RTaken, R
    <2>3. state = "WRITE_WAIT0" => ~bready
      BY <2>1, AnswerFacts DEF BTaken, B
    <2> QED
      BY <2>2, <2>3
         DEF Owed, KeptRead, KeptWrite, Clock, Edge, Idle, StartRead, StartWrite, Read,
             ReadAnswer, ReadKept, Write, WriteAnswer, WriteKept
  <1>3. IInv /\ <<Clock>>_vars /\ Come /\ ~AnswerServed => Kept' \/ AnswerServed'
    <2> SUFFICES ASSUME IInv, Clock, Come, ~AnswerServed, ~AnswerServed'
                 PROVE  Kept'
      OBVIOUS
    <2>1. rsp \in Response
      BY DEF IInv, TypeOK, Channel
    <2>2. state = "READ_WAIT0" => ~rready
      BY <2>1, AnswerFacts DEF AnswerServed, RTaken, R
    <2>3. state = "WRITE_WAIT0" => ~bready
      BY <2>1, AnswerFacts DEF AnswerServed, BTaken, B
    <2> QED
      BY <2>2, <2>3
         DEF Owed, KeptRead, KeptWrite, Clock, Edge, Idle, StartRead, StartWrite, Read,
             ReadAnswer, ReadKept, Write, WriteAnswer, WriteKept
  <1>4. IInv /\ Owed => f_core > 0
    BY DEF IInv, Underway, Owed
  <1>5. Owed /\ rsp # NONE => Come
    OBVIOUS
  <1>6. Kept => KeptRead \/ KeptWrite
    OBVIOUS
  <1> HIDE DEF Come, Kept
  <1> QED
    BY <1>1, <1>2, <1>3, <1>4, <1>5, <1>6, KeptReadIsTaken, KeptWriteIsTaken, Invariance, PTL
       DEF Spec, ClockRuns, PartnerFairness

\* As long as the clock runs and the partners do their part, every read
\* address is taken and every transaction that was taken is answered, through
\* every order in which grants, answers and readies come and through resets.
THEOREM EveryTransactionServed ==
  Spec /\ ClockRuns /\ PartnerFairness => TransactionServed
  <1>1. IInv /\ ar # NONE =>
          \/ ReadOffered
          \/ ReadBehind("READ_WAIT0") \/ ReadBehind("READ_WAIT1")
          \/ ReadBehind("WRITE_WAIT0") \/ ReadBehind("WRITE_WAIT1")
          \/ ReadBehind("WRITE")
    BY DEF IInv, TypeOK, State, ReadOffered, Reading, ReadBehind
  <1>2. IInv /\ f_awr + f_rd > 0 => Owed \/ KeptRead \/ KeptWrite
    BY DEF IInv, TypeOK, State, Underway, Owed, KeptRead, KeptWrite
  <1> QED
    BY <1>1, <1>2, OfferedIsTaken, BehindRead, BehindReadKept, BehindWrite, BehindWriteAnswer,
       BehindWriteKept, KeptReadIsTaken, KeptWriteIsTaken, OwedIsAnswered, Invariance, PTL
       DEF TransactionServed, AddressServed, AnswerServed

\* A write that waits behind a stream of reads gets its turn in the first
\* gap, and then keeps it until the core side grants: no read pushes in.
THEOREM EveryWriteServed == Spec /\ PartnerFairness => WriteServed
  <1> DEFINE Waits == aw # NONE /\ w # NONE
             Taken == Awready \/ aw = NONE
             Turn == Waits /\ Writing
  <1>1. [Next]_vars /\ Waits /\ ~Taken => Waits' \/ Taken'
    BY DEF Next, Clock, TBReset, MasterSends, Offered, Wready, vars, inputs
  <1>2. [Next]_vars /\ Turn /\ ~Taken => Turn' \/ Taken'
    <2> SUFFICES ASSUME [Next]_vars, Turn, ~Taken, ~Taken' PROVE Turn'
      OBVIOUS
    <2>1. ~gnt
      BY DEF Awready
    <2>2. Waits'
      BY <1>1
    <2>3. CASE Clock
      BY <2>1, <2>2, <2>3
         DEF Writing, Reading, Clock, Edge, Idle, StartRead, StartWrite, Read, ReadAnswer,
             ReadKept, Write, WriteAnswer, WriteKept
    <2>4. CASE TBReset
      BY <2>4 DEF TBReset
    <2>5. CASE UNCHANGED vars
      BY <2>2, <2>5 DEF vars, registers, inputs, Writing
    <2> QED
      BY <2>3, <2>4, <2>5 DEF Next
  <1>3. Waits /\ state = "IDLE" /\ ar = NONE => Turn
    BY DEF Writing
  <1>4. Turn /\ gnt => Taken
    BY DEF Awready
  <1>5. Turn => Writing
    OBVIOUS
  <1>6. Waits <=> aw # NONE /\ w # NONE
    OBVIOUS
  <1>7. Taken <=> Awready \/ aw = NONE
    OBVIOUS
  <1> HIDE DEF Waits, Taken, Turn
  <1> QED
    BY <1>1, <1>2, <1>3, <1>4, <1>5, <1>6, <1>7, PTL DEF Spec, PartnerFairness, WriteServed

=============================================================================

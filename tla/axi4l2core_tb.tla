---------------------------- MODULE axi4l2core_tb ----------------------------
(***************************************************************************)
(* axi4l2core between an AXI4-Lite master and a core memory port, as the   *)
(* formal testbench fv/sby/axi4l2core/tb.sv puts it: the environment obeys *)
(* the protocol assumptions (ASM_...) of that testbench, the counters are  *)
(* its counters.  One step is one clock cycle.                             *)
(***************************************************************************)
EXTENDS axi4l2core, Naturals

VARIABLES
  f_core,   \* requests the core side granted and has not answered
  f_awr,    \* write addresses taken and not answered on the bus
  f_wr,     \* write data beats taken and not answered on the bus
  f_rd,     \* read addresses taken and not answered on the bus
  pend,     \* the request granted last, while the bus waits for its answer
  given     \* what the core side answered to it, or NONE

counters == <<f_core, f_awr, f_wr, f_rd>>
vars == <<registers, inputs, counters, pend, given>>

-----------------------------------------------------------------------------
(* Book-keeping *)

AwTaken == aw # NONE /\ Awready
WTaken  == w # NONE /\ Wready
ArTaken == ar # NONE /\ Arready
BTaken  == B # NONE /\ bready
RTaken  == R # NONE /\ rready
Granted == CoreRequest # NONE /\ gnt

Counted(n, up, down) == IF up /\ ~down THEN n + 1
                        ELSE IF down /\ ~up THEN n - 1
                        ELSE n

Count == /\ f_core' = Counted(f_core, Granted, rsp # NONE)
         /\ f_awr' = Counted(f_awr, AwTaken, BTaken)
         /\ f_wr'  = Counted(f_wr, WTaken, BTaken)
         /\ f_rd'  = Counted(f_rd, ArTaken, RTaken)

Observe == /\ pend' = IF Granted THEN CoreRequest
                      ELSE IF BTaken \/ RTaken THEN NONE
                      ELSE pend
           /\ given' = IF BTaken \/ RTaken THEN NONE
                       ELSE IF rsp # NONE THEN rsp
                       ELSE given

-----------------------------------------------------------------------------
(* The environment *)

\* A master holds what is valid, payload included, until it is taken.
Offered(x, ready, S) == IF x # NONE /\ ~ready THEN {x} ELSE Channel(S)

MasterSends == /\ aw' \in Offered(aw, Awready, Addr)
               /\ w' \in Offered(w, Wready, WData)
               /\ ar' \in Offered(ar, Arready, Addr)

\* The ready wires of a master are free, and need not wait for valid.
MasterReadies == bready' \in BOOLEAN /\ rready' \in BOOLEAN

\* A grant needs a request, an answer a granted request; an answer is there
\* for one cycle, wanted or not.
CoreServes == /\ gnt' \in BOOLEAN
              /\ gnt' => Reading' \/ Writing'
              /\ rsp' \in IF f_core' > 0 THEN Channel(Response) ELSE {NONE}

-----------------------------------------------------------------------------
(* Specification *)

TBInit == /\ Init
          /\ aw = NONE /\ w = NONE /\ ar = NONE /\ rsp = NONE
          /\ bready \in BOOLEAN /\ rready \in BOOLEAN /\ gnt = FALSE
          /\ f_core = 0 /\ f_awr = 0 /\ f_wr = 0 /\ f_rd = 0
          /\ pend = NONE /\ given = NONE

Clock == /\ Edge
         /\ Count
         /\ Observe
         /\ MasterSends
         /\ MasterReadies
         /\ CoreServes

\* The reset of the whole design, at any moment.
TBReset == /\ Reset
           /\ aw' = NONE /\ w' = NONE /\ ar' = NONE /\ rsp' = NONE
           /\ MasterReadies /\ gnt' = FALSE
           /\ f_core' = 0 /\ f_awr' = 0 /\ f_wr' = 0 /\ f_rd' = 0
           /\ pend' = NONE /\ given' = NONE

Next == Clock \/ TBReset

Spec == TBInit /\ [][Next]_vars

\* For progress: the clock runs, the core side grants and answers, and the
\* master takes responses.  Resets may come at any time.
PartnerFairness == /\ []<>(Reading \/ Writing => gnt)
                   /\ []<>(f_core > 0 => rsp # NONE)
                   /\ []<>(B # NONE => bready)
                   /\ []<>(R # NONE => rready)

LiveSpec == Spec /\ WF_vars(Clock) /\ PartnerFairness

-----------------------------------------------------------------------------
(* Properties *)

\* The types; the bridge has at most one transaction under way.
TypeOK == /\ state \in State
          /\ bbuf \in CoreResp
          /\ rbuf \in [resp : CoreResp, data : Data]
          /\ aw \in Channel(Addr) /\ w \in Channel(WData) /\ ar \in Channel(Addr)
          /\ bready \in BOOLEAN /\ rready \in BOOLEAN /\ gnt \in BOOLEAN
          /\ rsp \in Channel(Response)
          /\ f_core \in 0..1 /\ f_awr \in 0..1 /\ f_wr \in 0..1 /\ f_rd \in 0..1
          /\ pend \in Channel(Request)
          /\ given \in Channel(Response)

\* A transaction the bus waits for is either with the core side or has its
\* answer on the bus: it is asked of the core side exactly once, so that a
\* write or a read with side effects happens exactly once.
AskedOnce ==
  /\ f_awr = f_wr
  /\ f_core = 1 => f_awr + f_rd = 1 /\ given = NONE /\ CoreRequest = NONE
  /\ f_core = 0 /\ f_awr + f_rd > 0 =>
       f_awr + f_rd = 1 /\ given # NONE /\ CoreRequest = NONE

\* The core side answers for a single cycle and the master may be busy for
\* many: what the bus sees is still the answer to its transaction, on the
\* channel of its transaction.
AnswerIsTheCores ==
  LET answer == IF rsp # NONE THEN rsp ELSE given
  IN /\ R # NONE => /\ f_rd = 1 /\ ~pend.we
                    /\ R = [resp |-> resp(answer.err), data |-> answer.rdata]
     /\ B # NONE => /\ f_awr = 1 /\ pend.we
                    /\ B = resp(answer.err)
     /\ rsp # NONE => R # NONE \/ B # NONE

\* The core side sees a request that stays up, unchanged, until it grants it:
\* a read that arrives while a write waits for its grant does not push in.
RequestHeld ==
  [][Clock => (CoreRequest # NONE /\ ~gnt => CoreRequest' = CoreRequest)]_vars

\* AXI4-Lite: a response that is not taken stays up, unchanged, although the
\* core side has long moved on.
ResponseHeld ==
  [][Clock => /\ B # NONE /\ ~bready => B' = B
              /\ R # NONE /\ ~rready => R' = R]_vars

\* Every read address is taken in the end, and every transaction that was
\* taken is answered and its answer taken, unless a reset forgets it.
TransactionServed ==
  /\ ar # NONE ~> Arready \/ ar = NONE
  /\ f_awr + f_rd > 0 ~> BTaken \/ RTaken \/ f_awr + f_rd = 0

\* Reads go first, whenever they come: a write is taken in the end provided
\* that the master leaves a gap between its reads again and again.
WriteServed == []<>(state = "IDLE" /\ ar = NONE)
                 => (aw # NONE /\ w # NONE ~> Awready \/ aw = NONE)

=============================================================================

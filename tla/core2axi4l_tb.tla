---------------------------- MODULE core2axi4l_tb ----------------------------
(***************************************************************************)
(* core2axi4l between a core and an AXI4-Lite slave, as the formal         *)
(* testbench fv/sby/core2axi/tb.sv puts it: the environment obeys the      *)
(* protocol assumptions (ASM_...) of that testbench, the counters of       *)
(* outstanding beats are its counters, and the properties say what the     *)
(* bridge has to do with every request.                                    *)
(*                                                                         *)
(* One step is one clock cycle: the outputs of the cycle follow from the   *)
(* register and the inputs, the edge updates the register, and the         *)
(* environment chooses the inputs of the next cycle.                       *)
(***************************************************************************)
EXTENDS core2axi4l, Naturals

VARIABLES
  f_core,    \* granted requests not answered yet
  f_awr,     \* write addresses taken and not answered yet
  f_wr,      \* write data beats taken and not answered yet
  f_rd,      \* read addresses taken and not answered yet
  pend,      \* the request granted last, while it is unanswered
  aw_seen,   \* the address beat of the write under way
  w_seen,    \* its data beat
  ar_seen    \* the address beat of the read under way

inputs == <<core, awready, wready, arready, b, r>>
counters == <<f_core, f_awr, f_wr, f_rd>>
seen == <<pend, aw_seen, w_seen, ar_seen>>
vars == <<state, inputs, counters, seen>>

-----------------------------------------------------------------------------
(* Book-keeping *)

AwTaken == Awvalid /\ awready
WTaken  == Wvalid /\ wready
ArTaken == Arvalid /\ arready
BTaken  == b # NONE /\ Bready
RTaken  == r # NONE /\ Rready

\* A counter of outstanding items after a cycle with an arrival and/or a
\* departure.
Counted(n, up, down) == IF up /\ ~down THEN n + 1
                        ELSE IF down /\ ~up THEN n - 1
                        ELSE n

Count == /\ f_core' = Counted(f_core, core # NONE /\ Gnt, Rvalid)
         /\ f_awr' = Counted(f_awr, AwTaken, BTaken)
         /\ f_wr'  = Counted(f_wr, WTaken, BTaken)
         /\ f_rd'  = Counted(f_rd, ArTaken, RTaken)

\* The payload of an accepted beat is kept until the core has its answer.
Observed(last, taken, payload) == IF taken THEN payload
                                  ELSE IF Rvalid THEN NONE
                                  ELSE last

Observe == /\ pend' = Observed(pend, core # NONE /\ Gnt, core)
           /\ aw_seen' = Observed(aw_seen, AwTaken, AW)
           /\ w_seen' = Observed(w_seen, WTaken, W)
           /\ ar_seen' = Observed(ar_seen, ArTaken, AR)

-----------------------------------------------------------------------------
(* The environment *)

\* A core holds its request, payload included, until it is granted; it may
\* ask again while an answer is outstanding.
CoreAsks ==
  core' \in IF core # NONE /\ ~Gnt THEN {core} ELSE Channel(Request)

\* The ready wires of the slave are free, and need not wait for valid.
SlaveReadies == /\ awready' \in BOOLEAN
                /\ wready' \in BOOLEAN
                /\ arready' \in BOOLEAN

\* A response answers beats that were taken, and is held until it is taken.
SlaveAnswers ==
  /\ b' \in IF b # NONE /\ ~Bready THEN {b}
            ELSE IF f_awr' > 0 /\ f_wr' > 0 THEN Channel(LiteResp)
            ELSE {NONE}
  /\ r' \in IF r # NONE /\ ~Rready THEN {r}
            ELSE IF f_rd' > 0 THEN Channel(RBeat)
            ELSE {NONE}

-----------------------------------------------------------------------------
(* Specification *)

\* Out of reset nobody drives a valid wire, and nothing is under way.
TBInit == /\ Init
          /\ core = NONE /\ b = NONE /\ r = NONE
          /\ awready \in BOOLEAN /\ wready \in BOOLEAN /\ arready \in BOOLEAN
          /\ f_core = 0 /\ f_awr = 0 /\ f_wr = 0 /\ f_rd = 0
          /\ pend = NONE /\ aw_seen = NONE /\ w_seen = NONE /\ ar_seen = NONE

Clock == /\ Edge
         /\ Count
         /\ Observe
         /\ CoreAsks
         /\ SlaveReadies
         /\ SlaveAnswers

\* The reset of the whole design, at any moment.
TBReset == /\ Reset
           /\ core' = NONE /\ b' = NONE /\ r' = NONE
           /\ SlaveReadies
           /\ f_core' = 0 /\ f_awr' = 0 /\ f_wr' = 0 /\ f_rd' = 0
           /\ pend' = NONE
           /\ aw_seen' = NONE /\ w_seen' = NONE /\ ar_seen' = NONE

Next == Clock \/ TBReset

Spec == TBInit /\ [][Next]_vars

\* For progress: the clock runs, the slave does not keep a valid wire waiting
\* for ever, and it answers what it took.  Resets may come at any time.
SlaveFairness == /\ []<>(Awvalid => awready)
                 /\ []<>(Wvalid => wready)
                 /\ []<>(Arvalid => arready)
                 /\ []<>(f_awr > 0 /\ f_wr > 0 => b # NONE)
                 /\ []<>(f_rd > 0 => r # NONE)

LiveSpec == Spec /\ WF_vars(Clock) /\ SlaveFairness

-----------------------------------------------------------------------------
(* Properties *)

\* The types; the bridge never has more than one transaction under way, so
\* that the counters of the testbench stay below two.
TypeOK == /\ state \in State
          /\ core \in Channel(Request)
          /\ awready \in BOOLEAN /\ wready \in BOOLEAN /\ arready \in BOOLEAN
          /\ b \in Channel(LiteResp)
          /\ r \in Channel(RBeat)
          /\ f_core \in 0..1 /\ f_awr \in 0..1 /\ f_wr \in 0..1 /\ f_rd \in 0..1
          /\ pend \in Channel(Request)
          /\ aw_seen \in Channel(Addr)
          /\ w_seen \in Channel(WData)
          /\ ar_seen \in Channel(Addr)

\* However the slave spreads the acceptance of address and data over the
\* cycles, a granted write has put exactly one address beat and one data
\* beat on the bus and a granted read exactly one read address; before the
\* grant at most one half of a write is out.
OneBeatEach ==
  /\ f_core = 1 =>
       /\ f_awr = (IF pend.we THEN 1 ELSE 0)
       /\ f_wr = (IF pend.we THEN 1 ELSE 0)
       /\ f_rd = (IF pend.we THEN 0 ELSE 1)
  /\ f_core = 0 => f_awr + f_wr <= 1 /\ f_rd = 0

\* The beats on the bus carry the payload of the one request they belong
\* to, although the bridge stores nothing and the beats may leave in
\* different cycles.
BeatsMatch ==
  /\ f_core = 1 /\ pend.we => aw_seen = pend.addr /\ w_seen = pend.wdata
  /\ f_core = 1 /\ ~pend.we => ar_seen = pend.addr
  /\ f_core = 0 /\ f_awr = 1 => core # NONE /\ core.we /\ aw_seen = core.addr
  /\ f_core = 0 /\ f_wr = 1 => core # NONE /\ core.we /\ w_seen = core.wdata

\* The core port has no way to refuse a response: every response on the bus
\* is taken in its first cycle and handed to the core then, and the core is
\* answered only when it waits for an answer.
AnswersPassedOn ==
  /\ b # NONE => BTaken /\ Rvalid
  /\ r # NONE => RTaken /\ Rvalid
  /\ Rvalid => f_core = 1

\* The error flag ORs the write and the read channel; it still tells of
\* the transaction that is being answered and of no other.
ErrIsOwn ==
  Rvalid => Err = (IF pend.we THEN b # "OKAY" ELSE r.resp # "OKAY")

\* AXI4-Lite: a valid wire that met no ready stays up, with its payload.
Holds(valid, ready, payload, payloadNext) ==
  valid /\ ~ready => payloadNext = payload

AxiStable ==
  [][Clock => /\ Holds(Awvalid, awready, AW, AW')
              /\ Holds(Wvalid, wready, W, W')
              /\ Holds(Arvalid, arready, AR, AR')]_vars

\* Every request is granted in the end, and every granted request answered,
\* unless a reset takes it back: the FSM has no state to get stuck in.
RequestServed == /\ core # NONE ~> Gnt \/ core = NONE
                 /\ f_core = 1 ~> Rvalid \/ f_core = 0

\* What the comment in the IDLE branch says: "the same logic is also
\* inserted in READ_WAIT and WRITE_WAIT", that is, a request that waits
\* while a response comes in goes out on the bus in that very cycle.
BackToBack == Rvalid /\ core # NONE => Awvalid \/ Wvalid \/ Arvalid

=============================================================================

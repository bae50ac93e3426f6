------------------------------- MODULE bridges -------------------------------
(***************************************************************************)
(* The path of a memory access from a core port to a core port: a request  *)
(* of Ibex enters core2axi4l, crosses the AXI4-Lite bus and leaves through *)
(* axi4l2core towards the slave port of the debug module.                  *)
(*                                                                         *)
(* The bus between the two (the crossbar axilxbar, not part of this        *)
(* repository) is modelled from how axi4l_interconnect.sv uses it, for a   *)
(* master that is alone with its slave: each channel holds one beat, takes *)
(* it when it pleases, and shows it to the other side from the next cycle  *)
(* on.  So address and data of a write may arrive in different cycles.     *)
(***************************************************************************)
EXTENDS core_if, Naturals

VARIABLES
  c_state,                         \* core2axi4l: register
  core,                            \* its input: the request of the core
  c_awready, c_wready, c_arready,  \* its inputs: the bus takes a beat
  t_state, bbuf, rbuf,             \* axi4l2core: registers
  t_bready, t_rready,              \* its inputs: the bus takes a response
  gnt, rsp,                        \* its inputs: the target port
  aws, ws, ars, bs, rs,            \* the beats on the bus, one per channel
  pend,                            \* the request granted, until it is answered
  asked,                           \* how often the target granted it
  given                            \* what the target answered to it, or NONE

registers == <<c_state, t_state, bbuf, rbuf>>
wires == <<core, c_awready, c_wready, c_arready, t_bready, t_rready, gnt, rsp>>
bus == <<aws, ws, ars, bs, rs>>
history == <<pend, asked, given>>
vars == <<registers, wires, bus, history>>

C == INSTANCE core2axi4l WITH
       state <- c_state, awready <- c_awready, wready <- c_wready,
       arready <- c_arready, b <- bs, r <- rs

T == INSTANCE axi4l2core WITH
       state <- t_state, aw <- aws, w <- ws, ar <- ars,
       bready <- t_bready, rready <- t_rready

-----------------------------------------------------------------------------
(* The bus *)

\* A channel after a cycle: it took x if it was ready, and lost its beat if
\* the other side was.
Carried(slot, x, ready, taken) == IF x # NONE /\ ready THEN x
                                  ELSE IF taken THEN NONE
                                  ELSE slot

Carry == /\ aws' = Carried(aws, C!AW, c_awready, T!Awready)
         /\ ws' = Carried(ws, C!W, c_wready, T!Wready)
         /\ ars' = Carried(ars, C!AR, c_arready, T!Arready)
         /\ bs' = Carried(bs, T!B, t_bready, C!Bready)
         /\ rs' = Carried(rs, T!R, t_rready, C!Rready)

\* A channel that holds a beat takes no other.
BusReadies == /\ c_awready' \in {FALSE, aws' = NONE}
              /\ c_wready' \in {FALSE, ws' = NONE}
              /\ c_arready' \in {FALSE, ars' = NONE}
              /\ t_bready' \in {FALSE, bs' = NONE}
              /\ t_rready' \in {FALSE, rs' = NONE}

-----------------------------------------------------------------------------
(* The core, the target and the history *)

CoreAsks ==
  core' \in IF core # NONE /\ ~C!Gnt THEN {core} ELSE Channel(Request)

TargetGrants == T!CoreRequest # NONE /\ gnt

\* The target grants what is asked and answers what it granted, once.
TargetServes ==
  /\ gnt' \in BOOLEAN
  /\ gnt' => T!Reading' \/ T!Writing'
  /\ rsp' \in IF TargetGrants \/ (t_state' = t_state /\ rsp = NONE
                                  /\ t_state \in {"READ_WAIT0", "WRITE_WAIT0"})
              THEN Channel(Response) ELSE {NONE}

Remember ==
  /\ pend' = IF core # NONE /\ C!Gnt THEN core
             ELSE IF C!Rvalid THEN NONE ELSE pend
  /\ asked' = IF C!Rvalid THEN 0 ELSE IF TargetGrants THEN asked + 1 ELSE asked
  /\ given' = IF C!Rvalid THEN NONE ELSE IF rsp # NONE THEN rsp ELSE given

-----------------------------------------------------------------------------
(* Specification *)

Init == /\ C!Init /\ T!Init
        /\ core = NONE /\ gnt = FALSE /\ rsp = NONE
        /\ c_awready \in BOOLEAN /\ c_wready \in BOOLEAN /\ c_arready \in BOOLEAN
        /\ t_bready \in BOOLEAN /\ t_rready \in BOOLEAN
        /\ aws = NONE /\ ws = NONE /\ ars = NONE /\ bs = NONE /\ rs = NONE
        /\ pend = NONE /\ asked = 0 /\ given = NONE

Clock == /\ C!Edge /\ T!Edge
         /\ Carry
         /\ BusReadies
         /\ CoreAsks
         /\ TargetServes
         /\ Remember

\* The reset of the whole design.
Reset == /\ C!Reset /\ T!Reset
         /\ aws' = NONE /\ ws' = NONE /\ ars' = NONE /\ bs' = NONE /\ rs' = NONE
         /\ BusReadies
         /\ core' = NONE /\ gnt' = FALSE /\ rsp' = NONE
         /\ pend' = NONE /\ asked' = 0 /\ given' = NONE

Next == Clock \/ Reset

Spec == Init /\ [][Next]_vars

\* For progress: the clock runs, the channels of the bus take beats again and
\* again, the target grants and answers.  Resets may come at any time.
BusFairness == /\ []<>(aws = NONE => c_awready)
               /\ []<>(ws = NONE => c_wready)
               /\ []<>(ars = NONE => c_arready)
               /\ []<>(bs = NONE => t_bready)
               /\ []<>(rs = NONE => t_rready)

TargetFairness == /\ []<>(T!CoreRequest # NONE => gnt)
                  /\ []<>(t_state \in {"READ_WAIT0", "WRITE_WAIT0"} => rsp # NONE)

LiveSpec == Spec /\ WF_vars(Clock) /\ BusFairness /\ TargetFairness

-----------------------------------------------------------------------------
(* Properties *)

\* What the target is asked is what the core asked, whole, after the core's
\* grant and once; a granted write whose halves travel apart is asked with
\* both.
TargetAskedTheSame ==
  T!CoreRequest # NONE => T!CoreRequest = pend /\ asked = 0

\* What the core gets is what the target answered to that request: its data
\* and its error flag, translated to a response code and back.
CoreAnsweredTheSame ==
  C!Rvalid => /\ pend # NONE /\ asked = 1 /\ given # NONE
              /\ C!Err = given.err
              /\ ~pend.we => C!Rdata = given.rdata

\* Nothing of an access is left anywhere on the path once its answer is in.
NothingLeft ==
  pend = NONE => /\ t_state = "IDLE" /\ bs = NONE /\ rs = NONE /\ ars = NONE
                 /\ asked = 0
                 /\ aws # NONE => c_state = "WRITE_DATA"
                 /\ ws # NONE => c_state = "WRITE_ADDR"

\* Every request is granted in the end, and every granted request answered,
\* unless a reset takes it back.
Served == /\ core # NONE ~> C!Gnt \/ core = NONE
          /\ pend # NONE ~> C!Rvalid \/ pend = NONE

=============================================================================

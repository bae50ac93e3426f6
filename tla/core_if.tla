------------------------------- MODULE core_if -------------------------------
(***************************************************************************)
(* What travels over the two interfaces of the bus bridges: the core       *)
(* memory port of Ibex and of the debug module (core_if.sv) and the five   *)
(* AXI4-Lite channels (axi4l_if.sv).                                       *)
(*                                                                         *)
(* A channel is one value: NONE while its valid (or req) wire is low, the  *)
(* payload while it is high.  Ready and grant wires are Booleans.          *)
(***************************************************************************)
EXTENDS axi4l_pkg

CONSTANTS Addr,    \* addresses
          WData,   \* what a write carries: a data word with its byte enables
          Data,    \* data words a read returns
          NONE     \* "valid is low"

\* What the req wire of a core port comes with: we, addr and, for a write,
\* wdata and be.
Request == [we : {FALSE}, addr : Addr]
             \cup [we : {TRUE}, addr : Addr, wdata : WData]

\* What the rvalid wire of a core port comes with.
Response == [err : BOOLEAN, rdata : Data]

\* What the rvalid wire of the AXI read channel comes with.
RBeat == [resp : LiteResp, data : Data]

\* A channel that carries values of S while its valid wire is high.
Channel(S) == S \cup {NONE}

\* NONE is told apart from every payload.
ASSUME NoneAssumption ==
  /\ NONE \notin Addr
  /\ NONE \notin WData
  /\ NONE \notin Data
  /\ NONE \notin Request
  /\ NONE \notin Response
  /\ NONE \notin RBeat
  /\ NONE \notin resp_t

=============================================================================

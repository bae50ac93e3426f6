----------------------------- MODULE axi4l_slave -----------------------------
(***************************************************************************)
(* The handshake logic that the memory and the peripherals share           *)
(* (axi4l_dpramx32, axi4l_timer, axi4l_gpio, axi4l_led repeat it): ready   *)
(* wires that are registers, with one buffer behind each of the channels   *)
(* AW, W and AR for the beat that is taken while it cannot be used.        *)
(*                                                                         *)
(* A buffer is filled whenever its ready wire is high, with whatever is on *)
(* the wires; it counts as a beat when ready is low.  The value NONE in a  *)
(* buffer stands for what was latched while nothing was valid.             *)
(***************************************************************************)
EXTENDS core_if

VARIABLES
  awready, wready, arready,    \* ready registers
  pre_waddr, pre_w, pre_raddr, \* buffers (pre_w is pre_wdata with pre_wstrb)
  bvalid, rvalid,              \* valid registers of the response channels
  aw, w, ar,                   \* input channels
  bready, rready               \* input: the master takes a response

handshake == <<awready, wready, arready, pre_waddr, pre_w, pre_raddr,
               bvalid, rvalid>>
master == <<aw, w, ar, bready, rready>>

-----------------------------------------------------------------------------
(* Wires *)

valid_write_address  == aw # NONE \/ ~awready
valid_write_data     == w # NONE \/ ~wready
write_response_stall == bvalid /\ ~bready
write_enable == /\ ~write_response_stall
                /\ valid_write_address
                /\ valid_write_data

valid_read_address  == ar # NONE \/ ~arready
read_response_stall == rvalid /\ ~rready
read_enable == ~read_response_stall /\ valid_read_address

\* The beats to use: a buffered one is older than the one on the wires.
waddr == IF awready THEN aw ELSE pre_waddr
wbeat == IF wready THEN w ELSE pre_w
raddr == IF arready THEN ar ELSE pre_raddr

-----------------------------------------------------------------------------
(* Registers *)

HandshakeInit ==
  /\ awready = TRUE /\ wready = TRUE /\ arready = TRUE
  /\ pre_waddr = NONE /\ pre_w = NONE /\ pre_raddr = NONE
  /\ bvalid = FALSE /\ rvalid = FALSE

\* Wrong version: an address that comes in a stall is taken but not kept.
AwreadyNext_in_stall == IF write_response_stall THEN awready
                        ELSE valid_write_data \/ (awready /\ aw = NONE)

\* Wrong version: ready does not rise again when the beat has been used.
AwreadyNext_stuck == IF write_response_stall THEN ~valid_write_address
                     ELSE awready /\ (aw = NONE \/ valid_write_data)

\* Wrong version: ready falls in every stall.
ArreadyNext_in_stall == ~read_response_stall

\* A ready wire falls when a beat stays in its buffer.
AwreadyNext == IF write_response_stall THEN ~valid_write_address
               ELSE valid_write_data \/ (awready /\ aw = NONE)
WreadyNext == IF write_response_stall THEN ~valid_write_data
              ELSE valid_write_address \/ (wready /\ w = NONE)
ArreadyNext == IF read_response_stall THEN ~valid_read_address ELSE TRUE

BvalidNext == \/ valid_write_address /\ valid_write_data
              \/ bvalid /\ ~bready
RvalidNext == valid_read_address \/ (rvalid /\ ~rready)

\* Wrong version: the address buffer follows the wires.
WriteHandshake_follows ==
  /\ awready' = AwreadyNext
  /\ wready' = WreadyNext
  /\ pre_waddr' = aw
  /\ pre_w' = IF wready THEN w ELSE pre_w
  /\ bvalid' = BvalidNext

WriteHandshake ==
  /\ awready' = AwreadyNext
  /\ wready' = WreadyNext
  /\ pre_waddr' = IF awready THEN aw ELSE pre_waddr
  /\ pre_w' = IF wready THEN w ELSE pre_w
  /\ bvalid' = BvalidNext

ReadHandshake ==
  /\ arready' = ArreadyNext
  /\ pre_raddr' = IF arready THEN ar ELSE pre_raddr
  /\ rvalid' = RvalidNext

\* Reset, of one or more clock edges.  The buffers have none: the first edge
\* keeps what waits in them or latches what is on the wires, and so do the
\* ones after it, when a master that is reset as well has let go.
HandshakeReset ==
  /\ awready' = TRUE /\ wready' = TRUE /\ arready' = TRUE
  /\ bvalid' = FALSE /\ rvalid' = FALSE
  /\ pre_waddr' \in {waddr, aw, NONE}
  /\ pre_w' \in {wbeat, w, NONE}
  /\ pre_raddr' \in {raddr, ar, NONE}

-----------------------------------------------------------------------------
(* The beats that change hands in a cycle *)

AwTaken == aw # NONE /\ awready
WTaken  == w # NONE /\ wready
ArTaken == ar # NONE /\ arready
BTaken  == bvalid /\ bready
RTaken  == rvalid /\ rready

=============================================================================

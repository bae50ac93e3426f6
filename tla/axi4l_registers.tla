--------------------------- MODULE axi4l_registers ---------------------------
(***************************************************************************)
(* What the peripherals (axi4l_led, axi4l_gpio, axi4l_timer) add to the    *)
(* handshake logic of axi4l_slave in the same way: word registers written  *)
(* byte by byte, and response registers that report an access to an        *)
(* address where there is no register.                                     *)
(***************************************************************************)
EXTENDS axi4l_slave, Naturals

CONSTANTS Lanes,   \* byte lanes of a word
          Byte,    \* values of a byte
          Regs     \* indices of the registers

VARIABLES bresp, rresp, rdata   \* response registers, without reset

responses == <<bresp, rresp, rdata>>

Word == [Lanes -> Byte]

\* Addresses are byte addresses; a write carries a word and the set of the
\* lanes to write.
RegistersConstants ==
  /\ Addr \subseteq Nat
  /\ Regs \subseteq 0..1023
  /\ Data = Word
  /\ WData \subseteq [data : Word, strb : SUBSET Lanes]

\* addr[11:2]: the register an address selects within a page of 4 KiB.
Reg(addr) == (addr \div 4) % 1024

check(addr) == IF Reg(addr) \in Regs THEN "OKAY" ELSE "SLVERR"

\* A register after a write: the lanes the strobes select change.
Merged(word, wb) == [l \in Lanes |-> IF l \in wb.strb THEN wb.data[l] ELSE word[l]]

\* The response wires.
B == IF bvalid THEN bresp ELSE NONE
R == IF rvalid THEN [resp |-> rresp, data |-> rdata] ELSE NONE

ResponsesInit == /\ bresp \in {"OKAY", "SLVERR"}
                 /\ rresp \in {"OKAY", "SLVERR"}
                 /\ rdata \in Word

\* The response to a write is noted when its address is there, every cycle
\* anew until the data is there as well.
NoteWrite(enable) == bresp' = IF enable THEN check(waddr) ELSE bresp

note_enable == ~write_response_stall /\ valid_write_address

\* A read takes a word and notes the response.
ReadWord(enable, word) ==
  IF enable THEN rdata' = word /\ rresp' = check(raddr)
  ELSE UNCHANGED <<rdata, rresp>>

\* These registers have no reset.  The clock edges of a reset still see the
\* beats of a master that is not reset yet; the valid wire of reads falls at
\* once and stalls nothing.
ResponsesReset(word) ==
  /\ \E enable \in {FALSE, note_enable} : NoteWrite(enable)
  /\ \E enable \in {FALSE, valid_read_address} : ReadWord(enable, word)

=============================================================================

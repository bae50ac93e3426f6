--------------------------- MODULE axi4l_dpramx32 ---------------------------
(***************************************************************************)
(* axi4l_dpramx32.sv: the program and data memory behind the crossbar, one *)
(* port for writes and one for reads.                                      *)
(***************************************************************************)
EXTENDS axi4l_slave, Naturals

CONSTANTS Words,   \* number of words of the memory, a power of two
          Lanes,   \* byte lanes of a word
          Byte     \* values of a byte

VARIABLES mem,     \* the memory
          rdata    \* register: the word read last

Word == [Lanes -> Byte]

\* Addresses are byte addresses; a write carries a word and the set of the
\* lanes to write.
ASSUME DpramAssumption ==
  /\ Words \in Nat \ {0}
  /\ Addr \subseteq Nat
  /\ Data = Word
  /\ WData \subseteq [data : Word, strb : SUBSET Lanes]

\* addr[ram_aw+1:2]: the word an address selects; the bits above are not
\* looked at, so that the memory repeats itself through its address range.
Index(addr) == (addr \div 4) % Words

\* The memory after a write: the lanes the strobes select change.
Stored(m, addr, wb) ==
  [m EXCEPT ![Index(addr)] =
     [l \in Lanes |-> IF l \in wb.strb THEN wb.data[l] ELSE @[l]]]

\* The response wires; the memory never reports an error.
B == IF bvalid THEN "OKAY" ELSE NONE
R == IF rvalid THEN [resp |-> "OKAY", data |-> rdata] ELSE NONE

RamInit == /\ mem \in [0..(Words - 1) -> Word]
           /\ rdata \in Word

RamWrite == mem' = IF write_enable THEN Stored(mem, waddr, wbeat) ELSE mem

\* Wrong version: the word is read again while its response waits.
RamRead_in_stall ==
  rdata' = IF valid_read_address THEN mem[Index(raddr)] ELSE rdata

\* The word is read before a write of the same cycle.
RamRead == rdata' = IF read_enable THEN mem[Index(raddr)] ELSE rdata

\* The rising edge of the clock.
RamEdge == /\ WriteHandshake
           /\ ReadHandshake
           /\ RamWrite
           /\ RamRead

\* The reset reaches the handshake, at once, but not the memory: its clock
\* edges still see the beats of a master that is not yet reset.
RamReset ==
  /\ HandshakeReset
  /\ \E a \in {aw, NONE}, d \in {w, NONE} :
        mem' = IF a # NONE /\ d # NONE THEN Stored(mem, a, d) ELSE mem
  /\ \E a \in {ar, NONE} :
        rdata' = IF a # NONE THEN mem[Index(a)] ELSE rdata

=============================================================================

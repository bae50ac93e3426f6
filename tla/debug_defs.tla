------------------------------ MODULE debug_defs ------------------------------
(***************************************************************************)
(* debug_defs.hpp and transaction.hpp: the numbers and the registers of    *)
(* the debug module as the simulated debugger writes them.  A register is  *)
(* the sequence of its bits, the least significant first, in the order in  *)
(* which they go through TDI.                                              *)
(***************************************************************************)
EXTENDS Naturals, Sequences, SequencesExt

\* The n bits of a number below 2^31.
Bits(x, n) == [i \in 1..n |-> IF i > 31 THEN 0 ELSE (x \div 2^(i - 1)) % 2]

\* Instructions of the test access port.
IDCODE == 1
DTMCS == 16
DMI == 17
BYPASS == 31

\* Operations of the debug module interface.
DTM_NOP == 0
DTM_READ == 1
DTM_WRITE == 2

\* Registers of the debug module, and the CSR the debugger asks for.
DATA0 == 4
DMCONTROL == 16
DMSTATUS == 17
COMMAND == 23
DCSR == 1968

\* The fields of the registers from the least significant bit on, with their
\* widths; a field without a name is reserved and stays zero.
dmcontrol_t == <<<<"dmactive", 1>>, <<"ndmreset", 1>>, <<"clrresethaltreq", 1>>,
                 <<"setresethaltreq", 1>>, <<"", 2>>, <<"hartselhi", 10>>,
                 <<"hartsello", 10>>, <<"hasel", 1>>, <<"", 1>>,
                 <<"ackhavereset", 1>>, <<"hartreset", 1>>, <<"resumereq", 1>>,
                 <<"haltreq", 1>>>>

command_t == <<<<"control", 24>>, <<"cmdtype", 8>>>>

\* The bits of a register whose fields in DOMAIN fields have these values
\* and whose other fields are zero.
Register(layout, fields) ==
  FlattenSeq([i \in 1..Len(layout) |->
     LET name == layout[i][1]
     IN Bits(IF name \in DOMAIN fields THEN fields[name] ELSE 0, layout[i][2])])

\* Wrong version: the address comes first.
dmi_t_address_first(op, data, address) == Bits(address, 7) \o data \o Bits(op, 2)

dmi_t(op, data, address) == Bits(op, 2) \o data \o Bits(address, 7)

\* A transaction: whether it scans the instruction or the data register, the
\* bits that are left of the request (zeros follow) and the bits to shift.
transaction(mode, req, len) == [mode |-> mode, req |-> req, len |-> len]

instr_transaction(instr) == transaction("JTAG_IR", Bits(instr, 8), 5)
idcode_transaction(data) == transaction("JTAG_DR", data, 32)
dmi_transaction(data)    == transaction("JTAG_DR", data, 41)

=============================================================================

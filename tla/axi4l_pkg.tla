------------------------------ MODULE axi4l_pkg ------------------------------
(***************************************************************************)
(* The response codes of AXI4-Lite and how the design builds and reads     *)
(* them.  Addresses, data and strobes are constants of the modules that    *)
(* use them; the protection bits are driven to zero everywhere and read    *)
(* nowhere, so no module carries them.                                     *)
(***************************************************************************)

\* resp_t.  EXOKAY exists in the enumeration, AXI4-Lite never sends it.
resp_t == {"OKAY", "EXOKAY", "SLVERR", "DECERR"}

\* The codes that can appear on an AXI4-Lite response channel of this SoC:
\* the slaves send OKAY and SLVERR, the crossbar DECERR.
LiteResp == resp_t \ {"EXOKAY"}

\* The response axi4l2core makes of the error flag of its core side.
resp(err) == IF err THEN "SLVERR" ELSE "OKAY"

=============================================================================

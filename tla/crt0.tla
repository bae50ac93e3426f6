--------------------------------- MODULE crt0 ---------------------------------
(***************************************************************************)
(* The startup code crt0.S, which every program of the repository has: it  *)
(* clears the BSS section, a word at a time, and jumps to main.  The       *)
(* linker script aligns the start of BSS to a word, and not its end.       *)
(***************************************************************************)
EXTENDS Integers

CONSTANTS
  bss_start,  \* _bss_start
  bss_ends    \* the values of _bss_end

ASSUME BssAssumption ==
  /\ bss_start \in Nat /\ bss_start % 4 = 0
  /\ \A n \in bss_ends : n \in Nat /\ bss_start <= n

VARIABLES
  crtAt,    \* the label that comes next
  bss_end,  \* _bss_end, register x27
  x26,      \* the pointer of the loop
  zeroed    \* the addresses of the bytes that were cleared (history)

crtVars == <<crtAt, bss_end, x26, zeroed>>

CrtInit == crtAt = "_start" /\ x26 = 0 /\ zeroed = {}

\* An empty section is not touched (bge).
Start == /\ crtAt = "_start"
         /\ x26' = bss_start
         /\ crtAt' = IF bss_start >= bss_end THEN "main_entry" ELSE "zero_loop"
         /\ UNCHANGED <<bss_end, zeroed>>

\* The loop goes on while the next pointer is not above the end (ble).
ZeroLoop == /\ crtAt = "zero_loop"
            /\ zeroed' = zeroed \cup (x26..x26 + 3)
            /\ x26' = x26 + 4
            /\ crtAt' = IF x26' <= bss_end THEN "zero_loop" ELSE "main_entry"
            /\ UNCHANGED bss_end

CrtNext == Start \/ ZeroLoop

\* Every byte of BSS is cleared and none before it; of what follows BSS, the
\* rest of its last word at most, or the next word when BSS ends with a word
\* and is not empty.
BssIsClear == /\ bss_start..bss_end - 1 \subseteq zeroed
              /\ zeroed \subseteq bss_start..(bss_end + 3 - (bss_end % 4))
              /\ bss_end = bss_start => zeroed = {}

=============================================================================

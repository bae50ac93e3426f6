--------------------------------- MODULE led ---------------------------------
(***************************************************************************)
(* sw/led/led.c and the timer it runs on.  The program reads a counter of  *)
(* two words while it counts, sets a compare register of two words while   *)
(* it is compared, and keeps a period by interrupts.                       *)
(*                                                                         *)
(* A step of the program is one access to a register, which takes effect   *)
(* at one moment between its request and its answer (AxiDevice; the core   *)
(* has one access under way at a time).  Any number of cycles may pass     *)
(* between two steps.  Interrupts are masked in the handler, so that main  *)
(* and handler are one sequence of steps.                                  *)
(***************************************************************************)
EXTENDS Naturals

CONSTANTS
  Radix,     \* 2^32: the number of values of a word
  PERIOD,    \* CLK_FIXED_FREQ_HZ * TICK_TIME / 1000, in cycles
  TICKS,     \* BLINK_TIME / TICK_TIME
  Colors,    \* the values of SW[2:0]
  Buttons,   \* the buttons, each with one RGB LED
  MaxTime    \* bound of the model: time stops here

\* Time stops well before the counter wraps, which it does after 2^64 cycles.
ASSUME LedAssumption ==
  /\ Radix \in Nat \ {0, 1} /\ PERIOD \in Nat \ {0} /\ TICKS \in Nat \ {0}
  /\ MaxTime \in Nat /\ MaxTime + 2 * PERIOD < Radix * Radix
  /\ 0 \in Colors

VARIABLES
  mtime, cmpl, cmph,         \* the timer: counter, words of the compare register
  led, ledrgb,               \* the LEDs
  pc,                        \* the next access of the program
  mtimeh, mtimel, mtimecmp,  \* variables of the program (mtimecmp of 64 bits)
  ticks, pressed,            \* more of them: static ticks; button
  read_at,                   \* history: when MTIME was read last
  served                     \* history: handlers that have set a new deadline

timer == <<mtime, cmpl, cmph>>
leds == <<led, ledrgb>>
time == <<mtimeh, mtimel, mtimecmp>>
history == <<read_at, served>>
vars == <<timer, leds, pc, time, ticks, pressed, history>>

Low(t) == t % Radix
High(t) == (t \div Radix) % Radix
Full == Radix - 1

irq == mtime >= cmph * Radix + cmpl

-----------------------------------------------------------------------------
(* The timer *)

Pass == /\ mtime < MaxTime
        /\ mtime' = mtime + 1
        /\ UNCHANGED <<cmpl, cmph, leds, pc, time, ticks, pressed, history>>

\* An access of the program: from one place to another, nothing else changes
\* than what the step names.
Step(from, to) == pc = from /\ pc' = to /\ UNCHANGED mtime

-----------------------------------------------------------------------------
(* main *)

ClearLeds == /\ Step("start", "high")
             /\ led' = 0 /\ ledrgb' = [i \in Buttons |-> 0]
             /\ UNCHANGED <<cmpl, cmph, time, ticks, pressed, history>>

ReadHigh == /\ Step("high", "low")
            /\ mtimeh' = High(mtime)
            /\ UNCHANGED <<cmpl, cmph, leds, mtimel, mtimecmp, ticks, pressed, history>>

ReadLow == /\ Step("low", "again")
           /\ mtimel' = Low(mtime)
           /\ read_at' = mtime
           /\ UNCHANGED <<cmpl, cmph, leds, mtimeh, mtimecmp, ticks, pressed, served>>

\* Wrong version: the high word is not read again.
ReadHighAgain_unchecked ==
  /\ Step("again", "full")
  /\ mtimecmp' = mtimeh * Radix + mtimel + PERIOD
  /\ UNCHANGED <<cmpl, cmph, leds, mtimeh, mtimel, ticks, pressed, history>>

\* The loop ends when the high word did not change meanwhile.
ReadHighAgain ==
  /\ pc = "again" /\ UNCHANGED mtime
  /\ \/ High(mtime) # mtimeh /\ pc' = "high" /\ UNCHANGED mtimecmp
     \/ /\ High(mtime) = mtimeh /\ pc' = "full"
        /\ mtimecmp' = mtimeh * Radix + mtimel + PERIOD
  /\ UNCHANGED <<cmpl, cmph, leds, mtimeh, mtimel, ticks, pressed, history>>

-----------------------------------------------------------------------------
(* main and handler: a new deadline, low word out of the way first.  Main   *)
(* then enables the interrupt; both end up waiting for it.                  *)

SetFull == /\ Step("full", "sethigh")
           /\ cmpl' = Full
           /\ UNCHANGED <<cmph, leds, time, ticks, pressed, history>>

SetHigh == /\ Step("sethigh", "setlow")
           /\ cmph' = High(mtimecmp)
           /\ UNCHANGED <<cmpl, leds, time, ticks, pressed, history>>

\* Wrong version: the low word is left out of the way.
SetLow_missing == /\ Step("setlow", "wfi")
                  /\ served' = served + 1
                  /\ UNCHANGED <<cmpl, cmph, leds, time, ticks, pressed, read_at>>

SetLow == /\ Step("setlow", "wfi")
          /\ cmpl' = Low(mtimecmp)
          /\ served' = served + 1
          /\ UNCHANGED <<cmph, leds, time, ticks, pressed, read_at>>

-----------------------------------------------------------------------------
(* The handler *)

\* The interrupt is taken, and SW[3] read: when it is off, the buttons
\* switch the RGB LEDs.
Interrupt == /\ irq
             /\ \/ Step("wfi", "button")
                \/ Step("wfi", "blink")
             /\ UNCHANGED <<cmpl, cmph, leds, time, ticks, pressed, history>>

ReadButtons == /\ Step("button", "color")
               /\ pressed' \in SUBSET Buttons
               /\ UNCHANGED <<cmpl, cmph, leds, time, ticks, history>>

\* SW[2:0] is read and the RGB LEDs are written.
Light == /\ Step("color", "blink")
         /\ \E color \in Colors :
              ledrgb' = [i \in Buttons |-> IF i \in pressed THEN color ELSE 0]
         /\ pressed' = {}
         /\ UNCHANGED <<cmpl, cmph, led, time, ticks, history>>

\* Wrong version: ticks is not reset.
Blink_no_reset ==
  /\ Step("blink", "getcmp")
  /\ ticks' = ticks + 1
  /\ led' = IF ticks' = TICKS THEN (led + 1) % 16 ELSE led
  /\ UNCHANGED <<cmpl, cmph, ledrgb, time, pressed, history>>

\* ++(*LED) reads the four LEDs back; their pins have settled since the last
\* time, TICKS handlers ago.
Blink == /\ Step("blink", "getcmp")
         /\ \/ ticks + 1 = TICKS /\ ticks' = 0 /\ led' = (led + 1) % 16
            \/ ticks + 1 # TICKS /\ ticks' = ticks + 1 /\ UNCHANGED led
         /\ UNCHANGED <<cmpl, cmph, ledrgb, time, pressed, history>>

\* Wrong version: the next deadline is a period from now.
GetCompare_from_now ==
  /\ Step("getcmp", "full")
  /\ mtimecmp' = mtime + PERIOD
  /\ UNCHANGED <<cmpl, cmph, leds, mtimeh, mtimel, ticks, pressed, history>>

\* Wrong version: the addition has no carry into the high word.
GetCompare_no_carry ==
  /\ Step("getcmp", "full")
  /\ mtimecmp' = cmph * Radix + Low(cmpl + PERIOD)
  /\ UNCHANGED <<cmpl, cmph, leds, mtimeh, mtimel, ticks, pressed, history>>

\* Both words are read; only the program changes them.
GetCompare == /\ Step("getcmp", "full")
              /\ mtimecmp' = cmph * Radix + cmpl + PERIOD
              /\ UNCHANGED <<cmpl, cmph, leds, mtimeh, mtimel, ticks, pressed, history>>

-----------------------------------------------------------------------------
(* Specification *)

\* Out of reset; the LEDs show anything.
Init == /\ mtime = 0 /\ cmpl = Full /\ cmph = Full
        /\ led \in {0, 15} /\ ledrgb \in [Buttons -> Colors]
        /\ pc = "start"
        /\ mtimeh = 0 /\ mtimel = 0 /\ mtimecmp = 0
        /\ ticks = 0 /\ pressed = {}
        /\ read_at = 0 /\ served = 0

Program == \/ ClearLeds \/ ReadHigh \/ ReadLow \/ ReadHighAgain
           \/ SetFull \/ SetHigh \/ SetLow
           \/ Interrupt \/ ReadButtons \/ Light \/ Blink \/ GetCompare

\* The bound of the model: nothing is left to do when time has stopped.
TimeIsUp == mtime = MaxTime /\ pc = "wfi" /\ ~irq /\ UNCHANGED vars

Next == Pass \/ Program \/ TimeIsUp

Spec == Init /\ [][Next]_vars

\* For progress: the clock runs and the core executes.
LiveSpec == Spec /\ WF_vars(Pass) /\ WF_vars(Program)

-----------------------------------------------------------------------------
(* Properties *)

\* The two words that main puts together are the words of one instant, that
\* of the read of MTIME, however much time passes between the reads and
\* however often the low word wraps meanwhile.
TimeIsExact ==
  pc = "full" /\ served = 0 => mtimecmp = read_at + PERIOD

\* The deadlines keep the rhythm: while the program waits, the timer is set
\* to the start plus a whole number of periods, one per handler, no matter
\* how late the handlers ran.
NoDrift ==
  pc = "wfi" => cmph * Radix + cmpl = read_at + served * PERIOD

\* No interrupt is taken before the deadline it is for, although the compare
\* register holds a mixture of an old and a new deadline between two writes.
NeverEarly ==
  [][Interrupt => mtime >= read_at + served * PERIOD]_vars

\* The LEDs count the blink times since the start.
LedsCount ==
  pc = "wfi" => /\ served # 0
                /\ led = ((served - 1) \div TICKS) % 16
                /\ ticks = (served - 1) % TICKS

\* Every deadline that passes is served, however late.
DeadlineServed ==
  \A n \in 1..(MaxTime \div PERIOD) :
    served = n /\ mtime >= read_at + n * PERIOD ~> served = n + 1

=============================================================================

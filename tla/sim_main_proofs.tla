---------------------------- MODULE sim_main_proofs ----------------------------
(***************************************************************************)
(* The driver never looks at the port, and its memory may hold anything    *)
(* when it starts.  Yet from the third transaction on both are in step,    *)
(* for all that the counters may hold, for every delay of the debug module *)
(* and however long the simulation runs.  The proof follows the pair of    *)
(* the state that the driver takes the port to be in and the state that    *)
(* the port will be in after the coming rising edge.  The second part      *)
(* follows the bits: from the transactions through the driver into the     *)
(* shift register, and from there to the debug module.  The third part     *)
(* counts the edges that the session takes.                                *)
(***************************************************************************)
EXTENDS sim_main, WellFoundedInduction, TLAPS

\* The state of the port after the coming rising edge of TCK.
Coming == IF tck THEN tap ELSE TapNext(tap, tms)

\* Where the port may be during the first transaction, which scans the
\* instruction register, when the driver takes it to be in s.
First(s) ==
  CASE s = "TEST_LOGIC_RESET" -> {"RUN_TEST_IDLE", "SELECT_DR_SCAN"}
    [] s = "RUN_TEST_IDLE" -> {"RUN_TEST_IDLE", "CAPTURE_DR", "SHIFT_DR"}
    [] s = "SELECT_DR_SCAN" -> {"SELECT_DR_SCAN", "RUN_TEST_IDLE", "EXIT1_DR"}
    [] s = "SELECT_IR_SCAN" -> {"SELECT_IR_SCAN", "RUN_TEST_IDLE", "SELECT_DR_SCAN", "UPDATE_DR"}
    [] s = "CAPTURE_IR" -> {"CAPTURE_IR", "RUN_TEST_IDLE", "CAPTURE_DR"}
    [] s = "SHIFT_IR" -> {"SHIFT_IR", "RUN_TEST_IDLE", "SHIFT_DR"}
    [] s = "EXIT1_IR" -> {"EXIT1_IR", "RUN_TEST_IDLE", "SELECT_DR_SCAN", "EXIT1_DR"}
    [] s = "PAUSE_IR" -> {"PAUSE_IR", "RUN_TEST_IDLE", "CAPTURE_DR", "PAUSE_DR"}
    [] s = "EXIT2_IR" -> {"EXIT2_IR", "RUN_TEST_IDLE", "SELECT_DR_SCAN", "EXIT1_DR", "EXIT2_DR"}
    [] s = "UPDATE_IR" -> {"UPDATE_IR", "RUN_TEST_IDLE", "SELECT_DR_SCAN", "SELECT_IR_SCAN", "UPDATE_DR"}
    [] s = "EXIT1_DR" -> {"RUN_TEST_IDLE", "SELECT_DR_SCAN"}
    [] s = "PAUSE_DR" -> {"RUN_TEST_IDLE", "CAPTURE_DR"}
    [] s = "EXIT2_DR" -> {"RUN_TEST_IDLE", "SELECT_DR_SCAN", "EXIT1_DR"}
    [] s = "UPDATE_DR" -> {"UPDATE_DR", "RUN_TEST_IDLE", "SELECT_DR_SCAN", "SELECT_IR_SCAN"}
    [] OTHER -> {"RUN_TEST_IDLE"}

\* And during the second one, which scans a data register.
Second(s) ==
  CASE s = "RUN_TEST_IDLE" -> {"RUN_TEST_IDLE", "CAPTURE_DR", "CAPTURE_IR", "SHIFT_DR", "SHIFT_IR"}
    [] s = "SELECT_DR_SCAN" -> {"SELECT_DR_SCAN", "EXIT1_DR", "EXIT1_IR"}
    [] s = "CAPTURE_DR" -> {"CAPTURE_DR", "PAUSE_DR", "PAUSE_IR"}
    [] s = "SHIFT_DR" -> {"SHIFT_DR", "PAUSE_DR", "PAUSE_IR"}
    [] s = "EXIT1_DR" -> {"EXIT1_DR", "EXIT2_DR", "EXIT2_IR"}
    [] s = "PAUSE_DR" -> {"PAUSE_DR", "SHIFT_DR", "SHIFT_IR"}
    [] s = "EXIT2_DR" -> {"EXIT2_DR", "EXIT1_DR", "EXIT1_IR"}
    [] s = "UPDATE_DR" -> {"UPDATE_DR", "UPDATE_IR"}
    [] OTHER -> {}

\* The states of a scan: those the driver goes through between two updates.
DataScan == {"RUN_TEST_IDLE", "SELECT_DR_SCAN", "CAPTURE_DR", "SHIFT_DR", "EXIT1_DR",
             "PAUSE_DR", "EXIT2_DR", "UPDATE_DR"}
InstrScan == {"RUN_TEST_IDLE", "SELECT_DR_SCAN", "SELECT_IR_SCAN", "CAPTURE_IR", "SHIFT_IR",
              "EXIT1_IR", "PAUSE_IR", "EXIT2_IR", "UPDATE_IR"}
Scan(mode) == IF mode = "JTAG_IR" THEN InstrScan ELSE DataScan

\* Where the port may be at the end of the first transaction.
Between == {"RUN_TEST_IDLE", "CAPTURE_DR", "CAPTURE_IR"}

\* A step of the driver in the first transaction, and the edge behind it.
LEMMA FirstStep ==
  ASSUME NEW x, x.mode = "JTAG_IR", NEW c \in First(state), Step(x)
  PROVE  /\ ~rdy' => TapNext(c, tms') \in First(state')
         /\ rdy' => state' = "RUN_TEST_IDLE" /\ TapNext(c, tms') \in Between
<1>1. CASE Reset
  BY <1>1 DEF Reset, GoTo, First, TapNext
<1>2. CASE Idle
  BY <1>2 DEF Idle, GoTo, First, TapNext
<1>3. CASE Select(x)
  BY <1>3 DEF Select, GoTo, First, TapNext
<1>4. CASE Move
  BY <1>4 DEF Move, GoTo, First, TapNext
<1>5. CASE Shift(x)
  BY <1>5 DEF Shift, GoTo, First, TapNext
<1>6. CASE Exit1(x)
  BY <1>6 DEF Exit1, GoTo, First, TapNext
<1>7. CASE Update
  BY <1>7 DEF Update, GoTo, First, Between, TapNext
<1>8. CASE Default
  BY <1>8 DEF Default, GoTo, First, TapNext, DriverState
<1>. QED
  BY <1>1, <1>2, <1>3, <1>4, <1>5, <1>6, <1>7, <1>8 DEF Step

\* The second transaction ends with the port in the state of the driver.
LEMMA SecondStep ==
  ASSUME NEW x, x.mode = "JTAG_DR", NEW c \in Second(state), Step(x)
  PROVE  /\ ~rdy' => TapNext(c, tms') \in Second(state')
         /\ rdy' => state' = "RUN_TEST_IDLE" /\ TapNext(c, tms') = state'
<1>1. ~Reset /\ ~Default
  BY DEF Reset, Default, Second, DriverState
<1>2. CASE Idle
  BY <1>2 DEF Idle, GoTo, Second, TapNext
<1>3. CASE Select(x)
  BY <1>3 DEF Select, GoTo, Second, TapNext
<1>4. CASE Move
  BY <1>4 DEF Move, GoTo, Second, TapNext
<1>5. CASE Shift(x)
  BY <1>5 DEF Shift, GoTo, Second, TapNext
<1>6. CASE Exit1(x)
  BY <1>6 DEF Exit1, GoTo, Second, TapNext
<1>7. CASE Update
  BY <1>7 DEF Update, GoTo, Second, TapNext
<1>. QED
  BY <1>1, <1>2, <1>3, <1>4, <1>5, <1>6, <1>7 DEF Step

\* Once in step, the driver and the port go through a scan together.
LEMMA ScanStep ==
  ASSUME NEW x, NEW mode \in {"JTAG_IR", "JTAG_DR"}, x.mode = mode,
         state \in Scan(mode), Step(x)
  PROVE  /\ TapNext(state, tms') = state'
         /\ state' \in Scan(mode)
         /\ rdy' => state' = "RUN_TEST_IDLE"
<1>1. ~Reset /\ ~Default
  BY DEF Reset, Default, Scan, InstrScan, DataScan, DriverState
<1>2. CASE Idle
  BY <1>2 DEF Idle, GoTo, Scan, InstrScan, DataScan, TapNext
<1>3. CASE Select(x)
  BY <1>3 DEF Select, GoTo, Scan, InstrScan, DataScan, TapNext
<1>4. CASE Move
  BY <1>4 DEF Move, GoTo, Scan, InstrScan, DataScan, TapNext
<1>5. CASE Shift(x)
  BY <1>5 DEF Shift, GoTo, Scan, InstrScan, DataScan, TapNext
<1>6. CASE Exit1(x)
  BY <1>6 DEF Exit1, GoTo, Scan, InstrScan, DataScan, TapNext
<1>7. CASE Update
  BY <1>7 DEF Update, GoTo, Scan, InstrScan, DataScan, TapNext
<1>. QED
  BY <1>1, <1>2, <1>3, <1>4, <1>5, <1>6, <1>7 DEF Step

\* A transaction ends with TMS low.
LEMMA ReadyStep == ASSUME NEW x, Step(x), rdy' PROVE tms' = 0
BY DEF Step, Reset, Idle, Select, Move, Shift, Exit1, Update, Default, GoTo

-----------------------------------------------------------------------------
(* The queue. *)

Mode(i) == IF i \in {1, 3} THEN "JTAG_IR" ELSE "JTAG_DR"

\* The k-th transaction, with whatever is left of its request.
IsTransaction(x, k) == x = [mode |-> Mode(k), req |-> x.req, len |-> x.len]

\* In q the last n of the ten transactions wait.
Waiting(q, n) == /\ q = [i \in 1..n |-> q[i]]
                 /\ \A i \in 1..n : IsTransaction(q[i], 10 - n + i)

Queue == \E n \in 0..10 : Waiting(seq, n)

\* What waits in the queue, and its front.
LEMMA QueueLength ==
  ASSUME NEW q, NEW n \in 0..10, Waiting(q, n)
  PROVE  /\ Len(q) = n /\ Len(Transactions) - Len(q) = 10 - n
         /\ q \in Seq({q[i] : i \in 1..n})
         /\ (q = <<>> <=> n = 0)
         /\ n > 0 => Head(q) = q[1] /\ Head(q).mode = Mode(11 - n)
<1>1. q \in Seq({q[i] : i \in 1..n})
  BY DEF Waiting
<1>2. Len(q) = n
  BY <1>1 DEF Waiting
<1>3. Len(Transactions) = 10
  BY DEF Transactions
<1>4. ASSUME n > 0 PROVE Head(q) = q[1] /\ Head(q).mode = Mode(11 - n)
  <2>1. Head(q) = q[1]
    BY <1>1, <1>2, <1>4
  <2>2. IsTransaction(q[1], 10 - n + 1) /\ 10 - n + 1 = 11 - n
    BY <1>4 DEF Waiting
  <2>. QED BY <2>1, <2>2 DEF IsTransaction
<1>. QED BY <1>1, <1>2, <1>3, <1>4

\* The transactions that are no longer in the queue.
LEMMA Count ==
  ASSUME NEW n \in 0..10, Waiting(seq, n)
  PROVE  Popped = 10 - n /\ (seq = <<>> <=> n = 0)
BY QueueLength DEF Popped

\* At the beginning all ten wait.
LEMMA QueueInit == Waiting(Transactions, 10)
BY DEF Waiting, IsTransaction, Mode, Transactions, instr_transaction, idcode_transaction,
       dmi_transaction, transaction

\* What the driver leaves of a transaction is that transaction.
LEMMA DrivenIs ==
  ASSUME NEW x, NEW k, IsTransaction(x, k)
  PROVE  IsTransaction(Driven(x), k)
BY DEF IsTransaction, Driven

\* The queue when a transaction is over, and when it goes on.
LEMMA QueueFed ==
  ASSUME NEW q, NEW n \in 1..10, Waiting(q, n)
  PROVE  /\ Waiting(Tail(q), n - 1)
         /\ Waiting([q EXCEPT ![1] = Driven(@)], n)
<1>1. q \in Seq({q[i] : i \in 1..n}) /\ Len(q) = n /\ q # <<>>
  <2>1. n \in 0..10 /\ n # 0
    OBVIOUS
  <2>. QED BY <2>1, QueueLength
<1>2. Waiting(Tail(q), n - 1)
  <2> DEFINE S == {q[i] : i \in 1..n}
             t == Tail(q)
  <2>1. q \in Seq(S) /\ Len(q) = n /\ q # <<>>
    BY <1>1
  <2> HIDE DEF S
  <2>2. t \in Seq(S) /\ Len(t) = n - 1 /\ \A i \in 1..n - 1 : t[i] = q[i + 1]
    BY <2>1
  <2> HIDE DEF t
  <2>3. t = [i \in 1..n - 1 |-> t[i]]
    BY <2>2
  <2>4. ASSUME NEW i \in 1..n - 1 PROVE IsTransaction(t[i], 10 - (n - 1) + i)
    <3>1. i + 1 \in 1..n /\ t[i] = q[i + 1]
      BY <2>2
    <3>2. IsTransaction(q[i + 1], 10 - n + (i + 1))
      BY <3>1 DEF Waiting
    <3>3. 10 - n + (i + 1) = 10 - (n - 1) + i
      OBVIOUS
    <3>. QED BY <3>1, <3>2, <3>3
  <2>5. Waiting(t, n - 1)
    BY <2>3, <2>4 DEF Waiting
  <2>. QED BY <2>5 DEF t
<1>3. Waiting([q EXCEPT ![1] = Driven(@)], n)
  <2> DEFINE t == [q EXCEPT ![1] = Driven(@)]
  <2>1. q = [i \in 1..n |-> q[i]]
    BY DEF Waiting
  <2>2. t = [i \in 1..n |-> IF i = 1 THEN Driven(q[1]) ELSE q[i]]
    BY <2>1
  <2> HIDE DEF t
  <2>3. ASSUME NEW i \in 1..n PROVE IsTransaction(t[i], 10 - n + i)
    <3>1. IsTransaction(q[i], 10 - n + i)
      BY DEF Waiting
    <3>2. CASE i = 1
      BY <2>2, <3>1, <3>2, DrivenIs
    <3>3. CASE i # 1
      BY <2>2, <3>1, <3>3
    <3>. QED BY <3>2, <3>3
  <2>4. Waiting(t, n)
    BY <2>2, <2>3 DEF Waiting
  <2>. QED BY <2>4 DEF t
<1>. QED BY <1>2, <1>3

-----------------------------------------------------------------------------
(* The invariant. *)

\* TCK has a period of 20 units of time.
Clock == /\ time \in Nat /\ tck \in BOOLEAN
         /\ tck <=> (time \div 10) % 2 = 1

\* Until the driver is called: the reset and the rising edges behind it leave
\* the port idle, for TMS is low.
Starting == /\ tms = 0 /\ seq = Transactions /\ ~rdy
            /\ tap \in {"TEST_LOGIC_RESET", "RUN_TEST_IDLE"}
            /\ time >= 44 => trst_n = 1
            /\ time >= 50 => tap = "RUN_TEST_IDLE"

\* Where the port is, as far as the driver has come.
Place ==
  IF seq = <<>> \/ rdy
  THEN /\ state = "RUN_TEST_IDLE" /\ tms = 0
       /\ Coming \in IF Popped = 0 THEN Between ELSE {state}
  ELSE CASE Popped = 0 -> Coming \in First(state)
         [] Popped = 1 -> Coming \in Second(state)
         [] OTHER -> Coming = state /\ state \in Scan(Mode(Popped + 1))

\* The driver sees every falling edge of TCK, and it is ready for the next
\* transaction only when no edge comes.
Driving == /\ trst_n = 1
           /\ (time > 100 /\ seq # <<>>) => past_tck = tck
           /\ rdy => time % 10 # 9 /\ seq # <<>>
           /\ Queue /\ Place

IInv == /\ Clock
        /\ IF time <= 100 THEN Starting ELSE Driving

\* Time goes on, and TCK changes every ten units.
LEMMA ClockStep ==
  ASSUME Clock, Next
  PROVE  /\ Clock' /\ time' = time + 1
         /\ time' % 10 # 0 => tck' = tck
         /\ time' % 10 = 0 => tck' = ~tck
<1>1. time \in Nat /\ time' = time + 1 /\ time' \in Nat
  BY DEF Clock, Next
<1>2. CASE time' % 10 = 0
  <2>1. time' \div 10 = (time \div 10) + 1 /\ time \div 10 \in Nat
    BY <1>1, <1>2
  <2>2. ((time \div 10) % 2 = 1) <=> ~((time' \div 10) % 2 = 1)
    BY <2>1
  <2>3. tck' = ~tck
    BY <1>2 DEF Next
  <2>. QED BY <1>1, <1>2, <2>2, <2>3 DEF Clock
<1>3. CASE time' % 10 # 0
  <2>1. time' \div 10 = time \div 10
    BY <1>1, <1>3
  <2>2. tck' = tck
    BY <1>3 DEF Next
  <2>. QED BY <1>1, <1>3, <2>1, <2>2 DEF Clock
<1>. QED BY <1>2, <1>3

\* Out of reset the port moves at the rising edges.
LEMMA PortStep ==
  ASSUME Next, trst_n' = 1
  PROVE  tap' = IF ~tck /\ tck' THEN TapNext(tap, tms') ELSE tap
BY DEF Next, Port, TapEdge, tapVars

\* Before the driver is called only the reset moves the port.
LEMMA StartStep ==
  ASSUME Clock, Starting, Next, time < 100
  PROVE  Starting'
<1>1. time \in Nat /\ time' = time + 1 /\ Clock'
  BY ClockStep DEF Clock
<1>2. UNCHANGED <<tms, seq, rdy>>
  BY <1>1 DEF Next, Quiet, wires, driverVars
<1>3. time' >= 44 => trst_n' = 1
  BY <1>1 DEF Next, Starting
<1>4. tap' \in {"TEST_LOGIC_RESET", "RUN_TEST_IDLE"}
  BY <1>2 DEF Starting, Next, Port, TapReset, TapEdge, TapNext, tapVars
<1>5. ASSUME time' >= 50 PROVE tap' = "RUN_TEST_IDLE"
  <2>1. trst_n' = 1
    BY <1>1, <1>3, <1>5
  <2>2. tap' = IF ~tck /\ tck' THEN TapNext(tap, 0) ELSE tap
    BY <1>2, <2>1, PortStep DEF Starting
  <2>3. TapNext("TEST_LOGIC_RESET", 0) = "RUN_TEST_IDLE" /\ TapNext("RUN_TEST_IDLE", 0) = "RUN_TEST_IDLE"
    BY DEF TapNext
  <2>4. CASE time >= 50
    BY <2>2, <2>3, <2>4 DEF Starting
  <2>5. CASE time = 49
    <3>1. ~tck /\ tck'
      BY <1>1, <2>5 DEF Clock
    <3>. QED BY <2>2, <2>3, <3>1 DEF Starting
  <2>. QED BY <1>1, <1>5, <2>4, <2>5
<1>. QED BY <1>2, <1>3, <1>4, <1>5 DEF Starting

\* When the driver is called for the first time, the port is idle.
LEMMA StartEnds ==
  ASSUME Clock, Starting, time = 100
  PROVE  Driving /\ ~tck
<1>1. ~tck
  BY DEF Clock
<1>2. Coming = "RUN_TEST_IDLE"
  BY <1>1 DEF Starting, Coming, TapNext
<1>3. Waiting(seq, 10)
  BY QueueInit DEF Starting
<1>4. Popped = 0 /\ seq # <<>>
  <2>1. 10 \in 0..10
    OBVIOUS
  <2>. QED BY <1>3, <2>1, Count
<1>5. "RUN_TEST_IDLE" \in First(state)
  BY DEF First
<1>6. Place
  BY <1>2, <1>4, <1>5 DEF Place, Starting
<1>. QED BY <1>1, <1>3, <1>6 DEF Driving, Starting, Queue

\* What a step leaves of the state that the port will be in: only a falling
\* edge of TCK makes room for another one.
LEMMA ComingStep ==
  ASSUME Clock, Next, trst_n' = 1
  PROVE  /\ tck /\ ~tck' => Coming' = TapNext(Coming, tms')
         /\ ~(tck /\ ~tck') /\ tms' = tms => Coming' = Coming
<1>1. tap' = IF ~tck /\ tck' THEN TapNext(tap, tms') ELSE tap
  BY PortStep
<1>2. tck \in BOOLEAN /\ tck' \in BOOLEAN
  BY ClockStep DEF Clock
<1>. QED BY <1>1, <1>2 DEF Coming

\* The first call may take the level of TCK for a falling edge; the port is
\* idle then.
LEMMA EdgeStep ==
  ASSUME Clock, Starting \/ time > 100, Driving, Next, time >= 100, seq # <<>>, FallingEdge
  PROVE  /\ Coming' = TapNext(Coming, tms')
         /\ ~rdy /\ time' % 10 # 9
<1>1. trst_n' = 1 /\ time' = time + 1 /\ time \in Nat
  BY DEF Driving, Next, Clock
<1>2. CASE time = 100
  <2>1. ~tck /\ Starting
    BY <1>2 DEF Clock
  <2>2. ~tck'
    BY DEF FallingEdge
  <2>3. tap' = tap /\ tap = "RUN_TEST_IDLE" /\ tms = 0
    BY <1>1, <1>2, <2>1, <2>2, PortStep DEF Starting
  <2>4. Coming = "RUN_TEST_IDLE" /\ Coming' = TapNext("RUN_TEST_IDLE", tms')
    BY <2>1, <2>2, <2>3 DEF Coming, TapNext
  <2>. QED BY <1>1, <1>2, <2>1, <2>4 DEF Starting
<1>3. CASE time > 100
  <2>1. tck /\ ~tck'
    BY <1>3 DEF Driving, FallingEdge
  <2>2. time' % 10 = 0
    BY <2>1, ClockStep
  <2>3. time % 10 = 9
    BY <1>1, <2>2
  <2>4. ~rdy
    BY <2>3 DEF Driving
  <2>. QED BY <1>1, <2>1, <2>2, <2>4, ComingStep
<1>. QED BY <1>1, <1>2, <1>3

\* No transaction is left: the port stays where the last one ended.
LEMMA QuietStep ==
  ASSUME Clock, Driving, Next, time >= 100, seq = <<>>
  PROVE  Driving'
<1>1. time \in Nat /\ time' = time + 1 /\ trst_n' = 1
  BY DEF Driving, Next, Clock
<1>2. UNCHANGED <<wires, driverVars, seq>>
  BY DEF Next, Quiet
<1>3. Popped' = Popped /\ Queue' /\ seq' = <<>>
  BY <1>2 DEF Driving, Popped, Queue, Waiting
<1>4. state = "RUN_TEST_IDLE" /\ tms = 0
      /\ Coming \in IF Popped = 0 THEN Between ELSE {state}
  BY DEF Driving, Place
<1>5. Popped = 10
  <2>1. PICK n \in 0..10 : Waiting(seq, n)
    BY DEF Driving, Queue
  <2>. QED BY <2>1, Count
<1>6. Coming = "RUN_TEST_IDLE"
  BY <1>4, <1>5
<1>7. TapNext("RUN_TEST_IDLE", 0) = "RUN_TEST_IDLE"
  BY DEF TapNext
<1>8. Coming' = "RUN_TEST_IDLE"
  <2>1. tms' = 0
    BY <1>2, <1>4 DEF wires
  <2>2. tck \in BOOLEAN /\ tck' \in BOOLEAN
    BY ClockStep DEF Clock
  <2>. QED BY <1>1, <1>4, <1>6, <1>7, <2>1, <2>2, ComingStep
<1>9. Place'
  BY <1>2, <1>3, <1>4, <1>5, <1>8 DEF Place, wires, driverVars
<1>10. ~rdy'
  BY <1>2 DEF Driving, driverVars
<1>. QED BY <1>1, <1>3, <1>9, <1>10 DEF Driving

\* The driver was ready: the next transaction comes to the front.
LEMMA ReadyFedStep ==
  ASSUME Clock, Starting \/ time > 100, Driving, Next, time >= 100, seq # <<>>, rdy
  PROVE  Driving'
<1>1. time \in Nat /\ time' = time + 1 /\ trst_n' = 1
  BY DEF Driving, Next, Clock
<1>2. drive(Head(seq)) /\ seq' = Tail(seq) /\ time > 100
  BY <1>1 DEF Next, Feed, Starting
<1>3. ~FallingEdge
  BY EdgeStep
<1>4. Wait /\ past_tck' = tck'
  BY <1>2, <1>3 DEF drive
<1>5. ~rdy' /\ state' = state /\ tms' = tms
  BY <1>4 DEF Wait, wires
<1>6. time' % 10 # 0
  BY <1>1 DEF Driving
<1>7. tck' = tck
  BY <1>6, ClockStep
<1>8. Coming' = Coming
  BY <1>1, <1>5, <1>7, ComingStep
<1>9. PICK n \in 0..10 : Waiting(seq, n)
  BY DEF Driving, Queue
<1>10. n \in 1..10 /\ Popped = 10 - n
  BY <1>9, Count
<1>11. Waiting(seq', n - 1) /\ n - 1 \in 0..10
  <2>1. Waiting(Tail(seq), n - 1)
    BY <1>9, <1>10, QueueFed
  <2>. QED BY <1>2, <1>10, <2>1
<1>12. Popped' = Popped + 1 /\ (seq' = <<>> <=> n = 1)
  <2>1. Len(Transactions) - Len(seq') = 10 - (n - 1) /\ (seq' = <<>> <=> n - 1 = 0)
    BY <1>11, QueueLength
  <2>. QED BY <1>10, <2>1 DEF Popped
<1>13. state = "RUN_TEST_IDLE" /\ tms = 0
       /\ Coming \in IF Popped = 0 THEN Between ELSE {state}
  BY DEF Driving, Place
<1>14. Place'
  <2>1. CASE n = 1
    BY <1>5, <1>8, <1>10, <1>12, <1>13, <2>1 DEF Place
  <2>2. CASE n = 10
    BY <1>5, <1>8, <1>10, <1>12, <1>13, <2>2 DEF Place, Second, Between
  <2>3. CASE n # 1 /\ n # 10
    <3>1. "RUN_TEST_IDLE" \in Scan(Mode(Popped' + 1))
      BY DEF Scan, InstrScan, DataScan
    <3>2. Popped' # 0 /\ Popped' # 1 /\ seq' # <<>>
      BY <1>10, <1>12, <2>3
    <3>3. "RUN_TEST_IDLE" \in Second("RUN_TEST_IDLE")
      BY DEF Second
    <3>. QED BY <1>5, <1>8, <1>10, <1>12, <1>13, <2>3, <3>1, <3>2 DEF Place
  <2>. QED BY <2>1, <2>2, <2>3
<1>. QED BY <1>1, <1>4, <1>5, <1>11, <1>14 DEF Driving, Queue

\* The driver works on the transaction at the front, or waits for an edge.
LEMMA FedStep ==
  ASSUME Clock, Starting \/ time > 100, Driving, Next, time >= 100, seq # <<>>, ~rdy
  PROVE  Driving'
<1>1. time \in Nat /\ time' = time + 1 /\ trst_n' = 1
  BY DEF Driving, Next, Clock
<1>2. drive(Head(seq)) /\ seq' = [seq EXCEPT ![1] = Driven(@)]
  BY <1>1 DEF Next, Feed
<1>3. PICK n \in 0..10 : Waiting(seq, n)
  BY DEF Driving, Queue
<1>4. n \in 1..10 /\ Popped = 10 - n
  BY <1>3, Count
<1>5. Waiting(seq', n)
  <2>1. Waiting([seq EXCEPT ![1] = Driven(@)], n)
    BY <1>3, <1>4, QueueFed
  <2>. QED BY <1>2, <2>1
<1>6. Popped' = Popped /\ seq' # <<>>
  <2>1. Len(Transactions) - Len(seq') = 10 - n /\ (seq' = <<>> <=> n = 0)
    BY <1>5, QueueLength
  <2>. QED BY <1>4, <2>1 DEF Popped
<1>7. Head(seq).mode = Mode(Popped + 1)
  <2>1. n > 0 /\ 11 - n = Popped + 1
    BY <1>4
  <2>. QED BY <1>3, <2>1, QueueLength
<1>8. past_tck' = tck' /\ Queue'
  BY <1>2, <1>3, <1>5 DEF drive, Queue
<1>9. Popped \in 0..9
  BY <1>4
<1>10. CASE FallingEdge
  <2>1. Coming' = TapNext(Coming, tms') /\ time' % 10 # 9
    BY <1>10, EdgeStep
  <2>2. Step(Head(seq))
    BY <1>2, <1>10 DEF drive, Wait
  <2>3. rdy' => tms' = 0
    BY <2>2, ReadyStep
  <2>4. CASE Popped = 0
    <3>1. Head(seq).mode = "JTAG_IR" /\ Coming \in First(state)
      BY <1>7, <2>4 DEF Mode, Driving, Place
    <3>2. /\ ~rdy' => Coming' \in First(state')
          /\ rdy' => state' = "RUN_TEST_IDLE" /\ Coming' \in Between
      BY <2>1, <2>2, <3>1, FirstStep
    <3>3. Place'
      BY <1>6, <2>3, <2>4, <3>2 DEF Place
    <3>. QED BY <1>1, <1>6, <1>8, <2>1, <3>3 DEF Driving
  <2>5. CASE Popped = 1
    <3>1. Head(seq).mode = "JTAG_DR" /\ Coming \in Second(state)
      BY <1>7, <2>5 DEF Mode, Driving, Place
    <3>2. /\ ~rdy' => Coming' \in Second(state')
          /\ rdy' => state' = "RUN_TEST_IDLE" /\ Coming' = state'
      BY <2>1, <2>2, <3>1, SecondStep
    <3>3. Place'
      BY <1>6, <2>3, <2>5, <3>2 DEF Place
    <3>. QED BY <1>1, <1>6, <1>8, <2>1, <3>3 DEF Driving
  <2>6. CASE Popped # 0 /\ Popped # 1
    <3>1. Coming = state /\ state \in Scan(Mode(Popped + 1))
      BY <2>6 DEF Driving, Place
    <3>2. Mode(Popped + 1) \in {"JTAG_IR", "JTAG_DR"}
      BY DEF Mode
    <3>3. /\ Coming' = state' /\ state' \in Scan(Mode(Popped + 1))
          /\ rdy' => state' = "RUN_TEST_IDLE"
      BY <1>7, <2>1, <2>2, <3>1, <3>2, ScanStep
    <3>4. Place'
      BY <1>6, <2>3, <2>6, <3>3 DEF Place
    <3>. QED BY <1>1, <1>6, <1>8, <2>1, <3>4 DEF Driving
  <2>. QED BY <2>4, <2>5, <2>6
<1>11. CASE ~FallingEdge
  <2>1. Wait
    BY <1>2, <1>11 DEF drive
  <2>2. ~rdy' /\ state' = state /\ tms' = tms
    BY <2>1 DEF Wait, wires
  <2>3. ~(tck /\ ~tck')
    <3>1. CASE time = 100
      BY <3>1 DEF Clock
    <3>2. CASE time > 100
      BY <1>11, <3>2 DEF Driving, FallingEdge
    <3>. QED BY <1>1, <3>1, <3>2
  <2>4. Coming' = Coming
    BY <1>1, <2>2, <2>3, ComingStep
  <2>5. Place'
    BY <1>6, <2>2, <2>4 DEF Driving, Place
  <2>. QED BY <1>1, <1>8, <2>2, <2>5 DEF Driving
<1>. QED BY <1>10, <1>11

\* One iteration of the loop, whatever the driver does in it.
LEMMA DriveStep ==
  ASSUME Clock, Starting \/ time > 100, Driving, Next, time >= 100
  PROVE  Driving'
BY QuietStep, ReadyFedStep, FedStep

-----------------------------------------------------------------------------
(* The theorems. *)

\* The invariant holds when the simulation starts.
LEMMA InvInit == Init => IInv
<1>. SUFFICES ASSUME Init PROVE IInv
  OBVIOUS
<1>1. Clock /\ time = 0
  <2>1. time = 0 /\ tck = FALSE
    BY DEF Init
  <2>2. ASSUME NEW t, t = 0 PROVE (t \div 10) % 2 # 1
    BY <2>2
  <2>3. (time \div 10) % 2 # 1
    BY <2>1, <2>2
  <2>4. tck \in BOOLEAN /\ (tck <=> (time \div 10) % 2 = 1)
    BY <2>1, <2>3
  <2>. QED BY <2>1, <2>4 DEF Clock
<1>2. Starting
  BY <1>1 DEF Init, DriverInit, TapInit, Starting
<1>. QED BY <1>1, <1>2 DEF IInv

\* And every step keeps it.
LEMMA InvStep == IInv /\ [Next]_vars => IInv'
<1>. SUFFICES ASSUME IInv, [Next]_vars PROVE IInv'
  OBVIOUS
<1>1. CASE Next
  <2>1. Clock /\ Clock' /\ time \in Nat /\ time' = time + 1
    BY <1>1, ClockStep DEF IInv, Clock
  <2>2. CASE time < 100
    <3>1. Starting'
      BY <1>1, <2>1, <2>2, StartStep DEF IInv
    <3>. QED BY <2>1, <2>2, <3>1 DEF IInv
  <2>3. CASE time = 100
    <3>1. Driving /\ Starting
      BY <2>1, <2>3, StartEnds DEF IInv
    <3>. QED BY <1>1, <2>1, <2>3, <3>1, DriveStep DEF IInv
  <2>4. CASE time > 100
    BY <1>1, <2>1, <2>4, DriveStep DEF IInv
  <2>. QED BY <2>1, <2>2, <2>3, <2>4
<1>2. CASE UNCHANGED vars
  BY <1>2 DEF vars, wires, driverVars, tapVars, IInv, Clock, Starting, Driving, Queue,
              Waiting, Place, Popped, Coming
<1>. QED BY <1>1, <1>2

\* The invariant: the clock, the way of the port through its reset, and where
\* the port is, as far as the driver has come with its transactions.
THEOREM DriverInvariant == Spec => []IInv
BY InvInit, InvStep, PTL DEF Spec

\* Whatever the memory of the driver held, whatever its counters, however slow
\* the debug module and however long the simulation: from the third
\* transaction on the driver takes the port to be where it is (drive).
THEOREM DriverInStep == Spec => []InStep
<1>1. IInv => InStep
  <2>. SUFFICES ASSUME IInv, Popped >= 2 PROVE Agree
    BY DEF InStep
  <2>1. time > 100
    <3>1. ASSUME time <= 100 PROVE Popped = 0
      BY <3>1 DEF IInv, Starting, Popped, Transactions
    <3>. QED BY <3>1 DEF IInv, Clock
  <2>2. Coming = state
    <3>1. PICK n \in 0..10 : Waiting(seq, n)
      BY <2>1 DEF IInv, Clock, Driving, Queue
    <3>2. Popped # 0 /\ Popped # 1
      BY <3>1, Count
    <3>. QED BY <2>1, <3>2 DEF IInv, Clock, Driving, Place
  <2>. QED BY <2>2 DEF Agree, Coming
<1>. QED BY <1>1, DriverInvariant, PTL

-----------------------------------------------------------------------------
(* Strings of bits and the numbers they stand for. *)

Bit == {0, 1}
BitString(n) == [1..n -> Bit]

\* The first powers of two.
LEMMA PowersOfTwo ==
  /\ 2^0 = 1 /\ 2^1 = 2 /\ 2^2 = 4 /\ 2^3 = 8 /\ 2^4 = 16 /\ 2^5 = 32 /\ 2^6 = 64 /\ 2^7 = 128
  /\ 2^8 = 256 /\ 2^9 = 512 /\ 2^10 = 1024 /\ 2^11 = 2048 /\ 2^12 = 4096 /\ 2^13 = 8192
  /\ 2^14 = 16384 /\ 2^15 = 32768 /\ 2^16 = 65536 /\ 2^17 = 131072 /\ 2^18 = 262144
  /\ 2^19 = 524288 /\ 2^20 = 1048576 /\ 2^21 = 2097152 /\ 2^22 = 4194304 /\ 2^23 = 8388608
  /\ 2^24 = 16777216 /\ 2^25 = 33554432 /\ 2^26 = 67108864 /\ 2^27 = 134217728
  /\ 2^28 = 268435456 /\ 2^29 = 536870912 /\ 2^30 = 1073741824
OBVIOUS

\* All of them are positive.
LEMMA PositivePower ==
  ASSUME NEW k \in 0..30
  PROVE  2^k \in Nat \ {0}
<1> DEFINE p == [n \in 0..30 |-> 2^n]
<1>1. /\ p[0] = 1 /\ p[1] = 2 /\ p[2] = 4 /\ p[3] = 8 /\ p[4] = 16 /\ p[5] = 32 /\ p[6] = 64 /\ p[7] = 128
      /\ p[8] = 256 /\ p[9] = 512 /\ p[10] = 1024 /\ p[11] = 2048 /\ p[12] = 4096 /\ p[13] = 8192 /\ p[14] = 16384
      /\ p[15] = 32768 /\ p[16] = 65536 /\ p[17] = 131072 /\ p[18] = 262144 /\ p[19] = 524288 /\ p[20] = 1048576
      /\ p[21] = 2097152 /\ p[22] = 4194304 /\ p[23] = 8388608 /\ p[24] = 16777216 /\ p[25] = 33554432
      /\ p[26] = 67108864 /\ p[27] = 134217728 /\ p[28] = 268435456 /\ p[29] = 536870912 /\ p[30] = 1073741824
  BY PowersOfTwo
<1>2. p[k] = 2^k
  OBVIOUS
<1> HIDE DEF p
<1>3. \A n \in 0..30 : p[n] \in Nat \ {0}
  BY <1>1
<1>. QED BY <1>2, <1>3

\* Bits gives a string of bits.
LEMMA BitsAreBits ==
  ASSUME NEW x \in Nat, NEW n \in Nat
  PROVE  Bits(x, n) \in BitString(n)
<1>1. ASSUME NEW i \in 1..n, i <= 31 PROVE (x \div 2^(i - 1)) % 2 \in Bit
  <2> DEFINE p == 2^(i - 1)
  <2>1. p \in Nat \ {0}
    <3>1. i - 1 \in 0..30
      BY <1>1
    <3>. QED BY <3>1, PositivePower
  <2>. HIDE DEF p
  <2>2. (x \div p) \in Nat
    BY <2>1
  <2>3. (x \div p) % 2 \in Bit
    BY <2>2 DEF Bit
  <2>. QED BY <2>3 DEF p
<1>. QED BY <1>1 DEF Bits, BitString, Bit

\* No bit of zero is set.
LEMMA ZeroBits ==
  ASSUME NEW n \in Nat
  PROVE  Bits(0, n) = [i \in 1..n |-> 0]
<1>1. ASSUME NEW i \in 1..n, i <= 31 PROVE (0 \div 2^(i - 1)) % 2 = 0
  <2> DEFINE p == 2^(i - 1)
  <2>1. p \in Nat \ {0}
    <3>1. i - 1 \in 0..30
      BY <1>1
    <3>. QED BY <3>1, PositivePower
  <2>. HIDE DEF p
  <2>2. 0 \div p = 0
    BY <2>1
  <2>3. (0 \div p) % 2 = 0
    BY <2>2
  <2>. QED BY <2>3 DEF p
<1>. QED BY <1>1 DEF Bits

-----------------------------------------------------------------------------
(* Functions that the model defines from one value to the next. *)

\* Induction over numbers, said of a set.
LEMMA Induction ==
  ASSUME NEW S, 0 \in S, \A n \in Nat : n \in S => n + 1 \in S
  PROVE  Nat \subseteq S
<1> DEFINE R == OpToRel(<, Nat)
           Outside == Nat \ S
<1>1. IsWellFoundedOn(R, Nat)
  BY NatLessThanWellFounded
<1>2. \A x, y \in Nat : x < y => <<x, y>> \in R
  BY DEF OpToRel
<1> HIDE DEF R
<1> SUFFICES ASSUME Outside # {} PROVE FALSE
  OBVIOUS
<1>3. Outside \subseteq Nat
  OBVIOUS
<1>4. PICK n \in Outside : \A m \in Outside : ~(<<m, n>> \in R)
  BY <1>1, <1>3, WFMin
<1>5. \A m \in Outside : ~(m < n)
  BY <1>2, <1>4
<1>6. n # 0 /\ n - 1 \in Nat
  OBVIOUS
<1>. QED BY <1>5, <1>6

\* g and h begin with the same value at b, and go on the same way up to n.
Alike(g, h, b, n) == /\ g[b] = h[b]
                     /\ \A k \in b + 1..n : g[k - 1] = h[k - 1] => g[k] = h[k]

\* So all their values are the same.
LEMMA SameFrom ==
  ASSUME NEW n \in Nat, NEW b \in {0, 1}, NEW g, NEW h, Alike(g, h, b, n)
  PROVE  \A k \in b..n : g[k] = h[k]
<1> USE DEF Alike
<1> DEFINE M == {m \in Nat : m >= b /\ m <= n => g[m] = h[m]}
<1>1. 0 \in M
  OBVIOUS
<1>2. ASSUME NEW m \in Nat, m \in M PROVE m + 1 \in M
  <2>1. ASSUME m + 1 >= b, m + 1 <= n PROVE g[m + 1] = h[m + 1]
    <3>1. CASE m + 1 = b
      BY <3>1
    <3>2. CASE m + 1 # b
      <4>1. m + 1 \in b + 1..n /\ (m + 1) - 1 = m /\ g[m] = h[m]
        BY <1>2, <2>1, <3>2
      <4>. QED BY <4>1
    <3>. QED BY <3>1, <3>2
  <2>. QED BY <2>1
<1> HIDE DEF M
<1>3. Nat \subseteq M
  BY <1>1, <1>2, Induction
<1>. QED BY <1>3 DEF M

\* The partial sums of the value of a bit string.
Sums(h, s, n) == /\ h = [i \in 0..n |-> h[i]] /\ h[0] = 0
                 /\ \A i \in 1..n : h[i] = h[i - 1] + s[i] * 2^(i - 1)

\* The last one is the value.
LEMMA NumberIs ==
  ASSUME NEW n \in Nat, NEW s, Len(s) = n, NEW h, Sums(h, s, n)
  PROVE  number(s) = h[n]
<1> USE DEF Sums
<1> DEFINE Body(g, i) == IF i = 0 THEN 0 ELSE g[i - 1] + s[i] * 2^(i - 1)
           value == CHOOSE g : g = [i \in 0..Len(s) |-> Body(g, i)]
<1>1. h = [i \in 0..Len(s) |-> Body(h, i)]
  <2>1. ASSUME NEW i \in 0..n PROVE h[i] = Body(h, i)
    <3>1. CASE i = 0
      BY <3>1
    <3>2. CASE i # 0
      <4>1. i \in 1..n
        BY <3>2
      <4>. QED BY <3>2, <4>1
    <3>. QED BY <3>1, <3>2
  <2>. QED BY <2>1
<1>2. value = [i \in 0..Len(s) |-> Body(value, i)]
  BY <1>1
<1>3. number(s) = value[Len(s)]
  BY DEF number
<1> HIDE DEF value
<1>4. value[0] = h[0]
  BY <1>2
<1>5. ASSUME NEW k \in 0 + 1..n, value[k - 1] = h[k - 1] PROVE value[k] = h[k]
  <2>1. k \in 1..n /\ k \in 0..n /\ k # 0
    OBVIOUS
  <2>2. value[k] = value[k - 1] + s[k] * 2^(k - 1)
    BY <1>2, <2>1
  <2>. QED BY <1>5, <2>1, <2>2
<1>6. \A k \in 0..n : value[k] = h[k]
  <2>1. Alike(value, h, 0, n)
    BY <1>4, <1>5 DEF Alike
  <2>2. 0 \in {0, 1}
    OBVIOUS
  <2>. QED BY <2>1, <2>2, SameFrom
<1>. QED BY <1>3, <1>6

\* The beginnings of a sequence of sequences, each in one.
Beginnings(h, q, n) == /\ h = [i \in 1..n |-> h[i]] /\ h[1] = q[1]
                       /\ \A i \in 2..n : h[i] = h[i - 1] \o q[i]

\* The last one is all of them.
LEMMA FlattenIs ==
  ASSUME NEW n \in Nat, n # 0, NEW q, Len(q) = n, NEW h, Beginnings(h, q, n)
  PROVE  FlattenSeq(q) = h[n]
<1> USE DEF Beginnings
<1> DEFINE Body(g, i) == IF i = 1 THEN q[i] ELSE g[i - 1] \o q[i]
           flatten == CHOOSE g : g = [i \in 1..Len(q) |-> Body(g, i)]
<1>1. h = [i \in 1..Len(q) |-> Body(h, i)]
  <2>1. ASSUME NEW i \in 1..n PROVE h[i] = Body(h, i)
    <3>1. CASE i = 1
      BY <3>1
    <3>2. CASE i # 1
      <4>1. i \in 2..n
        BY <3>2
      <4>. QED BY <3>2, <4>1
    <3>. QED BY <3>1, <3>2
  <2>. QED BY <2>1
<1>2. flatten = [i \in 1..Len(q) |-> Body(flatten, i)]
  BY <1>1
<1>3. FlattenSeq(q) = flatten[Len(q)]
  BY DEF FlattenSeq
<1> HIDE DEF flatten
<1>4. flatten[1] = h[1]
  BY <1>2
<1>5. ASSUME NEW k \in 1 + 1..n, flatten[k - 1] = h[k - 1] PROVE flatten[k] = h[k]
  <2>1. k \in 1..n /\ k \in 2..n /\ k # 1
    OBVIOUS
  <2>2. flatten[k] = flatten[k - 1] \o q[k]
    BY <1>2, <2>1
  <2>. QED BY <1>5, <2>1, <2>2
<1>6. \A k \in 1..n : flatten[k] = h[k]
  <2>1. Alike(flatten, h, 1, n)
    BY <1>4, <1>5 DEF Alike
  <2>2. 1 \in {0, 1}
    OBVIOUS
  <2>. QED BY <2>1, <2>2, SameFrom
<1>. QED BY <1>3, <1>6

\* A string of bits as a sequence.
LEMMA BitNumbers ==
  ASSUME NEW n \in Nat, NEW s \in BitString(n)
  PROVE  Len(s) = n /\ s \in Seq(Bit) /\ \A i \in 1..n : s[i] \in Nat
BY DEF BitString, Bit

\* The values of strings of two, five and seven bits.
LEMMA NumberOf2 ==
  ASSUME NEW s \in BitString(2)
  PROVE  number(s) = s[1] + s[2] * 2
<1> DEFINE h == [i \in 0..2 |-> IF i = 0 THEN 0 ELSE IF i = 1 THEN s[1] ELSE s[1] + s[2] * 2]
<1>1. Len(s) = 2 /\ \A i \in 1..2 : s[i] \in Nat
  BY BitNumbers
<1>2. h = [i \in 0..2 |-> h[i]] /\ h[0] = 0 /\ h[1] = s[1] /\ h[2] = s[1] + s[2] * 2
  OBVIOUS
<1> HIDE DEF h
<1>3. \A i \in 1..2 : h[i] = h[i - 1] + s[i] * 2^(i - 1)
  <2>1. h[1] = h[1 - 1] + s[1] * 2^(1 - 1)
    BY <1>1, <1>2
  <2>2. h[2] = h[2 - 1] + s[2] * 2^(2 - 1)
    BY <1>1, <1>2
  <2>3. \A i \in 1..2 : i = 1 \/ i = 2
    OBVIOUS
  <2>. QED BY <2>1, <2>2, <2>3, Zenon
<1>4. number(s) = h[2]
  <2>1. Sums(h, s, 2)
    BY <1>2, <1>3 DEF Sums
  <2>. QED BY <1>1, <2>1, NumberIs
<1>. QED BY <1>2, <1>4

\* Five bits: the instruction register.
LEMMA NumberOf5 ==
  ASSUME NEW s \in BitString(5)
  PROVE  number(s) = s[1] + s[2] * 2 + s[3] * 4 + s[4] * 8 + s[5] * 16
<1> DEFINE h == [i \in 0..5 |->
                   IF i = 0 THEN 0 ELSE IF i = 1 THEN s[1] ELSE IF i = 2 THEN s[1] + s[2] * 2
                   ELSE IF i = 3 THEN s[1] + s[2] * 2 + s[3] * 4
                   ELSE IF i = 4 THEN s[1] + s[2] * 2 + s[3] * 4 + s[4] * 8
                   ELSE s[1] + s[2] * 2 + s[3] * 4 + s[4] * 8 + s[5] * 16]
<1>1. Len(s) = 5 /\ \A i \in 1..5 : s[i] \in Nat
  BY BitNumbers
<1>2. /\ h = [i \in 0..5 |-> h[i]] /\ h[0] = 0 /\ h[1] = s[1] /\ h[2] = s[1] + s[2] * 2
      /\ h[3] = s[1] + s[2] * 2 + s[3] * 4
      /\ h[4] = s[1] + s[2] * 2 + s[3] * 4 + s[4] * 8
      /\ h[5] = s[1] + s[2] * 2 + s[3] * 4 + s[4] * 8 + s[5] * 16
  OBVIOUS
<1> HIDE DEF h
<1>3. \A i \in 1..5 : h[i] = h[i - 1] + s[i] * 2^(i - 1)
  <2>1. h[1] = h[1 - 1] + s[1] * 2^(1 - 1)
    BY <1>1, <1>2
  <2>2. h[2] = h[2 - 1] + s[2] * 2^(2 - 1)
    BY <1>1, <1>2
  <2>3. h[3] = h[3 - 1] + s[3] * 2^(3 - 1)
    BY <1>1, <1>2
  <2>4. h[4] = h[4 - 1] + s[4] * 2^(4 - 1)
    BY <1>1, <1>2
  <2>5. h[5] = h[5 - 1] + s[5] * 2^(5 - 1)
    BY <1>1, <1>2
  <2>6. \A i \in 1..5 : i = 1 \/ i = 2 \/ i = 3 \/ i = 4 \/ i = 5
    OBVIOUS
  <2>. QED BY <2>1, <2>2, <2>3, <2>4, <2>5, <2>6, Zenon
<1>4. number(s) = h[5]
  <2>1. Sums(h, s, 5)
    BY <1>2, <1>3 DEF Sums
  <2>. QED BY <1>1, <2>1, NumberIs
<1>. QED BY <1>2, <1>4

\* Seven bits: the address of a request.
LEMMA NumberOf7 ==
  ASSUME NEW s \in BitString(7)
  PROVE  number(s) = s[1] + s[2] * 2 + s[3] * 4 + s[4] * 8 + s[5] * 16 + s[6] * 32 + s[7] * 64
<1> DEFINE h == [i \in 0..7 |->
                   IF i = 0 THEN 0 ELSE IF i = 1 THEN s[1] ELSE IF i = 2 THEN s[1] + s[2] * 2
                   ELSE IF i = 3 THEN s[1] + s[2] * 2 + s[3] * 4
                   ELSE IF i = 4 THEN s[1] + s[2] * 2 + s[3] * 4 + s[4] * 8
                   ELSE IF i = 5 THEN s[1] + s[2] * 2 + s[3] * 4 + s[4] * 8 + s[5] * 16
                   ELSE IF i = 6 THEN s[1] + s[2] * 2 + s[3] * 4 + s[4] * 8 + s[5] * 16 + s[6] * 32
                   ELSE s[1] + s[2] * 2 + s[3] * 4 + s[4] * 8 + s[5] * 16 + s[6] * 32 + s[7] * 64]
<1>1. Len(s) = 7 /\ \A i \in 1..7 : s[i] \in Nat
  BY BitNumbers
<1>2. /\ h = [i \in 0..7 |-> h[i]] /\ h[0] = 0 /\ h[1] = s[1] /\ h[2] = s[1] + s[2] * 2
      /\ h[3] = s[1] + s[2] * 2 + s[3] * 4
      /\ h[4] = s[1] + s[2] * 2 + s[3] * 4 + s[4] * 8
      /\ h[5] = s[1] + s[2] * 2 + s[3] * 4 + s[4] * 8 + s[5] * 16
      /\ h[6] = s[1] + s[2] * 2 + s[3] * 4 + s[4] * 8 + s[5] * 16 + s[6] * 32
      /\ h[7] = s[1] + s[2] * 2 + s[3] * 4 + s[4] * 8 + s[5] * 16 + s[6] * 32 + s[7] * 64
  OBVIOUS
<1> HIDE DEF h
<1>3. \A i \in 1..7 : h[i] = h[i - 1] + s[i] * 2^(i - 1)
  <2>1. h[1] = h[1 - 1] + s[1] * 2^(1 - 1)
    BY <1>1, <1>2
  <2>2. h[2] = h[2 - 1] + s[2] * 2^(2 - 1)
    BY <1>1, <1>2
  <2>3. h[3] = h[3 - 1] + s[3] * 2^(3 - 1)
    BY <1>1, <1>2
  <2>4. h[4] = h[4 - 1] + s[4] * 2^(4 - 1)
    BY <1>1, <1>2
  <2>5. h[5] = h[5 - 1] + s[5] * 2^(5 - 1)
    BY <1>1, <1>2
  <2>6. h[6] = h[6 - 1] + s[6] * 2^(6 - 1)
    BY <1>1, <1>2
  <2>7. h[7] = h[7 - 1] + s[7] * 2^(7 - 1)
    BY <1>1, <1>2
  <2>8. \A i \in 1..7 : i = 1 \/ i = 2 \/ i = 3 \/ i = 4 \/ i = 5 \/ i = 6 \/ i = 7
    OBVIOUS
  <2>. QED BY <2>1, <2>2, <2>3, <2>4, <2>5, <2>6, <2>7, <2>8, Zenon
<1>4. number(s) = h[7]
  <2>1. Sums(h, s, 7)
    BY <1>2, <1>3 DEF Sums
  <2>. QED BY <1>1, <2>1, NumberIs
<1>. QED BY <1>2, <1>4

\* The bits of s and behind them those of t.
Joins(r, s, t, m, n) ==
  /\ r \in BitString(m + n)
  /\ \A i \in 1..m : r[i] = s[i]
  /\ \A i \in 1..n : r[m + i] = t[i]

\* Two strings of bits one behind the other.
LEMMA JoinedBits ==
  ASSUME NEW m \in Nat, NEW n \in Nat, NEW s \in BitString(m), NEW t \in BitString(n)
  PROVE  Joins(s \o t, s, t, m, n)
<1>1. s \in Seq(Bit) /\ t \in Seq(Bit) /\ Len(s) = m /\ Len(t) = n
  BY BitNumbers
<1>2. s \o t \in Seq(Bit) /\ Len(s \o t) = m + n
      /\ \A i \in 1..m + n : (s \o t)[i] = IF i <= m THEN s[i] ELSE t[i - m]
  BY <1>1
<1>3. s \o t \in BitString(m + n)
  <2> DEFINE u == s \o t
             l == m + n
  <2>1. u \in Seq(Bit) /\ Len(u) = l /\ l \in Nat
    BY <1>2
  <2> HIDE DEF u, l
  <2>2. u \in [1..l -> Bit]
    BY <2>1
  <2>. QED BY <2>2 DEF BitString, u, l
<1>4. ASSUME NEW i \in 1..n PROVE (s \o t)[m + i] = t[i]
  <2>1. m + i \in 1..m + n /\ ~(m + i <= m) /\ (m + i) - m = i
    OBVIOUS
  <2>. QED BY <1>2, <2>1
<1>5. \A i \in 1..m : (s \o t)[i] = s[i]
  BY <1>2
<1>. QED BY <1>3, <1>4, <1>5 DEF Joins

\* The bits of op, data and address are at their places in d.
MadeOf(d, op, data, address) ==
  /\ d \in BitString(41)
  /\ SubSeq(d, 1, 2) = Bits(op, 2) /\ SubSeq(d, 3, 34) = data
  /\ SubSeq(d, 35, 41) = Bits(address, 7)

\* What the request of a read or a write is made of can be taken out of it.
LEMMA DmiIs ==
  ASSUME NEW op \in Nat, NEW data \in BitString(32), NEW address \in Nat,
         NEW d, d = dmi_t(op, data, address)
  PROVE  MadeOf(d, op, data, address)
<1> DEFINE a == Bits(op, 2)
           c == Bits(address, 7)
           e == a \o data
<1>1. a \in BitString(2) /\ c \in BitString(7)
  BY BitsAreBits
<1>2. d = e \o c
  BY DEF dmi_t
<1> HIDE DEF a, c
<1>3. Joins(e, a, data, 2, 32)
  BY <1>1, JoinedBits
<1> HIDE DEF e
<1>4. e \in BitString(34)
  BY <1>3 DEF Joins
<1>5. Joins(d, e, c, 34, 7)
  BY <1>1, <1>2, <1>4, JoinedBits
<1>6. d \in BitString(41)
  BY <1>5 DEF Joins
<1>7. d \in Seq(Bit) /\ Len(d) = 41
  BY <1>6, BitNumbers
<1>8. SubSeq(d, 1, 2) = a
  <2>1. SubSeq(d, 1, 2) = [i \in 1..2 |-> d[i]]
    BY <1>7
  <2>2. \A i \in 1..2 : d[i] = a[i]
    BY <1>3, <1>5 DEF Joins
  <2>. QED BY <1>1, <2>1, <2>2 DEF BitString
<1>9. SubSeq(d, 3, 34) = data
  <2>1. SubSeq(d, 3, 34) = [i \in 1..32 |-> d[2 + i]]
    BY <1>7
  <2>2. ASSUME NEW i \in 1..32 PROVE d[2 + i] = data[i]
    <3>1. 2 + i \in 1..34
      OBVIOUS
    <3>. QED BY <1>3, <1>5, <3>1 DEF Joins
  <2>. QED BY <2>1, <2>2 DEF BitString
<1>10. SubSeq(d, 35, 41) = c
  <2>1. SubSeq(d, 35, 41) = [i \in 1..7 |-> d[34 + i]]
    BY <1>7
  <2>2. \A i \in 1..7 : d[34 + i] = c[i]
    BY <1>5 DEF Joins
  <2>. QED BY <1>1, <2>1, <2>2 DEF BitString
<1>. QED BY <1>6, <1>8, <1>9, <1>10 DEF a, c, MadeOf

\* The bits of the numbers that go through the port.
LEMMA SmallBits ==
  /\ Bits(1, 1)[1] = 1
  /\ Bits(0, 2)[1] = 0 /\ Bits(0, 2)[2] = 0
  /\ Bits(1, 2)[1] = 1 /\ Bits(1, 2)[2] = 0
  /\ Bits(2, 2)[1] = 0 /\ Bits(2, 2)[2] = 1
  /\ Bits(1, 8)[5] = 0
  /\ Bits(17, 8)[1] = 1 /\ Bits(17, 8)[2] = 0 /\ Bits(17, 8)[3] = 0 /\ Bits(17, 8)[4] = 0 /\ Bits(17, 8)[5] = 1
BY DEF Bits

\* The operations come back from their bits.
LEMMA OperationNumbers ==
  /\ number(Bits(0, 2)) = 0 /\ number(Bits(1, 2)) = 1 /\ number(Bits(2, 2)) = 2
<1>1. \A x \in Nat : Bits(x, 2) \in BitString(2)
  BY BitsAreBits
<1>2. \A x \in Nat : number(Bits(x, 2)) = Bits(x, 2)[1] + Bits(x, 2)[2] * 2
  BY <1>1, NumberOf2
<1>. QED BY <1>2, SmallBits

Sum7(s) == s[1] + s[2] * 2 + s[3] * 4 + s[4] * 8 + s[5] * 16 + s[6] * 32 + s[7] * 64

\* The sum that the seven bits of an address make.
LEMMA AddressBits ==
  /\ Sum7(Bits(0, 7)) = 0 /\ Sum7(Bits(4, 7)) = 4 /\ Sum7(Bits(16, 7)) = 16
  /\ Sum7(Bits(17, 7)) = 17 /\ Sum7(Bits(23, 7)) = 23
<1>1. ASSUME NEW x \in Nat
      PROVE  Sum7(Bits(x, 7)) = (x % 2) + ((x \div 2) % 2) * 2 + ((x \div 4) % 2) * 4 + ((x \div 8) % 2) * 8
                + ((x \div 16) % 2) * 16 + ((x \div 32) % 2) * 32 + ((x \div 64) % 2) * 64
  <2> DEFINE b == Bits(x, 7)
  <2>1. \A i \in 1..7 : b[i] = (x \div 2^(i - 1)) % 2
    BY DEF Bits
  <2> HIDE DEF b
  <2>2. b[1] = x % 2 /\ b[2] = (x \div 2) % 2 /\ b[3] = (x \div 4) % 2 /\ b[4] = (x \div 8) % 2
        /\ b[5] = (x \div 16) % 2 /\ b[6] = (x \div 32) % 2 /\ b[7] = (x \div 64) % 2
    <3>1. b[1] = (x \div 2^(1 - 1)) % 2 /\ b[2] = (x \div 2^(2 - 1)) % 2 /\ b[3] = (x \div 2^(3 - 1)) % 2
          /\ b[4] = (x \div 2^(4 - 1)) % 2 /\ b[5] = (x \div 2^(5 - 1)) % 2 /\ b[6] = (x \div 2^(6 - 1)) % 2
          /\ b[7] = (x \div 2^(7 - 1)) % 2
      BY <2>1
    <3>2. 2^(1 - 1) = 1 /\ 2^(2 - 1) = 2 /\ 2^(3 - 1) = 4 /\ 2^(4 - 1) = 8 /\ 2^(5 - 1) = 16
          /\ 2^(6 - 1) = 32 /\ 2^(7 - 1) = 64
      OBVIOUS
    <3>3. x \div 1 = x
      OBVIOUS
    <3>. QED BY <3>1, <3>2, <3>3
  <2>3. Sum7(b) = (x % 2) + ((x \div 2) % 2) * 2 + ((x \div 4) % 2) * 4 + ((x \div 8) % 2) * 8
                + ((x \div 16) % 2) * 16 + ((x \div 32) % 2) * 32 + ((x \div 64) % 2) * 64
    BY <2>2 DEF Sum7
  <2>. QED BY <2>3 DEF b
<1>. QED BY <1>1

\* The addresses come back from their bits.
LEMMA AddressNumbers ==
  /\ number(Bits(0, 7)) = 0 /\ number(Bits(4, 7)) = 4 /\ number(Bits(16, 7)) = 16
  /\ number(Bits(17, 7)) = 17 /\ number(Bits(23, 7)) = 23
<1>1. ASSUME NEW x \in Nat PROVE number(Bits(x, 7)) = Sum7(Bits(x, 7))
  <2>1. Bits(x, 7) \in BitString(7)
    BY BitsAreBits
  <2>. QED BY <2>1, NumberOf7 DEF Sum7
<1>. QED BY <1>1, AddressBits

-----------------------------------------------------------------------------
(* Registers *)

Zero(n) == [i \in 1..n |-> 0]
Lowest(n) == [i \in 1..n |-> IF i = 1 THEN 1 ELSE 0]

\* The bits of zero.
LEMMA ZeroIs == ASSUME NEW n \in Nat PROVE Zero(n) \in BitString(n) /\ Bits(0, n) = Zero(n)
BY ZeroBits DEF Zero, BitString, Bit

\* Zeros above leave only the lowest bit set.
LEMMA LowestJoined ==
  ASSUME NEW m \in Nat \ {0}, NEW n \in Nat
  PROVE  Lowest(m) \o Zero(n) = Lowest(m + n)
<1> DEFINE s == Lowest(m)
           t == Zero(n)
           r == s \o t
           l == m + n
<1>1. s \in BitString(m) /\ t \in BitString(n)
  BY DEF Lowest, Zero, BitString, Bit
<1>2. /\ \A i \in 1..m : s[i] = IF i = 1 THEN 1 ELSE 0
      /\ \A i \in 1..n : t[i] = 0
  BY DEF Lowest, Zero
<1> HIDE DEF s, t
<1>3. Joins(r, s, t, m, n)
  BY <1>1, JoinedBits
<1> HIDE DEF r
<1>4. r \in BitString(l) /\ l \in Nat
  BY <1>3 DEF Joins
<1>5. ASSUME NEW i \in 1..l PROVE r[i] = IF i = 1 THEN 1 ELSE 0
  <2>1. CASE i \in 1..m
    BY <1>2, <1>3, <2>1 DEF Joins
  <2>2. CASE i \notin 1..m
    <3>1. i - m \in 1..n /\ m + (i - m) = i /\ i # 1
      BY <2>2
    <3>2. r[m + (i - m)] = t[i - m]
      BY <1>3, <3>1 DEF Joins
    <3>. QED BY <1>2, <3>1, <3>2
  <2>. QED BY <2>1, <2>2
<1> HIDE DEF l
<1>6. r = Lowest(l)
  BY <1>4, <1>5 DEF BitString, Lowest
<1>. QED BY <1>6 DEF r, s, t, l

\* The widths of the fields of dmcontrol_t, and where they end.
Width(i) == CASE i = 5 -> 2 [] i \in {6, 7} -> 10 [] OTHER -> 1
Ends == <<1, 2, 3, 4, 6, 16, 26, 27, 28, 29, 30, 31, 32>>

\* What the layout of dmcontrol_t says.
LEMMA FieldWidths ==
  /\ Len(dmcontrol_t) = 13 /\ dmcontrol_t[1][1] = "dmactive" /\ dmcontrol_t[13][1] = "haltreq"
  /\ \A i \in 2..12 : dmcontrol_t[i][1] \notin {"dmactive", "haltreq"}
  /\ \A i \in 1..13 : dmcontrol_t[i][2] = Width(i)
BY DEF dmcontrol_t, Width

\* Each field begins where the last one ends.
LEMMA EndWidths ==
  /\ Ends[1] = 1 /\ Ends[13] = 32 /\ Ends[12] = 31
  /\ \A i \in 1..13 : Ends[i] \in Nat \ {0}
  /\ \A i \in 2..13 : Ends[i] = Ends[i - 1] + Width(i)
<1>1. /\ Ends[1] = 1 /\ Ends[2] = 2 /\ Ends[3] = 3 /\ Ends[4] = 4 /\ Ends[5] = 6 /\ Ends[6] = 16 /\ Ends[7] = 26
      /\ Ends[8] = 27 /\ Ends[9] = 28 /\ Ends[10] = 29 /\ Ends[11] = 30 /\ Ends[12] = 31 /\ Ends[13] = 32
  BY DEF Ends
<1>2. ASSUME NEW i \in 2..13 PROVE Ends[i] = Ends[i - 1] + Width(i)
  <2>1. i \in {2, 3, 4, 5, 6, 7, 8, 9, 10, 11, 12, 13}
    OBVIOUS
  <2>. QED BY <1>1, <2>1 DEF Width
<1>. QED BY <1>1, <1>2

\* The length of a sequence that is given by its elements.
LEMMA LengthIs ==
  ASSUME NEW n \in Nat, NEW g, g = [i \in 1..n |-> g[i]]
  PROVE  Len(g) = n
OBVIOUS

\* Where only the lowest bit is set.
LEMMA ActiveIs ==
  ASSUME NEW f, f = [dmactive |-> 1]
  PROVE  Register(dmcontrol_t, f) = Lowest(32)
<1> DEFINE q == [i \in 1..Len(dmcontrol_t) |->
                   LET name == dmcontrol_t[i][1]
                   IN Bits(IF name \in DOMAIN f THEN f[name] ELSE 0, dmcontrol_t[i][2])]
           h == [i \in 1..13 |-> Lowest(Ends[i])]
<1>1. Register(dmcontrol_t, f) = FlattenSeq(q)
  BY DEF Register
<1>2. DOMAIN f = {"dmactive"} /\ f["dmactive"] = 1
  OBVIOUS
<1>3. Len(q) = 13 /\ q[1] = Bits(1, 1) /\ \A i \in 2..13 : q[i] = Bits(0, Width(i))
  <2>1. Len(dmcontrol_t) = 13
    BY FieldWidths
  <2>2. q = [i \in 1..13 |->
               LET name == dmcontrol_t[i][1]
               IN Bits(IF name \in DOMAIN f THEN f[name] ELSE 0, dmcontrol_t[i][2])]
    BY <2>1
  <2>3. q[1] = Bits(1, 1)
    BY <1>2, <2>2, FieldWidths DEF Width
  <2>4. ASSUME NEW i \in 2..13 PROVE q[i] = Bits(0, Width(i))
    <3>1. dmcontrol_t[i][1] # "dmactive" /\ dmcontrol_t[i][2] = Width(i)
      BY FieldWidths
    <3>. QED BY <1>2, <2>2, <3>1
  <2>5. Len(q) = 13
    <3>1. q = [i \in 1..13 |-> q[i]]
      BY <2>2
    <3> HIDE DEF q
    <3>. QED BY <3>1, LengthIs
  <2>. QED BY <2>3, <2>4, <2>5
<1> HIDE DEF q
<1>4. Beginnings(h, q, 13)
  <2>1. h[1] = q[1]
    <3>1. q[1] = Lowest(1)
      BY <1>3, SmallBits DEF Bits, Lowest
    <3>. QED BY <3>1, EndWidths
  <2>2. ASSUME NEW i \in 2..13 PROVE h[i] = h[i - 1] \o q[i]
    <3> DEFINE m == Ends[i - 1]
               n == Width(i)
    <3>1. m \in Nat \ {0} /\ n \in Nat /\ Ends[i] = m + n
      <4>1. i - 1 \in 1..13 /\ i \in 2..13
        OBVIOUS
      <4>2. n \in Nat
        BY DEF Width
      <4>. QED BY <4>1, <4>2, EndWidths
    <3>2. h[i - 1] = Lowest(m) /\ h[i] = Lowest(Ends[i]) /\ q[i] = Bits(0, n)
      BY <1>3
    <3> HIDE DEF m, n, h
    <3>3. q[i] = Zero(n)
      BY <3>1, <3>2, ZeroIs
    <3>4. Lowest(m) \o Zero(n) = Lowest(m + n)
      BY <3>1, LowestJoined
    <3>. QED BY <3>1, <3>2, <3>3, <3>4
  <2>. QED BY <2>1, <2>2 DEF Beginnings
<1> HIDE DEF h
<1>5. FlattenSeq(q) = h[13]
  <2>1. Len(q) = 13 /\ 13 \in Nat /\ 13 # 0
    BY <1>3
  <2>. QED BY <2>1, <1>4, FlattenIs
<1>6. h[13] = Lowest(32)
  BY EndWidths DEF h
<1>. QED BY <1>1, <1>5, <1>6

Outer(n) == [i \in 1..n |-> IF i = 1 \/ i = n THEN 1 ELSE 0]

\* Where the lowest and the highest bit are set.
LEMMA HaltIs ==
  ASSUME NEW f, f = [dmactive |-> 1, haltreq |-> 1]
  PROVE  Register(dmcontrol_t, f) = Outer(32)
<1> DEFINE q == [i \in 1..Len(dmcontrol_t) |->
                   LET name == dmcontrol_t[i][1]
                   IN Bits(IF name \in DOMAIN f THEN f[name] ELSE 0, dmcontrol_t[i][2])]
           h == [i \in 1..13 |-> IF i = 13 THEN Outer(32) ELSE Lowest(Ends[i])]
<1>1. Register(dmcontrol_t, f) = FlattenSeq(q)
  BY DEF Register
<1>2. DOMAIN f = {"dmactive", "haltreq"} /\ f["dmactive"] = 1 /\ f["haltreq"] = 1
  OBVIOUS
<1>3. Len(q) = 13 /\ q[1] = Bits(1, 1) /\ q[13] = Bits(1, 1) /\ \A i \in 2..12 : q[i] = Bits(0, Width(i))
  <2>1. Len(dmcontrol_t) = 13
    BY FieldWidths
  <2>2. q = [i \in 1..13 |->
               LET name == dmcontrol_t[i][1]
               IN Bits(IF name \in DOMAIN f THEN f[name] ELSE 0, dmcontrol_t[i][2])]
    BY <2>1
  <2>3. q[1] = Bits(1, 1) /\ q[13] = Bits(1, 1)
    BY <1>2, <2>2, FieldWidths DEF Width
  <2>4. ASSUME NEW i \in 2..12 PROVE q[i] = Bits(0, Width(i))
    <3>1. dmcontrol_t[i][1] \notin {"dmactive", "haltreq"} /\ dmcontrol_t[i][2] = Width(i)
      BY FieldWidths
    <3>. QED BY <1>2, <2>2, <3>1
  <2>5. Len(q) = 13
    <3>1. q = [i \in 1..13 |-> q[i]]
      BY <2>2
    <3> HIDE DEF q
    <3>. QED BY <3>1, LengthIs
  <2>. QED BY <2>3, <2>4, <2>5
<1> HIDE DEF q
<1>4. Bits(1, 1) = Lowest(1)
  BY SmallBits DEF Bits, Lowest
<1>5. Beginnings(h, q, 13)
  <2>1. h[1] = q[1]
    BY <1>3, <1>4, EndWidths
  <2>2. ASSUME NEW i \in 2..12 PROVE h[i] = h[i - 1] \o q[i]
    <3> DEFINE m == Ends[i - 1]
               n == Width(i)
    <3>1. m \in Nat \ {0} /\ n \in Nat /\ Ends[i] = m + n
      <4>1. i - 1 \in 1..13 /\ i \in 2..13
        OBVIOUS
      <4>2. n \in Nat
        BY DEF Width
      <4>. QED BY <4>1, <4>2, EndWidths
    <3>2. h[i - 1] = Lowest(m) /\ h[i] = Lowest(Ends[i]) /\ q[i] = Bits(0, n)
      BY <1>3
    <3> HIDE DEF m, n, h
    <3>3. q[i] = Zero(n)
      BY <3>1, <3>2, ZeroIs
    <3>4. Lowest(m) \o Zero(n) = Lowest(m + n)
      BY <3>1, LowestJoined
    <3>. QED BY <3>1, <3>2, <3>3, <3>4
  <2>3. h[13] = h[13 - 1] \o q[13]
    <3>1. h[13 - 1] = Lowest(31) /\ h[13] = Outer(32) /\ q[13] = Lowest(1)
      BY <1>3, <1>4, EndWidths
    <3>2. Lowest(31) \in BitString(31) /\ Lowest(1) \in BitString(1)
      BY DEF Lowest, BitString, Bit
    <3> DEFINE r == Lowest(31) \o Lowest(1)
    <3>3. Joins(r, Lowest(31), Lowest(1), 31, 1)
      BY <3>2, JoinedBits
    <3> HIDE DEF r
    <3>4. r \in BitString(32) /\ r[32] = Lowest(1)[1] /\ \A i \in 1..31 : r[i] = Lowest(31)[i]
      BY <3>3 DEF Joins
    <3>5. r = Outer(32)
      BY <3>4 DEF BitString, Outer, Lowest
    <3>. QED BY <3>1, <3>5 DEF r
  <2>4. h = [i \in 1..13 |-> h[i]]
    OBVIOUS
  <2>5. \A i \in 2..13 : i \in 2..12 \/ i = 13
    OBVIOUS
  <2> HIDE DEF h
  <2>6. \A i \in 2..13 : h[i] = h[i - 1] \o q[i]
    BY <2>2, <2>3, <2>5
  <2>. QED BY <2>1, <2>4, <2>6 DEF Beginnings
<1>6. h[13] = Outer(32)
  OBVIOUS
<1> HIDE DEF h
<1>7. FlattenSeq(q) = h[13]
  <2>1. Len(q) = 13 /\ 13 \in Nat /\ 13 # 0
    BY <1>3
  <2>. QED BY <2>1, <1>5, FlattenIs
<1>. QED BY <1>1, <1>6, <1>7

\* The transfer of dcsr.
CommandWord == Bits(133040, 24) \o Bits(0, 8)

\* The two fields of the command.
LEMMA CommandIs == Register(command_t, [cmdtype |-> 0, control |-> 2^17 + DCSR]) = CommandWord
<1> DEFINE f == [cmdtype |-> 0, control |-> 2^17 + DCSR]
           q == [i \in 1..Len(command_t) |->
                   LET name == command_t[i][1]
                   IN Bits(IF name \in DOMAIN f THEN f[name] ELSE 0, command_t[i][2])]
           all == Bits(133040, 24) \o Bits(0, 8)
           h == [i \in 1..2 |-> IF i = 1 THEN Bits(133040, 24) ELSE all]
<1>1. Register(command_t, f) = FlattenSeq(q)
  BY DEF Register
<1>2. DOMAIN f = {"cmdtype", "control"} /\ f["cmdtype"] = 0 /\ f["control"] = 133040
  <2>1. 2^17 + DCSR = 133040
    BY DEF DCSR
  <2>. QED BY <2>1
<1>3. Len(q) = 2 /\ q[1] = Bits(133040, 24) /\ q[2] = Bits(0, 8)
  <2>1. Len(command_t) = 2 /\ command_t[1][1] = "control" /\ command_t[1][2] = 24
        /\ command_t[2][1] = "cmdtype" /\ command_t[2][2] = 8
    BY DEF command_t
  <2>. QED BY <1>2, <2>1
<1> HIDE DEF q, all
<1>4. Beginnings(h, q, 2)
  <2>1. h[1] = q[1] /\ h[2] = all /\ h[2 - 1] = Bits(133040, 24)
    BY <1>3
  <2>2. h = [i \in 1..2 |-> h[i]]
    OBVIOUS
  <2> HIDE DEF h
  <2>3. h[2] = h[2 - 1] \o q[2]
    BY <1>3, <2>1 DEF all
  <2>4. \A i \in 2..2 : i = 2
    OBVIOUS
  <2>. QED BY <2>1, <2>2, <2>3, <2>4 DEF Beginnings
<1>5. h[2] = all
  OBVIOUS
<1> HIDE DEF h
<1>6. FlattenSeq(q) = h[2]
  <2>1. Len(q) = 2 /\ 2 \in Nat /\ 2 # 0
    BY <1>3
  <2>. QED BY <2>1, <1>4, FlattenIs
<1>. QED BY <1>1, <1>5, <1>6 DEF all, CommandWord

\* The bits that are set.
LEMMA OnesOfZero == ASSUME NEW n \in Nat PROVE ones(Zero(n)) = {}
BY DEF ones, Zero

\* The activation sets bit 0.
LEMMA OnesOfLowest == ones(Lowest(32)) = {0}
<1>1. \A j \in 1..32 : Lowest(32)[j] = 1 <=> j = 1
  BY DEF Lowest
<1>2. DOMAIN Lowest(32) = 1..32
  BY DEF Lowest
<1>3. {j \in DOMAIN Lowest(32) : Lowest(32)[j] = 1} = {1}
  BY <1>1, <1>2
<1>4. {i - 1 : i \in {1}} = {0}
  OBVIOUS
<1>. QED BY <1>3, <1>4 DEF ones

\* The halt request sets bits 0 and 31.
LEMMA OnesOfOuter == ones(Outer(32)) = {0, 31}
<1>1. \A j \in 1..32 : Outer(32)[j] = 1 <=> (j = 1 \/ j = 32)
  BY DEF Outer
<1>2. DOMAIN Outer(32) = 1..32
  BY DEF Outer
<1>3. {j \in DOMAIN Outer(32) : Outer(32)[j] = 1} = {1, 32}
  BY <1>1, <1>2
<1>4. {i - 1 : i \in {1, 32}} = {0, 31}
  OBVIOUS
<1>. QED BY <1>3, <1>4 DEF ones

\* Where 133040 has its bits.
LEMMA CommandBits ==
  \A j \in 1..24 : Bits(133040, 24)[j] = 1 <=> j \in {5, 6, 8, 9, 10, 11, 18}
<1> DEFINE b == Bits(133040, 24)
<1>1. \A i \in 1..24 : b[i] = (133040 \div 2^(i - 1)) % 2
  BY DEF Bits
<1> HIDE DEF b
<1>2. /\ b[1] = 0 /\ b[2] = 0 /\ b[3] = 0 /\ b[4] = 0 /\ b[5] = 1 /\ b[6] = 1 /\ b[7] = 0 /\ b[8] = 1
      /\ b[9] = 1 /\ b[10] = 1 /\ b[11] = 1 /\ b[12] = 0 /\ b[13] = 0 /\ b[14] = 0 /\ b[15] = 0 /\ b[16] = 0
      /\ b[17] = 0 /\ b[18] = 1 /\ b[19] = 0 /\ b[20] = 0 /\ b[21] = 0 /\ b[22] = 0 /\ b[23] = 0 /\ b[24] = 0
  <2>1. b[1] = 0
    <3>1. b[1] = (133040 \div 2^(1 - 1)) % 2
      BY <1>1
    <3>2. 2^(1 - 1) = 1
      OBVIOUS
    <3>. QED BY <3>1, <3>2
  <2>2. b[2] = 0
    <3>1. b[2] = (133040 \div 2^(2 - 1)) % 2
      BY <1>1
    <3>2. 2^(2 - 1) = 2
      OBVIOUS
    <3>. QED BY <3>1, <3>2
  <2>3. b[3] = 0
    <3>1. b[3] = (133040 \div 2^(3 - 1)) % 2
      BY <1>1
    <3>2. 2^(3 - 1) = 4
      OBVIOUS
    <3>. QED BY <3>1, <3>2
  <2>4. b[4] = 0
    <3>1. b[4] = (133040 \div 2^(4 - 1)) % 2
      BY <1>1
    <3>2. 2^(4 - 1) = 8
      OBVIOUS
    <3>. QED BY <3>1, <3>2
  <2>5. b[5] = 1
    <3>1. b[5] = (133040 \div 2^(5 - 1)) % 2
      BY <1>1
    <3>2. 2^(5 - 1) = 16
      OBVIOUS
    <3>. QED BY <3>1, <3>2
  <2>6. b[6] = 1
    <3>1. b[6] = (133040 \div 2^(6 - 1)) % 2
      BY <1>1
    <3>2. 2^(6 - 1) = 32
      OBVIOUS
    <3>. QED BY <3>1, <3>2
  <2>7. b[7] = 0
    <3>1. b[7] = (133040 \div 2^(7 - 1)) % 2
      BY <1>1
    <3>2. 2^(7 - 1) = 64
      OBVIOUS
    <3>. QED BY <3>1, <3>2
  <2>8. b[8] = 1
    <3>1. b[8] = (133040 \div 2^(8 - 1)) % 2
      BY <1>1
    <3>2. 2^(8 - 1) = 128
      OBVIOUS
    <3>. QED BY <3>1, <3>2
  <2>9. b[9] = 1
    <3>1. b[9] = (133040 \div 2^(9 - 1)) % 2
      BY <1>1
    <3>2. 2^(9 - 1) = 256
      OBVIOUS
    <3>. QED BY <3>1, <3>2
  <2>10. b[10] = 1
    <3>1. b[10] = (133040 \div 2^(10 - 1)) % 2
      BY <1>1
    <3>2. 2^(10 - 1) = 512
      OBVIOUS
    <3>. QED BY <3>1, <3>2
  <2>11. b[11] = 1
    <3>1. b[11] = (133040 \div 2^(11 - 1)) % 2
      BY <1>1
    <3>2. 2^(11 - 1) = 1024
      OBVIOUS
    <3>. QED BY <3>1, <3>2
  <2>12. b[12] = 0
    <3>1. b[12] = (133040 \div 2^(12 - 1)) % 2
      BY <1>1
    <3>2. 2^(12 - 1) = 2048
      OBVIOUS
    <3>. QED BY <3>1, <3>2
  <2>13. b[13] = 0
    <3>1. b[13] = (133040 \div 2^(13 - 1)) % 2
      BY <1>1
    <3>2. 2^(13 - 1) = 4096
      OBVIOUS
    <3>. QED BY <3>1, <3>2
  <2>14. b[14] = 0
    <3>1. b[14] = (133040 \div 2^(14 - 1)) % 2
      BY <1>1
    <3>2. 2^(14 - 1) = 8192
      OBVIOUS
    <3>. QED BY <3>1, <3>2
  <2>15. b[15] = 0
    <3>1. b[15] = (133040 \div 2^(15 - 1)) % 2
      BY <1>1
    <3>2. 2^(15 - 1) = 16384
      OBVIOUS
    <3>. QED BY <3>1, <3>2
  <2>16. b[16] = 0
    <3>1. b[16] = (133040 \div 2^(16 - 1)) % 2
      BY <1>1
    <3>2. 2^(16 - 1) = 32768
      OBVIOUS
    <3>. QED BY <3>1, <3>2
  <2>17. b[17] = 0
    <3>1. b[17] = (133040 \div 2^(17 - 1)) % 2
      BY <1>1
    <3>2. 2^(17 - 1) = 65536
      OBVIOUS
    <3>. QED BY <3>1, <3>2
  <2>18. b[18] = 1
    <3>1. b[18] = (133040 \div 2^(18 - 1)) % 2
      BY <1>1
    <3>2. 2^(18 - 1) = 131072
      OBVIOUS
    <3>. QED BY <3>1, <3>2
  <2>19. b[19] = 0
    <3>1. b[19] = (133040 \div 2^(19 - 1)) % 2
      BY <1>1
    <3>2. 2^(19 - 1) = 262144
      OBVIOUS
    <3>. QED BY <3>1, <3>2
  <2>20. b[20] = 0
    <3>1. b[20] = (133040 \div 2^(20 - 1)) % 2
      BY <1>1
    <3>2. 2^(20 - 1) = 524288
      OBVIOUS
    <3>. QED BY <3>1, <3>2
  <2>21. b[21] = 0
    <3>1. b[21] = (133040 \div 2^(21 - 1)) % 2
      BY <1>1
    <3>2. 2^(21 - 1) = 1048576
      OBVIOUS
    <3>. QED BY <3>1, <3>2
  <2>22. b[22] = 0
    <3>1. b[22] = (133040 \div 2^(22 - 1)) % 2
      BY <1>1
    <3>2. 2^(22 - 1) = 2097152
      OBVIOUS
    <3>. QED BY <3>1, <3>2
  <2>23. b[23] = 0
    <3>1. b[23] = (133040 \div 2^(23 - 1)) % 2
      BY <1>1
    <3>2. 2^(23 - 1) = 4194304
      OBVIOUS
    <3>. QED BY <3>1, <3>2
  <2>24. b[24] = 0
    <3>1. b[24] = (133040 \div 2^(24 - 1)) % 2
      BY <1>1
    <3>2. 2^(24 - 1) = 8388608
      OBVIOUS
    <3>. QED BY <3>1, <3>2
  <2>. QED
    BY <2>1, <2>2, <2>3, <2>4, <2>5, <2>6, <2>7, <2>8, <2>9, <2>10, <2>11, <2>12,
       <2>13, <2>14, <2>15, <2>16, <2>17, <2>18, <2>19, <2>20, <2>21, <2>22, <2>23, <2>24
<1>3. ASSUME NEW j \in 1..24 PROVE b[j] = 1 <=> j \in {5, 6, 8, 9, 10, 11, 18}
  <2>1. j \in {1, 2, 3, 4, 5, 6, 7, 8, 9, 10, 11, 12, 13, 14, 15, 16, 17, 18, 19, 20, 21, 22, 23, 24}
    OBVIOUS
  <2>. QED BY <1>2, <2>1
<1>. QED BY <1>3 DEF b

CommandLike(a, z) == /\ \A i \in 1..8 : z[i] = 0
                     /\ \A j \in 1..24 : a[j] = 1 <=> j \in {5, 6, 8, 9, 10, 11, 18}

CommandLikeOnes(s) == s \in BitString(32) /\ ones(s) = {17, 4, 5, 7, 8, 9, 10}

\* The bits of such a command.
LEMMA JoinedOnes ==
  ASSUME NEW s, NEW a \in BitString(24), NEW z \in BitString(8), Joins(s, a, z, 24, 8),
         CommandLike(a, z)
  PROVE  CommandLikeOnes(s)
<1> USE DEF CommandLike, CommandLikeOnes
<1>1. s \in BitString(32) /\ DOMAIN s = 1..32
  BY DEF Joins, BitString
<1>2. ASSUME NEW j \in 1..32 PROVE s[j] = 1 <=> j \in {5, 6, 8, 9, 10, 11, 18}
  <2>1. CASE j \in 1..24
    BY <2>1 DEF Joins
  <2>2. CASE j \notin 1..24
    <3>1. j - 24 \in 1..8 /\ 24 + (j - 24) = j /\ j > 24
      BY <2>2
    <3>2. s[24 + (j - 24)] = z[j - 24]
      BY <3>1 DEF Joins
    <3>3. s[j] = 0
      BY <3>1, <3>2
    <3>. QED BY <3>1, <3>3
  <2>. QED BY <2>1, <2>2
<1>3. {j \in DOMAIN s : s[j] = 1} = {5, 6, 8, 9, 10, 11, 18}
  BY <1>1, <1>2
<1>4. {i - 1 : i \in {5, 6, 8, 9, 10, 11, 18}} = {17, 4, 5, 7, 8, 9, 10}
  OBVIOUS
<1>. QED BY <1>1, <1>3, <1>4 DEF ones

\* The command of the session is one.
LEMMA CommandHigh == CommandLike(Bits(133040, 24), Bits(0, 8))
<1>1. Bits(0, 8) = Zero(8)
  BY ZeroIs
<1>2. \A i \in 1..8 : Zero(8)[i] = 0
  BY DEF Zero
<1>. QED BY <1>1, <1>2, CommandBits DEF CommandLike

\* The bits that the command of the session sets.
LEMMA CommandOnes == CommandLikeOnes(CommandWord)
<1> DEFINE a == Bits(133040, 24)
           z == Bits(0, 8)
<1>1. a \in BitString(24) /\ z \in BitString(8)
  BY BitsAreBits
<1>2. CommandLike(a, z)
  BY CommandHigh
<1>3. CommandWord = a \o z
  BY DEF CommandWord
<1> HIDE DEF a, z
<1>4. Joins(CommandWord, a, z, 24, 8)
  BY <1>1, <1>3, JoinedBits
<1>. QED BY <1>1, <1>2, <1>4, JoinedOnes

-----------------------------------------------------------------------------
(* What the debugger asks. *)

RequestIn(r) == [op |-> number(SubSeq(r, 1, 2)), address |-> number(SubSeq(r, 35, 41)),
                 data |-> IF number(SubSeq(r, 1, 2)) = DTM_WRITE THEN ones(SubSeq(r, 3, 34)) ELSE {}]

\* What the port decodes is the request in its shift register.
LEMMA DecodedIs == Decoded = RequestIn(sr)
BY DEF Decoded, RequestIn

\* The debug module decodes what dmi_t has put together.
LEMMA RequestIs ==
  ASSUME NEW op \in {0, 1, 2}, NEW address \in {0, 4, 16, 17, 23}, NEW data \in BitString(32),
         NEW d, d = dmi_t(op, data, address)
  PROVE  d \in BitString(41)
         /\ RequestIn(d) = Request(op, address, IF op = 2 THEN ones(data) ELSE {})
<1>1. op \in Nat /\ address \in Nat
  OBVIOUS
<1>2. /\ d \in BitString(41)
      /\ SubSeq(d, 1, 2) = Bits(op, 2) /\ SubSeq(d, 3, 34) = data
      /\ SubSeq(d, 35, 41) = Bits(address, 7)
  <2>1. MadeOf(d, op, data, address)
    BY <1>1, DmiIs
  <2>. QED BY <2>1 DEF MadeOf
<1>3. number(Bits(op, 2)) = op /\ number(Bits(address, 7)) = address
  BY OperationNumbers, AddressNumbers
<1>. QED BY <1>2, <1>3 DEF RequestIn, Request, DTM_WRITE

\* A scan of zeros asks nothing.
LEMMA NothingAsked == Bits(0, 41) \in BitString(41) /\ RequestIn(Bits(0, 41)).op = 0
<1> DEFINE d == Bits(0, 41)
<1>1. d \in BitString(41) /\ d = [i \in 1..41 |-> 0]
  BY ZeroIs DEF Zero
<1>2. d \in Seq(Bit) /\ Len(d) = 41
  BY <1>1, BitNumbers
<1> HIDE DEF d
<1>3. SubSeq(d, 1, 2) = [i \in 1..2 |-> d[i]]
  BY <1>2
<1>4. SubSeq(d, 1, 2) = Bits(0, 2)
  <2>1. Bits(0, 2) = [i \in 1..2 |-> 0]
    BY ZeroIs DEF Zero
  <2>2. \A i \in 1..2 : d[i] = 0
    BY <1>1
  <2>. QED BY <1>3, <2>1, <2>2
<1>. QED BY <1>1, <1>4, OperationNumbers DEF RequestIn, d

\* The data of the requests of the session.
LEMMA RegistersAre ==
  /\ zero = Zero(32) /\ zero \in BitString(32)
  /\ dmactive \in BitString(32) /\ ones(dmactive) = {0}
  /\ haltreq \in BitString(32) /\ ones(haltreq) = {0, 31}
  /\ readDcsr \in BitString(32) /\ ones(readDcsr) = {17, 4, 5, 7, 8, 9, 10}
<1>1. zero = Zero(32) /\ zero \in BitString(32)
  BY ZeroIs DEF zero
<1>2. dmactive = Lowest(32)
  BY ActiveIs DEF dmactive
<1>3. haltreq = Outer(32)
  BY HaltIs DEF haltreq
<1>4. readDcsr = CommandWord
  BY CommandIs DEF readDcsr
<1>5. readDcsr \in BitString(32) /\ ones(readDcsr) = {17, 4, 5, 7, 8, 9, 10}
  BY <1>4, CommandOnes DEF CommandLikeOnes
<1>6. Lowest(32) \in BitString(32) /\ Outer(32) \in BitString(32)
  BY DEF Lowest, Outer, BitString, Bit
<1>. QED BY <1>1, <1>2, <1>3, <1>5, <1>6, OnesOfLowest, OnesOfOuter

\* The bits of the k-th transaction, how many there are, and how many of
\* them are shifted.
R(k) == Transactions[k].req
Size(k) == IF k \in {1, 3} THEN 8 ELSE IF k = 2 THEN 32 ELSE 41
L(k) == IF k \in {1, 3} THEN 5 ELSE IF k = 2 THEN 32 ELSE 41

\* The bits of the ten transactions.
LEMMA TransactionsAre ==
  /\ \A k \in 1..10 : Transactions[k].len = L(k) /\ R(k) \in BitString(Size(k))
  /\ R(1)[5] = 0 /\ R(2) = Zero(32)
  /\ R(3)[1] = 1 /\ R(3)[2] = 0 /\ R(3)[3] = 0 /\ R(3)[4] = 0 /\ R(3)[5] = 1
<1>1. /\ Transactions[1] = instr_transaction(IDCODE)
      /\ Transactions[2] = idcode_transaction(zero)
      /\ Transactions[3] = instr_transaction(DMI)
      /\ Transactions[4] = dmi_transaction(dmi_t(DTM_READ, zero, DMSTATUS))
      /\ Transactions[5] = dmi_transaction(Bits(0, 41))
      /\ Transactions[6] = dmi_transaction(dmi_t(DTM_WRITE, dmactive, DMCONTROL))
      /\ Transactions[7] = dmi_transaction(dmi_t(DTM_WRITE, haltreq, DMCONTROL))
      /\ Transactions[8] = dmi_transaction(dmi_t(DTM_WRITE, readDcsr, COMMAND))
      /\ Transactions[9] = dmi_transaction(dmi_t(DTM_READ, readDcsr, DATA0))
      /\ Transactions[10] = dmi_transaction(Bits(0, 41))
  BY DEF Transactions
<1>2. /\ R(1) = Bits(1, 8) /\ Transactions[1].len = 5
      /\ R(2) = zero /\ Transactions[2].len = 32
      /\ R(3) = Bits(17, 8) /\ Transactions[3].len = 5
  BY <1>1 DEF R, instr_transaction, idcode_transaction, transaction, IDCODE, DMI
<1>3. /\ R(4) = dmi_t(1, zero, 17) /\ R(5) = Bits(0, 41) /\ R(6) = dmi_t(2, dmactive, 16)
      /\ R(7) = dmi_t(2, haltreq, 16) /\ R(8) = dmi_t(2, readDcsr, 23) /\ R(9) = dmi_t(1, readDcsr, 4)
      /\ R(10) = Bits(0, 41)
      /\ \A k \in 4..10 : Transactions[k].len = 41
  BY <1>1 DEF R, dmi_transaction, transaction, DTM_READ, DTM_WRITE, DMSTATUS, DMCONTROL, COMMAND, DATA0
<1>4. \A k \in 4..10 : R(k) \in BitString(41)
  <2>1. \A k \in 4..10 : k \in {4, 5, 6, 7, 8, 9, 10}
    OBVIOUS
  <2>2. R(4) \in BitString(41)
    BY <1>3, RegistersAre, RequestIs
  <2>3. R(6) \in BitString(41)
    BY <1>3, RegistersAre, RequestIs
  <2>4. R(7) \in BitString(41)
    BY <1>3, RegistersAre, RequestIs
  <2>5. R(8) \in BitString(41)
    BY <1>3, RegistersAre, RequestIs
  <2>6. R(9) \in BitString(41)
    BY <1>3, RegistersAre, RequestIs
  <2>7. R(5) \in BitString(41) /\ R(10) \in BitString(41)
    BY <1>3, NothingAsked
  <2>. QED BY <2>1, <2>2, <2>3, <2>4, <2>5, <2>6, <2>7
<1>5. R(1) \in BitString(8) /\ R(2) \in BitString(32) /\ R(3) \in BitString(8)
  BY <1>2, BitsAreBits, RegistersAre
<1>6. \A k \in 1..10 : k = 1 \/ k = 2 \/ k = 3 \/ k \in 4..10
  OBVIOUS
<1>7. \A k \in 1..10 : Transactions[k].len = L(k) /\ R(k) \in BitString(Size(k))
  BY <1>2, <1>3, <1>4, <1>5, <1>6 DEF L, Size
<1>. QED BY <1>2, <1>7, SmallBits, RegistersAre

\* The requests in them are those of the session, in its order.
LEMMA RequestsAre ==
  /\ RequestIn(R(4)) = Session[1] /\ RequestIn(R(6)) = Session[2] /\ RequestIn(R(7)) = Session[3]
  /\ RequestIn(R(8)) = Session[4] /\ RequestIn(R(9)) = Session[5]
  /\ RequestIn(R(5)).op = 0 /\ RequestIn(R(10)).op = 0
<1>1. /\ Transactions[4] = dmi_transaction(dmi_t(DTM_READ, zero, DMSTATUS))
      /\ Transactions[5] = dmi_transaction(Bits(0, 41))
      /\ Transactions[6] = dmi_transaction(dmi_t(DTM_WRITE, dmactive, DMCONTROL))
      /\ Transactions[7] = dmi_transaction(dmi_t(DTM_WRITE, haltreq, DMCONTROL))
      /\ Transactions[8] = dmi_transaction(dmi_t(DTM_WRITE, readDcsr, COMMAND))
      /\ Transactions[9] = dmi_transaction(dmi_t(DTM_READ, readDcsr, DATA0))
      /\ Transactions[10] = dmi_transaction(Bits(0, 41))
  BY DEF Transactions
<1>2. /\ R(4) = dmi_t(1, zero, 17) /\ R(5) = Bits(0, 41) /\ R(6) = dmi_t(2, dmactive, 16)
      /\ R(7) = dmi_t(2, haltreq, 16) /\ R(8) = dmi_t(2, readDcsr, 23) /\ R(9) = dmi_t(1, readDcsr, 4)
      /\ R(10) = Bits(0, 41)
  BY <1>1 DEF R, dmi_transaction, transaction, DTM_READ, DTM_WRITE, DMSTATUS, DMCONTROL, COMMAND, DATA0
<1>3. RequestIn(R(4)) = Request(1, 17, {})
  BY <1>2, RegistersAre, RequestIs
<1>4. RequestIn(R(6)) = Request(2, 16, {0})
  BY <1>2, RegistersAre, RequestIs
<1>5. RequestIn(R(7)) = Request(2, 16, {0, 31})
  BY <1>2, RegistersAre, RequestIs
<1>6. RequestIn(R(8)) = Request(2, 23, {17, 4, 5, 7, 8, 9, 10})
  BY <1>2, RegistersAre, RequestIs
<1>7. RequestIn(R(9)) = Request(1, 4, {})
  BY <1>2, RegistersAre, RequestIs
<1>8. RequestIn(R(5)).op = 0 /\ RequestIn(R(10)).op = 0
  BY <1>2, NothingAsked
<1> HIDE DEF R
<1>9. /\ Session[1] = Request(1, 17, {}) /\ Session[2] = Request(2, 16, {0})
      /\ Session[3] = Request(2, 16, {0, 31}) /\ Session[4] = Request(2, 23, {17, 4, 5, 7, 8, 9, 10})
      /\ Session[5] = Request(1, 4, {})
  BY DEF Session
<1>. QED BY <1>3, <1>4, <1>5, <1>6, <1>7, <1>8, <1>9, Zenon

-----------------------------------------------------------------------------
(* The registers of the port after the coming rising edge. *)

CapturedWith(i) == Bits(0, CASE i = DMI -> 41
                             [] i \in {IDCODE, DTMCS} -> 32
                             [] OTHER -> 1)

\* What a rising edge in state c makes of the shift register r and of the
\* instruction i.
SrAfter(c, r, i, d) == IF c = "CAPTURE_IR" THEN <<1, 0, 1, 0, 0>>
                       ELSE IF c = "CAPTURE_DR" THEN CapturedWith(i)
                       ELSE IF c \in {"SHIFT_DR", "SHIFT_IR"} THEN Append(Tail(r), d)
                       ELSE r
IrAfter(c, r, i) == IF c = "UPDATE_IR" THEN number(r)
                    ELSE IF c = "TEST_LOGIC_RESET" THEN IDCODE ELSE i

\* Whether the edge brings a request to the debug module.
Asks(c, r, i, e) ==
  c = "UPDATE_DR" /\ i = DMI /\ RequestIn(r).op \in {DTM_READ, DTM_WRITE} /\ ~e

ComingSr == IF tck THEN sr ELSE SrAfter(tap, sr, ir, tdi)
ComingIr == IF tck THEN ir ELSE IrAfter(tap, sr, ir)
ComingSeen == IF ~tck /\ Asks(tap, sr, ir, error) /\ busy = 0
              THEN Append(seen, RequestIn(sr)) ELSE seen
ComingError == \/ error
               \/ ~tck /\ busy # 0 /\ Asks(tap, sr, ir, error)
               \/ ~tck /\ busy > 0 /\ tap = "CAPTURE_DR" /\ ir = DMI

\* The edge in sight goes by, and another one comes.
Falls ==
  /\ ComingSr' = SrAfter(Coming, ComingSr, ComingIr, tdi')
  /\ ComingIr' = IrAfter(Coming, ComingSr, ComingIr)
  /\ Asks(Coming, ComingSr, ComingIr, ComingError) =>
       \/ ComingSeen' = Append(ComingSeen, RequestIn(ComingSr))
       \/ ComingSeen' = ComingSeen /\ ComingError'
  /\ ~Asks(Coming, ComingSr, ComingIr, ComingError) => ComingSeen' = ComingSeen
  /\ ComingError => ComingError'

Stays == /\ ComingSr' = ComingSr /\ ComingIr' = ComingIr /\ ComingSeen' = ComingSeen
         /\ ComingError => ComingError'

\* A rising edge does what is said here of the registers.
LEMMA RiseStep ==
  ASSUME NEW m, NEW d, TapEdge(m, d)
  PROVE  /\ sr' = SrAfter(tap, sr, ir, d) /\ ir' = IrAfter(tap, sr, ir)
         /\ seen' = (IF Asks(tap, sr, ir, error) /\ busy = 0 THEN Append(seen, RequestIn(sr)) ELSE seen)
         /\ error => error'
         /\ busy # 0 /\ Asks(tap, sr, ir, error) => error'
         /\ busy > 0 /\ tap = "CAPTURE_DR" /\ ir = DMI => error'
<1>1. CASE Capture
  <2>1. Captured = CapturedWith(ir)
    BY DEF Captured, CapturedWith
  <2>2. sr' = SrAfter(tap, sr, ir, d)
    BY <1>1, <2>1 DEF Capture, SrAfter
  <2>3. ir' = IrAfter(tap, sr, ir) /\ ~Asks(tap, sr, ir, error)
    BY <1>1 DEF Capture, IrAfter, Asks
  <2>4. seen' = seen
    BY <1>1 DEF Capture
  <2>5. error' = (error \/ (tap = "CAPTURE_DR" /\ ir = DMI /\ busy > 0))
    BY <1>1 DEF Capture
  <2>. QED BY <2>2, <2>3, <2>4, <2>5
<1>2. CASE ShiftIn(d)
  BY <1>2 DEF ShiftIn, NoAccess, SrAfter, IrAfter, Asks
<1>3. CASE UpdateIr
  BY <1>3 DEF UpdateIr, NoAccess, SrAfter, IrAfter, Asks
<1>4. CASE UpdateDr
  <2>1. Decoded = RequestIn(sr)
    BY DecodedIs
  <2>. QED BY <1>4, <2>1 DEF UpdateDr, NoAccess, SrAfter, IrAfter, Asks
<1>5. CASE Rest
  BY <1>5 DEF Rest, NoAccess, SrAfter, IrAfter, Asks
<1>. QED BY <1>1, <1>2, <1>3, <1>4, <1>5 DEF TapEdge

\* Between falling edges the registers in sight stay the same.
LEMMA StaysStep ==
  ASSUME Clock, Next, trst_n' = 1, ~(tck /\ ~tck'), UNCHANGED <<tms, tdi>>
  PROVE  Stays
<1>1. tck \in BOOLEAN /\ tck' \in BOOLEAN
  BY ClockStep DEF Clock
<1>2. CASE ~tck /\ tck'
  <2>1. TapEdge(tms', tdi')
    <3>1. trst_n' # 0
      OBVIOUS
    <3>2. Port
      BY DEF Next
    <3> HIDE DEF Next
    <3>. QED BY <1>2, <3>1, <3>2 DEF Port
  <2>2. /\ sr' = SrAfter(tap, sr, ir, tdi) /\ ir' = IrAfter(tap, sr, ir)
        /\ seen' = (IF Asks(tap, sr, ir, error) /\ busy = 0 THEN Append(seen, RequestIn(sr)) ELSE seen)
        /\ error => error'
        /\ busy # 0 /\ Asks(tap, sr, ir, error) => error'
        /\ busy > 0 /\ tap = "CAPTURE_DR" /\ ir = DMI => error'
    BY <2>1, RiseStep
  <2>. QED BY <1>2, <2>2 DEF Stays, ComingSr, ComingIr, ComingSeen, ComingError
<1>3. CASE tck' = tck
  <2>1. UNCHANGED tapVars
    BY <1>3 DEF Next, Port
  <2>. QED BY <1>3, <2>1 DEF tapVars, Stays, ComingSr, ComingIr, ComingSeen, ComingError, Asks
<1>. QED BY <1>1, <1>2, <1>3

\* A falling edge that the driver sees brings another edge in sight.
LEMMA FallsStep ==
  ASSUME Clock, Starting \/ time > 100, Driving, Next, time >= 100, seq # <<>>, FallingEdge
  PROVE  Falls
<1>1. trst_n' = 1 /\ time' = time + 1 /\ time \in Nat /\ ~tck'
  BY DEF Driving, Next, Clock, FallingEdge
<1>2. UNCHANGED tapVars
  BY <1>1 DEF Next, Port
<1>3. CASE time = 100
  <2>1. ~tck /\ Starting
    BY <1>3 DEF Clock
  <2>2. tap = "RUN_TEST_IDLE" /\ Coming = "RUN_TEST_IDLE"
    BY <1>3, <2>1 DEF Starting, Coming, TapNext
  <2>. QED BY <1>1, <1>2, <2>1, <2>2
           DEF tapVars, Falls, ComingSr, ComingIr, ComingSeen, ComingError, SrAfter, IrAfter, Asks
<1>4. CASE time > 100
  <2>1. tck
    BY <1>4 DEF Driving, FallingEdge
  <2>. QED BY <1>1, <1>2, <2>1
           DEF tapVars, Falls, Coming, ComingSr, ComingIr, ComingSeen, ComingError, SrAfter, IrAfter, Asks
<1>. QED BY <1>1, <1>3, <1>4

-----------------------------------------------------------------------------
(* A scan: bit by bit the request goes into the shift register. *)

\* What is left of s after b bits.
Left(s, b) == [i \in 1..Len(s) - b |-> s[b + i]]

\* The first b bits of s have arrived in the shift register r of n bits.
Arrived(r, s, n, b) == r \in BitString(n) /\ \A j \in 1..b : r[n - b + j] = s[j]

\* Before the first bit all are left.
LEMMA LeftNone ==
  ASSUME NEW n \in Nat, NEW s \in BitString(n)
  PROVE  Left(s, 0) = s
BY BitNumbers DEF Left, BitString

\* The driver takes the next bit from the front.
LEMMA LeftStep ==
  ASSUME NEW n \in Nat, NEW s \in BitString(n), NEW b \in 0..n - 1
  PROVE  /\ Left(s, b) # <<>> /\ Head(Left(s, b)) = s[b + 1]
         /\ Tail(Left(s, b)) = Left(s, b + 1)
<1> DEFINE t == Left(s, b)
           m == n - b
<1>1. Len(s) = n /\ m \in Nat /\ m > 0
  BY BitNumbers
<1>2. t = [i \in 1..m |-> s[b + i]]
  BY <1>1 DEF Left
<1>3. \A i \in 1..m : s[b + i] \in Bit
  BY DEF BitString
<1>4. Left(s, b + 1) = [i \in 1..m - 1 |-> s[(b + 1) + i]]
  BY <1>1 DEF Left
<1> HIDE DEF t, m
<1>5. t \in Seq(Bit) /\ Len(t) = m
  <2>1. t \in [1..m -> Bit]
    BY <1>2, <1>3
  <2>. QED BY <1>1, <2>1
<1>6. t # <<>> /\ Head(t) = s[b + 1]
  <2>1. t # <<>> /\ Head(t) = t[1]
    BY <1>1, <1>5
  <2>. QED BY <1>1, <1>2, <2>1
<1>7. Tail(t) = [i \in 1..m - 1 |-> t[i + 1]]
  <2> DEFINE u == Tail(t)
             l == m - 1
  <2>1. u \in Seq(Bit) /\ Len(u) = l /\ l \in Nat /\ \A i \in 1..l : u[i] = t[i + 1]
    BY <1>1, <1>5
  <2> HIDE DEF u, l
  <2>2. u = [i \in 1..l |-> t[i + 1]]
    BY <2>1
  <2>. QED BY <2>2 DEF u, l
<1>8. \A i \in 1..m - 1 : t[i + 1] = s[(b + 1) + i]
  <2>1. ASSUME NEW i \in 1..m - 1 PROVE t[i + 1] = s[(b + 1) + i]
    <3>1. i + 1 \in 1..m /\ b + (i + 1) = (b + 1) + i
      BY <1>1
    <3>. QED BY <1>2, <3>1
  <2>. QED BY <2>1
<1>9. Tail(t) = Left(s, b + 1)
  BY <1>4, <1>7, <1>8
<1>. QED BY <1>6, <1>9 DEF t

\* A shift moves the bits down and puts the new one at the top.
LEMMA ShiftedBits ==
  ASSUME NEW n \in Nat \ {0}, NEW r \in BitString(n), NEW d \in Bit
  PROVE  /\ Append(Tail(r), d) \in BitString(n)
         /\ Append(Tail(r), d)[n] = d
         /\ \A i \in 1..n - 1 : Append(Tail(r), d)[i] = r[i + 1]
<1> DEFINE t == Tail(r)
           u == Append(t, d)
<1>1. r \in Seq(Bit) /\ Len(r) = n /\ r # <<>>
  BY BitNumbers
<1>2. t \in Seq(Bit) /\ Len(t) = n - 1 /\ \A i \in 1..n - 1 : t[i] = r[i + 1]
  BY <1>1
<1> HIDE DEF t
<1>3. u \in Seq(Bit) /\ Len(u) = n /\ u[n] = d /\ \A i \in 1..n - 1 : u[i] = t[i]
  BY <1>2
<1> HIDE DEF u
<1>4. u \in BitString(n)
  BY <1>3 DEF BitString
<1>. QED BY <1>2, <1>3, <1>4 DEF t, u

\* One more bit has arrived.
LEMMA BitArrives ==
  ASSUME NEW n \in Nat \ {0}, NEW r, NEW s, NEW b \in 0..n - 1, NEW d \in Bit,
         Arrived(r, s, n, b), d = s[b + 1]
  PROVE  Arrived(Append(Tail(r), d), s, n, b + 1)
<1> DEFINE u == Append(Tail(r), d)
<1>1. r \in BitString(n) /\ \A j \in 1..b : r[n - b + j] = s[j]
  BY DEF Arrived
<1>2. u \in BitString(n) /\ u[n] = d /\ \A i \in 1..n - 1 : u[i] = r[i + 1]
  BY <1>1, ShiftedBits
<1> HIDE DEF u
<1>3. ASSUME NEW j \in 1..b + 1 PROVE u[n - (b + 1) + j] = s[j]
  <2>1. CASE j = b + 1
    <3>1. n - (b + 1) + j = n
      BY <2>1
    <3>. QED BY <1>2, <2>1, <3>1
  <2>2. CASE j # b + 1
    <3>1. j \in 1..b
      BY <2>2
    <3>2. n - (b + 1) + j \in 1..n - 1 /\ (n - (b + 1) + j) + 1 = n - b + j
      BY <3>1
    <3>. QED BY <1>1, <1>2, <3>1, <3>2
  <2>. QED BY <2>1, <2>2
<1>4. Arrived(u, s, n, b + 1)
  BY <1>2, <1>3 DEF Arrived
<1>. QED BY <1>4 DEF u

\* All bits have arrived: the register holds the request.
LEMMA AllArrived ==
  ASSUME NEW n \in Nat, NEW s \in BitString(n), NEW r, Arrived(r, s, n, n)
  PROVE  r = s
<1>1. r \in BitString(n)
  BY DEF Arrived
<1>2. ASSUME NEW j \in 1..n PROVE r[j] = s[j]
  <2>1. n - n + j = j
    OBVIOUS
  <2>. QED BY <2>1 DEF Arrived
<1>. QED BY <1>1, <1>2 DEF BitString

\* No transaction shifts more bits than it has.
LEMMA LongWay ==
  ASSUME NEW k \in 1..10
  PROVE  /\ L(k) \in Nat \ {0} /\ Size(k) \in Nat /\ L(k) <= Size(k)
         /\ k >= 4 => L(k) = 41 /\ Size(k) = 41
         /\ k \in {1, 3} => L(k) = 5
BY DEF L, Size

-----------------------------------------------------------------------------
(* The driver and the port during the scan. *)

IrStates == {"SHIFT_IR", "EXIT1_IR", "PAUSE_IR", "EXIT2_IR", "UPDATE_IR"}
DrStates == {"SHIFT_DR", "EXIT1_DR", "PAUSE_DR", "EXIT2_DR", "UPDATE_DR"}
ShiftStates == {"SHIFT_DR", "SHIFT_IR"}
Approach == {"SELECT_DR_SCAN", "SELECT_IR_SCAN", "CAPTURE_DR", "CAPTURE_IR"}

\* Where the port may be during the k-th transaction when the driver is in s.
PlaceOf(s, k) == IF k = 1 THEN First(s) ELSE IF k = 2 THEN Second(s)
                 ELSE {t \in Scan(Mode(k)) : t = s}

\* The shift register counts: it goes to the instruction or to the debug
\* module.
Matters(s, i) == s \in IrStates \/ i = DMI

\* What is known when the driver is in s, the port in c, b bits are shifted,
\* q is left of the request of the k-th transaction, i is the instruction and
\* r the shift register.
Scanned(s, c, q, b, i, r, k) ==
  /\ s \notin IrStates \cup DrStates => q = R(k)
  /\ c = s /\ s \in Approach => b = 0
  /\ c = s /\ s \in ShiftStates =>
       b \in 0..L(k) - 1 /\ q = Left(R(k), b) /\ (Matters(s, i) => Arrived(r, R(k), L(k), b))
  /\ c = s /\ s \in (IrStates \cup DrStates) \ ShiftStates /\ Matters(s, i) =>
       Arrived(r, R(k), L(k), L(k))

\* The request after a step of the driver.
Drawn(q) == IF state \in ShiftStates /\ q # <<>> THEN Tail(q) ELSE q

\* An edge that takes the port to where the driver goes finds it where the
\* driver was.
LEMMA Together ==
  ASSUME NEW k \in 1..10, NEW x, x.mode = Mode(k), NEW c \in PlaceOf(state, k), Step(x), ~rdy',
         TapNext(c, tms') = state',
         state' \in Approach \cup IrStates \cup {"SHIFT_DR"} \/ (state' \in DrStates /\ k >= 3)
  PROVE  c = state
<1> USE DEF Approach, IrStates, DrStates
<1>1. CASE k = 1
  <2>1. x.mode = "JTAG_IR" /\ c \in First(state)
    BY <1>1 DEF Mode, PlaceOf
  <2>2. CASE Reset
    BY <2>2 DEF Reset, GoTo
  <2>3. CASE Idle
    BY <1>1, <2>1, <2>3 DEF Idle, GoTo, First, TapNext
  <2>4. CASE Select(x)
    BY <1>1, <2>1, <2>4 DEF Select, GoTo, First, TapNext
  <2>5. CASE Move
    BY <1>1, <2>1, <2>5 DEF Move, GoTo, First, TapNext
  <2>6. CASE Shift(x)
    BY <1>1, <2>1, <2>6 DEF Shift, GoTo, First, TapNext
  <2>7. CASE Exit1(x)
    BY <1>1, <2>1, <2>7 DEF Exit1, GoTo, First, TapNext
  <2>8. CASE Update \/ Default
    BY <2>8 DEF Update, Default, GoTo
  <2>. QED BY <2>2, <2>3, <2>4, <2>5, <2>6, <2>7, <2>8 DEF Step
<1>2. CASE k = 2
  <2>1. x.mode = "JTAG_DR" /\ c \in Second(state)
    BY <1>2 DEF Mode, PlaceOf
  <2>2. CASE Reset
    BY <2>2 DEF Reset, GoTo
  <2>3. CASE Idle
    BY <1>2, <2>1, <2>3 DEF Idle, GoTo, Second, TapNext
  <2>4. CASE Select(x)
    BY <1>2, <2>1, <2>4 DEF Select, GoTo, Second, TapNext
  <2>5. CASE Move
    BY <1>2, <2>1, <2>5 DEF Move, GoTo, Second, TapNext
  <2>6. CASE Shift(x)
    BY <1>2, <2>1, <2>6 DEF Shift, GoTo, Second, TapNext
  <2>7. CASE Exit1(x)
    BY <1>2, <2>1, <2>7 DEF Exit1, GoTo, Second, TapNext
  <2>8. CASE Update \/ Default
    BY <2>8 DEF Update, Default, GoTo
  <2>. QED BY <2>2, <2>3, <2>4, <2>5, <2>6, <2>7, <2>8 DEF Step
<1>3. CASE k \notin {1, 2}
  BY <1>3 DEF PlaceOf
<1>. QED BY <1>1, <1>2, <1>3

\* Which transactions take the port where.
LEMMA WhoGoes ==
  ASSUME NEW k \in 1..10, NEW c \in PlaceOf(state, k)
  PROVE  /\ state \in IrStates \cup {"CAPTURE_IR"} => k \in {1, 3}
         /\ state \in DrStates \cup {"CAPTURE_DR"} => k # 3
<1>1. CASE k = 2
  BY <1>1 DEF PlaceOf, Second, IrStates
<1>2. CASE k = 3
  BY <1>2 DEF PlaceOf, Scan, Mode, InstrScan, DrStates
<1>3. CASE k \in 4..10
  BY <1>3 DEF PlaceOf, Scan, Mode, DataScan, IrStates
<1>. QED BY <1>1, <1>2, <1>3

BitsOnly(q) == q \in Seq(Bit)

\* What the driver puts on TDI and what it leaves are bits.
LEMMA Bit0Is ==
  ASSUME NEW x, BitsOnly(x.req)
  PROVE  Bit0(x) \in Bit /\ BitsOnly(Drawn(x.req))
<1>1. CASE x.req = <<>>
  BY <1>1 DEF Bit0, Bit, Drawn, BitsOnly
<1>2. CASE x.req # <<>>
  <2> DEFINE q == x.req
  <2>1. q \in Seq(Bit) /\ q # <<>>
    BY <1>2 DEF BitsOnly
  <2> HIDE DEF q
  <2>2. Head(q) \in Bit /\ Tail(q) \in Seq(Bit)
    BY <2>1
  <2>3. Bit0(x) = Head(q)
    BY <1>2 DEF Bit0, q
  <2>4. Drawn(q) \in {q, Tail(q)}
    BY DEF Drawn
  <2>. QED BY <2>1, <2>2, <2>3, <2>4 DEF q, BitsOnly
<1>. QED BY <1>1, <1>2

\* TDI carries bits.
LEMMA TdiStep ==
  ASSUME NEW x, Step(x), tdi \in Bit, BitsOnly(x.req)
  PROVE  tdi' \in Bit
<1>1. Bit0(x) \in Bit
  BY Bit0Is
<1>. QED BY <1>1 DEF Step, Reset, Idle, Select, Move, Shift, Exit1, Update, Default

\* Before the request is shifted nothing of it is gone.
LEMMA EarlyStep ==
  ASSUME NEW k \in 1..10, NEW x, NEW c \in PlaceOf(state, k), NEW i, NEW r,
         Scanned(state, c, x.req, bits, i, r, k), Step(x), ~rdy',
         state' \notin IrStates \cup DrStates
  PROVE  Drawn(x.req) = R(k)
<1>1. state \notin IrStates \cup DrStates
  BY DEF Step, Reset, Idle, Select, Move, Shift, Exit1, Update, Default, GoTo, IrStates, DrStates, DriverState
<1>2. x.req = R(k)
  BY <1>1 DEF Scanned
<1>. QED BY <1>1, <1>2 DEF Drawn, IrStates, DrStates, ShiftStates

\* No bit is counted before the first is shifted.
LEMMA ApproachStep ==
  ASSUME NEW k \in 1..10, NEW x, NEW c, c = state, NEW i, NEW r,
         Scanned(state, c, x.req, bits, i, r, k), Step(x), ~rdy', state' \in Approach
  PROVE  bits' = 0
<1>1. CASE Idle
  BY <1>1 DEF Idle
<1>2. CASE Select(x)
  BY <1>2 DEF Select, Scanned, Approach
<1>3. CASE Move
  BY <1>3 DEF Move, GoTo, Scanned, Approach
<1>. QED
  BY <1>1, <1>2, <1>3 DEF Step, Reset, Shift, Exit1, Update, Default, GoTo, Approach

\* The scan begins with an empty register, or one more bit goes into it.
LEMMA BeginStep ==
  ASSUME NEW k \in 1..10, NEW x, NEW c \in PlaceOf(state, k), c = state, NEW i, NEW r,
         i = DMI => k >= 3, Scanned(state, c, x.req, bits, i, r, k),
         state \in {"CAPTURE_DR", "CAPTURE_IR"}, Step(x), state' \in ShiftStates
  PROVE  /\ bits' \in 0..L(k) - 1 /\ Drawn(x.req) = Left(R(k), bits')
         /\ Matters(state', i) => Arrived(SrAfter(c, r, i, tdi'), R(k), L(k), bits')
<1>1. bits = 0 /\ bits' = 0 /\ x.req = R(k) /\ Drawn(x.req) = x.req
      /\ (state' = "SHIFT_IR" <=> state = "CAPTURE_IR")
  BY DEF Scanned, Approach, IrStates, DrStates, ShiftStates, Drawn, Step, Reset, Idle, Select, Move, Shift,
         Exit1, Update, Default, GoTo, DriverState
<1>2. Left(R(k), 0) = R(k)
  <2>1. R(k) \in BitString(Size(k)) /\ Size(k) \in Nat
    BY TransactionsAre, LongWay
  <2>. QED BY <2>1, LeftNone
<1>3. 0 \in 0..L(k) - 1
  BY LongWay
<1>4. ASSUME Matters(state', i) PROVE SrAfter(c, r, i, tdi') \in BitString(L(k))
  <2>1. CASE state = "CAPTURE_IR"
    <3>1. L(k) = 5
      BY <2>1, WhoGoes, LongWay
    <3>2. <<1, 0, 1, 0, 0>> \in BitString(5)
      BY DEF BitString, Bit
    <3>. QED BY <2>1, <3>1, <3>2 DEF SrAfter
  <2>2. CASE state = "CAPTURE_DR"
    <3>1. i = DMI
      BY <1>1, <1>4, <2>2 DEF Matters, ShiftStates, IrStates
    <3>2. k # 3 /\ k >= 3
      BY <2>2, <3>1, WhoGoes
    <3>3. L(k) = 41
      BY <3>2, LongWay
    <3>4. CapturedWith(i) = Bits(0, 41)
      BY <3>1 DEF CapturedWith, DMI, IDCODE, DTMCS
    <3>5. Bits(0, 41) \in BitString(41)
      BY ZeroIs
    <3>. QED BY <2>2, <3>3, <3>4, <3>5 DEF SrAfter
  <2>. QED BY <2>1, <2>2
<1>. QED BY <1>1, <1>2, <1>3, <1>4 DEF Arrived

\* One more bit goes from the request into the register.
LEMMA BitStep ==
  ASSUME NEW k \in 1..10, NEW x, x.len = L(k), BitsOnly(x.req), NEW c, c = state, NEW i, NEW r,
         Scanned(state, c, x.req, bits, i, r, k), state \in ShiftStates, Step(x)
  PROVE  /\ bits' = bits + 1 /\ bits \in 0..L(k) - 1 /\ Drawn(x.req) = Left(R(k), bits')
         /\ Matters(state, i) => Arrived(SrAfter(c, r, i, tdi'), R(k), L(k), bits')
         /\ state' \in ShiftStates => bits' \in 0..L(k) - 1
         /\ state' \notin ShiftStates => bits' = L(k)
         /\ state' \in IrStates <=> state \in IrStates
<1>1. Shift(x)
  BY DEF ShiftStates, Step, Reset, Idle, Select, Move, Shift, Exit1, Update, Default, DriverState
<1>2. bits \in 0..L(k) - 1 /\ x.req = Left(R(k), bits)
      /\ (Matters(state, i) => Arrived(r, R(k), L(k), bits))
  BY DEF Scanned
<1>3. R(k) \in BitString(Size(k)) /\ Size(k) \in Nat /\ L(k) \in Nat \ {0} /\ L(k) <= Size(k)
  BY TransactionsAre, LongWay
<1>4. bits' = bits + 1 /\ tdi' = Bit0(x)
  BY <1>1 DEF Shift
<1>5. /\ x.req # <<>> /\ Head(x.req) = R(k)[bits + 1]
      /\ Tail(x.req) = Left(R(k), bits + 1)
  <2>1. bits \in 0..Size(k) - 1
    BY <1>2, <1>3
  <2>. QED BY <1>2, <1>3, <2>1, LeftStep
<1>6. Drawn(x.req) = Left(R(k), bits')
  BY <1>4, <1>5 DEF Drawn
<1>7. tdi' = R(k)[bits + 1] /\ tdi' \in Bit
  <2>1. tdi' = R(k)[bits + 1]
    BY <1>4, <1>5 DEF Bit0
  <2>2. Bit0(x) \in Bit
    BY Bit0Is
  <2>. QED BY <1>4, <2>1, <2>2
<1>8. ASSUME Matters(state, i) PROVE Arrived(SrAfter(c, r, i, tdi'), R(k), L(k), bits')
  <2>1. Arrived(r, R(k), L(k), bits)
    BY <1>2, <1>8
  <2>2. Arrived(Append(Tail(r), tdi'), R(k), L(k), bits + 1)
    BY <1>2, <1>3, <1>7, <2>1, BitArrives
  <2>3. SrAfter(c, r, i, tdi') = Append(Tail(r), tdi')
    BY DEF SrAfter, ShiftStates
  <2>. QED BY <1>4, <2>2, <2>3
<1>9. MoreBits(x) <=> bits < L(k) - 1
  BY <1>2, <1>3 DEF MoreBits
<1>10. /\ state' \in ShiftStates <=> MoreBits(x)
       /\ state' \in IrStates <=> state \in IrStates
  BY <1>1 DEF Shift, GoTo, ShiftStates, IrStates
<1>11. /\ state' \in ShiftStates => bits' \in 0..L(k) - 1
       /\ state' \notin ShiftStates => bits' = L(k)
  BY <1>2, <1>3, <1>4, <1>9, <1>10
<1>. QED BY <1>2, <1>4, <1>6, <1>8, <1>10, <1>11

\* Behind the shift the register is left alone.
LEMMA HoldStep ==
  ASSUME NEW k \in 1..10, NEW x, NEW c, c = state, NEW i, NEW r,
         Scanned(state, c, x.req, bits, i, r, k), Step(x), ~rdy',
         state' \in (IrStates \cup DrStates) \ ShiftStates, state \notin ShiftStates,
         Matters(state', i)
  PROVE  Arrived(SrAfter(c, r, i, tdi'), R(k), L(k), L(k))
<1>1. state \in (IrStates \cup DrStates) \ ShiftStates
      /\ (state' \in IrStates <=> state \in IrStates)
  BY DEF Step, Reset, Idle, Select, Move, Shift, Exit1, Update, Default, GoTo, IrStates, DrStates,
         ShiftStates, DriverState
<1>2. SrAfter(c, r, i, tdi') = r
  BY <1>1 DEF SrAfter, IrStates, DrStates, ShiftStates
<1>3. Matters(state, i)
  BY <1>1 DEF Matters
<1>. QED BY <1>1, <1>2, <1>3 DEF Scanned

\* Only the update of the instruction register changes the instruction.
LEMMA IrStays ==
  ASSUME NEW c, c \notin {"UPDATE_IR", "TEST_LOGIC_RESET"}, NEW r, NEW i
  PROVE  IrAfter(c, r, i) = i
BY DEF IrAfter

\* Where the port updates its instruction.
LEMMA UpdateAt ==
  ASSUME NEW k \in 1..10, NEW c \in PlaceOf(state, k)
  PROVE  /\ c # "TEST_LOGIC_RESET"
         /\ c = "UPDATE_IR" => (k \in {1, 3} /\ state = "UPDATE_IR") \/ (k = 2 /\ state = "UPDATE_DR")
         /\ c = "UPDATE_DR" /\ k >= 3 => k >= 4 /\ state = "UPDATE_DR"
<1>1. CASE k = 1
  BY <1>1 DEF PlaceOf, First
<1>2. CASE k = 2
  BY <1>2 DEF PlaceOf, Second
<1>3. CASE k = 3
  BY <1>3 DEF PlaceOf, Scan, Mode, InstrScan
<1>4. CASE k \in 4..10
  BY <1>4 DEF PlaceOf, Scan, Mode, DataScan
<1>. QED BY <1>1, <1>2, <1>3, <1>4

\* A step of the driver and the edge that follows it.
LEMMA ScannedStep ==
  ASSUME NEW k \in 1..10, NEW x, x.mode = Mode(k), x.len = L(k), BitsOnly(x.req),
         NEW c \in PlaceOf(state, k), NEW i, NEW r, i = DMI => k >= 3,
         Scanned(state, c, x.req, bits, i, r, k), Step(x), ~rdy',
         NEW c2, c2 = TapNext(c, tms'), NEW i2, i2 = IrAfter(c, r, i),
         NEW r2, r2 = SrAfter(c, r, i, tdi'), NEW q2, q2 = Drawn(x.req)
  PROVE  Scanned(state', c2, q2, bits', i2, r2, k)
<1>1. i2 = i
  <2>1. c # "UPDATE_IR"
    <3>1. state \notin {"UPDATE_IR", "UPDATE_DR"}
      BY DEF Step, Reset, Idle, Select, Move, Shift, Exit1, Update, Default, DriverState
    <3>. QED BY <3>1, UpdateAt
  <2>2. c # "TEST_LOGIC_RESET"
    BY UpdateAt
  <2>. QED BY <2>1, <2>2, IrStays
<1>2. ASSUME state' \notin IrStates \cup DrStates PROVE q2 = R(k)
  BY <1>2, EarlyStep
<1>3. ASSUME c2 = state', state' \in Approach PROVE bits' = 0
  <2>1. c = state
    BY <1>3, Together
  <2>. QED BY <1>3, <2>1, ApproachStep
<1>4. ASSUME c2 = state', state' \in ShiftStates
      PROVE  /\ bits' \in 0..L(k) - 1 /\ q2 = Left(R(k), bits')
             /\ Matters(state', i) => Arrived(r2, R(k), L(k), bits')
  <2>1. c = state
    <3>1. state' \in Approach \cup IrStates \cup {"SHIFT_DR"}
      BY <1>4 DEF ShiftStates, IrStates
    <3>. QED BY <1>4, <3>1, Together
  <2>2. CASE state \in ShiftStates
    <3>1. /\ bits' \in 0..L(k) - 1 /\ Drawn(x.req) = Left(R(k), bits')
          /\ Matters(state, i) => Arrived(SrAfter(c, r, i, tdi'), R(k), L(k), bits')
          /\ state' \in IrStates <=> state \in IrStates
      BY <1>4, <2>1, <2>2, BitStep
    <3>. QED BY <3>1 DEF Matters
  <2>3. CASE state \notin ShiftStates
    <3>1. state \in {"CAPTURE_DR", "CAPTURE_IR"}
      BY <1>4, <2>3 DEF ShiftStates, Step, Reset, Idle, Select, Move, Shift, Exit1, Update, Default, GoTo
    <3>. QED BY <1>4, <2>1, <3>1, BeginStep
  <2>. QED BY <2>2, <2>3
<1>5. ASSUME c2 = state', state' \in (IrStates \cup DrStates) \ ShiftStates, Matters(state', i)
      PROVE  Arrived(r2, R(k), L(k), L(k))
  <2>1. c = state
    <3>1. state' \in IrStates \/ (state' \in DrStates /\ k >= 3)
      BY <1>5 DEF Matters
    <3>. QED BY <1>5, <3>1, Together
  <2>2. CASE state \in ShiftStates
    <3>1. /\ Matters(state, i) => Arrived(SrAfter(c, r, i, tdi'), R(k), L(k), bits')
          /\ state' \notin ShiftStates => bits' = L(k)
          /\ state' \in IrStates <=> state \in IrStates
      BY <2>1, <2>2, BitStep
    <3>2. bits' = L(k) /\ Matters(state, i)
      BY <1>5, <3>1 DEF Matters
    <3>. QED BY <3>1, <3>2
  <2>3. CASE state \notin ShiftStates
    BY <1>5, <2>1, <2>3, HoldStep
  <2>. QED BY <2>2, <2>3
<1>. QED BY <1>1, <1>2, <1>3, <1>4, <1>5 DEF Scanned

-----------------------------------------------------------------------------
(* The second transaction may write a number below 16 to the instruction   *)
(* register, for the last bit it shifts is zero.                           *)

NoBits(q) == q \in Seq({0})

Zeros(s, c, q, d, r) ==
  /\ NoBits(q)
  /\ c \in IrStates => r \in BitString(5)
  /\ s = "PAUSE_DR" => d = 0
  /\ c \in {"EXIT1_IR", "UPDATE_IR"} /\ s \in {"EXIT2_DR", "UPDATE_DR"} => r[5] = 0

\* A step of the driver in the second transaction.
LEMMA ZerosStep ==
  ASSUME NEW x, x.mode = "JTAG_DR", NEW c \in Second(state), NEW i, NEW r, tdi' \in Bit,
         Zeros(state, c, x.req, tdi, r), Step(x), ~rdy',
         NEW c2, c2 = TapNext(c, tms'),
         NEW r2, r2 = SrAfter(c, r, i, tdi'), NEW q2, q2 = Drawn(x.req)
  PROVE  Zeros(state', c2, q2, tdi', r2)
<1>1. NoBits(x.req) /\ Bit0(x) = 0 /\ NoBits(q2)
  <2> DEFINE q == x.req
  <2>1. q \in Seq({0})
    BY DEF Zeros, NoBits
  <2> HIDE DEF q
  <2>2. q # <<>> => Head(q) = 0 /\ Tail(q) \in Seq({0})
    BY <2>1
  <2>3. Bit0(x) = IF q = <<>> THEN 0 ELSE Head(q)
    BY DEF Bit0, q
  <2>4. q2 = q \/ (q # <<>> /\ q2 = Tail(q))
    BY DEF Drawn, q
  <2>. QED BY <2>1, <2>2, <2>3, <2>4 DEF NoBits, q
<1>2. c \in IrStates => r \in BitString(5)
  BY DEF Zeros
<1>3. ASSUME c = "SHIFT_IR" PROVE r2 \in BitString(5) /\ r2[5] = tdi'
  <2>1. r \in BitString(5)
    BY <1>2, <1>3 DEF IrStates
  <2>2. r2 = Append(Tail(r), tdi')
    BY <1>3 DEF SrAfter
  <2>3. 5 \in Nat \ {0}
    OBVIOUS
  <2>4. Append(Tail(r), tdi') \in BitString(5) /\ Append(Tail(r), tdi')[5] = tdi'
    BY <2>1, <2>3, ShiftedBits
  <2>. QED BY <2>2, <2>4
<1>4. ASSUME c2 \in IrStates PROVE r2 \in BitString(5)
  <2>1. tms' \in {0, 1}
    BY DEF Step, Reset, Idle, Select, Move, Shift, Exit1, Update, Default, GoTo
  <2>2. c \in IrStates \cup {"CAPTURE_IR"} /\ c # "UPDATE_IR"
    <3>1. ~Update
      BY DEF Update
    <3>2. state # "UPDATE_DR"
      BY <3>1 DEF Step, Reset, Idle, Select, Move, Shift, Exit1, Default, DriverState
    <3>. QED BY <1>4, <2>1, <3>2 DEF IrStates, TapNext, Second
  <2>3. CASE c = "CAPTURE_IR"
    <3>1. <<1, 0, 1, 0, 0>> \in BitString(5)
      BY DEF BitString, Bit
    <3>. QED BY <2>3, <3>1 DEF SrAfter
  <2>4. CASE c \in IrStates /\ c # "SHIFT_IR"
    <3>1. r2 = r
      BY <2>4 DEF SrAfter, IrStates
    <3>. QED BY <1>2, <2>4, <3>1
  <2>. QED BY <1>3, <2>2, <2>3, <2>4
<1>5. ASSUME state' = "PAUSE_DR" PROVE tdi' = 0
  <2>1. Exit1(x)
    BY <1>5 DEF Step, Reset, Idle, Select, Move, Shift, Update, Default, GoTo
  <2>. QED BY <1>1, <2>1 DEF Exit1
<1>6. ASSUME c2 \in {"EXIT1_IR", "UPDATE_IR"}, state' \in {"EXIT2_DR", "UPDATE_DR"} PROVE r2[5] = 0
  <2>1. Move
    BY <1>6 DEF Step, Reset, Idle, Select, Shift, Exit1, Update, Default, GoTo
  <2>2. CASE state = "PAUSE_DR"
    <3>1. tdi' = 0 /\ tms' = 1
      BY <2>1, <2>2 DEF Move, GoTo, Zeros
    <3>2. c = "SHIFT_IR"
      BY <1>6, <2>2, <3>1 DEF Second, TapNext
    <3>. QED BY <1>3, <3>1, <3>2
  <2>3. CASE state # "PAUSE_DR"
    <3>1. state = "EXIT2_DR" /\ tms' = 1
      BY <1>6, <2>1, <2>3 DEF Move, GoTo
    <3>2. c = "EXIT1_IR"
      BY <1>6, <3>1 DEF Second, TapNext
    <3>3. r2 = r
      BY <3>2 DEF SrAfter
    <3>. QED BY <3>1, <3>2, <3>3 DEF Zeros
  <2>. QED BY <2>2, <2>3
<1>. QED BY <1>1, <1>4, <1>5, <1>6 DEF Zeros

\* Five bits with the last one zero are not the instruction DMI.
LEMMA SmallInstruction ==
  ASSUME NEW r \in BitString(5), r[5] = 0
  PROVE  number(r) # DMI
<1>1. number(r) = r[1] + r[2] * 2 + r[3] * 4 + r[4] * 8 + r[5] * 16
  BY NumberOf5
<1>2. r[1] \in {0, 1} /\ r[2] \in {0, 1} /\ r[3] \in {0, 1} /\ r[4] \in {0, 1}
  BY DEF BitString, Bit
<1>. QED BY <1>1, <1>2 DEF DMI

\* The first two transactions leave the instruction DMI alone.
LEMMA InstructionBefore ==
  ASSUME NEW k \in {1, 2}, NEW q, NEW b, NEW c \in PlaceOf(state, k), NEW i, NEW r, i # DMI,
         Scanned(state, c, q, b, i, r, k), k = 2 => Zeros(state, c, q, tdi, r)
  PROVE  IrAfter(c, r, i) # DMI
<1>1. CASE c = "UPDATE_IR"
  <2>1. (k = 1 /\ state = "UPDATE_IR") \/ (k = 2 /\ state = "UPDATE_DR")
    BY <1>1, UpdateAt
  <2>2. r \in BitString(5) /\ r[5] = 0
    <3>1. CASE k = 1
      <4>1. Arrived(r, R(1), 5, 5)
        <5>1. L(1) = 5
          BY DEF L
        <5>. QED BY <1>1, <2>1, <3>1, <5>1 DEF Scanned, Matters, IrStates, ShiftStates
      <4>2. r[5 - 5 + 5] = R(1)[5]
        BY <4>1 DEF Arrived
      <4>. QED BY <4>1, <4>2, TransactionsAre DEF Arrived
    <3>2. CASE k = 2
      BY <1>1, <2>1, <3>2 DEF Zeros, IrStates
    <3>. QED BY <3>1, <3>2
  <2>3. IrAfter(c, r, i) = number(r)
    BY <1>1 DEF IrAfter
  <2>. QED BY <2>2, <2>3, SmallInstruction
<1>2. CASE c # "UPDATE_IR"
  <2>1. c # "TEST_LOGIC_RESET"
    BY UpdateAt
  <2>. QED BY <1>2, <2>1, IrStays
<1>. QED BY <1>1, <1>2

\* The third one writes it.
LEMMA InstructionWritten ==
  ASSUME NEW q, NEW b, NEW i, NEW r, state = "UPDATE_IR", Scanned(state, state, q, b, i, r, 3)
  PROVE  IrAfter(state, r, i) = DMI
<1>1. Arrived(r, R(3), 5, 5)
  <2>1. L(3) = 5
    BY DEF L
  <2>. QED BY <2>1 DEF Scanned, Matters, IrStates, ShiftStates
<1>2. r \in BitString(5)
  BY <1>1 DEF Arrived
<1>3. \A j \in 1..5 : r[j] = R(3)[j]
  <2>1. ASSUME NEW j \in 1..5 PROVE r[j] = R(3)[j]
    <3>1. 5 - 5 + j = j
      OBVIOUS
    <3>. QED BY <1>1, <3>1 DEF Arrived
  <2>. QED BY <2>1
<1>4. r[1] = 1 /\ r[2] = 0 /\ r[3] = 0 /\ r[4] = 0 /\ r[5] = 1
  BY <1>3, TransactionsAre
<1>5. number(r) = r[1] + r[2] * 2 + r[3] * 4 + r[4] * 8 + r[5] * 16
  BY <1>2, NumberOf5
<1>6. number(r) = 17
  BY <1>4, <1>5
<1>. QED BY <1>6 DEF IrAfter, DMI

-----------------------------------------------------------------------------
(* What the debug module is asked. *)

\* How many requests there are in the first d transactions.
Asked(d) == IF d <= 3 THEN 0 ELSE IF d <= 5 THEN 1 ELSE IF d <= 9 THEN d - 4 ELSE 5

\* The debug module got these requests, or a first part of them and then
\* dropped one.
Told(s, n, e) == \E m \in 0..n : s = SubSeq(Session, 1, m) /\ (m < n => e)

\* The beginnings of the session.
LEMMA SessionParts ==
  /\ Len(Session) = 5 /\ SubSeq(Session, 1, 0) = <<>>
  /\ \A m \in 0..4 : Append(SubSeq(Session, 1, m), Session[m + 1]) = SubSeq(Session, 1, m + 1)
<1> DEFINE S == Session
           T == {S[j] : j \in 1..5}
<1>1. S \in Seq(T) /\ Len(S) = 5
  BY DEF Session
<1> HIDE DEF S, T
<1>2. \A m \in 0..4 : Append(SubSeq(S, 1, m), S[m + 1]) = SubSeq(S, 1, m + 1)
  <2>1. ASSUME NEW m \in 0..4 PROVE Append(SubSeq(S, 1, m), S[m + 1]) = SubSeq(S, 1, m + 1)
    BY <1>1
  <2>. QED BY <2>1
<1>3. SubSeq(S, 1, 0) = <<>>
  BY <1>1
<1>. QED BY <1>1, <1>2, <1>3 DEF S

\* How the number of requests grows.
LEMMA AskedNumbers ==
  ASSUME NEW k \in 1..10
  PROVE  /\ Asked(k - 1) \in 0..5 /\ Asked(k) \in 0..5
         /\ k <= 3 => Asked(k) = Asked(k - 1)
         /\ k \in {5, 10} => Asked(k) = Asked(k - 1)
         /\ k \in {4, 6, 7, 8, 9} => Asked(k) = Asked(k - 1) + 1
BY DEF Asked

\* The request that makes it grow is the one of the session.
LEMMA AskedRequest ==
  ASSUME NEW k \in {4, 6, 7, 8, 9}
  PROVE  Asked(k) \in 1..5 /\ RequestIn(R(k)) = Session[Asked(k)]
<1>1. Asked(4) = 1 /\ Asked(6) = 2 /\ Asked(7) = 3 /\ Asked(8) = 4 /\ Asked(9) = 5
  BY DEF Asked
<1>. QED BY <1>1, RequestsAre

\* A request that is dropped leaves a beginning of the session.
LEMMA StillTold ==
  ASSUME NEW n \in Nat, NEW n2 \in Nat, NEW s, NEW e, NEW e2, Told(s, n, e), e => e2,
         n2 = n \/ (n2 >= n /\ e2)
  PROVE  Told(s, n2, e2)
<1>1. PICK m \in 0..n : s = SubSeq(Session, 1, m) /\ (m < n => e)
  BY DEF Told
<1>2. m \in 0..n2 /\ (m < n2 => e2)
  BY <1>1
<1>. QED BY <1>1, <1>2 DEF Told

\* What happens to s and e while the port makes the edge from c.
Tells(s, e, s2, e2, c, r, i) ==
  /\ Asks(c, r, i, e) => s2 = Append(s, RequestIn(r)) \/ (s2 = s /\ e2)
  /\ ~Asks(c, r, i, e) => s2 = s
  /\ e => e2

\* With each transaction that asks, the debug module gets the next request of
\* the session, or drops it with all that follow.
LEMMA HeardStep ==
  ASSUME NEW k \in 1..10, NEW x, x.mode = Mode(k), NEW c \in PlaceOf(state, k), NEW i, NEW r,
         i = DMI => k >= 3, k >= 4 => i = DMI,
         Scanned(state, c, x.req, bits, i, r, k), Step(x),
         NEW s, NEW e, NEW s2, NEW e2, Told(s, Asked(k - 1), e), Tells(s, e, s2, e2, c, r, i)
  PROVE  Told(s2, Asked(IF rdy' THEN k ELSE k - 1), e2)
<1> DEFINE n == Asked(k - 1)
<1>1. n \in 0..5 /\ Asked(k) \in 0..5 /\ Told(s, n, e)
  BY AskedNumbers
<1>2. CASE c = "UPDATE_DR" /\ i = DMI
  <2>1. k \in 4..10 /\ state = "UPDATE_DR"
    BY <1>2, UpdateAt
  <2>2. rdy'
    BY <2>1 DEF Step, Reset, Idle, Select, Move, Shift, Exit1, Update, Default, DriverState
  <2>3. r = R(k)
    <3>1. L(k) = 41 /\ Size(k) = 41
      BY <2>1, LongWay
    <3>2. Arrived(r, R(k), 41, 41)
      BY <1>2, <2>1, <3>1 DEF Scanned, Matters, DrStates, ShiftStates
    <3>3. R(k) \in BitString(41)
      BY <3>1, TransactionsAre
    <3>. QED BY <3>2, <3>3, AllArrived
  <2>4. CASE k \in {5, 10}
    <3>1. RequestIn(R(k)).op = 0
      BY <2>4, RequestsAre
    <3>2. ~Asks(c, r, i, e)
      BY <2>3, <3>1 DEF Asks, DTM_READ, DTM_WRITE
    <3>3. s2 = s /\ (e => e2)
      BY <3>2 DEF Tells
    <3>4. Asked(k) = n
      BY <2>4, AskedNumbers
    <3>5. Told(s, Asked(k), e2)
      BY <1>1, <3>3, <3>4, StillTold
    <3>. QED BY <2>2, <3>3, <3>5
  <2>5. CASE k \in {4, 6, 7, 8, 9}
    <3>1. Asked(k) = n + 1 /\ RequestIn(R(k)) = Session[Asked(k)] /\ n \in 0..4
      BY <1>1, <2>5, AskedNumbers, AskedRequest
    <3>2. CASE ~e /\ s2 = Append(s, RequestIn(r))
      <4>1. s2 = SubSeq(Session, 1, n + 1)
        <5>1. Append(s, Session[n + 1]) = SubSeq(Session, 1, n + 1)
          <6> HIDE DEF n
          <6>1. PICK m \in 0..n : s = SubSeq(Session, 1, m) /\ (m < n => e)
            BY <1>1 DEF Told
          <6>2. m = n /\ n \in 0..4
            BY <1>1, <3>1, <3>2, <6>1
          <6>. QED BY <6>1, <6>2, SessionParts
        <5>. QED BY <2>3, <3>1, <3>2, <5>1
      <4>2. Told(s2, Asked(k), e2)
        BY <1>1, <3>1, <4>1 DEF Told
      <4>. QED BY <2>2, <4>2
    <3>3. CASE s2 = s /\ e2
      <4>1. Told(s, Asked(k), e2)
        <5>1. Asked(k) \in Nat /\ n \in Nat /\ Asked(k) >= n
          BY <1>1, <3>1
        <5>2. e => e2
          BY <3>3
        <5> HIDE DEF n
        <5>. QED BY <1>1, <3>3, <5>1, <5>2, StillTold
      <4>. QED BY <2>2, <3>3, <4>1
    <3>4. CASE e
      <4>1. s2 = s /\ e2
        BY <3>4 DEF Asks, Tells
      <4>2. Told(s, Asked(k), e2)
        <5>1. Asked(k) \in Nat /\ n \in Nat /\ Asked(k) >= n
          BY <1>1, <3>1
        <5> HIDE DEF n
        <5>. QED BY <1>1, <4>1, <5>1, StillTold
      <4>. QED BY <2>2, <4>1, <4>2
    <3>5. ASSUME ~e PROVE Asks(c, r, i, e)
      <4>1. RequestIn(R(k)).op \in {1, 2}
        <5>1. /\ Session[1].op = 1 /\ Session[2].op = 2 /\ Session[3].op = 2
              /\ Session[4].op = 2 /\ Session[5].op = 1
          BY DEF Session, Request
        <5>2. Asked(k) \in {1, 2, 3, 4, 5}
          BY <1>1, <3>1
        <5>. QED BY <3>1, <5>1, <5>2
      <4>. QED BY <1>2, <2>3, <3>5, <4>1 DEF Asks, DTM_READ, DTM_WRITE
    <3>. QED BY <3>2, <3>3, <3>4, <3>5 DEF Tells
  <2>. QED BY <2>1, <2>4, <2>5
<1>3. CASE ~(c = "UPDATE_DR" /\ i = DMI)
  <2>1. s2 = s /\ (e => e2)
    BY <1>3 DEF Asks, Tells
  <2>2. Asked(IF rdy' THEN k ELSE k - 1) = n
    <3>1. CASE ~rdy'
      BY <3>1
    <3>2. CASE rdy' /\ k <= 3
      BY <3>2, AskedNumbers
    <3>3. CASE rdy' /\ k \in 4..10
      <4>1. state \in {"UPDATE_DR", "UPDATE_IR"}
        BY <3>3 DEF Step, Reset, Idle, Select, Move, Shift, Exit1, Update, Default
      <4>2. c = "UPDATE_DR"
        BY <3>3, <4>1 DEF PlaceOf, Scan, Mode, DataScan
      <4>. QED BY <1>3, <3>3, <4>2
    <3>. QED BY <3>1, <3>2, <3>3
  <2>3. Told(s, n, e2)
    BY <1>1, <2>1, StillTold
  <2>. QED BY <2>1, <2>2, <2>3
<1>. QED BY <1>2, <1>3

-----------------------------------------------------------------------------
(* The invariant of the session. *)

\* Of the n transactions in q only the first has been begun.
Fresh(q, n) == /\ \A j \in 2..n : q[j] = Transactions[10 - n + j]
               /\ n > 0 => q[1].len = L(11 - n) /\ BitsOnly(q[1].req)

\* The transactions that are over.
Done == IF rdy THEN Popped + 1 ELSE Popped

\* The first two transactions leave the port with another instruction than
\* DMI, the third one writes it and no other changes it.
Instruction == /\ Done <= 1 => ComingIr # DMI
               /\ Done >= 3 => ComingIr = DMI

\* What the driver and the port make of the transaction at the front.
AtFront == seq # <<>> /\ ~rdy =>
           /\ Scanned(state, Coming, seq[1].req, bits, ComingIr, ComingSr, Popped + 1)
           /\ Popped = 1 => Zeros(state, Coming, seq[1].req, tdi, ComingSr)

Listening == /\ tdi \in Bit /\ Fresh(seq, 10 - Popped) /\ AtFront /\ Instruction
             /\ Told(ComingSeen, Asked(Done), ComingError)

\* Nothing has been asked before the driver is called.
Silent == tdi = 0 /\ ir = IDCODE /\ seen = <<>>

SessionInv == IInv /\ (IF time <= 100 THEN Silent ELSE Listening) /\ DebugModuleSees

\* The reset asks nothing.
LEMMA SilentStep ==
  ASSUME Clock, Starting, Silent, Next, time < 100
  PROVE  Silent'
<1>1. time \in Nat /\ time' = time + 1
  BY DEF Next, Clock
<1>2. tdi' = tdi
  BY <1>1 DEF Next, Quiet, wires
<1>3. CASE trst_n' = 0
  BY <1>2, <1>3 DEF Next, Port, TapReset, Silent
<1>4. CASE trst_n' # 0
  <2>1. tap \notin {"CAPTURE_DR", "CAPTURE_IR", "SHIFT_DR", "SHIFT_IR", "UPDATE_DR", "UPDATE_IR"}
    BY DEF Starting
  <2>2. Port
    BY DEF Next
  <2>3. CASE ~tck /\ tck'
    <3>1. TapEdge(tms', tdi')
      BY <1>4, <2>2, <2>3 DEF Port
    <3>2. Rest
      BY <2>1, <3>1 DEF TapEdge, Capture, ShiftIn, UpdateIr, UpdateDr
    <3>. QED BY <1>2, <3>2 DEF Rest, NoAccess, Silent
  <2>4. CASE ~(~tck /\ tck')
    BY <1>2, <1>4, <2>2, <2>4 DEF Port, tapVars, Silent
  <2>. QED BY <2>3, <2>4
<1>. QED BY <1>3, <1>4

\* The requests are bits.
LEMMA BitStringOnly ==
  ASSUME NEW k \in 1..10
  PROVE  BitsOnly(R(k))
<1>1. R(k) \in BitString(Size(k)) /\ Size(k) \in Nat
  BY TransactionsAre, LongWay
<1>. QED BY <1>1, BitNumbers DEF BitsOnly

\* A transaction that comes to the front has not been begun.
LEMMA FirstFront ==
  ASSUME NEW k \in 1..10, NEW c, NEW s, NEW b, NEW i, NEW r,
         s \notin IrStates \cup DrStates, c # s \/ s \notin Approach
  PROVE  Scanned(s, c, R(k), b, i, r, k)
BY DEF Scanned, ShiftStates, IrStates, DrStates

\* Before the session nothing has been asked.
LEMMA NothingTold == ASSUME NEW e PROVE Told(<<>>, 0, e)
BY SessionParts DEF Told

\* When the driver is called for the first time.
LEMMA SilenceEnds ==
  ASSUME Clock, Starting, Silent, time = 100
  PROVE  Listening
<1>1. ~tck /\ tap = "RUN_TEST_IDLE" /\ Coming = "RUN_TEST_IDLE"
  BY DEF Clock, Starting, Coming, TapNext
<1>2. ComingIr = IDCODE /\ ComingSeen = <<>>
  BY <1>1 DEF Silent, ComingIr, ComingSeen, IrAfter, Asks
<1>3. Popped = 0 /\ Done = 0 /\ seq # <<>> /\ 10 - Popped = 10
  <2>1. Popped = 0 /\ seq # <<>>
    <3>1. 10 \in 0..10 /\ Waiting(seq, 10)
      BY QueueInit DEF Starting
    <3>. QED BY <3>1, Count
  <2>. QED BY <2>1 DEF Done, Starting
<1>4. seq[1].req = R(1) /\ seq[1].len = L(1) /\ BitsOnly(R(1))
  BY TransactionsAre, BitStringOnly DEF Starting, R
<1>5. Fresh(seq, 10)
  <2>1. \A j \in 2..10 : seq[j] = Transactions[10 - 10 + j]
    BY DEF Starting
  <2>. QED BY <1>4, <2>1 DEF Fresh
<1>6. Scanned(state, Coming, seq[1].req, bits, ComingIr, ComingSr, 1)
  <2>1. CASE state \notin IrStates \cup DrStates
    <3>1. Coming # state \/ state \notin Approach
      BY <1>1 DEF Approach
    <3>. QED BY <1>4, <2>1, <3>1, FirstFront
  <2>2. CASE state \in IrStates \cup DrStates
    BY <1>1, <2>2 DEF Scanned, Approach, ShiftStates, IrStates, DrStates
  <2>. QED BY <2>1, <2>2
<1>7. AtFront
  BY <1>3, <1>6 DEF AtFront
<1>8. Instruction
  BY <1>2, <1>3 DEF Instruction, IDCODE, DMI
<1>9. Told(ComingSeen, Asked(Done), ComingError)
  <2>1. Asked(0) = 0
    BY DEF Asked
  <2>. QED BY <1>2, <1>3, <2>1, NothingTold
<1>10. tdi \in Bit
  BY DEF Silent, Bit
<1>. QED BY <1>3, <1>5, <1>7, <1>8, <1>9, <1>10 DEF Listening

\* What the k-th transaction at the front is.
LEMMA FrontIs ==
  ASSUME NEW n \in 1..10, Waiting(seq, n), Fresh(seq, n)
  PROVE  /\ Head(seq) = seq[1] /\ seq[1].mode = Mode(11 - n) /\ seq[1].len = L(11 - n)
         /\ BitsOnly(seq[1].req) /\ IsTransaction(seq[1], 11 - n)
<1>1. n \in 0..10 /\ n > 0
  OBVIOUS
<1>2. Head(seq) = seq[1] /\ Head(seq).mode = Mode(11 - n)
  BY <1>1, QueueLength
<1>3. IsTransaction(seq[1], 11 - n)
  <2>1. 1 \in 1..n /\ 10 - n + 1 = 11 - n
    OBVIOUS
  <2>. QED BY <2>1 DEF Waiting
<1>. QED BY <1>1, <1>2, <1>3 DEF Fresh

\* The next transaction is as the debugger has made it.
LEMMA FreshTail ==
  ASSUME NEW q, NEW n \in 1..10, Waiting(q, n), Fresh(q, n)
  PROVE  /\ Fresh(Tail(q), n - 1)
         /\ n > 1 => Tail(q)[1].req = R(12 - n)
<1> DEFINE t == Tail(q)
<1>1. \A j \in 1..n - 1 : t[j] = q[j + 1]
  <2> DEFINE S == {q[i] : i \in 1..n}
  <2>1. n \in 0..10
    OBVIOUS
  <2>2. q \in Seq(S) /\ Len(q) = n
    BY <2>1, QueueLength
  <2> HIDE DEF S
  <2>3. q # <<>>
    BY <2>2
  <2>. QED BY <2>2, <2>3
<1> HIDE DEF t
<1>2. ASSUME NEW j \in 1..n - 1 PROVE t[j] = Transactions[10 - (n - 1) + j]
  <2>1. j + 1 \in 2..n /\ 10 - n + (j + 1) = 10 - (n - 1) + j
    OBVIOUS
  <2>. QED BY <1>1, <2>1 DEF Fresh
<1>3. ASSUME n > 1
      PROVE  t[1].req = R(12 - n) /\ t[1].len = L(12 - n) /\ BitsOnly(t[1].req)
  <2>1. 1 \in 1..n - 1 /\ 10 - (n - 1) + 1 = 12 - n /\ 12 - n \in 1..10
    BY <1>3
  <2>2. t[1] = Transactions[12 - n]
    BY <1>2, <2>1
  <2>. QED BY <2>1, <2>2, TransactionsAre, BitStringOnly DEF R
<1>4. 11 - (n - 1) = 12 - n /\ (n - 1 > 0 <=> n > 1)
  OBVIOUS
<1>5. \A j \in 2..n - 1 : t[j] = Transactions[10 - (n - 1) + j]
  BY <1>2
<1>6. Fresh(t, n - 1)
  BY <1>3, <1>4, <1>5 DEF Fresh
<1>. QED BY <1>3, <1>6 DEF t

\* What the driver leaves of the request.
LEMMA DrivenReq ==
  ASSUME NEW x, NEW k, IsTransaction(x, k), FallingEdge
  PROVE  Driven(x).req = Drawn(x.req) /\ Driven(x).len = x.len
BY DEF Driven, Drawn, IsTransaction, ShiftStates

\* Only the transaction at the front changes.
LEMMA FreshFed ==
  ASSUME NEW n \in 1..10, Waiting(seq, n), Fresh(seq, n), NEW y,
         y.len = seq[1].len, BitsOnly(y.req)
  PROVE  /\ Fresh([seq EXCEPT ![1] = y], n)
         /\ [seq EXCEPT ![1] = y][1] = y
<1> DEFINE t == [seq EXCEPT ![1] = y]
<1>1. seq = [i \in 1..n |-> seq[i]]
  BY DEF Waiting
<1>2. t[1] = y /\ \A j \in 2..n : t[j] = seq[j]
  BY <1>1
<1> HIDE DEF t
<1>3. Fresh(t, n)
  BY <1>2 DEF Fresh
<1>. QED BY <1>2, <1>3 DEF t

\* Where the port is now, in terms of the transaction.
LEMMA PlaceIs ==
  ASSUME Driving, seq # <<>>, ~rdy, NEW k \in 1..10, Popped = k - 1
  PROVE  Coming \in PlaceOf(state, k)
<1>1. CASE k = 1
  <2>1. Popped = 0
    BY <1>1
  <2>. QED BY <1>1, <2>1 DEF Driving, Place, PlaceOf
<1>2. CASE k = 2
  <2>1. Popped = 1
    BY <1>2
  <2>. QED BY <1>2, <2>1 DEF Driving, Place, PlaceOf
<1>3. CASE k \in 3..10
  <2>1. Popped # 0 /\ Popped # 1
    BY <1>3
  <2>2. Coming = state /\ state \in Scan(Mode(k))
    BY <2>1 DEF Driving, Place
  <2>. QED BY <1>3, <2>2 DEF PlaceOf
<1>. QED BY <1>1, <1>2, <1>3

\* An idle port asks nothing.
LEMMA IdleFalls ==
  ASSUME Falls, Coming = "RUN_TEST_IDLE"
  PROVE  /\ ComingIr' = ComingIr /\ ComingSeen' = ComingSeen
         /\ ComingError => ComingError'
BY DEF Falls, IrAfter, Asks

\* When no transaction is left nothing more is asked.
LEMMA QuietHears ==
  ASSUME Clock, Driving, Next, time >= 100, seq = <<>>, Listening
  PROVE  Listening'
<1>1. time \in Nat /\ trst_n' = 1
  BY DEF Driving, Next, Clock
<1>2. UNCHANGED <<wires, driverVars, seq>>
  BY DEF Next, Quiet
<1>3. Popped = 10 /\ Popped' = 10 /\ ~rdy /\ Done = 10 /\ Done' = 10
  <2>1. PICK n \in 0..10 : Waiting(seq, n)
    BY DEF Driving, Queue
  <2>2. Popped = 10
    BY <2>1, Count
  <2>3. ~rdy /\ ~rdy'
    BY <1>2 DEF Driving, driverVars
  <2>4. Popped' = Popped
    BY <1>2 DEF Popped
  <2>. QED BY <2>2, <2>3, <2>4 DEF Done
<1>4. Coming = "RUN_TEST_IDLE"
  BY <1>3 DEF Driving, Place
<1>5. /\ ComingIr' = ComingIr /\ ComingSeen' = ComingSeen
      /\ ComingError => ComingError'
  <2>1. CASE tck /\ ~tck'
    <3>1. UNCHANGED tapVars
      BY <1>1, <2>1 DEF Next, Port
    <3>2. Falls
      BY <2>1, <3>1 DEF tapVars, Falls, Coming, ComingSr, ComingIr, ComingSeen, ComingError,
                        SrAfter, IrAfter, Asks
    <3>. QED BY <1>4, <3>2, IdleFalls
  <2>2. CASE ~(tck /\ ~tck')
    <3>1. Stays
      BY <1>1, <1>2, <2>2, StaysStep DEF wires
    <3>. QED BY <3>1 DEF Stays
  <2>. QED BY <2>1, <2>2
<1>6. Told(ComingSeen, 5, ComingError) /\ Asked(10) = 5
  BY <1>3 DEF Listening, Asked
<1>7. Told(ComingSeen', 5, ComingError')
  <2>1. 5 \in Nat
    OBVIOUS
  <2>2. PICK m \in 0..5 : ComingSeen = SubSeq(Session, 1, m) /\ (m < 5 => ComingError)
    BY <1>6 DEF Told
  <2>. QED BY <1>5, <2>2 DEF Told
<1>8. Told(ComingSeen, Asked(Done), ComingError)'
  BY <1>3, <1>6, <1>7
<1>9. Fresh(seq, 10 - Popped)'
  <2>1. Fresh(seq, 10 - Popped)
    BY DEF Listening
  <2>. QED BY <1>2, <1>3, <2>1 DEF Fresh
<1>10. AtFront'
  BY <1>2 DEF AtFront
<1>11. Instruction'
  BY <1>3, <1>5 DEF Listening, Instruction
<1>12. (tdi \in Bit)'
  BY <1>2 DEF Listening, wires
<1>. QED BY <1>8, <1>9, <1>10, <1>11, <1>12 DEF Listening

\* Nothing changes for the port while the driver waits.
LEMMA StaysTold ==
  ASSUME Stays, NEW n, Told(ComingSeen, n, ComingError)
  PROVE  Told(ComingSeen', n, ComingError')
<1>1. PICK m \in 0..n : ComingSeen = SubSeq(Session, 1, m) /\ (m < n => ComingError)
  BY DEF Told
<1>. QED BY <1>1 DEF Told, Stays

\* The next transaction comes to the front.
LEMMA ReadyFedHears ==
  ASSUME Clock, Starting \/ time > 100, Driving, Next, time >= 100, seq # <<>>, rdy, Listening
  PROVE  Listening'
<1>1. time \in Nat /\ time' = time + 1 /\ trst_n' = 1
  BY DEF Driving, Next, Clock
<1>2. drive(Head(seq)) /\ seq' = Tail(seq) /\ time > 100
  BY <1>1 DEF Next, Feed, Starting
<1>3. ~FallingEdge
  BY EdgeStep
<1>4. Wait
  BY <1>2, <1>3 DEF drive
<1>5. ~rdy' /\ state' = state /\ UNCHANGED <<tms, tdi>>
  BY <1>4 DEF Wait, wires
<1>6. tck' = tck
  <2>1. time' % 10 # 0
    BY <1>1 DEF Driving
  <2>. QED BY <2>1, ClockStep
<1>7. Stays
  <2>1. ~(tck /\ ~tck')
    BY <1>6
  <2>. QED BY <1>1, <1>5, <2>1, StaysStep
<1>8. PICK n \in 0..10 : Waiting(seq, n)
  BY DEF Driving, Queue
<1>9. n \in 1..10 /\ Popped = 10 - n /\ 10 - Popped = n
  BY <1>8, Count
<1>10. Waiting(seq, n) /\ Fresh(seq, n)
  BY <1>8, <1>9 DEF Listening
<1>11. Fresh(seq', n - 1) /\ (n > 1 => seq'[1].req = R(12 - n))
  BY <1>2, <1>9, <1>10, FreshTail
<1>12. Popped' = Popped + 1 /\ (seq' = <<>> <=> n = 1) /\ 10 - Popped' = n - 1
  <2>1. Waiting(seq', n - 1) /\ n - 1 \in 0..10
    <3>1. Waiting(Tail(seq), n - 1)
      BY <1>8, <1>9, QueueFed
    <3>. QED BY <1>2, <1>9, <3>1
  <2>2. Len(Transactions) - Len(seq') = 10 - (n - 1) /\ (seq' = <<>> <=> n - 1 = 0)
    BY <2>1, QueueLength
  <2>. QED BY <1>9, <2>2 DEF Popped
<1>13. Done' = Done
  BY <1>5, <1>12 DEF Done
<1>14. Told(ComingSeen, Asked(Done), ComingError)'
  <2>1. Told(ComingSeen, Asked(Done), ComingError)
    BY DEF Listening
  <2>2. Told(ComingSeen', Asked(Done), ComingError')
    BY <1>7, <2>1, StaysTold
  <2>. QED BY <1>13, <2>2
<1>15. Instruction'
  BY <1>7, <1>13 DEF Listening, Instruction, Stays
<1>16. AtFront'
  <2>1. SUFFICES ASSUME n > 1 PROVE AtFront'
    BY <1>9, <1>12 DEF AtFront
  <2>2. Popped' + 1 = 12 - n /\ 12 - n \in 1..10 /\ seq'[1].req = R(12 - n)
    BY <1>9, <1>11, <1>12, <2>1
  <2>3. state' = "RUN_TEST_IDLE"
    BY <1>5 DEF Driving, Place
  <2>4. state' \notin IrStates \cup DrStates /\ state' \notin Approach
    BY <2>3 DEF IrStates, DrStates, Approach
  <2>5. Scanned(state', Coming', seq'[1].req, bits', ComingIr', ComingSr', Popped' + 1)
    <3> DEFINE k == 12 - n
    <3>1. k \in 1..10 /\ seq'[1].req = R(k) /\ Popped' + 1 = k
      BY <2>2
    <3> HIDE DEF k
    <3>2. Scanned(state', Coming', R(k), bits', ComingIr', ComingSr', k)
      BY <2>4, <3>1, FirstFront
    <3>. QED BY <3>1, <3>2
  <2>6. ASSUME Popped' = 1 PROVE Zeros(state', Coming', seq'[1].req, tdi', ComingSr')
    <3>1. Popped = 0 /\ 12 - n = 2
      BY <1>9, <1>12, <2>6
    <3>2. Coming' = Coming
      <4>1. ~(tck /\ ~tck') /\ tms' = tms
        BY <1>5, <1>6
      <4>. QED BY <1>1, <4>1, ComingStep
    <3>3. Coming \in Between
      BY <3>1 DEF Driving, Place
    <3>4. NoBits(R(2))
      <4>1. Zero(32) \in Seq({0})
        BY DEF Zero
      <4>. QED BY <4>1, TransactionsAre DEF NoBits
    <3>. QED BY <2>2, <2>3, <3>1, <3>2, <3>3, <3>4 DEF Zeros, Between, IrStates
  <2>. QED BY <2>5, <2>6 DEF AtFront
<1>17. (tdi \in Bit)'
  BY <1>5 DEF Listening
<1>. QED BY <1>11, <1>12, <1>14, <1>15, <1>16, <1>17 DEF Listening

\* Between falling edges the driver waits.
LEMMA WaitHears ==
  ASSUME Clock, Starting \/ time > 100, Driving, Next, time >= 100, seq # <<>>, ~rdy, ~FallingEdge,
         Listening
  PROVE  Listening'
<1>1. time \in Nat /\ time' = time + 1 /\ trst_n' = 1
  BY DEF Driving, Next, Clock
<1>2. drive(Head(seq)) /\ seq' = [seq EXCEPT ![1] = Driven(@)]
  BY <1>1 DEF Next, Feed
<1>3. PICK n \in 0..10 : Waiting(seq, n)
  BY DEF Driving, Queue
<1>4. seq' = seq
  <2>1. Driven(seq[1]) = seq[1]
    BY DEF Driven
  <2>2. seq = [i \in 1..n |-> seq[i]]
    BY <1>3 DEF Waiting
  <2>. QED BY <1>2, <2>1, <2>2
<1>5. Wait
  BY <1>2 DEF drive
<1>6. ~rdy' /\ UNCHANGED <<tms, tdi, bits, state>>
  BY <1>5 DEF Wait, wires
<1>7. ~(tck /\ ~tck')
  <2>1. CASE time = 100
    BY <2>1 DEF Clock
  <2>2. CASE time > 100
    BY <2>2 DEF Driving, FallingEdge
  <2>. QED BY <1>1, <2>1, <2>2
<1>8. Coming' = Coming
  BY <1>1, <1>6, <1>7, ComingStep
<1>9. Stays
  BY <1>1, <1>6, <1>7, StaysStep
<1>10. Popped' = Popped
  BY <1>4 DEF Popped
<1>11. Done' = Done
  BY <1>6, <1>10 DEF Done
<1>12. Told(ComingSeen, Asked(Done), ComingError)'
  <2>1. Told(ComingSeen, Asked(Done), ComingError)
    BY DEF Listening
  <2>2. Told(ComingSeen', Asked(Done), ComingError')
    BY <1>9, <2>1, StaysTold
  <2>. QED BY <1>11, <2>2
<1>13. Instruction'
  BY <1>9, <1>11 DEF Listening, Instruction, Stays
<1>14. AtFront'
  BY <1>4, <1>6, <1>8, <1>9, <1>10 DEF Listening, AtFront, Stays
<1>15. Fresh(seq, 10 - Popped)' /\ (tdi \in Bit)'
  BY <1>4, <1>6, <1>10 DEF Listening, Fresh
<1>. QED BY <1>12, <1>13, <1>14, <1>15 DEF Listening

\* A falling edge: the driver makes one step, and the port will follow.
LEMMA EdgeHears ==
  ASSUME Clock, Starting \/ time > 100, Driving, Next, time >= 100, seq # <<>>, ~rdy, FallingEdge,
         Listening
  PROVE  Listening'
<1>1. drive(Head(seq)) /\ seq' = [seq EXCEPT ![1] = Driven(@)]
  <2>1. time \in Nat /\ time' = time + 1
    BY DEF Next, Clock
  <2>. QED BY <2>1 DEF Next, Feed
<1>2. PICK n \in 0..10 : Waiting(seq, n)
  BY DEF Driving, Queue
<1>3. n \in 1..10 /\ Popped = 10 - n /\ 10 - Popped = n
  BY <1>2, Count
<1> DEFINE k == 11 - n
           x == seq[1]
           y == Driven(seq[1])
<1>4. k \in 1..10 /\ Popped = k - 1 /\ Popped + 1 = k /\ 10 - n = k - 1
  BY <1>3
<1>5. Waiting(seq, n) /\ Fresh(seq, n)
  BY <1>2, <1>3 DEF Listening
<1>6. /\ Head(seq) = x /\ x.mode = Mode(k) /\ x.len = L(k) /\ BitsOnly(x.req)
      /\ IsTransaction(x, k)
  BY <1>3, <1>5, FrontIs
<1>7. Step(x)
  BY <1>1, <1>6 DEF drive, Wait
<1>8. y.req = Drawn(x.req) /\ y.len = x.len
  <2> HIDE DEF k
  <2>. QED BY <1>6, DrivenReq
<1>9. Fresh(seq', n) /\ seq'[1] = y
  <2>1. BitsOnly(y.req)
    BY <1>6, <1>8, Bit0Is
  <2>2. seq' = [seq EXCEPT ![1] = y]
    BY <1>1
  <2> HIDE DEF y, k
  <2>3. /\ Fresh([seq EXCEPT ![1] = y], n)
        /\ [seq EXCEPT ![1] = y][1] = y
    BY <1>3, <1>5, <1>8, <2>1, FreshFed
  <2>. QED BY <2>2, <2>3
<1>10. Popped' = Popped /\ seq' # <<>>
  <2>1. Waiting(seq', n)
    <3>1. Waiting([seq EXCEPT ![1] = Driven(@)], n)
      BY <1>2, <1>3, QueueFed
    <3>. QED BY <1>1, <3>1
  <2>2. n \in 0..10
    BY <1>3
  <2>3. Len(Transactions) - Len(seq') = 10 - n /\ (seq' = <<>> <=> n = 0)
    BY <2>1, <2>2, QueueLength
  <2>. QED BY <1>3, <2>3 DEF Popped
<1>11. Coming' = TapNext(Coming, tms')
  BY EdgeStep
<1>12. Falls
  BY FallsStep
<1> HIDE DEF k, x, y
<1>13. Coming \in PlaceOf(state, k)
  BY <1>4, PlaceIs
<1>14. Scanned(state, Coming, x.req, bits, ComingIr, ComingSr, k)
  BY <1>4 DEF Listening, AtFront, x
<1>15. k = 2 => Zeros(state, Coming, x.req, tdi, ComingSr)
  BY <1>4 DEF Listening, AtFront, x
<1>16. (ComingIr = DMI => k >= 3) /\ (k >= 4 => ComingIr = DMI)
  <2>1. Done = k - 1
    BY <1>4 DEF Done
  <2>. QED BY <1>4, <2>1 DEF Listening, Instruction
<1>17. tdi' \in Bit
  BY <1>6, <1>7, TdiStep DEF Listening
<1>18. Done' = IF rdy' THEN k ELSE k - 1
  BY <1>4, <1>10 DEF Done
<1>19. Told(ComingSeen, Asked(Done), ComingError)'
  <2>1. Told(ComingSeen, Asked(k - 1), ComingError)
    <3>1. Done = k - 1
      BY <1>4 DEF Done
    <3>. QED BY <3>1 DEF Listening
  <2>2. Tells(ComingSeen, ComingError, ComingSeen', ComingError', Coming, ComingSr, ComingIr)
    BY <1>12 DEF Falls, Tells
  <2>3. Told(ComingSeen', Asked(IF rdy' THEN k ELSE k - 1), ComingError')
    BY <1>4, <1>6, <1>7, <1>13, <1>14, <1>16, <2>1, <2>2, HeardStep
  <2>. QED BY <1>18, <2>3
<1>20. ComingIr' = IrAfter(Coming, ComingSr, ComingIr) /\ ComingSr' = SrAfter(Coming, ComingSr, ComingIr, tdi')
  BY <1>12 DEF Falls
<1>21. Instruction'
  <2>1. CASE k \in {1, 2}
    <3>1. ComingIr # DMI
      BY <1>16, <2>1
    <3>2. IrAfter(Coming, ComingSr, ComingIr) # DMI
      BY <1>13, <1>14, <1>15, <2>1, <3>1, InstructionBefore
    <3>. QED BY <1>18, <1>20, <2>1, <3>2 DEF Instruction
  <2>2. CASE k = 3
    <3>1. CASE rdy'
      <4>1. Coming = state /\ state = "UPDATE_IR"
        <5>1. state \in {"UPDATE_DR", "UPDATE_IR"}
          BY <1>7, <3>1 DEF Step, Reset, Idle, Select, Move, Shift, Exit1, Update, Default
        <5>. QED BY <1>13, <2>2, <5>1 DEF PlaceOf, Scan, Mode, InstrScan
      <4>2. Scanned(state, state, x.req, bits, ComingIr, ComingSr, 3)
        BY <1>14, <2>2, <4>1
      <4>3. IrAfter(state, ComingSr, ComingIr) = DMI
        BY <4>1, <4>2, InstructionWritten
      <4>. QED BY <1>18, <1>20, <2>2, <3>1, <4>1, <4>3 DEF Instruction
    <3>2. CASE ~rdy'
      BY <1>18, <2>2, <3>2 DEF Instruction
    <3>. QED BY <3>1, <3>2
  <2>3. CASE k \in 4..10
    <3>1. Coming \notin {"UPDATE_IR", "TEST_LOGIC_RESET"}
      BY <1>4, <1>13, <2>3, UpdateAt
    <3>2. ComingIr' = ComingIr /\ ComingIr = DMI
      BY <1>16, <1>20, <2>3, <3>1, IrStays
    <3>. QED BY <1>18, <2>3, <3>2 DEF Instruction
  <2>. QED BY <1>4, <2>1, <2>2, <2>3
<1>22. AtFront'
  <2>. SUFFICES ASSUME ~rdy' PROVE AtFront'
    BY DEF AtFront
  <2>1. seq'[1].req = Drawn(x.req)
    BY <1>8, <1>9
  <2>2. Scanned(state', Coming', seq'[1].req, bits', ComingIr', ComingSr', k)
    BY <1>4, <1>6, <1>7, <1>11, <1>13, <1>14, <1>16, <1>20, <2>1, ScannedStep
  <2>3. ASSUME k = 2 PROVE Zeros(state', Coming', seq'[1].req, tdi', ComingSr')
    <3>1. x.mode = "JTAG_DR" /\ Coming \in Second(state)
      BY <1>6, <1>13, <2>3 DEF Mode, PlaceOf
    <3>2. Zeros(state, Coming, x.req, tdi, ComingSr)
      BY <1>15, <2>3
    <3>. QED BY <1>7, <1>11, <1>17, <1>20, <2>1, <3>1, <3>2, ZerosStep
  <2>4. Popped' + 1 = k /\ (Popped' = 1 => k = 2)
    BY <1>4, <1>10
  <2>. QED BY <2>2, <2>3, <2>4 DEF AtFront
<1>23. Fresh(seq, 10 - Popped)'
  BY <1>3, <1>9, <1>10
<1>. QED BY <1>17, <1>19, <1>21, <1>22, <1>23 DEF Listening

\* One iteration of the loop.
LEMMA HearsStep ==
  ASSUME Clock, Starting \/ time > 100, Driving, Next, time >= 100, Listening
  PROVE  Listening'
BY QuietHears, ReadyFedHears, WaitHears, EdgeHears

\* The beginnings of the session are its prefixes.
LEMMA PartsArePrefixes ==
  ASSUME NEW m \in 0..5
  PROVE  IsPrefix(SubSeq(Session, 1, m), Session)
<1> DEFINE S == Session
           T == {S[j] : j \in 1..5}
           p == SubSeq(S, 1, m)
<1>1. S \in Seq(T) /\ Len(S) = 5
  BY DEF Session
<1>2. \A j \in 1..5 : S[j] \in T
  OBVIOUS
<1> HIDE DEF S, T
<1>3. Len(p) = m
  BY <1>1
<1>4. SubSeq(S, 1, Len(p)) = p
  BY <1>3
<1>5. \A j \in 1..m : p[j] = S[j]
  BY <1>1
<1>6. p \in Seq(T)
  <2>1. ASSUME NEW j \in 1..m PROVE S[j] \in T
    <3>1. j \in 1..5
      OBVIOUS
    <3>. QED BY <1>2, <3>1
  <2>2. p = [j \in 1..m |-> S[j]]
    <3>1. m \in Nat
      OBVIOUS
    <3>2. p = [j \in 1..1 + m - 1 |-> S[1 + j - 1]]
      BY <3>1
    <3>. QED BY <3>1, <3>2
  <2> HIDE DEF p
  <2>. QED BY <2>1, <2>2
<1> HIDE DEF p
<1>7. IsPrefix(p, S)
  BY <1>1, <1>3, <1>4, <1>5, <1>6 DEF IsPrefix
<1>. QED BY <1>7 DEF p, S

\* There are five requests at most.
LEMMA DoneNumber ==
  ASSUME Driving
  PROVE  Asked(Done) \in 0..5
<1>1. PICK n \in 0..10 : Waiting(seq, n)
  BY DEF Driving, Queue
<1>2. Done \in 0..11
  BY <1>1, Count DEF Done
<1> HIDE DEF Done
<1>. QED BY <1>2 DEF Asked

\* The debug module gets nothing but what the coming edge brings.
LEMMA SeesStep ==
  ASSUME Clock, Driving, Next, Listening, DebugModuleSees
  PROVE  DebugModuleSees'
<1>1. trst_n' = 1 \/ trst_n' = 0
  BY DEF Driving, Next
<1>2. seen' \in {seen, ComingSeen}
  <2>1. CASE trst_n' = 0
    BY <2>1 DEF Next, Port, TapReset
  <2>2. CASE trst_n' # 0
    <3>1. Port
      BY DEF Next
    <3>2. CASE ~tck /\ tck'
      <4>1. TapEdge(tms', tdi')
        BY <2>2, <3>1, <3>2 DEF Port
      <4>2. seen' = (IF Asks(tap, sr, ir, error) /\ busy = 0 THEN Append(seen, RequestIn(sr)) ELSE seen)
        BY <4>1, RiseStep
      <4>. QED BY <3>2, <4>2 DEF ComingSeen
    <3>3. CASE ~(~tck /\ tck')
      BY <2>2, <3>1, <3>3 DEF Port, tapVars
    <3>. QED BY <3>2, <3>3
  <2>. QED BY <2>1, <2>2
<1>3. IsPrefix(ComingSeen, Session)
  <2>1. PICK m \in 0..Asked(Done) : ComingSeen = SubSeq(Session, 1, m)
    BY DEF Listening, Told
  <2>2. m \in 0..5
    BY <2>1, DoneNumber
  <2>. QED BY <2>1, <2>2, PartsArePrefixes
<1>. QED BY <1>2, <1>3 DEF DebugModuleSees

\* And so is the empty one.
LEMMA NothingIsPrefix == IsPrefix(<<>>, Session)
<1>1. 0 \in 0..5
  OBVIOUS
<1>2. IsPrefix(SubSeq(Session, 1, 0), Session)
  BY <1>1, PartsArePrefixes
<1>. QED BY <1>2, SessionParts

-----------------------------------------------------------------------------

\* The invariant of the session holds when the simulation starts.
LEMMA SessionInit == Init => SessionInv
<1>. SUFFICES ASSUME Init PROVE SessionInv
  OBVIOUS
<1>1. IInv
  BY InvInit
<1>2. Silent /\ time = 0
  BY DEF Init, TapInit, Silent
<1>3. DebugModuleSees
  BY <1>2, NothingIsPrefix DEF Silent, DebugModuleSees
<1>. QED BY <1>1, <1>2, <1>3 DEF SessionInv

\* And every step keeps it.
LEMMA SessionStep == SessionInv /\ [Next]_vars => SessionInv'
<1>. SUFFICES ASSUME SessionInv, [Next]_vars PROVE SessionInv'
  OBVIOUS
<1>1. IInv /\ IInv'
  BY InvStep DEF SessionInv
<1>2. CASE Next
  <2>1. Clock /\ time \in Nat /\ time' = time + 1
    BY <1>1, <1>2, ClockStep DEF IInv, Clock
  <2>2. CASE time < 100
    <3>1. Silent'
      BY <1>1, <1>2, <2>1, <2>2, SilentStep DEF IInv, SessionInv
    <3>2. DebugModuleSees'
      BY <3>1, NothingIsPrefix DEF Silent, DebugModuleSees
    <3>. QED BY <1>1, <2>1, <2>2, <3>1, <3>2 DEF SessionInv
  <2>3. CASE time = 100
    <3>1. Driving /\ Starting
      BY <1>1, <2>1, <2>3, StartEnds DEF IInv
    <3>2. Listening
      BY <2>1, <2>3, <3>1, SilenceEnds DEF SessionInv
    <3>3. Listening'
      BY <1>2, <2>1, <2>3, <3>1, <3>2, HearsStep
    <3>4. DebugModuleSees'
      BY <1>2, <2>1, <3>1, <3>2, SeesStep DEF SessionInv
    <3>. QED BY <1>1, <2>1, <2>3, <3>3, <3>4 DEF SessionInv
  <2>4. CASE time > 100
    <3>1. Driving /\ Listening
      BY <1>1, <2>1, <2>4 DEF IInv, SessionInv
    <3>2. Listening'
      BY <1>2, <2>1, <2>4, <3>1, HearsStep
    <3>3. DebugModuleSees'
      BY <1>2, <2>1, <3>1, SeesStep DEF SessionInv
    <3>. QED BY <1>1, <2>1, <2>4, <3>2, <3>3 DEF SessionInv
  <2>. QED BY <2>1, <2>2, <2>3, <2>4
<1>3. CASE UNCHANGED vars
  <2>1. UNCHANGED <<time, tck, tms, tdi, tap, ir, sr, busy, error, seen, rdy, bits, state, seq>>
    BY <1>3 DEF vars, wires, driverVars, tapVars
  <2>2. UNCHANGED <<Coming, ComingSr, ComingIr, ComingSeen, ComingError, Popped>>
    BY <2>1 DEF Coming, ComingSr, ComingIr, ComingSeen, ComingError, Popped, Asks
  <2>3. Done' = Done
    BY <2>1, <2>2 DEF Done
  <2>4. Listening => Listening'
    BY <2>1, <2>2, <2>3 DEF Listening, AtFront, Instruction, Fresh
  <2>5. Silent => Silent'
    BY <2>1 DEF Silent
  <2>6. DebugModuleSees => DebugModuleSees'
    BY <2>1 DEF DebugModuleSees
  <2>. QED BY <1>1, <2>1, <2>4, <2>5, <2>6 DEF SessionInv
<1>. QED BY <1>2, <1>3

\* The invariant of the session: how far the bits of the transaction at the
\* front have come, in the driver, on the wires and in the port, and which
\* requests the debug module has got.
THEOREM SessionInvariant == Spec => []SessionInv
BY SessionInit, SessionStep, PTL DEF Spec

\* Whatever the memory of the driver held, whatever its counters, however slow
\* the debug module and however long the simulation: what the debug module
\* gets is a beginning of what the debugger asks, with every bit at the place
\* where dmi_jtag looks for it, nothing twice and nothing out of order.  A
\* debug module that is too slow only cuts the session short.
THEOREM DebugModuleIsAsked == Spec => []DebugModuleSees
<1>1. SessionInv => DebugModuleSees
  BY DEF SessionInv
<1>. QED BY <1>1, SessionInvariant, PTL

-----------------------------------------------------------------------------
(* How long the session takes. *)

\* The edges that the k-th transaction takes in all, and those that all later
\* ones take.
Full(k) == L(k) + IF Mode(k) = "JTAG_IR" THEN 15 ELSE 14
After(k) == CASE k = 0 -> 471 [] k = 1 -> 451 [] k = 2 -> 405 [] OTHER -> 55 * (10 - k)

\* The edges that the k-th transaction still takes when the driver is in s.
Ahead(s, b, i, k) ==
  CASE s = "RUN_TEST_IDLE" -> Full(k) - 8 + IF i < 7 THEN 8 - i ELSE 1
    [] s = "SELECT_DR_SCAN" -> Full(k) - 8
    [] s = "SELECT_IR_SCAN" -> L(k) + 6
    [] s \in {"CAPTURE_DR", "CAPTURE_IR"} -> L(k) + 5
    [] s \in ShiftStates -> 4 + IF 0 <= b /\ b < L(k) THEN L(k) - b ELSE 1
    [] s \in {"EXIT1_DR", "EXIT1_IR"} -> 4
    [] s \in {"PAUSE_DR", "PAUSE_IR"} -> 3
    [] s \in {"EXIT2_DR", "EXIT2_IR"} -> 2
    [] s \in {"UPDATE_DR", "UPDATE_IR"} -> 1
    [] s = "TEST_LOGIC_RESET" -> Full(k) + 1
    [] OTHER -> Full(k) + 2

\* The edges that the session still takes.
Edges == IF rdy THEN After(Done)
         ELSE IF seq = <<>> THEN 0
         ELSE Ahead(state, bits, idle, Popped + 1) + After(Popped + 1)

\* How long the debug module is busy at most after the coming rising edge.
ComingBusy == IF tck THEN busy
              ELSE IF Asks(tap, sr, ir, error) /\ busy = 0 THEN Latency ELSE Later

\* The debug module has answered when the driver comes to the next scan.
Rested == /\ busy \in Nat /\ ~ComingError /\ idle \in Int /\ bits \in Int
          /\ ComingBusy > 0 => \/ state = "RUN_TEST_IDLE" /\ idle + ComingBusy <= 9
                               \/ state = "SELECT_DR_SCAN" /\ ComingBusy <= 1
          /\ rdy => idle = 0
          /\ Done = 10 => seen = ComingSeen

\* The falling edges before the end, and what they have to be enough for: the
\* scans, and two edges more from a state that is none.
Turns == (End - 1) \div 20
Enough == Latency <= 9 /\ 478 <= Turns

\* There are as many falling edges before the end as the session takes.
OnTime == /\ Edges > 0 => Edges + time \div 20 <= Turns
          /\ rdy => time <= 20 * Turns

\* Before the first call the debug module rests, and the driver holds what its
\* memory held.
Calm == busy = 0 /\ ~error /\ bits \in Garbage /\ idle \in Garbage /\ LeavesTime

\* The invariant: from then on the debug module answers in time, and there are
\* edges enough.
Punctual == Rested /\ OnTime
FitsInv == SessionInv /\ IF time <= 100 THEN Calm ELSE Punctual

\* What a transaction takes of the edges.
LEMMA FullIs ==
  ASSUME NEW k \in 1..10
  PROVE  /\ L(k) \in {5, 32, 41} /\ Full(k) = L(k) + IF Mode(k) = "JTAG_IR" THEN 15 ELSE 14
         /\ Full(k) \in Nat /\ Full(k) >= L(k) + 14
         /\ After(k - 1) = Full(k) + After(k)
         /\ After(k) \in 0..451 /\ (k = 10 => After(k) = 0) /\ (k = 1 => After(k) = 451 /\ Full(k) = 20)
<1>1. k = 1 \/ k = 2 \/ k = 3 \/ k \in 4..10
  OBVIOUS
<1>2. CASE k = 1
  BY <1>2 DEF L, Full, Mode, After
<1>3. CASE k = 2
  BY <1>3 DEF L, Full, Mode, After
<1>4. CASE k = 3
  BY <1>4 DEF L, Full, Mode, After
<1>5. CASE k \in 4..10
  BY <1>5 DEF L, Full, Mode, After
<1>. QED BY <1>1, <1>2, <1>3, <1>4, <1>5

\* Each transaction takes one more edge at least.
LEMMA AheadIs ==
  ASSUME NEW k \in 1..10, NEW s, NEW b \in Int, NEW i \in Int
  PROVE  /\ Ahead(s, b, i, k) \in Int /\ Ahead(s, b, i, k) >= 1
         /\ s # "RUN_TEST_IDLE" \/ i >= 0 => Ahead(s, b, i, k) <= Full(k) + 2
         /\ s = "RUN_TEST_IDLE" /\ i <= 0 => Ahead(s, b, i, k) = Full(k) - i
<1>1. L(k) \in {5, 32, 41} /\ Full(k) \in Nat /\ Full(k) >= L(k) + 14
  BY FullIs
<1>2. CASE s = "RUN_TEST_IDLE"
  <2>1. Ahead(s, b, i, k) = Full(k) - 8 + IF i < 7 THEN 8 - i ELSE 1
    BY <1>2 DEF Ahead, ShiftStates
  <2>2. CASE i < 7
    BY <1>1, <1>2, <2>1, <2>2
  <2>3. CASE ~(i < 7)
    BY <1>1, <1>2, <2>1, <2>3
  <2>. QED BY <2>2, <2>3
<1>3. CASE s \in ShiftStates
  BY <1>1, <1>3 DEF Ahead, ShiftStates
<1>4. CASE s # "RUN_TEST_IDLE" /\ s \notin ShiftStates
  <2>1. Ahead(s, b, i, k) \in {Full(k) - 8, L(k) + 6, L(k) + 5, 4, 3, 2, 1, Full(k) + 1, Full(k) + 2}
    BY <1>4 DEF Ahead
  <2>. QED BY <1>1, <1>4, <2>1
<1>. QED BY <1>2, <1>3, <1>4

\* A step of the driver takes one of them.
LEMMA AheadStep ==
  ASSUME NEW k \in 1..10, NEW x, x.mode = Mode(k), x.len = L(k), Step(x),
         bits \in Int, idle \in Int
  PROVE  /\ bits' \in Int /\ idle' \in Int
         /\ ~rdy' => Ahead(state', bits', idle', k) <= Ahead(state, bits, idle, k) - 1
         /\ rdy' => idle' = 0 /\ state' = "RUN_TEST_IDLE"
<1>1. /\ L(k) \in {5, 32, 41} /\ Mode(k) \in {"JTAG_IR", "JTAG_DR"}
      /\ Full(k) = L(k) + IF Mode(k) = "JTAG_IR" THEN 15 ELSE 14
  BY FullIs DEF Mode
<1>2. CASE Reset
  BY <1>1, <1>2 DEF Reset, GoTo, Ahead, ShiftStates
<1>3. CASE Idle
  BY <1>1, <1>3 DEF Idle, GoTo, num_idle, Ahead, ShiftStates
<1>4. CASE Select(x)
  BY <1>1, <1>4 DEF Select, GoTo, Ahead, ShiftStates
<1>5. CASE Move
  BY <1>1, <1>5 DEF Move, GoTo, Ahead, ShiftStates
<1>6. CASE Shift(x)
  BY <1>1, <1>6 DEF Shift, MoreBits, GoTo, Ahead, ShiftStates
<1>7. CASE Exit1(x)
  BY <1>1, <1>7 DEF Exit1, GoTo, Ahead, ShiftStates
<1>8. CASE Update
  BY <1>1, <1>8 DEF Update, GoTo
<1>9. CASE Default
  BY <1>1, <1>9 DEF Default, DriverState, GoTo, Ahead, ShiftStates
<1>. QED BY <1>2, <1>3, <1>4, <1>5, <1>6, <1>7, <1>8, <1>9 DEF Step

\* The falling edges are what twenty units of time are counted by.
LEMMA TurnsStep ==
  ASSUME Clock, Next
  PROVE  /\ time \div 20 \in Nat /\ time' \div 20 \in Nat
         /\ tck /\ ~tck' => time' \div 20 = (time \div 20) + 1
         /\ ~(tck /\ ~tck') => time' \div 20 = time \div 20
<1>1. time \in Nat /\ time' = time + 1 /\ tck \in BOOLEAN /\ (tck <=> (time \div 10) % 2 = 1)
      /\ (time' % 10 # 0 => tck' = tck) /\ (time' % 10 = 0 => tck' = ~tck)
  BY ClockStep DEF Clock
<1> DEFINE q == time \div 20
           r == time % 20
<1>2. time = 20 * q + r /\ q \in Nat /\ r \in 0..19
  BY <1>1
<1> HIDE DEF q, r
<1>3. time \div 10 = 2 * q + (IF r < 10 THEN 0 ELSE 1)
  BY <1>2
<1>4. tck <=> r >= 10
  BY <1>1, <1>2, <1>3
<1>5. time' % 10 = 0 <=> r = 9 \/ r = 19
  BY <1>1, <1>2
<1>6. tck /\ ~tck' <=> r = 19
  <2>1. CASE r = 19
    <3>1. tck /\ tck' = ~tck
      BY <1>1, <1>4, <1>5, <2>1
    <3>. QED BY <2>1, <3>1
  <2>2. CASE r = 9
    <3>1. ~tck
      BY <1>4, <2>2
    <3>. QED BY <2>2, <3>1
  <2>3. CASE r # 9 /\ r # 19
    <3>1. tck' = tck
      BY <1>1, <1>5, <2>3
    <3>. QED BY <2>3, <3>1
  <2>. QED BY <2>1, <2>2, <2>3
<1>7. time' \div 20 = q + (IF r = 19 THEN 1 ELSE 0)
  BY <1>1, <1>2
<1>8. time \div 20 = q
  BY <1>2
<1>. QED BY <1>2, <1>6, <1>7, <1>8

\* What a rising edge makes of the debug module's time and of the error.
LEMMA RiseBusy ==
  ASSUME NEW m, NEW d, TapEdge(m, d), busy \in Nat
  PROVE  /\ busy' \in Nat
         /\ Asks(tap, sr, ir, error) /\ busy = 0 => busy' <= Latency
         /\ ~(Asks(tap, sr, ir, error) /\ busy = 0) => busy' = Later
         /\ ~error /\ (busy = 0 \/ (~Asks(tap, sr, ir, error) /\ ~(tap = "CAPTURE_DR" /\ ir = DMI)))
              => ~error'
<1>. Latency \in Nat
  BY LatencyAssumption
<1>1. CASE Capture
  <2>1. ~Asks(tap, sr, ir, error) /\ busy' = Later
    BY <1>1 DEF Capture, Asks
  <2>2. error' = (error \/ (tap = "CAPTURE_DR" /\ ir = DMI /\ busy > 0))
    BY <1>1 DEF Capture
  <2>3. ~error /\ (busy = 0 \/ ~(tap = "CAPTURE_DR" /\ ir = DMI)) => ~error'
    <3>1. busy = 0 => ~(busy > 0)
      OBVIOUS
    <3>. QED BY <2>2, <3>1, Zenon
  <2>. QED BY <2>1, <2>3 DEF Later
<1>2. CASE ShiftIn(d)
  BY <1>2 DEF ShiftIn, NoAccess, Later, Asks
<1>3. CASE UpdateIr
  BY <1>3 DEF UpdateIr, NoAccess, Later, Asks
<1>4. CASE UpdateDr
  <2>1. Decoded = RequestIn(sr)
    BY DecodedIs
  <2>. QED BY <1>4, <2>1 DEF UpdateDr, NoAccess, Later, Asks
<1>5. CASE Rest
  BY <1>5 DEF Rest, NoAccess, Later, Asks
<1>. QED BY <1>1, <1>2, <1>3, <1>4, <1>5 DEF TapEdge

\* The bounds are numbers.
LEMMA BusyNumber == ASSUME busy \in Nat PROVE ComingBusy \in Nat
BY LatencyAssumption DEF ComingBusy, Later

\* And the next ones.
LEMMA BusyNumberNext == ASSUME busy' \in Nat PROVE ComingBusy' \in Nat
<1>1. ASSUME NEW x \in Nat PROVE (IF x = 0 THEN 0 ELSE x - 1) \in Nat
  OBVIOUS
<1>2. Later' \in Nat
  BY <1>1 DEF Later
<1>. QED BY <1>2, LatencyAssumption DEF ComingBusy

\* Between falling edges the debug module comes no later than that.
LEMMA BusyStays ==
  ASSUME Clock, Next, trst_n' = 1, ~(tck /\ ~tck'), busy \in Nat
  PROVE  /\ busy' \in Nat /\ ComingBusy' <= ComingBusy
         /\ ~ComingError => ~ComingError'
         /\ seen = ComingSeen => seen' = ComingSeen'
<1>1. tck \in BOOLEAN /\ tck' \in BOOLEAN
  BY ClockStep DEF Clock
<1>2. CASE ~tck /\ tck'
  <2>1. TapEdge(tms', tdi')
    <3>1. trst_n' # 0
      OBVIOUS
    <3>2. Port
      BY DEF Next
    <3> HIDE DEF Next
    <3>. QED BY <1>2, <3>1, <3>2 DEF Port
  <2>2. /\ busy' \in Nat
        /\ Asks(tap, sr, ir, error) /\ busy = 0 => busy' <= Latency
        /\ ~(Asks(tap, sr, ir, error) /\ busy = 0) => busy' = Later
        /\ ~error /\ (busy = 0 \/ (~Asks(tap, sr, ir, error) /\ ~(tap = "CAPTURE_DR" /\ ir = DMI)))
             => ~error'
    BY <2>1, RiseBusy
  <2>3. seen' = (IF Asks(tap, sr, ir, error) /\ busy = 0 THEN Append(seen, RequestIn(sr)) ELSE seen)
    BY <2>1, RiseStep
  <2>4. busy' <= ComingBusy /\ ComingBusy' = busy'
    <3>1. Later \in Nat
      BY DEF Later
    <3>. QED BY <1>2, <2>2, <3>1 DEF ComingBusy
  <2>. QED BY <1>2, <2>2, <2>3, <2>4 DEF ComingError, ComingSeen
<1>3. CASE tck' = tck
  <2>1. UNCHANGED tapVars
    BY <1>3 DEF Next, Port
  <2>2. UNCHANGED <<ComingBusy, ComingError, ComingSeen, busy, seen>>
    BY <1>3, <2>1 DEF tapVars, ComingBusy, ComingError, ComingSeen, Asks, Later
  <2>3. ComingBusy \in Nat
    BY BusyNumber
  <2>. QED BY <2>2, <2>3
<1>. QED BY <1>1, <1>2, <1>3

\* A falling edge brings the next rising edge in sight.
LEMMA BusyFalls ==
  ASSUME Clock, Driving, Next, trst_n' = 1, ~tck', tck \/ (tap = "RUN_TEST_IDLE" /\ busy = 0),
         busy \in Nat
  PROVE  /\ busy' = busy /\ ComingBusy \in Nat
         /\ Asks(Coming, ComingSr, ComingIr, ComingError) /\ ComingBusy = 0 => ComingBusy' = Latency
         /\ ~(Asks(Coming, ComingSr, ComingIr, ComingError) /\ ComingBusy = 0) =>
              ComingBusy' = IF ComingBusy = 0 THEN 0 ELSE ComingBusy - 1
         /\ ~ComingError /\ (ComingBusy = 0 \/
              (~Asks(Coming, ComingSr, ComingIr, ComingError) /\ ~(Coming = "CAPTURE_DR" /\ ComingIr = DMI)))
              => ~ComingError'
         /\ ~Asks(Coming, ComingSr, ComingIr, ComingError) /\ seen = ComingSeen => seen' = ComingSeen'
<1>1. UNCHANGED tapVars
  BY DEF Next, Port
<1>2. ComingBusy \in Nat
  BY BusyNumber
<1>3. CASE tck
  BY <1>1, <1>2, <1>3 DEF tapVars, Coming, ComingSr, ComingIr, ComingSeen, ComingError, ComingBusy, Later, Asks
<1>4. CASE ~tck /\ tap = "RUN_TEST_IDLE" /\ busy = 0
  <2>1. Coming \in {"RUN_TEST_IDLE", "SELECT_DR_SCAN"}
    BY <1>4 DEF Coming, TapNext
  <2>2. ~Asks(Coming, ComingSr, ComingIr, ComingError) /\ ~Asks(tap, sr, ir, error)
    BY <1>4, <2>1 DEF Asks
  <2>3. ComingBusy = 0 /\ ComingBusy' = 0
    BY <1>1, <1>4, <2>2 DEF tapVars, ComingBusy, Later, Asks
  <2>. QED BY <1>1, <1>4, <2>2, <2>3 DEF tapVars, ComingSeen, ComingError, Asks
<1>. QED BY <1>3, <1>4

\* What a falling edge finds, and what it does to the queue.
LEMMA EdgeFacts ==
  ASSUME Clock, Starting \/ time > 100, Driving, Next, time >= 100, seq # <<>>, ~rdy, FallingEdge,
         Listening
  PROVE  \E k \in 1..10 :
           /\ Popped = k - 1 /\ Popped' = Popped /\ seq' # <<>>
           /\ Done = k - 1 /\ Done' = IF rdy' THEN k ELSE k - 1
           /\ seq[1].mode = Mode(k) /\ seq[1].len = L(k) /\ Step(seq[1])
           /\ Coming \in PlaceOf(state, k)
           /\ Scanned(state, Coming, seq[1].req, bits, ComingIr, ComingSr, k)
           /\ ComingIr = DMI => k >= 3
<1>1. drive(Head(seq)) /\ seq' = [seq EXCEPT ![1] = Driven(@)]
  <2>1. time \in Nat /\ time' = time + 1
    BY DEF Next, Clock
  <2>. QED BY <2>1 DEF Next, Feed
<1>2. PICK n \in 0..10 : Waiting(seq, n)
  BY DEF Driving, Queue
<1>3. n \in 1..10 /\ Popped = 10 - n /\ 10 - Popped = n
  BY <1>2, Count
<1> DEFINE k == 11 - n
<1>4. k \in 1..10 /\ Popped = k - 1 /\ Popped + 1 = k
  BY <1>3
<1>5. Waiting(seq, n) /\ Fresh(seq, n)
  BY <1>2, <1>3 DEF Listening
<1>6. Head(seq) = seq[1] /\ seq[1].mode = Mode(k) /\ seq[1].len = L(k)
  BY <1>3, <1>5, FrontIs
<1>7. Step(seq[1])
  BY <1>1, <1>6 DEF drive, Wait
<1>8. Popped' = Popped /\ seq' # <<>>
  <2>1. Waiting(seq', n)
    <3>1. Waiting([seq EXCEPT ![1] = Driven(@)], n)
      BY <1>2, <1>3, QueueFed
    <3>. QED BY <1>1, <3>1
  <2>2. n \in 0..10
    BY <1>3
  <2>3. Len(Transactions) - Len(seq') = 10 - n /\ (seq' = <<>> <=> n = 0)
    BY <2>1, <2>2, QueueLength
  <2>. QED BY <1>3, <2>3 DEF Popped
<1> HIDE DEF k
<1>9. Coming \in PlaceOf(state, k)
  BY <1>4, PlaceIs
<1>10. Scanned(state, Coming, seq[1].req, bits, ComingIr, ComingSr, k)
  BY <1>4 DEF Listening, AtFront
<1>11. Done = k - 1 /\ Done' = IF rdy' THEN k ELSE k - 1
  BY <1>4, <1>8 DEF Done
<1>12. ComingIr = DMI => k >= 3
  BY <1>4, <1>11 DEF Listening, Instruction
<1>. QED BY <1>4, <1>6, <1>7, <1>8, <1>9, <1>10, <1>11, <1>12

\* The last transaction asks nothing.
LEMMA LastAsksNothing ==
  ASSUME NEW q, NEW c \in PlaceOf(state, 10), NEW i, NEW r, NEW e,
         Scanned(state, c, q, bits, i, r, 10)
  PROVE  ~Asks(c, r, i, e)
<1>. SUFFICES ASSUME c = "UPDATE_DR", i = DMI PROVE ~(RequestIn(r).op \in {DTM_READ, DTM_WRITE})
  BY DEF Asks
<1>1. c = state
  BY DEF PlaceOf
<1>2. L(10) = 41 /\ Size(10) = 41 /\ 10 \in 1..10
  BY DEF L, Size
<1>3. Arrived(r, R(10), 41, 41)
  BY <1>1, <1>2 DEF Scanned, Matters, DrStates, ShiftStates
<1>4. R(10) \in BitString(41)
  BY <1>2, TransactionsAre
<1>5. r = R(10)
  BY <1>3, <1>4, AllArrived
<1>6. RequestIn(R(10)).op = 0
  BY RequestsAre
<1>. QED BY <1>5, <1>6 DEF DTM_READ, DTM_WRITE

\* The port asks and captures requests where the driver says so.
LEMMA AsksAt ==
  ASSUME NEW k \in 1..10, NEW c \in PlaceOf(state, k), NEW i, i = DMI => k >= 3
  PROVE  /\ c = "UPDATE_DR" /\ i = DMI => state = "UPDATE_DR"
         /\ c = "CAPTURE_DR" /\ i = DMI => state = "CAPTURE_DR"
<1>1. ASSUME k >= 3 PROVE c = state
  <2>1. k # 1 /\ k # 2
    BY <1>1
  <2>. QED BY <2>1 DEF PlaceOf
<1>. QED BY <1>1

\* With each edge the debug module comes nearer to its answer, and the driver
\* to the next scan.
LEMMA RestedEdge ==
  ASSUME Clock, Starting \/ time > 100, Driving, Next, time >= 100, seq # <<>>, ~rdy, FallingEdge,
         Listening, Rested, Latency <= 9, time = 100 => busy = 0
  PROVE  Rested'
<1>1. PICK k \in 1..10 :
           /\ Popped = k - 1 /\ Popped' = Popped /\ seq' # <<>>
           /\ Done = k - 1 /\ Done' = IF rdy' THEN k ELSE k - 1
           /\ seq[1].mode = Mode(k) /\ seq[1].len = L(k) /\ Step(seq[1])
           /\ Coming \in PlaceOf(state, k)
           /\ Scanned(state, Coming, seq[1].req, bits, ComingIr, ComingSr, k)
           /\ ComingIr = DMI => k >= 3
  BY EdgeFacts
<1>2. trst_n' = 1 /\ ~tck' /\ (tck \/ (tap = "RUN_TEST_IDLE" /\ busy = 0)) /\ (time > 100 => tck)
  <2>1. time > 100 => tck
    BY DEF Driving, FallingEdge
  <2>2. time = 100 => tap = "RUN_TEST_IDLE"
    BY DEF Starting
  <2>3. time \in Nat
    BY DEF Clock
  <2>. QED BY <2>1, <2>2, <2>3 DEF Driving, Next, FallingEdge
<1> DEFINE A == Asks(Coming, ComingSr, ComingIr, ComingError)
           B == ComingBusy
<1>3. /\ busy' \in Nat /\ B \in Nat
      /\ A /\ B = 0 => B' = Latency
      /\ ~(A /\ B = 0) => B' = IF B = 0 THEN 0 ELSE B - 1
      /\ B = 0 \/ (~A /\ ~(Coming = "CAPTURE_DR" /\ ComingIr = DMI)) => ~ComingError'
      /\ ~A /\ seen = ComingSeen => seen' = ComingSeen'
  BY <1>2, BusyFalls DEF Rested
<1>4. bits' \in Int /\ idle' \in Int /\ (rdy' => idle' = 0 /\ state' = "RUN_TEST_IDLE")
  BY <1>1, AheadStep DEF Rested
<1>5. (A => state = "UPDATE_DR") /\ (Coming = "CAPTURE_DR" /\ ComingIr = DMI => state = "CAPTURE_DR")
  BY <1>1, AsksAt DEF Asks
<1>6. B > 0 => \/ state = "RUN_TEST_IDLE" /\ idle + B <= 9
               \/ state = "SELECT_DR_SCAN" /\ B <= 1
  BY DEF Rested
<1>7. Done' = 10 => seen' = ComingSeen'
  <2>. SUFFICES ASSUME Done' = 10 PROVE seen' = ComingSeen'
    OBVIOUS
  <2>1. k = 10
    BY <1>1
  <2>2. ~A
    BY <1>1, <2>1, LastAsksNothing
  <2>3. time # 100
    <3>1. time = 100 => Popped = 0
      BY DEF Starting, Popped, Transactions
    <3>. QED BY <1>1, <2>1, <3>1
  <2>4. tck
    BY <1>2, <2>3 DEF Clock
  <2>5. seen = ComingSeen
    BY <2>4 DEF ComingSeen
  <2>. QED BY <1>3, <2>2, <2>5
<1> HIDE DEF A, B
<1>8. ~ComingError'
  <2>1. CASE B = 0
    BY <1>3, <2>1
  <2>2. CASE B # 0
    <3>1. state \in {"RUN_TEST_IDLE", "SELECT_DR_SCAN"}
      BY <1>3, <1>6, <2>2
    <3>. QED BY <1>3, <1>5, <3>1
  <2>. QED BY <2>1, <2>2
<1>9. B' > 0 => \/ state' = "RUN_TEST_IDLE" /\ idle' + B' <= 9
                \/ state' = "SELECT_DR_SCAN" /\ B' <= 1
  <2>1. CASE A /\ B = 0
    <3>1. state = "UPDATE_DR"
      BY <1>5, <2>1
    <3>2. state' = "RUN_TEST_IDLE" /\ idle' = 0
      BY <1>1, <3>1 DEF Step, Reset, Idle, Select, Move, Shift, Exit1, Update, Default, GoTo, DriverState
    <3>. QED BY <1>3, <2>1, <3>2, LatencyAssumption
  <2>2. CASE ~(A /\ B = 0) /\ B = 0
    BY <1>3, <2>2
  <2>3. CASE ~(A /\ B = 0) /\ B # 0
    <3>1. B' = B - 1
      BY <1>3, <2>3
    <3>2. CASE state = "RUN_TEST_IDLE" /\ idle + B <= 9
      <4>1. Idle
        BY <1>1, <3>2 DEF Step, Reset, Idle, Select, Move, Shift, Exit1, Update, Default, DriverState
      <4>2. /\ idle' = idle + 1 /\ idle \in Int
            /\ idle + 1 < 8 => state' = "RUN_TEST_IDLE"
            /\ ~(idle + 1 < 8) => state' = "SELECT_DR_SCAN"
        BY <4>1 DEF Idle, GoTo, num_idle, Rested
      <4>. QED BY <1>3, <3>1, <3>2, <4>2
    <3>3. CASE state = "SELECT_DR_SCAN" /\ B <= 1
      BY <1>3, <3>1, <3>3
    <3>. QED BY <1>3, <1>6, <2>3, <3>2, <3>3
  <2>. QED BY <2>1, <2>2, <2>3
<1>. QED BY <1>3, <1>4, <1>7, <1>8, <1>9 DEF Rested, B

\* When the driver makes no step, the debug module only comes nearer.
LEMMA RestedWaits ==
  ASSUME Rested, ~rdy', UNCHANGED <<state, bits, idle>>, Done' = Done,
         busy' \in Nat, ComingBusy' <= ComingBusy, ~ComingError', seen = ComingSeen => seen' = ComingSeen'
  PROVE  Rested'
<1>1. ComingBusy \in Nat /\ ComingBusy' \in Nat
  <2>1. busy \in Nat
    BY DEF Rested
  <2>2. ComingBusy' \in Nat
    BY BusyNumberNext
  <2>. QED BY <2>1, <2>2, BusyNumber
<1>2. ComingBusy' > 0 => \/ state' = "RUN_TEST_IDLE" /\ idle' + ComingBusy' <= 9
                         \/ state' = "SELECT_DR_SCAN" /\ ComingBusy' <= 1
  <2>1. ComingBusy > 0 => \/ state = "RUN_TEST_IDLE" /\ idle + ComingBusy <= 9
                          \/ state = "SELECT_DR_SCAN" /\ ComingBusy <= 1
    BY DEF Rested
  <2>2. idle \in Int
    BY DEF Rested
  <2> DEFINE B == ComingBusy
             C == ComingBusy'
  <2>3. B \in Nat /\ C \in Nat /\ C <= B
    BY <1>1
  <2> HIDE DEF B, C
  <2>4. C > 0 => \/ state = "RUN_TEST_IDLE" /\ idle + C <= 9
                 \/ state = "SELECT_DR_SCAN" /\ C <= 1
    <3>1. B > 0 => \/ state = "RUN_TEST_IDLE" /\ idle + B <= 9
                   \/ state = "SELECT_DR_SCAN" /\ B <= 1
      BY <2>1 DEF B
    <3>. QED BY <2>2, <2>3, <3>1
  <2>. QED BY <2>4 DEF C
<1>. QED BY <1>2 DEF Rested

\* No edge, no step.
LEMMA PunctualWaits ==
  ASSUME Clock, Next, time >= 100, trst_n' = 1, ~(tck /\ ~tck'), Punctual, ~rdy', Done' = Done,
         UNCHANGED <<state, bits, idle>>, Edges' = Edges
  PROVE  Punctual'
<1>1. /\ busy' \in Nat /\ ComingBusy' <= ComingBusy
      /\ ~ComingError => ~ComingError'
      /\ seen = ComingSeen => seen' = ComingSeen'
  <2>1. busy \in Nat
    BY DEF Punctual, Rested
  <2>. QED BY <2>1, BusyStays
<1>2. Rested'
  BY <1>1, RestedWaits DEF Punctual, Rested
<1>3. time' \div 20 = time \div 20 /\ time' = time + 1 /\ time \in Nat
  BY TurnsStep DEF Next, Clock
<1>. QED BY <1>2, <1>3 DEF OnTime, Punctual, Turns

\* No transaction is left.
LEMMA PunctualQuiet ==
  ASSUME Clock, Driving, Next, time >= 100, seq = <<>>, Listening, Punctual
  PROVE  Punctual'
<1>1. time \in Nat /\ trst_n' = 1
  BY DEF Driving, Next, Clock
<1>2. UNCHANGED <<wires, driverVars, seq>> /\ time' = time + 1
  BY DEF Next, Quiet
<1>3. ~rdy /\ ~rdy' /\ Done' = Done /\ UNCHANGED <<state, bits, idle>> /\ Edges' = 0
  <2>1. ~rdy /\ ~rdy' /\ UNCHANGED <<state, bits, idle>> /\ Popped' = Popped /\ seq' = <<>>
    BY <1>2 DEF Driving, driverVars, Popped
  <2>. QED BY <2>1 DEF Done, Edges
<1>4. Coming = "RUN_TEST_IDLE"
  <2>1. Popped # 0
    <3>1. PICK n \in 0..10 : Waiting(seq, n)
      BY DEF Driving, Queue
    <3>. QED BY <3>1, Count
  <2>. QED BY <2>1 DEF Driving, Place
<1>5. /\ busy' \in Nat /\ ComingBusy' <= ComingBusy
      /\ ~ComingError => ~ComingError'
      /\ seen = ComingSeen => seen' = ComingSeen'
  <2>1. busy \in Nat
    BY DEF Punctual, Rested
  <2>2. CASE tck /\ ~tck'
    <3>1. ~Asks(Coming, ComingSr, ComingIr, ComingError) /\ Coming # "CAPTURE_DR"
      BY <1>4 DEF Asks
    <3>2. /\ busy' = busy /\ ComingBusy \in Nat
          /\ ComingBusy' = IF ComingBusy = 0 THEN 0 ELSE ComingBusy - 1
          /\ ~ComingError => ~ComingError'
          /\ seen = ComingSeen => seen' = ComingSeen'
      BY <1>1, <2>1, <2>2, <3>1, BusyFalls
    <3>. QED BY <2>1, <3>2
  <2>3. CASE ~(tck /\ ~tck')
    BY <1>1, <2>1, <2>3, BusyStays
  <2>. QED BY <2>2, <2>3
<1>6. Rested'
  BY <1>3, <1>5, RestedWaits DEF Punctual, Rested
<1>7. OnTime'
  BY <1>3 DEF OnTime
<1>. QED BY <1>6, <1>7 DEF Punctual

\* The next transaction comes to the front.
LEMMA PunctualReady ==
  ASSUME Clock, Starting \/ time > 100, Driving, Next, time >= 100, seq # <<>>, rdy, Listening, Punctual
  PROVE  Punctual'
<1>1. time \in Nat /\ time' = time + 1 /\ trst_n' = 1
  BY DEF Driving, Next, Clock
<1>2. drive(Head(seq)) /\ seq' = Tail(seq)
  BY <1>1 DEF Next, Feed, Starting
<1>3. ~FallingEdge
  BY EdgeStep
<1>4. ~rdy' /\ UNCHANGED <<state, bits, idle>>
  BY <1>2, <1>3 DEF drive, Wait
<1>5. ~(tck /\ ~tck')
  <2>1. time' % 10 # 0
    BY <1>1 DEF Driving
  <2>2. tck' = tck
    BY <2>1, ClockStep
  <2>. QED BY <2>2
<1>6. PICK n \in 0..10 : Waiting(seq, n)
  BY DEF Driving, Queue
<1>7. n \in 1..10 /\ Popped = 10 - n
  BY <1>6, Count
<1>8. Popped' = Popped + 1 /\ (seq' = <<>> <=> n = 1)
  <2>1. Waiting(seq', n - 1) /\ n - 1 \in 0..10
    <3>1. Waiting(Tail(seq), n - 1)
      BY <1>6, <1>7, QueueFed
    <3>. QED BY <1>2, <1>7, <3>1
  <2>2. Len(Transactions) - Len(seq') = 10 - (n - 1) /\ (seq' = <<>> <=> n - 1 = 0)
    BY <2>1, QueueLength
  <2>. QED BY <1>7, <2>2 DEF Popped
<1>9. Done = Popped + 1 /\ Done' = Done
  BY <1>4, <1>8 DEF Done
<1>10. state = "RUN_TEST_IDLE" /\ idle = 0 /\ bits \in Int
  BY DEF Driving, Place, Punctual, Rested
<1>11. Edges' = Edges
  <2>1. CASE n = 1
    <3>1. Edges' = 0
      BY <1>4, <1>8, <2>1 DEF Edges
    <3>2. Edges = After(10)
      BY <1>7, <1>9, <2>1 DEF Edges
    <3>. QED BY <3>1, <3>2 DEF After
  <2>2. CASE n # 1
    <3> DEFINE k == 12 - n
    <3>1. k \in 1..10 /\ Done = k - 1 /\ Popped' + 1 = k
      BY <1>7, <1>8, <1>9, <2>2
    <3> HIDE DEF k
    <3>2. Edges' = Ahead(state', bits', idle', k) + After(k)
      BY <1>4, <1>7, <1>8, <2>2, <3>1 DEF Edges
    <3>3. Ahead("RUN_TEST_IDLE", bits, 0, k) = Full(k) - 0
      BY <1>10, <3>1, AheadIs
    <3>4. After(k - 1) = Full(k) + After(k) /\ Full(k) \in Nat /\ After(k) \in 0..451
      BY <3>1, FullIs
    <3>5. Edges = After(k - 1)
      BY <3>1 DEF Edges
    <3>6. Edges' = Full(k) + After(k)
      BY <1>4, <1>10, <3>2, <3>3, <3>4
    <3>. QED BY <3>4, <3>5, <3>6
  <2>. QED BY <2>1, <2>2
<1>. QED BY <1>1, <1>4, <1>5, <1>9, <1>11, PunctualWaits

\* Between falling edges the driver waits.
LEMMA PunctualWait ==
  ASSUME Clock, Starting \/ time > 100, Driving, Next, time >= 100, seq # <<>>, ~rdy, ~FallingEdge,
         Listening, Punctual
  PROVE  Punctual'
<1>1. time \in Nat /\ time' = time + 1 /\ trst_n' = 1
  BY DEF Driving, Next, Clock
<1>2. drive(Head(seq)) /\ seq' = [seq EXCEPT ![1] = Driven(@)]
  BY <1>1 DEF Next, Feed
<1>3. seq' = seq
  <2>1. Driven(seq[1]) = seq[1]
    BY DEF Driven
  <2>2. PICK n \in 0..10 : Waiting(seq, n)
    BY DEF Driving, Queue
  <2>3. seq = [i \in 1..n |-> seq[i]]
    BY <2>2 DEF Waiting
  <2>. QED BY <1>2, <2>1, <2>3
<1>4. ~rdy' /\ UNCHANGED <<state, bits, idle>>
  BY <1>2 DEF drive, Wait
<1>5. ~(tck /\ ~tck')
  <2>1. CASE time = 100
    BY <2>1 DEF Clock
  <2>2. CASE time > 100
    BY <2>2 DEF Driving, FallingEdge
  <2>. QED BY <1>1, <2>1, <2>2
<1>6. Popped' = Popped /\ Done' = Done /\ Edges' = Edges
  <2>1. Popped' = Popped
    BY <1>3 DEF Popped
  <2>. QED BY <1>3, <1>4, <2>1 DEF Done, Edges
<1>. QED BY <1>1, <1>4, <1>5, <1>6, PunctualWaits

\* One edge less in a transaction is one less in the session.
LEMMA LessAhead ==
  ASSUME NEW k \in 1..10, NEW a \in Int, a >= 1, NEW b \in Int, NEW r, ~r => b <= a - 1,
         NEW e, e = a + After(k), NEW f, f = IF r THEN After(k) ELSE b + After(k)
  PROVE  e \in Int /\ e >= 1 /\ f \in Int /\ f <= e - 1
<1>1. After(k) \in 0..451
  BY FullIs
<1>. QED BY <1>1

\* A falling edge: one edge less before the end, and one less to come.
LEMMA PunctualEdge ==
  ASSUME Clock, Starting \/ time > 100, Driving, Next, time >= 100, seq # <<>>, ~rdy, FallingEdge,
         Listening, Punctual, Enough, time = 100 => busy = 0
  PROVE  Punctual'
<1>1. PICK k \in 1..10 :
           /\ Popped = k - 1 /\ Popped' = Popped /\ seq' # <<>>
           /\ Done = k - 1 /\ Done' = IF rdy' THEN k ELSE k - 1
           /\ seq[1].mode = Mode(k) /\ seq[1].len = L(k) /\ Step(seq[1])
           /\ Coming \in PlaceOf(state, k)
           /\ Scanned(state, Coming, seq[1].req, bits, ComingIr, ComingSr, k)
           /\ ComingIr = DMI => k >= 3
  BY EdgeFacts
<1>2. Rested /\ Rested'
  BY RestedEdge DEF Punctual, Enough
<1>3. /\ bits \in Int /\ idle \in Int /\ bits' \in Int /\ idle' \in Int
      /\ ~rdy' => Ahead(state', bits', idle', k) <= Ahead(state, bits, idle, k) - 1
  BY <1>1, <1>2, AheadStep DEF Rested
<1>4. Ahead(state, bits, idle, k) \in Int /\ Ahead(state, bits, idle, k) >= 1
      /\ Ahead(state', bits', idle', k) \in Int
  <2>2. Ahead(state, bits, idle, k) \in Int /\ Ahead(state, bits, idle, k) >= 1
    BY <1>3, AheadIs
  <2>3. Ahead(state', bits', idle', k) \in Int
    BY <1>3, AheadIs
  <2>. QED BY <2>2, <2>3
<1>5. Edges = Ahead(state, bits, idle, k) + After(k)
  <2>1. Popped + 1 = k
    BY <1>1
  <2>. QED BY <2>1 DEF Edges
<1>6. Edges' = IF rdy' THEN After(k) ELSE Ahead(state', bits', idle', k) + After(k)
  <2>1. Popped' + 1 = k /\ (rdy' => Done' = k)
    BY <1>1
  <2>. QED BY <1>1, <2>1 DEF Edges
<1>7. Edges \in Int /\ Edges >= 1 /\ Edges' \in Int /\ Edges' <= Edges - 1
  <2> DEFINE e == Edges
             f == Edges'
             a == Ahead(state, bits, idle, k)
             b == Ahead(state', bits', idle', k)
             r == rdy'
  <2>1. /\ a \in Int /\ a >= 1 /\ b \in Int /\ (~r => b <= a - 1)
        /\ e = a + After(k) /\ f = IF r THEN After(k) ELSE b + After(k)
    BY <1>3, <1>4, <1>5, <1>6
  <2> HIDE DEF e, f, a, b, r
  <2>2. e \in Int /\ e >= 1 /\ f \in Int /\ f <= e - 1
    BY <2>1, LessAhead
  <2>. QED BY <2>2 DEF e, f
<1>8. /\ time' = time + 1 /\ time \in Nat /\ time \div 20 \in Nat /\ time' \div 20 \in Nat
      /\ time' \div 20 <= (time \div 20) + 1
      /\ time > 100 => time' \div 20 = (time \div 20) + 1
  <2>1. time > 100 => tck /\ ~tck'
    BY DEF Driving, FallingEdge
  <2>. QED BY <2>1, TurnsStep DEF Next, Clock
<1>9. Turns \in Int
  BY EndAssumption DEF Turns
<1> HIDE DEF Turns
<1>10. Edges + time \div 20 <= Turns
  BY <1>7 DEF Punctual, OnTime
<1>11. Edges' + time' \div 20 <= Turns
  <2> DEFINE t == time \div 20
             u == time' \div 20
             f == Edges'
  <2>1. t \in Nat /\ u \in Nat /\ u <= t + 1 /\ Edges + t <= Turns
    BY <1>8, <1>10
  <2>2. f \in Int /\ f <= Edges - 1
    BY <1>7
  <2> HIDE DEF t, u, f
  <2>3. f + u <= Turns
    BY <1>7, <1>9, <2>1, <2>2
  <2>. QED BY <2>3 DEF f, u
<1>12. time' <= 20 * Turns
  <2>1. time \div 20 <= Turns - 1
    BY <1>7, <1>8, <1>9, <1>10
  <2>2. time < 20 * ((time \div 20) + 1)
    BY <1>8
  <2>. QED BY <1>8, <1>9, <2>1, <2>2
<1>13. OnTime'
  BY <1>11, <1>12 DEF OnTime, Turns
<1>. QED BY <1>2, <1>13 DEF Punctual

\* One iteration of the loop.
LEMMA PunctualStep ==
  ASSUME Clock, Starting \/ time > 100, Driving, Next, time >= 100, Listening, Punctual, Enough,
         time = 100 => busy = 0
  PROVE  Punctual'
<1>1. CASE seq = <<>>
  BY <1>1, PunctualQuiet
<1>2. CASE seq # <<>> /\ rdy
  BY <1>2, PunctualReady
<1>3. CASE seq # <<>> /\ ~rdy /\ ~FallingEdge
  BY <1>3, PunctualWait
<1>4. CASE seq # <<>> /\ ~rdy /\ FallingEdge
  BY <1>4, PunctualEdge
<1>. QED BY <1>1, <1>2, <1>3, <1>4

\* The reset leaves the debug module at rest, and nobody calls the driver.
LEMMA CalmStep ==
  ASSUME Clock, Starting, Calm, Next, time < 100
  PROVE  Calm'
<1>1. time \in Nat /\ time' = time + 1
  BY DEF Next, Clock
<1>2. bits' = bits /\ idle' = idle /\ (LeavesTime => LeavesTime')
  BY <1>1 DEF Next, Quiet, driverVars, LeavesTime
<1>3. CASE trst_n' = 0
  BY <1>2, <1>3 DEF Next, Port, TapReset, Calm
<1>4. CASE trst_n' # 0
  <2>1. tap \notin {"CAPTURE_DR", "CAPTURE_IR", "SHIFT_DR", "SHIFT_IR", "UPDATE_DR", "UPDATE_IR"}
    BY DEF Starting
  <2>2. Port
    BY DEF Next
  <2>3. CASE ~tck /\ tck'
    <3>1. TapEdge(tms', tdi')
      BY <1>4, <2>2, <2>3 DEF Port
    <3>2. Rest
      BY <2>1, <3>1 DEF TapEdge, Capture, ShiftIn, UpdateIr, UpdateDr
    <3>. QED BY <1>2, <3>2 DEF Rest, NoAccess, Later, Calm
  <2>4. CASE ~(~tck /\ tck')
    BY <1>2, <1>4, <2>2, <2>4 DEF Port, tapVars, Calm
  <2>. QED BY <2>3, <2>4
<1>. QED BY <1>3, <1>4

\* When the driver is called for the first time, there are edges enough.
LEMMA CalmEnds ==
  ASSUME Clock, Starting, Calm, time = 100, Enough
  PROVE  Punctual
<1>1. ~tck /\ tap = "RUN_TEST_IDLE"
  BY DEF Clock, Starting
<1>2. ComingBusy = 0 /\ ~ComingError
  BY <1>1 DEF Calm, ComingBusy, ComingError, Later, Asks
<1>3. Popped = 0 /\ Done = 0 /\ seq # <<>> /\ ~rdy
  <2>1. Popped = 0 /\ seq # <<>>
    <3>1. 10 \in 0..10 /\ Waiting(seq, 10)
      BY QueueInit DEF Starting
    <3>. QED BY <3>1, Count
  <2>. QED BY <2>1 DEF Done, Starting
<1>4. bits \in Int /\ idle \in Int
  BY GarbageAssumption DEF Calm
<1>5. Rested
  BY <1>2, <1>3, <1>4 DEF Rested, Calm
<1>6. Edges = Ahead(state, bits, idle, 1) + 451
  <2>1. Popped + 1 = 1 /\ After(1) = 451
    BY <1>3 DEF After
  <2>. QED BY <1>3, <2>1 DEF Edges
<1>7. /\ Ahead(state, bits, idle, 1) \in Int
      /\ state # "RUN_TEST_IDLE" \/ idle >= 0 => Ahead(state, bits, idle, 1) <= 22
      /\ state = "RUN_TEST_IDLE" /\ idle <= 0 => Ahead(state, bits, idle, 1) = 20 - idle
  <2>1. 1 \in 1..10
    OBVIOUS
  <2>2. Full(1) = 20
    BY <2>1, FullIs
  <2>. QED BY <1>4, <2>1, <2>2, AheadIs
<1>8. Turns \in Int /\ 478 <= Turns /\ (state = "RUN_TEST_IDLE" => idle + Turns >= 476)
  BY EndAssumption DEF Enough, Turns, Calm, LeavesTime
<1> HIDE DEF Turns
<1>9. time \div 20 = 5
  OBVIOUS
<1>10. Edges + 5 <= Turns
  BY <1>4, <1>6, <1>7, <1>8
<1>. QED BY <1>3, <1>5, <1>9, <1>10 DEF OnTime, Punctual

\* The session is the longest of its beginnings.
LEMMA SessionWhole == SubSeq(Session, 1, 5) = Session
<1> DEFINE S == Session
           T == {S[j] : j \in 1..5}
<1>1. S \in Seq(T) /\ Len(S) = 5
  BY DEF Session
<1> HIDE DEF S, T
<1>2. SubSeq(S, 1, 5) = S
  BY <1>1
<1>. QED BY <1>2 DEF S

\* At the end of the loop the session is over.
LEMMA FitsEnd ==
  ASSUME Driving, Listening, Punctual, Enough, time = End, time > 100
  PROVE  seq = <<>> /\ seen = Session
<1>1. End \in Nat /\ time \div 20 \in Nat
  BY EndAssumption
<1>2. Turns \in Int /\ Turns <= time \div 20 /\ 20 * Turns < time
  <2>1. Turns = (time - 1) \div 20 /\ time \in Nat /\ time > 0
    BY <1>1 DEF Turns
  <2>. QED BY <2>1
<1> HIDE DEF Turns
<1>3. ~rdy
  BY <1>1, <1>2 DEF Punctual, OnTime
<1>4. PICK n \in 0..10 : Waiting(seq, n)
  BY DEF Driving, Queue
<1>5. Popped = 10 - n /\ (seq = <<>> <=> n = 0)
  BY <1>4, Count
<1>6. seq = <<>>
  <2>. SUFFICES ASSUME n # 0 PROVE FALSE
    BY <1>5
  <2> DEFINE k == 11 - n
  <2>1. k \in 1..10 /\ Popped + 1 = k
    BY <1>5
  <2> HIDE DEF k
  <2>2. Edges = Ahead(state, bits, idle, k) + After(k)
    BY <1>3, <1>5, <2>1 DEF Edges
  <2>3. bits \in Int /\ idle \in Int
    BY DEF Punctual, Rested
  <2>4. Edges >= 1 /\ Edges \in Int
    BY <2>1, <2>2, <2>3, AheadIs, FullIs
  <2>5. Edges + time \div 20 <= Turns
    BY <2>4 DEF Punctual, OnTime
  <2>. QED BY <1>1, <1>2, <2>4, <2>5
<1>7. Done = 10
  BY <1>3, <1>5, <1>6 DEF Done
<1>8. seen = ComingSeen /\ ~ComingError
  BY <1>7 DEF Punctual, Rested
<1>9. Told(seen, 5, FALSE)
  BY <1>7, <1>8 DEF Listening, Asked, Told
<1>10. seen = SubSeq(Session, 1, 5)
  BY <1>9 DEF Told
<1>11. SubSeq(Session, 1, 5) = Session
  BY SessionWhole
<1>. QED BY <1>6, <1>10, <1>11

\* The invariant holds when a simulation starts whose driver leaves time.
LEMMA FitsInit == Init /\ LeavesTime => FitsInv
<1>. SUFFICES ASSUME Init, LeavesTime PROVE FitsInv
  OBVIOUS
<1>1. time = 0 /\ SessionInv
  BY SessionInit DEF Init
<1>2. Calm
  BY DEF Init, TapInit, DriverInit, Calm
<1>. QED BY <1>1, <1>2 DEF FitsInv

\* And every step keeps it.
LEMMA FitsStep == Enough /\ FitsInv /\ [Next]_vars => FitsInv'
<1>. SUFFICES ASSUME Enough, FitsInv, [Next]_vars PROVE FitsInv'
  OBVIOUS
<1>1. SessionInv /\ SessionInv'
  BY SessionStep DEF FitsInv
<1>2. CASE Next
  <2>1. Clock /\ time \in Nat /\ time' = time + 1
    BY <1>1, <1>2, ClockStep DEF SessionInv, IInv, Clock
  <2>2. CASE time < 100
    <3>1. Calm'
      BY <1>1, <1>2, <2>1, <2>2, CalmStep DEF SessionInv, IInv, FitsInv
    <3>. QED BY <1>1, <2>1, <2>2, <3>1 DEF FitsInv
  <2>3. CASE time = 100
    <3>1. Driving /\ Starting /\ Listening /\ Calm
      BY <1>1, <2>1, <2>3, StartEnds, SilenceEnds DEF SessionInv, IInv, FitsInv
    <3>2. Punctual /\ busy = 0
      BY <2>1, <2>3, <3>1, CalmEnds DEF Calm
    <3>3. Punctual'
      BY <1>2, <2>1, <2>3, <3>1, <3>2, PunctualStep
    <3>. QED BY <1>1, <2>1, <2>3, <3>3 DEF FitsInv
  <2>4. CASE time > 100
    <3>1. Driving /\ Listening /\ Punctual
      BY <1>1, <2>1, <2>4 DEF IInv, SessionInv, FitsInv
    <3>2. Punctual'
      BY <1>2, <2>1, <2>4, <3>1, PunctualStep
    <3>. QED BY <1>1, <2>1, <2>4, <3>2 DEF FitsInv
  <2>. QED BY <2>1, <2>2, <2>3, <2>4
<1>3. CASE UNCHANGED vars
  <2>1. UNCHANGED <<time, tck, tap, ir, sr, busy, error, seen, rdy, bits, idle, state, seq>>
    BY <1>3 DEF vars, wires, driverVars, tapVars
  <2>2. UNCHANGED <<ComingBusy, ComingError, ComingSeen, Popped>>
    BY <2>1 DEF ComingBusy, Later, ComingSeen, ComingError, Popped, Asks
  <2>3. Done' = Done /\ Edges' = Edges
    BY <2>1, <2>2 DEF Done, Edges
  <2>4. Rested => Rested'
    BY <2>1, <2>2, <2>3 DEF Rested
  <2>5. (OnTime => OnTime') /\ (Calm => Calm')
    BY <2>1, <2>2, <2>3 DEF OnTime, Calm, Turns, LeavesTime
  <2>6. Punctual => Punctual'
    BY <2>4, <2>5 DEF Punctual
  <2>. QED BY <1>1, <2>1, <2>5, <2>6 DEF FitsInv
<1>. QED BY <1>2, <1>3

\* For a debug module that answers within 9 cycles of TCK and a simulation that
\* lasts long enough: whatever the memory held that the driver is made in, if
\* it leaves time for the session, then the queue is empty when the loop in main
\* ends, and the debug module has got the whole session.
THEOREM SessionFitsInTime == ASSUME Enough PROVE Spec => SessionFits
<1>1. FitsInv => (time = End => seq = <<>> /\ seen = Session)
  <2>. SUFFICES ASSUME FitsInv, time = End PROVE seq = <<>> /\ seen = Session
    OBVIOUS
  <2>1. time > 100
    <3>1. End \in Nat /\ 478 <= (End - 1) \div 20
      BY EndAssumption DEF Enough, Turns
    <3>. QED BY <3>1
  <2>. QED BY <2>1, FitsEnd DEF FitsInv, SessionInv, IInv, Clock
<1>2. FitsInv /\ [Next]_vars => FitsInv'
  BY FitsStep
<1>. QED BY <1>1, <1>2, FitsInit, PTL DEF Spec, SessionFits

=============================================================================

------------------------------ MODULE AxiDevice ------------------------------
(***************************************************************************)
(* What an AXI4-Lite device promises its master, whatever buffers it has   *)
(* inside: every write address is paired with the write data that was sent *)
(* in the same position, writes take effect one after the other in the     *)
(* order sent, each exactly once, a read returns the contents at some      *)
(* moment between its address and its response, and responses come in      *)
(* order and stay up until they are taken.                                 *)
(*                                                                         *)
(* One step is one clock cycle.                                            *)
(***************************************************************************)
EXTENDS Sequences, Naturals

CONSTANTS
  Addr, WData, NONE,
  Own(_),            \* the contents the device may turn to by itself in a cycle
  AfterReset(_),     \* the contents after a reset
  Written(_, _, _),  \* the contents after a write of some data to an address
  WriteResp(_),      \* the response to a write to an address
  ReadBeats(_, _)    \* the responses allowed to a read of an address

VARIABLES
  aw, awready, w, wready, b, bready,  \* the write channels
  ar, arready, r, rready,             \* the read channels
  contents,   \* what the device stores
  awq, wq,    \* write addresses and data taken, not performed
  bq,         \* responses to the writes performed
  arq,        \* read addresses taken, not performed
  rq          \* responses to the reads performed

vars == <<aw, awready, w, wready, b, bready, ar, arready, r, rready,
          contents, awq, wq, bq, arq, rq>>

\* The queues once the beats of this cycle have changed hands.
With(q, x, ready) == IF x # NONE /\ ready THEN Append(q, x) ELSE q
Without(q, x, ready) == IF x # NONE /\ ready THEN Tail(q) ELSE q

awIn == With(awq, aw, awready)
wIn  == With(wq, w, wready)
arIn == With(arq, ar, arready)
bOut == Without(bq, b, bready)
rOut == Without(rq, r, rready)

PerformWrite ==
  /\ awIn # <<>> /\ wIn # <<>>
  /\ \E c \in Own(contents) : contents' = Written(c, Head(awIn), Head(wIn))
  /\ awq' = Tail(awIn) /\ wq' = Tail(wIn)
  /\ bq' = Append(bOut, WriteResp(Head(awIn)))

NoWrite ==
  /\ contents' \in Own(contents)
  /\ awq' = awIn /\ wq' = wIn /\ bq' = bOut

\* A read and a write of one cycle may take effect in either order.
PerformRead ==
  /\ arIn # <<>>
  /\ \E beat \in ReadBeats(contents, Head(arIn))
                   \cup ReadBeats(contents', Head(arIn)) :
        rq' = Append(rOut, beat)
  /\ arq' = Tail(arIn)

NoRead == arq' = arIn /\ rq' = rOut

\* Only the oldest response is offered; once offered it is held.
Offers(x, ready, xNext, qNext) ==
  IF x # NONE /\ ~ready THEN xNext = x /\ qNext # <<>> /\ x = Head(qNext)
  ELSE xNext = NONE \/ (qNext # <<>> /\ xNext = Head(qNext))

Cycle ==
  /\ PerformWrite \/ NoWrite
  /\ PerformRead \/ NoRead
  /\ Offers(b, bready, b', bq')
  /\ Offers(r, rready, r', rq')

UnderWay(q, x) == {q[i] : i \in DOMAIN q} \cup ({x} \ {NONE})

\* A reset forgets what is under way, but it may catch the device when a
\* write is about to be performed.
Reset ==
  /\ awq' = <<>> /\ wq' = <<>> /\ bq' = <<>> /\ arq' = <<>> /\ rq' = <<>>
  /\ b' = NONE /\ r' = NONE
  /\ \/ contents' = AfterReset(contents)
     \/ \E a \in UnderWay(awq, aw), d \in UnderWay(wq, w) :
           contents' = AfterReset(Written(contents, a, d))

Init ==
  /\ awq = <<>> /\ wq = <<>> /\ bq = <<>> /\ arq = <<>> /\ rq = <<>>
  /\ b = NONE /\ r = NONE

Spec == Init /\ [][Reset \/ Cycle]_vars

=============================================================================

---------------------------------- MODULE fib ----------------------------------
(***************************************************************************)
(* fib.c: the Fibonacci numbers up to the largest that has 32 bits.  A     *)
(* number is the pair of its upper and its lower half.                     *)
(***************************************************************************)
EXTENDS Naturals

VARIABLE number   \* a, b, y and the loop counter i (next)

\* a + b, modulo 2^32
Sum(a, b) == LET low == a[2] + b[2]
             IN <<(a[1] + b[1] + low \div 65536) % 65536, low % 65536>>

FibInit == number = [a |-> <<0, 0>>, b |-> <<0, 1>>, y |-> <<0, 0>>, next |-> 1]

FibStep == /\ number.next < 47
           /\ LET y == Sum(number.a, number.b)
              IN number' = [a |-> number.b, b |-> y, y |-> y, next |-> number.next + 1]

FibEnds == number.next = 47
F47 == <<\hb119, \h24e1>>

=============================================================================

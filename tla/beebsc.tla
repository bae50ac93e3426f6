-------------------------------- MODULE beebsc --------------------------------
(***************************************************************************)
(* The heap of beebsc.c: memory that is given out from one end and never   *)
(* taken back, with a client that fills the blocks it gets.  An address is *)
(* a number; addresses and sizes wrap at Wrap (2^32 on the target), and    *)
(* the client may ask for any size.  The code compares an end that has     *)
(* wrapped with the end of the heap, so it grants such a request and moves *)
(* heap_ptr back.  The bytes outside of the heap belong to others, to the  *)
(* program itself as well, which are not modelled: of a client that has    *)
(* got such a block no property says anything.                             *)
(***************************************************************************)
EXTENDS Integers

CONSTANTS
  Wrap,       \* one more than the greatest size
  Heap,       \* the address of the memory the caller passes
  HeapSize,
  Sizes,      \* the sizes the client asks for
  Values,     \* what the client writes
  Blank,      \* what is in memory that nobody has written
  MaxCalls    \* bound: calls after init_heap_beebs

ASSUME HeapAssumption ==
  \* The heap is there.
  /\ Heap \in Nat \ {0} /\ HeapSize \in Nat /\ Wrap \in Nat /\ Heap + HeapSize < Wrap
  \* Any number of the type size_t.
  /\ Sizes \subseteq 0..Wrap - 1

VARIABLES
  heap_ptr, heap_end, heap_requested,   \* as in the code; 0 is NULL
  memory,   \* the bytes at all addresses
  blocks,   \* the blocks the client uses and what it expects in them (history)
  asked,    \* the sum of what was asked for, without wrapping (history)
  refused,  \* whether a request has failed that asked for something (history)
  wrapped,  \* whether a block was ever given whose end has wrapped (history)
  calls

heapVars == <<heap_ptr, heap_end, heap_requested, memory, blocks, asked, refused, wrapped,
              calls>>

Addresses == Heap..Heap + HeapSize - 1

\* The n addresses from ptr on, and those of a block.
Span(ptr, n) == {(ptr + k) % Wrap : k \in 0..n - 1}
Bytes(b) == Span(b.ptr, b.size)

\* memory with the data in the n bytes from ptr on.
Filled(ptr, n, data) ==
  [p \in 0..Wrap - 1 |-> IF p \in Span(ptr, n) THEN data[(p - ptr) % Wrap] ELSE memory[p]]

\* The static variables at the start.
HeapInit == /\ heap_ptr = 0 /\ heap_end = 0 /\ heap_requested = 0
            /\ memory = [p \in 0..Wrap - 1 |-> Blank]
            /\ blocks = {} /\ asked = 0 /\ refused = FALSE /\ wrapped = FALSE /\ calls = 0

init_heap_beebs == /\ heap_ptr' = Heap /\ heap_end' = (Heap + HeapSize) % Wrap
                   /\ heap_requested' = 0
                   /\ blocks' = {} /\ asked' = 0 /\ refused' = FALSE
                   /\ UNCHANGED <<memory, wrapped, calls>>

Started == heap_ptr # 0

check_heap_beebs == (Heap + heap_requested) % Wrap <= heap_end

\* Wrong version: a block may end one byte behind the heap.
Refuses_late(size) == (heap_ptr + size) % Wrap > heap_end + 1 \/ size = 0

Refuses(size) == (heap_ptr + size) % Wrap > heap_end \/ size = 0

\* Wrong version: only requests that are granted are counted.
Count_granted(size) == heap_requested' = IF Refuses(size) THEN heap_requested
                                         ELSE (heap_requested + size) % Wrap

\* Every request counts, also one that fails.
Count(size) == heap_requested' = (heap_requested + size) % Wrap

\* What all requests have in common; wanted: what the client asks for, which
\* a product in calloc_beebs may make more than a size_t holds.
Request(wanted) ==
  LET size == wanted % Wrap IN
  /\ calls < MaxCalls /\ calls' = calls + 1
  /\ Count(size) /\ asked' = asked + wanted
  /\ heap_ptr' = IF Refuses(size) THEN heap_ptr ELSE (heap_ptr + size) % Wrap
  /\ refused' = (refused \/ (Refuses(size) /\ wanted # 0))
  /\ wrapped' = (wrapped \/ (~Refuses(size) /\ heap_ptr + wanted >= Wrap))
  /\ UNCHANGED heap_end

\* NULL is no block: a request is refused, or heap_ptr has wrapped to 0.
Null(size) == Refuses(size) \/ heap_ptr = 0

\* The block that a request gets; data: the bytes the client relies on.
New(wanted, data) == [ptr |-> heap_ptr, size |-> wanted, data |-> data]
Given(wanted, data, old) ==
  blocks' = IF Null(wanted % Wrap) THEN blocks ELSE (blocks \ old) \cup {New(wanted, data)}

malloc_beebs(size) == /\ Request(size) /\ Given(size, <<>>, {})
                      /\ UNCHANGED memory

calloc_beebs(nmemb, size) ==
  LET wanted == nmemb * size
      cleared == [k \in 0..wanted - 1 |-> 0]
  IN
  /\ Request(wanted) /\ Given(wanted, cleared, {})
  /\ memory' = IF Null(wanted % Wrap) THEN memory
               ELSE Filled(heap_ptr, wanted % Wrap, cleared)

\* Byte k of a copy of what is at ptr to the free part of the heap.  A copy
\* that is longer than what lies between goes on with its own first bytes.
Copied(ptr, k) == LET between == (heap_ptr - ptr) % Wrap
                  IN memory[(ptr + IF between = 0 THEN k ELSE k % between) % Wrap]

\* realloc_beebs (NULL, size) is malloc_beebs (size).
realloc_beebs(b, size) ==
  /\ Request(size)
  /\ Given(size, [k \in {n \in DOMAIN b.data : n < size} |-> b.data[k]], {b})
  /\ memory' = IF Refuses(size) THEN memory
               ELSE Filled(heap_ptr, size, [k \in 0..size - 1 |-> Copied(b.ptr, k)])

\* free_beebs does nothing; the client no longer uses the block.
free_beebs(b) == /\ blocks' = blocks \ {b}
                 /\ UNCHANGED <<heap_ptr, heap_end, heap_requested, memory, asked, refused, wrapped,
                                calls>>

\* The client fills a block.
Write(b, value) ==
  /\ LET data == [k \in 0..b.size - 1 |-> value]
     IN /\ memory' = Filled(b.ptr, b.size, data)
        /\ blocks' = (blocks \ {b}) \cup {[b EXCEPT !.data = data]}
  /\ UNCHANGED <<heap_ptr, heap_end, heap_requested, asked, refused, wrapped, calls>>

HeapNext ==
  \/ init_heap_beebs
  \/ \E size \in Sizes : malloc_beebs(size)
  \/ \E nmemb, size \in Sizes : calloc_beebs(nmemb, size)
  \/ \E b \in blocks, size \in Sizes : realloc_beebs(b, size)
  \/ \E b \in blocks : free_beebs(b)
  \/ \E b \in blocks, value \in Values : Write(b, value)

HeapSpec == HeapInit /\ [][HeapNext]_heapVars

-----------------------------------------------------------------------------
\* As long as no block was given whose end wraps, what the client has stays
\* its own: its blocks are in the heap and apart, and what it wrote, what
\* calloc cleared and what realloc copied is still there whatever was
\* requested since (malloc_beebs, realloc_beebs).
BlocksKept ==
  ~wrapped => \A b \in blocks :
                /\ Bytes(b) \subseteq Addresses
                /\ \A c \in blocks \ {b} : Bytes(b) \cap Bytes(c) = {}
                /\ \A k \in DOMAIN b.data : memory[b.ptr + k] = b.data[k]

\* check_heap_beebs tells whether a request has failed since the heap was
\* initialized, as long as no block has wrapped and all that was asked for
\* since fits in a size.
CheckHeapTells ==
  (Started /\ ~wrapped /\ Heap + asked < Wrap) => (check_heap_beebs <=> ~refused)

=============================================================================

---------------------------- MODULE programs_proofs ----------------------------
(***************************************************************************)
(* Proofs about the C programs: about the heap of beebsc.c, for every size *)
(* of the heap and of the requests, until a block wraps; about the         *)
(* checksum of crc_32.c, for every octet and every word; about the startup *)
(* code, for every end of the BSS section; about nettle-aes, for every key *)
(* and every text: the C code computes the cipher of FIPS 197, and takes   *)
(* it back; and about the ends of all programs: each comes to its end with *)
(* the right result.                                                       *)
(***************************************************************************)
EXTENDS programs, SequenceTheorems, WellFoundedInduction, TLAPS

-----------------------------------------------------------------------------
(* The heap. *)

\* A block as the code hands it out: not empty, below heap_ptr, with no more
\* data than it has room for.
BlockOK(b) == /\ b = [ptr |-> b.ptr, size |-> b.size, data |-> b.data]
              /\ b.ptr \in Nat /\ b.size \in Nat /\ b.size > 0
              /\ Heap <= b.ptr /\ b.ptr + b.size <= heap_ptr
              /\ DOMAIN b.data \subseteq 0..b.size - 1

Apart(b, c) == b.ptr + b.size <= c.ptr \/ c.ptr + c.size <= b.ptr

DataKept(b) == \A k \in DOMAIN b.data : memory[b.ptr + k] = b.data[k]

Numbers == /\ heap_ptr \in Nat /\ heap_end \in Nat /\ heap_requested \in Nat
           /\ asked \in Nat /\ refused \in BOOLEAN /\ wrapped \in BOOLEAN

\* Before the first init_heap_beebs there is no heap, and nothing is given.
Pointers == \/ heap_ptr = 0 /\ heap_end = 0 /\ blocks = {}
            \/ /\ Heap <= heap_ptr /\ heap_ptr <= Heap + HeapSize
               /\ heap_end = Heap + HeapSize

Blocks == /\ \A b \in blocks : BlockOK(b) /\ DataKept(b)
          /\ \A b, c \in blocks : b # c => Apart(b, c)

\* As long as nothing was refused, what was asked for is what was given; what
\* is refused is more than there was.
Requests == /\ asked < Wrap => heap_requested = asked
            /\ Started /\ ~refused => asked = heap_ptr - Heap
            /\ Started /\ refused => asked > HeapSize

Sound == Numbers /\ Pointers /\ Blocks /\ Requests

\* Once a block has wrapped only the types are left.
HeapInv == Numbers /\ (~wrapped => Sound)

-----------------------------------------------------------------------------
(* What does not wrap. *)

LEMMA ModSmall ==
  ASSUME NEW n \in Nat, NEW m \in Nat, m < n PROVE m % n = m
BY SMT

LEMMA ModNat ==
  ASSUME NEW n \in Nat, n > 0, NEW m \in Nat PROVE m % n \in Nat /\ m % n < n
BY SMT

LEMMA ModOnce ==
  ASSUME NEW n \in Nat, NEW m \in Nat, n <= m, m < 2 * n PROVE m % n = m - n
BY SMT

\* The numbers of the heap.
LEMMA HeapFacts ==
  /\ Heap \in Nat /\ Heap > 0 /\ HeapSize \in Nat /\ Wrap \in Nat /\ Wrap > 0
  /\ Heap + HeapSize < Wrap
  /\ \A n \in Sizes : n \in Nat /\ n < Wrap
BY HeapAssumption

LEMMA SpanPlain ==
  ASSUME NEW ptr \in Nat, NEW n \in Nat, ptr + n <= Wrap
  PROVE  Span(ptr, n) = ptr..ptr + n - 1
<1>1. Wrap \in Nat
  BY HeapFacts
<1>2. \A k \in 0..n - 1 : (ptr + k) % Wrap = ptr + k
  BY <1>1, ModSmall
<1>3. ASSUME NEW p \in Span(ptr, n) PROVE p \in ptr..ptr + n - 1
  <2>1. PICK k \in 0..n - 1 : p = (ptr + k) % Wrap
    BY DEF Span
  <2>2. p = ptr + k
    BY <1>2, <2>1
  <2>. QED BY <2>2
<1>4. ASSUME NEW p \in ptr..ptr + n - 1 PROVE p \in Span(ptr, n)
  <2>1. p - ptr \in 0..n - 1 /\ ptr + (p - ptr) = p
    OBVIOUS
  <2>2. p = (ptr + (p - ptr)) % Wrap
    BY <1>2, <2>1
  <2>. QED BY <2>1, <2>2 DEF Span
<1>. QED BY <1>3, <1>4

\* The bytes of a block of the heap are in place, and all others as before.
LEMMA FilledPlain ==
  ASSUME NEW ptr \in Nat, NEW n \in Nat, ptr + n < Wrap, NEW data
  PROVE  /\ \A k \in 0..n - 1 : Filled(ptr, n, data)[ptr + k] = data[k]
         /\ \A p \in 0..Wrap - 1 : p \notin ptr..ptr + n - 1 => Filled(ptr, n, data)[p] = memory[p]
<1>1. Wrap \in Nat
  BY HeapFacts
<1>2. Span(ptr, n) = ptr..ptr + n - 1
  BY <1>1, SpanPlain
<1>3. ASSUME NEW k \in 0..n - 1 PROVE Filled(ptr, n, data)[ptr + k] = data[k]
  <2>1. ptr + k \in 0..Wrap - 1 /\ ptr + k \in ptr..ptr + n - 1 /\ (ptr + k) - ptr = k
    BY <1>1
  <2>2. k % Wrap = k
    BY <1>1, <2>1, ModSmall
  <2>. QED BY <1>2, <2>1, <2>2 DEF Filled
<1>4. ASSUME NEW p \in 0..Wrap - 1, p \notin ptr..ptr + n - 1
      PROVE  Filled(ptr, n, data)[p] = memory[p]
  BY <1>2, <1>4 DEF Filled
<1>. QED BY <1>3, <1>4

\* While no block wraps, a request is granted exactly when the block fits.
LEMMA Fits ==
  ASSUME Sound, NEW wanted \in Nat, Request(wanted), ~wrapped'
  PROVE  /\ ~wrapped /\ wanted % Wrap \in Nat
         /\ ~Refuses(wanted % Wrap) =>
              /\ wanted > 0 /\ Heap <= heap_ptr /\ heap_ptr + wanted <= Heap + HeapSize
              /\ wanted % Wrap = wanted /\ (heap_ptr + wanted) % Wrap = heap_ptr + wanted
              /\ ~Null(wanted % Wrap)
         /\ Refuses(wanted % Wrap) /\ Started /\ wanted # 0 =>
              heap_ptr + wanted > Heap + HeapSize
<1>. DEFINE size == wanted % Wrap
<1>1. Heap \in Nat /\ Heap > 0 /\ HeapSize \in Nat /\ Wrap \in Nat /\ Wrap > 0
      /\ Heap + HeapSize < Wrap
  BY HeapFacts
<1>2. ~wrapped /\ (~Refuses(size) => heap_ptr + wanted < Wrap)
  <2>1. wrapped' = (wrapped \/ (~Refuses(size) /\ heap_ptr + wanted >= Wrap))
    BY DEF Request
  <2>2. ~wrapped /\ ~(~Refuses(size) /\ heap_ptr + wanted >= Wrap)
    BY <2>1
  <2>3. heap_ptr \in Nat
    BY DEF Sound, Numbers
  <2>. HIDE DEF size
  <2>. QED BY <1>1, <2>2, <2>3
<1>3. size \in Nat /\ heap_ptr \in Nat /\ heap_ptr <= Heap + HeapSize
  BY <1>1, ModNat DEF Sound, Numbers, Pointers
<1>4. wanted < Wrap => size = wanted
  BY <1>1, ModSmall
<1>. HIDE DEF size
<1>5. CASE ~Refuses(size)
  <2>1. wanted < Wrap /\ size = wanted /\ (heap_ptr + size) % Wrap = heap_ptr + size
    BY <1>1, <1>2, <1>3, <1>4, <1>5, ModSmall
  <2>2. heap_ptr + size <= heap_end /\ size # 0
    <3>1. heap_end \in Nat
      BY DEF Sound, Numbers
    <3>. QED BY <1>3, <1>5, <2>1, <3>1 DEF Refuses
  <2>3. Heap <= heap_ptr /\ heap_end = Heap + HeapSize
    BY <1>1, <1>3, <2>2 DEF Sound, Pointers
  <2>4. ~Null(size)
    BY <1>1, <1>5, <2>3 DEF Null
  <2>. QED BY <1>1, <1>2, <1>3, <1>5, <2>1, <2>2, <2>3, <2>4 DEF size
<1>6. ASSUME Refuses(size), Started, wanted # 0 PROVE heap_ptr + wanted > Heap + HeapSize
  <2>1. Heap <= heap_ptr /\ heap_end = Heap + HeapSize
    BY <1>6 DEF Sound, Pointers, Started
  <2>2. CASE wanted >= Wrap
    BY <1>1, <1>3, <2>2
  <2>3. CASE wanted < Wrap
    <3>1. size = wanted /\ (heap_ptr + wanted) % Wrap > heap_end
      BY <1>4, <1>6, <2>3 DEF Refuses
    <3>2. CASE heap_ptr + wanted < Wrap
      BY <1>3, <2>1, <3>1, <3>2, <1>1, ModSmall
    <3>3. CASE heap_ptr + wanted >= Wrap
      <4>1. (heap_ptr + wanted) % Wrap = heap_ptr + wanted - Wrap
        BY <1>1, <1>3, <2>3, <3>3, ModOnce
      <4>. QED BY <1>1, <1>3, <2>1, <2>3, <3>1, <4>1
    <3>. QED BY <1>1, <1>3, <3>2, <3>3
  <2>. QED BY <1>1, <2>2, <2>3
<1>. QED BY <1>2, <1>3, <1>5, <1>6 DEF size

-----------------------------------------------------------------------------
(* What the requests have in common: the counts, and the block. *)

LEMMA RequestCounts ==
  ASSUME Numbers, NEW wanted \in Nat, Request(wanted) PROVE Numbers'
<1>1. Wrap \in Nat /\ Wrap > 0
  BY HeapFacts
<1>2. wanted % Wrap \in Nat
  BY <1>1, ModNat
<1>. QED BY <1>1, <1>2, ModNat DEF Request, Count, Numbers

LEMMA Requested ==
  ASSUME Sound, NEW wanted \in Nat, Request(wanted), ~wrapped'
  PROVE  Numbers' /\ Requests'
<1>. DEFINE size == wanted % Wrap
<1>1. Wrap \in Nat /\ Wrap > 0 /\ Heap \in Nat /\ Heap > 0 /\ HeapSize \in Nat
      /\ Heap + HeapSize < Wrap
  BY HeapFacts
<1>2. asked \in Nat /\ heap_ptr \in Nat /\ heap_requested \in Nat
      /\ heap_end \in Nat /\ refused \in BOOLEAN
  BY DEF Sound, Numbers
<1>3. heap_ptr' = IF Refuses(size) THEN heap_ptr ELSE heap_ptr + wanted
  BY Fits DEF Request
<1>4. Numbers'
  BY RequestCounts DEF Sound
<1>5. asked' < Wrap => heap_requested' = asked'
  <2>1. asked' = asked + wanted /\ heap_requested' = (heap_requested + size) % Wrap
    BY DEF Request, Count
  <2>2. ASSUME asked + wanted < Wrap PROVE (heap_requested + size) % Wrap = asked + wanted
    <3>1. heap_requested = asked
      BY <1>1, <1>2, <2>2 DEF Sound, Requests
    <3>2. size = wanted
      BY <1>1, <1>2, <2>2, ModSmall
    <3>. QED BY <1>1, <1>2, <2>2, <3>1, <3>2, ModSmall
  <2>. QED BY <2>1, <2>2
<1>6. Started' => Started
  BY <1>1, <1>2, <1>3, Fits DEF Started
<1>7. ASSUME Started PROVE /\ ~refused' => asked' = heap_ptr' - Heap
                           /\ refused' => asked' > HeapSize
  <2>1. asked' = asked + wanted /\ refused' = (refused \/ (Refuses(size) /\ wanted # 0))
    BY DEF Request
  <2>2. (~refused => asked = heap_ptr - Heap) /\ (refused => asked > HeapSize)
    BY <1>7 DEF Sound, Requests
  <2>3. CASE Refuses(size) /\ wanted # 0
    <3>1. heap_ptr + wanted > Heap + HeapSize
      BY <1>7, <2>3, Fits
    <3>2. asked + wanted > HeapSize
      BY <1>1, <1>2, <2>2, <3>1
    <3>. QED BY <2>1, <2>3, <3>2
  <2>4. CASE Refuses(size) /\ wanted = 0
    BY <1>1, <1>2, <1>3, <2>1, <2>2, <2>4
  <2>5. CASE ~Refuses(size)
    BY <1>1, <1>2, <1>3, <2>1, <2>2, <2>5
  <2>. QED BY <2>3, <2>4, <2>5
<1>. QED
  BY <1>4, <1>5, <1>6, <1>7 DEF Requests

\* A request that is refused changes nothing of what was given.
LEMMA NothingGiven ==
  ASSUME Sound, NEW wanted \in Nat, Request(wanted), ~wrapped', Refuses(wanted % Wrap),
         blocks' = blocks, memory' = memory
  PROVE  Sound'
<1>1. heap_ptr' = heap_ptr /\ heap_end' = heap_end
  BY DEF Request
<1>2. Pointers' /\ Blocks'
  BY <1>1 DEF Sound, Pointers, Blocks, BlockOK, DataKept, Apart
<1>. QED BY <1>2, Requested DEF Sound

\* The block that a request gets lies behind all others; memory below it is
\* as before.
LEMMA BlockGiven ==
  ASSUME Sound, NEW wanted \in Nat, Request(wanted), ~wrapped', ~Refuses(wanted % Wrap),
         NEW data, DOMAIN data \subseteq 0..wanted - 1, NEW old, Given(wanted, data, old),
         \A p \in 0..Wrap - 1 : p < heap_ptr => memory'[p] = memory[p],
         \A k \in DOMAIN data : memory'[heap_ptr + k] = data[k]
  PROVE  Sound'
<1>1. /\ wanted > 0 /\ Heap \in Nat /\ HeapSize \in Nat /\ Wrap \in Nat
      /\ heap_ptr \in Nat /\ Heap > 0 /\ Heap <= heap_ptr /\ Heap + HeapSize < Wrap
      /\ heap_ptr + wanted <= Heap + HeapSize /\ heap_ptr' = heap_ptr + wanted
      /\ heap_end' = heap_end
  BY Fits, HeapFacts DEF Sound, Numbers, Request
<1>2. Pointers'
  BY <1>1 DEF Sound, Pointers
<1>. DEFINE new == New(wanted, data)
<1>3. blocks' = (blocks \ old) \cup {new}
  BY Fits DEF Given
<1>4. ASSUME NEW b, b = new PROVE BlockOK(b)' /\ DataKept(b)'
  <2>1. b = [ptr |-> heap_ptr, size |-> wanted, data |-> data]
    BY <1>4 DEF New
  <2>2. b.ptr = heap_ptr /\ b.size = wanted /\ b.data = data
    BY <2>1
  <2>. QED BY <1>1, <2>1, <2>2 DEF BlockOK, DataKept
<1>5. ASSUME NEW b \in blocks PROVE BlockOK(b)' /\ DataKept(b)' /\ Apart(b, new)
  <2>1. BlockOK(b) /\ DataKept(b)
    BY DEF Sound, Blocks
  <2>2. BlockOK(b)'
    BY <1>1, <2>1 DEF BlockOK
  <2>3. ASSUME NEW k \in DOMAIN b.data PROVE memory'[b.ptr + k] = b.data[k]
    <3>1. b.ptr + k \in 0..Wrap - 1 /\ b.ptr + k < heap_ptr
      BY <1>1, <2>1 DEF BlockOK
    <3>. QED BY <2>1, <3>1 DEF DataKept
  <2>4. Apart(b, new)
    BY <2>1 DEF BlockOK, Apart, New
  <2>. QED BY <2>2, <2>3, <2>4 DEF DataKept
<1>6. \A b, c \in blocks' : b # c => Apart(b, c)
  <2>1. \A b, c \in blocks : b # c => Apart(b, c)
    BY DEF Sound, Blocks
  <2>2. \A b \in blocks : Apart(b, new) /\ Apart(new, b)
    BY <1>5 DEF Apart
  <2>. QED BY <1>3, <2>1, <2>2
<1>7. ASSUME NEW b \in blocks' PROVE BlockOK(b)' /\ DataKept(b)'
  <2>1. b \in blocks \/ b = new
    BY <1>3
  <2>. QED BY <2>1, <1>4, <1>5
<1>8. Blocks'
  BY <1>6, <1>7 DEF Blocks, Apart
<1>. QED
  BY <1>2, <1>8, Requested DEF Sound

-----------------------------------------------------------------------------
(* The operations, as long as no block wraps. *)

LEMMA MallocKeeps ==
  ASSUME Sound, NEW size \in Sizes, malloc_beebs(size), ~wrapped'
  PROVE  Sound'
<1>1. size \in Nat /\ Request(size) /\ Given(size, <<>>, {}) /\ memory' = memory
  BY HeapFacts DEF malloc_beebs
<1>2. CASE Refuses(size % Wrap)
  <2>1. blocks' = blocks
    BY <1>1, <1>2 DEF Given, Null
  <2>. QED BY <1>1, <1>2, <2>1, NothingGiven
<1>3. CASE ~Refuses(size % Wrap)
  <2>1. DOMAIN <<>> = {}
    OBVIOUS
  <2>. QED BY <1>1, <1>3, <2>1, BlockGiven
<1>. QED BY <1>2, <1>3

LEMMA CallocKeeps ==
  ASSUME Sound, NEW nmemb \in Sizes, NEW size \in Sizes, calloc_beebs(nmemb, size), ~wrapped'
  PROVE  Sound'
<1>. DEFINE wanted == nmemb * size
            cleared == [k \in 0..wanted - 1 |-> 0]
<1>1. wanted \in Nat
  <2>1. nmemb \in Nat /\ size \in Nat
    BY HeapFacts
  <2>. QED BY <2>1
<1>2. /\ Request(wanted) /\ Given(wanted, cleared, {})
      /\ memory' = IF Null(wanted % Wrap) THEN memory
                   ELSE Filled(heap_ptr, wanted % Wrap, cleared)
  BY DEF calloc_beebs
<1>3. DOMAIN cleared = 0..wanted - 1
  OBVIOUS
<1>. HIDE DEF wanted, cleared
<1>4. CASE Refuses(wanted % Wrap)
  <2>1. blocks' = blocks /\ memory' = memory
    BY <1>2, <1>4 DEF Given, Null
  <2>. QED BY <1>1, <1>2, <1>4, <2>1, NothingGiven
<1>5. CASE ~Refuses(wanted % Wrap)
  <2>1. /\ heap_ptr \in Nat /\ heap_ptr + wanted < Wrap /\ Wrap \in Nat
        /\ memory' = Filled(heap_ptr, wanted, cleared)
    BY <1>1, <1>2, <1>5, Fits, HeapFacts DEF Sound, Numbers
  <2>2. /\ \A k \in 0..wanted - 1 : memory'[heap_ptr + k] = cleared[k]
        /\ \A p \in 0..Wrap - 1 : p < heap_ptr => memory'[p] = memory[p]
    <3>1. \A p \in 0..Wrap - 1 : p < heap_ptr => p \notin heap_ptr..heap_ptr + wanted - 1
      BY <2>1
    <3>. QED BY <1>1, <2>1, <3>1, FilledPlain
  <2>. QED BY <1>1, <1>2, <1>3, <1>5, <2>2, BlockGiven
<1>. QED BY <1>4, <1>5

\* The copy does not know how long the old block is; what it takes from
\* behind that block is not data.
LEMMA ReallocKeeps ==
  ASSUME Sound, NEW b \in blocks, NEW size \in Sizes, realloc_beebs(b, size), ~wrapped'
  PROVE  Sound'
<1>. DEFINE data == [k \in {n \in DOMAIN b.data : n < size} |-> b.data[k]]
            copy == [k \in 0..size - 1 |-> Copied(b.ptr, k)]
<1>1. /\ size \in Nat /\ size < Wrap /\ Wrap \in Nat
      /\ Request(size) /\ Given(size, data, {b})
      /\ memory' = IF Refuses(size) THEN memory ELSE Filled(heap_ptr, size, copy)
  BY HeapFacts DEF realloc_beebs
<1>2. size % Wrap = size
  BY <1>1, ModSmall
<1>3. CASE Refuses(size)
  <2>1. blocks' = blocks /\ memory' = memory
    BY <1>1, <1>2, <1>3 DEF Given, Null
  <2>. QED BY <1>1, <1>2, <1>3, <2>1, NothingGiven
<1>4. CASE ~Refuses(size)
  <2>1. heap_ptr \in Nat /\ heap_ptr + size < Wrap
    BY <1>1, <1>2, <1>4, Fits, HeapFacts DEF Sound, Numbers
  <2>2. BlockOK(b) /\ DataKept(b)
    BY DEF Sound, Blocks
  <2>3. DOMAIN data \subseteq 0..size - 1
    BY <1>1, <2>2 DEF BlockOK
  <2>4. \A k \in 0..size - 1 : copy[k] = Copied(b.ptr, k)
    OBVIOUS
  <2>5. \A k \in DOMAIN data : /\ k \in DOMAIN b.data /\ k \in Nat /\ k < b.size
                               /\ data[k] = b.data[k]
    BY <2>2 DEF BlockOK
  <2>. HIDE DEF copy, data
  <2>6. /\ \A k \in 0..size - 1 : memory'[heap_ptr + k] = copy[k]
        /\ \A p \in 0..Wrap - 1 : p < heap_ptr => memory'[p] = memory[p]
    <3>1. memory' = Filled(heap_ptr, size, copy)
      BY <1>1, <1>4
    <3>2. \A p \in 0..Wrap - 1 : p < heap_ptr => p \notin heap_ptr..heap_ptr + size - 1
      BY <2>1
    <3>. QED BY <1>1, <2>1, <3>1, <3>2, FilledPlain
  <2>7. ASSUME NEW k \in DOMAIN data PROVE memory'[heap_ptr + k] = data[k]
    <3>1. k \in Nat /\ k < size /\ k < b.size /\ k \in DOMAIN b.data /\ data[k] = b.data[k]
      BY <1>1, <2>3, <2>5
    <3>2. b.ptr \in Nat /\ b.size \in Nat /\ b.ptr + b.size <= heap_ptr
      BY <2>2 DEF BlockOK
    <3>. DEFINE between == (heap_ptr - b.ptr) % Wrap
    <3>3. between = heap_ptr - b.ptr
      <4>1. heap_ptr - b.ptr \in Nat /\ heap_ptr - b.ptr < Wrap
        BY <1>1, <2>1, <3>2
      <4>. QED BY <1>1, <4>1, ModSmall
    <3>4. between \in Nat /\ k < between
      BY <2>1, <3>1, <3>2, <3>3
    <3>5. k % between = k /\ between # 0
      BY <3>1, <3>4, ModSmall
    <3>6. (b.ptr + k) % Wrap = b.ptr + k
      <4>1. b.ptr + k \in Nat /\ b.ptr + k < Wrap
        BY <1>1, <2>1, <3>1, <3>2
      <4>. QED BY <1>1, <4>1, ModSmall
    <3>7. Copied(b.ptr, k) = memory[b.ptr + k]
      BY <3>5, <3>6 DEF Copied
    <3>8. memory'[heap_ptr + k] = Copied(b.ptr, k)
      BY <1>1, <2>4, <2>6, <3>1
    <3>. QED BY <2>2, <3>1, <3>7, <3>8 DEF DataKept
  <2>. QED BY <1>1, <1>2, <1>4, <2>3, <2>6, <2>7, BlockGiven
<1>. QED BY <1>3, <1>4

LEMMA FreeKeeps ==
  ASSUME Sound, NEW b \in blocks, free_beebs(b)
  PROVE  Sound'
BY DEF Sound, free_beebs, Numbers, Pointers, Blocks, Requests, Started,
       BlockOK, DataKept, Apart

LEMMA InitKeeps ==
  ASSUME Sound, init_heap_beebs
  PROVE  Sound'
<1>1. Heap \in Nat /\ Heap > 0 /\ HeapSize \in Nat /\ Wrap \in Nat
      /\ Heap + HeapSize < Wrap
  BY HeapFacts
<1>2. heap_ptr' = Heap /\ heap_end' = Heap + HeapSize
  BY <1>1, ModSmall DEF init_heap_beebs
<1>3. asked' = 0 /\ heap_requested' = 0 /\ blocks' = {} /\ wrapped' = wrapped
  BY DEF init_heap_beebs
<1>4. asked' = heap_ptr' - Heap
  BY <1>1, <1>2, <1>3
<1>5. ~refused' /\ refused' \in BOOLEAN
  BY DEF init_heap_beebs
<1>6. Numbers' /\ Pointers' /\ Blocks'
  BY <1>1, <1>2, <1>3, <1>5 DEF Sound, Numbers, Pointers, Blocks
<1>. QED
  BY <1>3, <1>4, <1>5, <1>6 DEF Sound, Requests

LEMMA NewData ==
  ASSUME NEW b, NEW data, b = [ptr |-> b.ptr, size |-> b.size, data |-> b.data]
  PROVE  [b EXCEPT !.data = data] = [ptr |-> b.ptr, size |-> b.size, data |-> data]
BY SMT

LEMMA WriteKeeps ==
  ASSUME Sound, NEW b \in blocks, NEW value \in Values, Write(b, value)
  PROVE  Sound'
<1>. DEFINE data == [k \in 0..b.size - 1 |-> value]
            new == [b EXCEPT !.data = data]
<1>1. BlockOK(b) /\ Heap \in Nat /\ HeapSize \in Nat /\ heap_ptr \in Nat
      /\ Wrap \in Nat /\ heap_ptr < Wrap
  <2>1. BlockOK(b) /\ (blocks # {} => heap_ptr <= Heap + HeapSize)
    BY DEF Sound, Blocks, Pointers
  <2>. QED BY <2>1, HeapFacts DEF Sound, Numbers
<1>2. new = [ptr |-> b.ptr, size |-> b.size, data |-> data]
  <2>. HIDE DEF data
  <2>. QED BY <1>1, NewData DEF BlockOK
<1>3. new.ptr = b.ptr /\ new.size = b.size /\ new.data = data
  BY <1>2
<1>4. /\ memory' = Filled(b.ptr, b.size, data)
      /\ blocks' = (blocks \ {b}) \cup {new}
      /\ UNCHANGED <<heap_ptr, heap_end, heap_requested, asked, refused, wrapped, calls>>
  BY DEF Write
<1>5. DOMAIN data = 0..b.size - 1
  OBVIOUS
<1>. HIDE DEF data
<1>6. /\ \A k \in 0..b.size - 1 : memory'[b.ptr + k] = data[k]
      /\ \A p \in 0..Wrap - 1 : p \notin b.ptr..b.ptr + b.size - 1 => memory'[p] = memory[p]
  <2>1. b.ptr \in Nat /\ b.size \in Nat /\ b.ptr + b.size < Wrap
    BY <1>1 DEF BlockOK
  <2>. QED BY <1>4, <2>1, FilledPlain
<1>7. ASSUME NEW c, c = new PROVE BlockOK(c)' /\ DataKept(c)'
  <2>1. BlockOK(c)'
    BY <1>1, <1>2, <1>3, <1>4, <1>5, <1>7 DEF BlockOK
  <2>2. DataKept(c)'
    BY <1>3, <1>5, <1>6, <1>7 DEF DataKept
  <2>. QED BY <2>1, <2>2
<1>. HIDE DEF new
<1>8. ASSUME NEW c \in blocks, c # b PROVE BlockOK(c)' /\ DataKept(c)' /\ Apart(c, b)
  <2>1. BlockOK(c) /\ DataKept(c) /\ Apart(c, b)
    BY <1>8 DEF Sound, Blocks
  <2>2. BlockOK(c)'
    BY <1>4, <2>1 DEF BlockOK
  <2>3. ASSUME NEW k \in DOMAIN c.data PROVE memory'[c.ptr + k] = c.data[k]
    <3>1. c.ptr + k \in 0..Wrap - 1 /\ c.ptr + k \notin b.ptr..b.ptr + b.size - 1
      BY <1>1, <2>1 DEF BlockOK, Apart
    <3>. QED BY <1>6, <2>1, <3>1 DEF DataKept
  <2>. QED BY <2>1, <2>2, <2>3 DEF DataKept
<1>9. ASSUME NEW c \in blocks' PROVE BlockOK(c)' /\ DataKept(c)'
  BY <1>4, <1>7, <1>8
<1>10. ASSUME NEW c \in blocks', NEW d \in blocks', c # d PROVE Apart(c, d)
  <2>1. \A x, y \in blocks : x # y => Apart(x, y)
    BY DEF Sound, Blocks
  <2>2. \A x \in blocks \ {b} : Apart(x, new) /\ Apart(new, x)
    BY <1>3, <1>8 DEF Apart
  <2>. QED BY <1>4, <1>10, <2>1, <2>2
<1>11. Blocks'
  BY <1>9, <1>10 DEF Blocks, Apart
<1>12. Pointers'
  <2>1. CASE blocks = {}
    BY <2>1
  <2>2. CASE blocks # {}
    BY <1>4, <2>2 DEF Sound, Pointers
  <2>. QED BY <2>1, <2>2
<1>13. Numbers' /\ Requests'
  BY <1>4 DEF Sound, Numbers, Requests, Started
<1>. QED BY <1>11, <1>12, <1>13 DEF Sound

-----------------------------------------------------------------------------
(* The invariant holds. *)

LEMMA InvInit == HeapInit => HeapInv
<1>. SUFFICES ASSUME HeapInit PROVE HeapInv
  OBVIOUS
<1>1. Numbers /\ Pointers /\ Blocks
  BY DEF HeapInit, Numbers, Pointers, Blocks
<1>2. ~Started /\ heap_requested = asked
  BY DEF HeapInit, Started
<1>. QED BY <1>1, <1>2 DEF HeapInv, Sound, Requests

\* What was given stays, and once a block has wrapped the types do.
LEMMA InvStep == HeapInv /\ [HeapNext]_heapVars => HeapInv'
<1>. SUFFICES ASSUME HeapInv, [HeapNext]_heapVars PROVE HeapInv'
  OBVIOUS
<1>1. ASSUME NEW wanted \in Nat, Request(wanted) PROVE Numbers' /\ (~wrapped' => Sound)
  <2>1. Numbers'
    BY <1>1, RequestCounts DEF HeapInv
  <2>2. ~wrapped' => ~wrapped
    BY <1>1 DEF Request, HeapInv, Numbers
  <2>. QED BY <2>1, <2>2 DEF HeapInv
<1>2. CASE init_heap_beebs
  <2>1. Numbers' /\ wrapped' = wrapped
    <3>1. Heap \in Nat /\ (Heap + HeapSize) % Wrap \in Nat
      BY HeapFacts, ModNat
    <3>. QED BY <1>2, <3>1 DEF init_heap_beebs, HeapInv, Numbers
  <2>. QED BY <1>2, <2>1, InitKeeps DEF HeapInv
<1>3. ASSUME NEW size \in Sizes, malloc_beebs(size) PROVE HeapInv'
  <2>1. size \in Nat /\ Request(size)
    BY <1>3, HeapFacts DEF malloc_beebs
  <2>. QED BY <1>1, <1>3, <2>1, MallocKeeps DEF HeapInv
<1>4. ASSUME NEW nmemb \in Sizes, NEW size \in Sizes, calloc_beebs(nmemb, size) PROVE HeapInv'
  <2>1. nmemb \in Nat /\ size \in Nat
    BY HeapFacts
  <2>2. nmemb * size \in Nat
    BY <2>1
  <2>3. Request(nmemb * size)
    BY <1>4 DEF calloc_beebs
  <2>. QED BY <1>1, <1>4, <2>2, <2>3, CallocKeeps DEF HeapInv
<1>5. ASSUME NEW b \in blocks, NEW size \in Sizes, realloc_beebs(b, size) PROVE HeapInv'
  <2>1. size \in Nat /\ Request(size)
    BY <1>5, HeapFacts DEF realloc_beebs
  <2>. QED BY <1>1, <1>5, <2>1, ReallocKeeps DEF HeapInv
<1>6. ASSUME NEW b \in blocks, free_beebs(b) PROVE HeapInv'
  <2>1. Numbers' /\ wrapped' = wrapped
    BY <1>6 DEF free_beebs, HeapInv, Numbers
  <2>. QED BY <1>6, <2>1, FreeKeeps DEF HeapInv
<1>7. ASSUME NEW b \in blocks, NEW value \in Values, Write(b, value) PROVE HeapInv'
  <2>1. Numbers' /\ wrapped' = wrapped
    BY <1>7 DEF Write, HeapInv, Numbers
  <2>. QED BY <1>7, <2>1, WriteKeeps DEF HeapInv
<1>8. CASE UNCHANGED heapVars
  BY <1>8 DEF heapVars, HeapInv, Sound, Numbers, Pointers, Blocks, Requests, Started,
              BlockOK, DataKept, Apart
<1>. QED
  BY <1>2, <1>3, <1>4, <1>5, <1>6, <1>7, <1>8 DEF HeapNext

\* The invariant, for every heap and any numbers of the type size_t: the
\* types, and until a block is given whose end wraps, where heap_ptr is, that
\* every block lies below it, apart from the others and with its data, and
\* what the counts say of the past.
THEOREM HeapInvariant == HeapSpec => []HeapInv
BY InvInit, InvStep, PTL DEF HeapSpec

\* For every heap and every sequence of calls in which no block was given
\* whose end wraps: the blocks of the client are in the heap and apart, and
\* their data is still there (malloc_beebs, calloc_beebs, realloc_beebs).
THEOREM BlocksStay == HeapSpec => []BlocksKept
<1>1. HeapInv => BlocksKept
  <2>. SUFFICES ASSUME HeapInv, ~wrapped, NEW b \in blocks
                PROVE  /\ Bytes(b) \subseteq Addresses
                       /\ \A c \in blocks \ {b} : Bytes(b) \cap Bytes(c) = {}
                       /\ DataKept(b)
    BY DEF BlocksKept, DataKept
  <2>1. Sound
    BY DEF HeapInv
  <2>2. Heap \in Nat /\ HeapSize \in Nat /\ heap_ptr \in Nat /\ Wrap \in Nat
        /\ heap_ptr <= Heap + HeapSize /\ Heap + HeapSize < Wrap
    BY <2>1, HeapFacts DEF Sound, Numbers, Pointers
  <2>3. ASSUME NEW c \in blocks PROVE BlockOK(c) /\ DataKept(c) /\ Bytes(c) = c.ptr..c.ptr + c.size - 1
    <3>1. BlockOK(c) /\ DataKept(c)
      BY <2>1 DEF Sound, Blocks
    <3>2. c.ptr \in Nat /\ c.size \in Nat /\ c.ptr + c.size <= Wrap
      BY <2>2, <3>1 DEF BlockOK
    <3>. QED BY <3>1, <3>2, SpanPlain DEF Bytes
  <2>4. Bytes(b) \subseteq Addresses
    BY <2>2, <2>3 DEF BlockOK, Addresses
  <2>5. ASSUME NEW c \in blocks \ {b} PROVE Bytes(b) \cap Bytes(c) = {}
    <3>1. Apart(b, c)
      BY <2>1 DEF Sound, Blocks
    <3>. QED BY <2>3, <3>1 DEF BlockOK, Apart
  <2>. QED BY <2>3, <2>4, <2>5
<1>. QED BY <1>1, HeapInvariant, PTL

\* For every heap and every sequence of calls in which no block was given
\* whose end wraps and that asks for less than a size can hold:
\* check_heap_beebs tells exactly whether a request has failed.
THEOREM CheckTells == HeapSpec => []CheckHeapTells
<1>1. HeapInv => CheckHeapTells
  <2>. SUFFICES ASSUME Sound, Started, Heap + asked < Wrap
                PROVE  check_heap_beebs <=> ~refused
    BY DEF CheckHeapTells, HeapInv
  <2>1. Heap \in Nat /\ Heap > 0 /\ HeapSize \in Nat /\ Wrap \in Nat
        /\ heap_ptr \in Nat /\ asked \in Nat
    BY HeapFacts DEF Sound, Numbers
  <2>2. heap_ptr <= Heap + HeapSize /\ heap_end = Heap + HeapSize
    BY <2>1 DEF Sound, Pointers, Started
  <2>3. heap_requested = asked
    BY <2>1 DEF Sound, Requests
  <2>4. (Heap + heap_requested) % Wrap = Heap + asked
    BY <2>1, <2>3, ModSmall
  <2>5. check_heap_beebs <=> asked <= HeapSize
    BY <2>1, <2>2, <2>4 DEF check_heap_beebs
  <2>6. CASE refused
    BY <2>1, <2>5, <2>6 DEF Sound, Requests
  <2>7. CASE ~refused
    BY <2>1, <2>2, <2>5, <2>7 DEF Sound, Requests
  <2>. QED BY <2>6, <2>7 DEF Sound, Numbers
<1>. QED BY <1>1, HeapInvariant, PTL

\* The heap of the programs is that heap: the other programs leave it alone.
LEMMA HeapOfPrograms == Spec => HeapSpec
<1>1. Init => HeapInit
  BY DEF Init
<1>2. [Next]_vars => [HeapNext]_heapVars
  BY DEF Next, Crc, NettleAes, Aes, Fib, HeapClient, Startup, Wait, vars, heapVars
<1>. QED BY <1>1, <1>2, PTL DEF Spec, HeapSpec

\* Both also hold of the programs, for which they are checked, with the same
\* premise on the blocks.
THEOREM ProgramsKeepBlocks == Spec => [](BlocksKept /\ CheckHeapTells)
BY HeapOfPrograms, BlocksStay, CheckTells, PTL

-----------------------------------------------------------------------------
(* The exclusive or: bits, numbers below 16, bytes. *)

Bit == {0, 1}
Nibble == 0..15
\* The exclusive or of two numbers below 16.
XorN(a, b) == nibbles[a + 1][b + 1]
Sum2(x, y) == (x + y) % 2
B0(a) == a % 2
B1(a) == (a \div 2) % 2
B2(a) == (a \div 4) % 2
B3(a) == (a \div 8) % 2

LEMMA Bits0 ==
  ASSUME NEW a \in Nibble
  PROVE  B0(a) \in Bit /\ B1(a) \in Bit /\ B2(a) \in Bit /\ B3(a) \in Bit
BY DEF B0, B1, B2, B3, Bit, Nibble

LEMMA SameBits ==
  ASSUME NEW a \in Nibble, NEW b \in Nibble,
         B0(a) = B0(b), B1(a) = B1(b), B2(a) = B2(b), B3(a) = B3(b)
  PROVE  a = b
BY DEF B0, B1, B2, B3, Nibble

LEMMA FromBits ==
  ASSUME NEW x0 \in Bit, NEW x1 \in Bit, NEW x2 \in Bit, NEW x3 \in Bit,
         NEW a, a = x0 + 2 * x1 + 4 * x2 + 8 * x3
  PROVE  a \in Nibble /\ B0(a) = x0 /\ B1(a) = x1 /\ B2(a) = x2 /\ B3(a) = x3
BY DEF B0, B1, B2, B3, Nibble, Bit

LEMMA Sum2Facts ==
  /\ \A x, y \in Bit : Sum2(x, y) \in Bit /\ Sum2(x, y) = Sum2(y, x) /\ Sum2(x, x) = 0 /\ Sum2(x, 0) = x
  /\ \A x, y, z \in Bit : Sum2(Sum2(x, y), z) = Sum2(x, Sum2(y, z))
BY DEF Sum2, Bit

LEMMA XorNDef ==
  ASSUME NEW a \in Nibble, NEW b \in Nibble
  PROVE XorN(a, b) = Sum2(a, b) + 2 * Sum2(a \div 2, b \div 2)
                     + 4 * Sum2(a \div 4, b \div 4) + 8 * Sum2(a \div 8, b \div 8)
BY DEF XorN, nibbles, Sum2, Nibble

LEMMA XorNBits ==
  ASSUME NEW a \in Nibble, NEW b \in Nibble
  PROVE  /\ XorN(a, b) \in Nibble
         /\ B0(XorN(a, b)) = Sum2(B0(a), B0(b))
         /\ B1(XorN(a, b)) = Sum2(B1(a), B1(b))
         /\ B2(XorN(a, b)) = Sum2(B2(a), B2(b))
         /\ B3(XorN(a, b)) = Sum2(B3(a), B3(b))
<1>1. /\ Sum2(a, b) = Sum2(B0(a), B0(b))
      /\ Sum2(a \div 2, b \div 2) = Sum2(B1(a), B1(b))
      /\ Sum2(a \div 4, b \div 4) = Sum2(B2(a), B2(b))
      /\ Sum2(a \div 8, b \div 8) = Sum2(B3(a), B3(b))
  BY DEF Sum2, B0, B1, B2, B3, Nibble
<1> DEFINE x0 == Sum2(B0(a), B0(b)) 
         x1 == Sum2(B1(a), B1(b)) 
         x2 == Sum2(B2(a), B2(b)) 
         x3 == Sum2(B3(a), B3(b)) 
         x == XorN(a, b)
<1>2. x = x0 + 2 * x1 + 4 * x2 + 8 * x3
  BY <1>1, XorNDef
<1>3. x0 \in Bit /\ x1 \in Bit /\ x2 \in Bit /\ x3 \in Bit
  BY Bits0, Sum2Facts
<1> HIDE DEF x0, x1, x2, x3, x
<1>4. x \in Nibble /\ B0(x) = x0 /\ B1(x) = x1 /\ B2(x) = x2 /\ B3(x) = x3
  BY <1>2, <1>3, FromBits
<1> QED
  BY <1>4 DEF x0, x1, x2, x3, x

LEMMA XorNFacts ==
  ASSUME NEW a \in Nibble, NEW b \in Nibble, NEW c \in Nibble
  PROVE  /\ XorN(a, b) \in Nibble /\ XorN(a, b) = XorN(b, a)
         /\ XorN(a, a) = 0 /\ XorN(a, 0) = a
         /\ XorN(XorN(a, b), c) = XorN(a, XorN(b, c))
<1>1. XorN(a, b) \in Nibble /\ XorN(b, a) \in Nibble
  BY XorNBits
<1>2. XorN(a, b) = XorN(b, a)
  BY <1>1, XorNBits, SameBits, Bits0, Sum2Facts
<1>3. 0 \in Nibble /\ B0(0) = 0 /\ B1(0) = 0 /\ B2(0) = 0 /\ B3(0) = 0
  BY DEF Nibble, B0, B1, B2, B3
<1>4. XorN(a, a) = 0
  BY <1>3, XorNBits, SameBits, Bits0, Sum2Facts
<1>5. XorN(a, 0) = a
  BY <1>3, XorNBits, SameBits, Bits0, Sum2Facts
<1>6. XorN(XorN(a, b), c) = XorN(a, XorN(b, c))
  <2>1. XorN(b, c) \in Nibble /\ XorN(XorN(a, b), c) \in Nibble /\ XorN(a, XorN(b, c)) \in Nibble
    BY <1>1, XorNBits
  <2> DEFINE left == XorN(XorN(a, b), c)
            right == XorN(a, XorN(b, c))
  <2>2. /\ B0(left) = Sum2(Sum2(B0(a), B0(b)), B0(c)) /\ B0(right) = Sum2(B0(a), Sum2(B0(b), B0(c)))
        /\ B1(left) = Sum2(Sum2(B1(a), B1(b)), B1(c)) /\ B1(right) = Sum2(B1(a), Sum2(B1(b), B1(c)))
        /\ B2(left) = Sum2(Sum2(B2(a), B2(b)), B2(c)) /\ B2(right) = Sum2(B2(a), Sum2(B2(b), B2(c)))
        /\ B3(left) = Sum2(Sum2(B3(a), B3(b)), B3(c)) /\ B3(right) = Sum2(B3(a), Sum2(B3(b), B3(c)))
    BY <1>1, <2>1, XorNBits
  <2>3. B0(left) = B0(right) /\ B1(left) = B1(right) /\ B2(left) = B2(right) /\ B3(left) = B3(right)
    <3> HIDE DEF left, right
    <3> QED BY <2>2, Bits0, Sum2Facts
  <2> QED BY <2>1, <2>3, SameBits
<1>. QED BY <1>1, <1>2, <1>4, <1>5, <1>6

LEMMA ByteNibbles ==
  ASSUME NEW a \in Byte
  PROVE  a \div 16 \in Nibble /\ a % 16 \in Nibble /\ a = 16 * (a \div 16) + (a % 16)
BY DEF Byte, Nibble

LEMMA FromNibbles ==
  ASSUME NEW h \in Nibble, NEW low \in Nibble, NEW a, a = 16 * h + low
  PROVE  a \in Byte /\ a \div 16 = h /\ a % 16 = low
BY DEF Byte, Nibble

LEMMA XorBNibbles ==
  ASSUME NEW a \in Byte, NEW b \in Byte
  PROVE  /\ XorB(a, b) \in Byte
         /\ XorB(a, b) \div 16 = XorN(a \div 16, b \div 16)
         /\ XorB(a, b) % 16 = XorN(a % 16, b % 16)
<1> DEFINE h == XorN(a \div 16, b \div 16)
         low == XorN(a % 16, b % 16)
         x == XorB(a, b)
<1>1. h \in Nibble /\ low \in Nibble
  BY ByteNibbles, XorNFacts
<1>2. x = 16 * h + low
  BY DEF XorB, XorN
<1> HIDE DEF h, low, x
<1>3. x \in Byte /\ x \div 16 = h /\ x % 16 = low
  BY <1>1, <1>2, FromNibbles
<1>. QED BY <1>3 DEF h, low, x

LEMMA SameNibbles ==
  ASSUME NEW a \in Byte, NEW b \in Byte, a \div 16 = b \div 16, a % 16 = b % 16
  PROVE  a = b
BY ByteNibbles

LEMMA XorBFacts ==
  ASSUME NEW a \in Byte, NEW b \in Byte, NEW c \in Byte
  PROVE  /\ XorB(a, b) \in Byte /\ XorB(a, b) = XorB(b, a)
         /\ XorB(a, a) = 0 /\ XorB(a, 0) = a /\ XorB(0, a) = a
         /\ XorB(XorB(a, b), c) = XorB(a, XorB(b, c))
<1>1. XorB(a, b) \in Byte /\ XorB(b, a) \in Byte /\ XorB(b, c) \in Byte
      /\ XorB(a, a) \in Byte
  BY XorBNibbles
<1>2. XorB(a, b) = XorB(b, a)
  BY <1>1, XorBNibbles, SameNibbles, ByteNibbles, XorNFacts
<1>3. 0 \in Byte /\ 0 \div 16 = 0 /\ 0 % 16 = 0 /\ 0 \in Nibble
  BY DEF Byte, Nibble
<1>4. XorB(a, a) = 0
  BY <1>1, <1>3, XorBNibbles, SameNibbles, ByteNibbles, XorNFacts
<1>5. XorB(a, 0) = a
  BY <1>3, XorBNibbles, SameNibbles, ByteNibbles, XorNFacts
<1>6. XorB(0, a) = a
  BY <1>3, XorBNibbles, SameNibbles, ByteNibbles, XorNFacts
<1>7. XorB(XorB(a, b), c) = XorB(a, XorB(b, c))
  <2> DEFINE left == XorB(XorB(a, b), c)
             right == XorB(a, XorB(b, c))
  <2>1. left \in Byte /\ right \in Byte
    BY <1>1, XorBNibbles
  <2>2. left \div 16 = right \div 16
    BY <1>1, XorBNibbles, ByteNibbles, XorNFacts
  <2>3. left % 16 = right % 16
    BY <1>1, XorBNibbles, ByteNibbles, XorNFacts
  <2> HIDE DEF left, right
  <2>4. left = right
    BY <2>1, <2>2, <2>3, SameNibbles
  <2>. QED BY <2>4 DEF left, right
<1>. QED BY <1>1, <1>2, <1>4, <1>5, <1>6, <1>7

\* The lowest bit.
LEMMA XorBLow ==
  ASSUME NEW a \in Byte, NEW b \in Byte
  PROVE  XorB(a, b) % 2 = Sum2(a % 2, b % 2)
<1>1. a % 16 \in Nibble /\ b % 16 \in Nibble /\ XorB(a, b) \in Byte
  BY ByteNibbles, XorBNibbles
<1>2. XorN(a % 16, b % 16) % 2 = Sum2((a % 16) % 2, (b % 16) % 2)
  BY <1>1, XorNBits DEF B0
<1>3. \A x \in Byte : (x % 16) % 2 = x % 2
  BY DEF Byte
<1>. QED BY <1>1, <1>2, <1>3, XorBNibbles

\* A shift to the right, with a bit that comes in.
ShiftN(a, c) == (a \div 2) + 8 * c
ShiftB(a, c) == (a \div 2) + 128 * c

LEMMA ShiftNBits ==
  ASSUME NEW a \in Nibble, NEW c \in Bit
  PROVE  /\ ShiftN(a, c) \in Nibble
         /\ B0(ShiftN(a, c)) = B1(a) /\ B1(ShiftN(a, c)) = B2(a)
         /\ B2(ShiftN(a, c)) = B3(a) /\ B3(ShiftN(a, c)) = c
BY DEF ShiftN, B0, B1, B2, B3, Nibble, Bit

LEMMA ShiftNXor ==
  ASSUME NEW a \in Nibble, NEW b \in Nibble, NEW c \in Bit, NEW d \in Bit
  PROVE  XorN(ShiftN(a, c), ShiftN(b, d)) = ShiftN(XorN(a, b), Sum2(c, d))
<1> DEFINE left == XorN(ShiftN(a, c), ShiftN(b, d))
           right == ShiftN(XorN(a, b), Sum2(c, d))
<1>1. Sum2(c, d) \in Bit /\ XorN(a, b) \in Nibble /\ ShiftN(a, c) \in Nibble /\ ShiftN(b, d) \in Nibble
  BY Sum2Facts, XorNFacts, ShiftNBits
<1>2. left \in Nibble /\ right \in Nibble
  BY <1>1, XorNBits, ShiftNBits
<1>3. B0(left) = B0(right) /\ B1(left) = B1(right) /\ B2(left) = B2(right) /\ B3(left) = B3(right)
  BY <1>1, XorNBits, ShiftNBits
<1> HIDE DEF left, right
<1>4. left = right
  BY <1>2, <1>3, SameBits
<1>. QED BY <1>4 DEF left, right

LEMMA ShiftBNibbles ==
  ASSUME NEW a \in Byte, NEW c \in Bit
  PROVE  /\ ShiftB(a, c) \in Byte
         /\ ShiftB(a, c) \div 16 = ShiftN(a \div 16, c)
         /\ ShiftB(a, c) % 16 = ShiftN(a % 16, (a \div 16) % 2)
BY DEF ShiftB, ShiftN, Byte, Bit

LEMMA ShiftBXor ==
  ASSUME NEW a \in Byte, NEW b \in Byte, NEW c \in Bit, NEW d \in Bit
  PROVE  XorB(ShiftB(a, c), ShiftB(b, d)) = ShiftB(XorB(a, b), Sum2(c, d))
<1> DEFINE left == XorB(ShiftB(a, c), ShiftB(b, d))
           right == ShiftB(XorB(a, b), Sum2(c, d))
<1>1. Sum2(c, d) \in Bit /\ XorB(a, b) \in Byte /\ ShiftB(a, c) \in Byte /\ ShiftB(b, d) \in Byte
  BY Sum2Facts, XorBFacts, ShiftBNibbles
<1>2. left \in Byte /\ right \in Byte
  BY <1>1, XorBFacts, ShiftBNibbles
<1>3. left \div 16 = right \div 16
  BY <1>1, XorBNibbles, ShiftBNibbles, ShiftNXor, ByteNibbles
<1>4. left % 16 = right % 16
  <2>1. (a \div 16) % 2 \in Bit /\ (b \div 16) % 2 \in Bit /\ a \div 16 \in Nibble /\ b \div 16 \in Nibble
    BY DEF Byte, Bit, Nibble
  <2>2. XorN(a \div 16, b \div 16) % 2 = Sum2((a \div 16) % 2, (b \div 16) % 2)
    BY <2>1, XorNBits DEF B0
  <2>. QED BY <1>1, <2>1, <2>2, XorBNibbles, ShiftBNibbles, ShiftNXor, ByteNibbles
<1> HIDE DEF left, right
<1>5. left = right
  BY <1>2, <1>3, <1>4, SameNibbles
<1>. QED BY <1>5 DEF left, right

-----------------------------------------------------------------------------
(* Functions that are defined by recursion on a number. *)

LEMMA Induction ==
  ASSUME NEW S, 0 \in S, \A n \in Nat : n \in S => n + 1 \in S
  PROVE  Nat \subseteq S
<1> DEFINE R == OpToRel(<, Nat)
           Rest == Nat \ S
<1>1. IsWellFoundedOn(R, Nat)
  BY NatLessThanWellFounded
<1>2. \A x, y \in Nat : x < y => <<x, y>> \in R
  BY DEF OpToRel
<1> HIDE DEF R
<1> SUFFICES ASSUME Rest # {} PROVE FALSE
  OBVIOUS
<1>3. Rest \subseteq Nat
  OBVIOUS
<1>4. PICK n \in Rest : \A m \in Rest : ~(<<m, n>> \in R)
  BY <1>1, <1>3, WFMin
<1>5. \A m \in Rest : ~(m < n)
  BY <1>2, <1>4
<1>6. n # 0 /\ n - 1 \in Nat
  OBVIOUS
<1>. QED BY <1>5, <1>6

\* g starts with c and goes on as F says.
Follows(g, n, c, F) == g[0] = c /\ \A k \in 1..n : g[k] = F[<<k, g[k - 1]>>]

\* A function on 0..n that is defined by recursion exists.
LEMMA Recursion ==
  ASSUME NEW n \in Nat, NEW S, NEW c \in S, NEW F \in [(1..n) \X S -> S]
  PROVE  \E g \in [0..n -> S] : Follows(g, n, c, F)
<1> DEFINE Upto(m) == \E g \in [0..m -> S] : /\ g[0] = c
                                             /\ \A k \in 1..m : g[k] = F[<<k, g[k - 1]>>]
           M == {m \in Nat : m <= n => Upto(m)}
<1>1. 0 \in M
  <2>1. Upto(0)
    <3> DEFINE g == [k \in 0..0 |-> c]
    <3>1. g \in [0..0 -> S] /\ g[0] = c /\ \A k \in 1..0 : g[k] = F[<<k, g[k - 1]>>]
      OBVIOUS
    <3>. QED BY <3>1
  <2>. QED BY <2>1
<1>2. ASSUME NEW m \in Nat, m \in M PROVE m + 1 \in M
  <2> SUFFICES ASSUME m + 1 <= n PROVE Upto(m + 1)
    OBVIOUS
  <2>1. PICK g \in [0..m -> S] : /\ g[0] = c
                                 /\ \A k \in 1..m : g[k] = F[<<k, g[k - 1]>>]
    BY <1>2
  <2> DEFINE h == [k \in 0..m + 1 |-> IF k = m + 1 THEN F[<<m + 1, g[m]>>] ELSE g[k]]
  <2>2. F[<<m + 1, g[m]>>] \in S
    OBVIOUS
  <2>3. h \in [0..m + 1 -> S]
    BY <2>2
  <2>4. h[0] = c
    BY <2>1
  <2>5. ASSUME NEW k \in 1..m + 1 PROVE h[k] = F[<<k, h[k - 1]>>]
    <3>1. k - 1 \in 0..m /\ h[k - 1] = g[k - 1]
      OBVIOUS
    <3>2. CASE k = m + 1
      <4>1. k - 1 = m /\ h[k] = F[<<m + 1, g[m]>>]
        BY <3>2
      <4>. QED BY <3>1, <3>2, <4>1
    <3>3. CASE k # m + 1
      BY <2>1, <3>1, <3>3
    <3>. QED BY <3>2, <3>3
  <2> HIDE DEF h
  <2>. QED BY <2>3, <2>4, <2>5
<1> HIDE DEF M
<1>3. n \in M
  BY <1>1, <1>2, Induction
<1>. QED BY <1>3 DEF M, Follows

\* What holds of the first value and is handed on holds of all.
LEMMA AllIn ==
  ASSUME NEW n \in Nat, NEW S, NEW g, g[0] \in S,
         \A k \in 1..n : g[k - 1] \in S => g[k] \in S
  PROVE  \A k \in 0..n : g[k] \in S
<1> DEFINE M == {m \in Nat : m <= n => g[m] \in S}
<1>1. 0 \in M
  OBVIOUS
<1>2. ASSUME NEW m \in Nat, m \in M PROVE m + 1 \in M
  <2>1. ASSUME m + 1 <= n PROVE g[m + 1] \in S
    <3>1. m + 1 \in 1..n /\ (m + 1) - 1 = m /\ g[m] \in S
      BY <1>2, <2>1
    <3>. QED BY <3>1
  <2>. QED BY <2>1
<1> HIDE DEF M
<1>3. Nat \subseteq M
  BY <1>1, <1>2, Induction
<1>. QED BY <1>3 DEF M

LEMMA WordIs ==
  ASSUME NEW v \in Word
  PROVE  /\ v = <<v[1], v[2], v[3], v[4]>>
         /\ v[1] \in Byte /\ v[2] \in Byte /\ v[3] \in Byte /\ v[4] \in Byte
BY DEF Word

LEMMA WordMade ==
  ASSUME NEW a \in Byte, NEW b \in Byte, NEW c \in Byte, NEW d \in Byte
  PROVE  <<a, b, c, d>> \in Word
BY DEF Word

Zero == <<0, 0, 0, 0>>

LEMMA XorWFacts ==
  ASSUME NEW u \in Word, NEW v \in Word, NEW x \in Word
  PROVE  /\ XorW(u, v) \in Word /\ XorW(u, v) = XorW(v, u)
         /\ XorW(XorW(u, v), x) = XorW(u, XorW(v, x))
         /\ XorW(u, Zero) = u /\ XorW(Zero, u) = u
<1>1. XorW(u, v) \in Word
  BY WordIs, WordMade, XorBFacts DEF XorW
<1>2. XorW(u, v) = XorW(v, u)
  BY WordIs, WordMade, XorBFacts DEF XorW
<1>3. XorW(XorW(u, v), x) = XorW(u, XorW(v, x))
  <2> DEFINE l == XorW(XorW(u, v), x)
  <2>1. \A i \in 1..4 : XorW(u, v)[i] = XorB(u[i], v[i]) /\ XorW(v, x)[i] = XorB(v[i], x[i])
    BY DEF XorW
  <2>2. \A i \in 1..4 : XorB(XorB(u[i], v[i]), x[i]) = XorB(u[i], XorB(v[i], x[i]))
    BY XorBFacts DEF Word
  <2>. QED BY <2>1, <2>2 DEF XorW
<1>4. XorW(u, Zero) = u /\ XorW(Zero, u) = u
  <2>1. u = <<u[1], u[2], u[3], u[4]>> /\ u[1] \in Byte /\ u[2] \in Byte /\ u[3] \in Byte /\ u[4] \in Byte
    BY WordIs
  <2>2. \A a \in Byte : XorB(a, 0) = a /\ XorB(0, a) = a
    BY XorBFacts
  <2>3. XorW(u, Zero) = <<u[1], u[2], u[3], u[4]>> /\ XorW(Zero, u) = <<u[1], u[2], u[3], u[4]>>
    BY <2>1, <2>2 DEF XorW, Zero
  <2>. QED BY <2>1, <2>3
<1>. QED BY <1>1, <1>2, <1>3, <1>4

-----------------------------------------------------------------------------
(* The register of the checksum. *)

LEMMA HalfIs ==
  ASSUME NEW v \in Word
  PROVE  /\ Half(v) = <<ShiftB(v[1], v[2] % 2), ShiftB(v[2], v[3] % 2), ShiftB(v[3], v[4] % 2), ShiftB(v[4], 0)>>
         /\ Half(v) \in Word
<1>1. v[1] \in Byte /\ v[2] \in Byte /\ v[3] \in Byte /\ v[4] \in Byte
  BY WordIs
<1>2. v[2] % 2 \in Bit /\ v[3] % 2 \in Bit /\ v[4] % 2 \in Bit /\ 0 \in Bit
  BY <1>1 DEF Byte, Bit
<1>3. v[4] \div 2 = (v[4] \div 2) + 128 * 0
  BY <1>1 DEF Byte
<1>4. Half(v) = <<ShiftB(v[1], v[2] % 2), ShiftB(v[2], v[3] % 2), ShiftB(v[3], v[4] % 2), ShiftB(v[4], 0)>>
  BY <1>3 DEF Half, ShiftB
<1>5. /\ ShiftB(v[1], v[2] % 2) \in Byte /\ ShiftB(v[2], v[3] % 2) \in Byte
      /\ ShiftB(v[3], v[4] % 2) \in Byte /\ ShiftB(v[4], 0) \in Byte
  BY <1>1, <1>2, ShiftBNibbles
<1>. QED BY <1>4, <1>5, WordMade

LEMMA HalfXor ==
  ASSUME NEW v \in Word, NEW u \in Word
  PROVE  Half(XorW(v, u)) = XorW(Half(v), Half(u))
<1> DEFINE x == XorW(v, u)
<1>1. /\ v[1] \in Byte /\ v[2] \in Byte /\ v[3] \in Byte /\ v[4] \in Byte
      /\ u[1] \in Byte /\ u[2] \in Byte /\ u[3] \in Byte /\ u[4] \in Byte
  BY WordIs
<1>2. x \in Word
  BY XorWFacts
<1>3. x[1] = XorB(v[1], u[1]) /\ x[2] = XorB(v[2], u[2]) /\ x[3] = XorB(v[3], u[3]) /\ x[4] = XorB(v[4], u[4])
  BY DEF XorW
<1> HIDE DEF x
<1>4. \A a \in Byte : a % 2 \in Bit
  BY DEF Byte, Bit
<1>5. Half(x) = <<ShiftB(x[1], x[2] % 2), ShiftB(x[2], x[3] % 2), ShiftB(x[3], x[4] % 2), ShiftB(x[4], 0)>>
  BY <1>2, HalfIs
<1>6. \A a, b, c, d \in Byte : ShiftB(XorB(a, b), XorB(c, d) % 2) = XorB(ShiftB(a, c % 2), ShiftB(b, d % 2))
  BY <1>4, XorBLow, ShiftBXor
<1>7. \A a, b \in Byte : ShiftB(XorB(a, b), 0) = XorB(ShiftB(a, 0), ShiftB(b, 0))
  <2>1. 0 \in Bit /\ Sum2(0, 0) = 0
    BY DEF Bit, Sum2
  <2>. QED BY <2>1, ShiftBXor
<1>8. Half(x) = <<XorB(ShiftB(v[1], v[2] % 2), ShiftB(u[1], u[2] % 2)),
                  XorB(ShiftB(v[2], v[3] % 2), ShiftB(u[2], u[3] % 2)),
                  XorB(ShiftB(v[3], v[4] % 2), ShiftB(u[3], u[4] % 2)),
                  XorB(ShiftB(v[4], 0), ShiftB(u[4], 0))>>
  <2>1. ShiftB(x[1], x[2] % 2) = XorB(ShiftB(v[1], v[2] % 2), ShiftB(u[1], u[2] % 2))
    <3>1. ShiftB(XorB(v[1], u[1]), XorB(v[2], u[2]) % 2)
            = XorB(ShiftB(v[1], v[2] % 2), ShiftB(u[1], u[2] % 2))
      BY <1>1, <1>6
    <3>. QED BY <1>3, <3>1
  <2>2. ShiftB(x[2], x[3] % 2) = XorB(ShiftB(v[2], v[3] % 2), ShiftB(u[2], u[3] % 2))
    <3>1. ShiftB(XorB(v[2], u[2]), XorB(v[3], u[3]) % 2)
            = XorB(ShiftB(v[2], v[3] % 2), ShiftB(u[2], u[3] % 2))
      BY <1>1, <1>6
    <3>. QED BY <1>3, <3>1
  <2>3. ShiftB(x[3], x[4] % 2) = XorB(ShiftB(v[3], v[4] % 2), ShiftB(u[3], u[4] % 2))
    <3>1. ShiftB(XorB(v[3], u[3]), XorB(v[4], u[4]) % 2)
            = XorB(ShiftB(v[3], v[4] % 2), ShiftB(u[3], u[4] % 2))
      BY <1>1, <1>6
    <3>. QED BY <1>3, <3>1
  <2>4. ShiftB(x[4], 0) = XorB(ShiftB(v[4], 0), ShiftB(u[4], 0))
    BY <1>1, <1>3, <1>7
  <2>. QED BY <1>5, <2>1, <2>2, <2>3, <2>4
<1>9. Half(x) = XorW(Half(v), Half(u))
  <2> DEFINE h == Half(v)
             l == Half(u)
  <2>1. /\ h[1] = ShiftB(v[1], v[2] % 2) /\ h[2] = ShiftB(v[2], v[3] % 2)
        /\ h[3] = ShiftB(v[3], v[4] % 2) /\ h[4] = ShiftB(v[4], 0)
        /\ l[1] = ShiftB(u[1], u[2] % 2) /\ l[2] = ShiftB(u[2], u[3] % 2)
        /\ l[3] = ShiftB(u[3], u[4] % 2) /\ l[4] = ShiftB(u[4], 0)
    BY HalfIs
  <2> HIDE DEF h, l
  <2>2. Half(x) = XorW(h, l)
    BY <1>8, <2>1 DEF XorW
  <2>. QED BY <2>2 DEF h, l
<1>. QED BY <1>9 DEF x

\* One bit goes into the register c.
Shift(c, b) == IF (c[1] + b) % 2 = 1 THEN XorW(Half(c), Polynomial) ELSE Half(c)

LEMMA PolynomialInWord == Polynomial \in Word
<1>1. \h20 \in Byte /\ \h83 \in Byte /\ \hb8 \in Byte /\ \hed \in Byte
  BY DEF Byte
<1>. QED BY <1>1, WordMade DEF Polynomial

LEMMA ShiftInWord ==
  ASSUME NEW c \in Word, NEW b
  PROVE  Shift(c, b) \in Word
BY PolynomialInWord, HalfIs, XorWFacts DEF Shift

\* The register after the bits of an octet is the last of nine.
LEMMA ShiftedIs ==
  ASSUME NEW octet \in Byte, NEW c \in Word
  PROVE  \E g \in [0..8 -> Word] : /\ g[0] = c /\ Shifted(octet, c, 8) = g[8]
                                   /\ \A k \in 0..7 : g[k + 1] = Shift(g[k], octet \div 2^k)
<1> DEFINE Body(g, k) == IF k = 0 THEN c
                         ELSE LET prev == g[k - 1]
                              IN IF (prev[1] + (octet \div 2^(k - 1))) % 2 = 1
                                 THEN XorW(Half(prev), Polynomial) ELSE Half(prev)
           F == [p \in (1..8) \X Word |-> Shift(p[2], octet \div 2^(p[1] - 1))]
           after == CHOOSE g : g = [k \in 0..8 |-> Body(g, k)]
<1>1. F \in [(1..8) \X Word -> Word]
  BY ShiftInWord
<1>2. PICK h \in [0..8 -> Word] : Follows(h, 8, c, F)
  <2> HIDE DEF F
  <2>. QED BY <1>1, Recursion
<1>3. h = [k \in 0..8 |-> Body(h, k)]
  <2>1. ASSUME NEW k \in 0..8 PROVE h[k] = Body(h, k)
    <3>1. CASE k = 0
      BY <1>2, <3>1 DEF Follows
    <3>2. CASE k # 0
      <4>1. <<k, h[k - 1]>> \in (1..8) \X Word
        BY <3>2
      <4>. QED BY <1>2, <3>2, <4>1 DEF Follows, Shift
    <3>. QED BY <3>1, <3>2
  <2>. QED BY <1>2, <2>1
<1>4. after = [k \in 0..8 |-> Body(after, k)]
  BY <1>3
<1>7. Shifted(octet, c, 8) = after[8]
  BY DEF Shifted
<1> HIDE DEF after
<1>5. after[0] = c
  BY <1>4
<1>6. ASSUME NEW k \in 0..7 PROVE after[k + 1] = Shift(after[k], octet \div 2^k)
  <2>1. k + 1 \in 0..8 /\ k + 1 # 0 /\ (k + 1) - 1 = k
    OBVIOUS
  <2>2. after[k + 1] = Body(after, k + 1)
    BY <1>4, <2>1
  <2>. QED BY <2>1, <2>2 DEF Shift
<1>8. ASSUME NEW k \in 1..8, after[k - 1] \in Word PROVE after[k] \in Word
  <2>1. k - 1 \in 0..7 /\ (k - 1) + 1 = k
    OBVIOUS
  <2>2. after[k] = Shift(after[k - 1], octet \div 2^(k - 1))
    BY <1>6, <2>1
  <2>. QED BY <1>8, <2>2, ShiftInWord
<1>9. \A k \in 0..8 : after[k] \in Word
  BY <1>5, <1>8, AllIn
<1>10. after = [k \in 0..8 |-> after[k]]
  BY <1>4
<1>11. after \in [0..8 -> Word]
  BY <1>9, <1>10
<1>. QED BY <1>5, <1>6, <1>7, <1>11

\* The byte of two that lies n bits up, as its part of a (n = 2^i, m = 2^(8-i)).
D(a, b, n, m) == (a \div n) + m * (b % n)
Powers == {<<1, 128>>, <<2, 64>>, <<4, 32>>, <<8, 16>>, <<16, 8>>, <<32, 4>>, <<64, 2>>, <<128, 1>>}
LEMMA DStep ==
  ASSUME NEW a \in Byte, NEW b \in Byte, NEW n, NEW m, <<n, m>> \in Powers
  PROVE ShiftB(D(a, b, n, 2 * m), (b \div n) % 2) = D(a, b, 2 * n, m)
<1>0. <<n, m>> \in {<<1, 128>>, <<2, 64>>, <<4, 32>>, <<8, 16>>, <<16, 8>>, <<32, 4>>, <<64, 2>>, <<128, 1>>}
  BY DEF Powers
<1>1. n \in Nat /\ m \in Nat
  BY <1>0
<1>2. b % (2 * n) = (b % n) + n * ((b \div n) % 2)
  <2>1. /\ b % 2 = (b % 1) + 1 * ((b \div 1) % 2)
        /\ b % 4 = (b % 2) + 2 * ((b \div 2) % 2)
        /\ b % 8 = (b % 4) + 4 * ((b \div 4) % 2)
        /\ b % 16 = (b % 8) + 8 * ((b \div 8) % 2)
    BY DEF Byte
  <2>2. /\ b % 32 = (b % 16) + 16 * ((b \div 16) % 2)
        /\ b % 64 = (b % 32) + 32 * ((b \div 32) % 2)
        /\ b % 128 = (b % 64) + 64 * ((b \div 64) % 2)
        /\ b % 256 = (b % 128) + 128 * ((b \div 128) % 2)
    BY DEF Byte
  <2>3. n \in {1, 2, 4, 8, 16, 32, 64, 128}
    BY <1>0
  <2>. QED BY <2>1, <2>2, <2>3
<1>3. a \div (2 * n) = (a \div n) \div 2
  BY <1>0 DEF Byte
<1>4. ((a \div n) + (2 * m) * (b % n)) \div 2 = ((a \div n) \div 2) + m * (b % n)
  BY <1>0 DEF Byte
<1> DEFINE x == b % n
      y == (b \div n) % 2
      z == (a \div n) \div 2
<1>5. x \in Nat /\ y \in Nat /\ z \in Nat
  BY <1>0 DEF Byte
<1>6. D(a, b, 2 * n, m) = z + m * (x + n * y)
  BY <1>2, <1>3 DEF D
<1>7. ShiftB(D(a, b, n, 2 * m), y) = z + (m * x) + (128 * y)
  BY <1>4 DEF D, ShiftB
<1> HIDE DEF x, y, z
<1>8. z + (m * x) + (128 * y) = z + m * (x + n * y)
  BY <1>0, <1>5
<1> QED BY <1>6, <1>7, <1>8 DEF y

LEMMA DFacts ==
  ASSUME NEW a \in Byte, NEW b \in Byte, NEW n, NEW m, <<n, m>> \in Powers
  PROVE /\ D(a, b, n, 2 * m) \in Byte
        /\ D(a, b, n, 2 * m) % 2 = (a \div n) % 2
        /\ (a \div n) % 2 \in Bit
<1>1. <<n, m>> \in {<<1, 128>>, <<2, 64>>, <<4, 32>>, <<8, 16>>, <<16, 8>>, <<32, 4>>, <<64, 2>>, <<128, 1>>}
  BY DEF Powers
<1>2. D(a, b, n, 2 * m) \in Byte
  <2>1. /\ D(a, b, 1, 256) \in Byte /\ D(a, b, 2, 128) \in Byte
        /\ D(a, b, 4, 64) \in Byte /\ D(a, b, 8, 32) \in Byte
    BY DEF D, Byte
  <2>2. /\ D(a, b, 16, 16) \in Byte /\ D(a, b, 32, 8) \in Byte
        /\ D(a, b, 64, 4) \in Byte /\ D(a, b, 128, 2) \in Byte
    BY DEF D, Byte
  <2>. QED BY <1>1, <2>1, <2>2
<1>3. D(a, b, n, 2 * m) % 2 = (a \div n) % 2
  BY <1>1 DEF D, Byte
<1>4. (a \div n) % 2 \in Bit
  BY <1>1 DEF Bit, Byte
<1> QED BY <1>2, <1>3, <1>4

\* A word that is shifted down by i bits.
Down(c, n, m) == <<D(c[1], c[2], n, m), D(c[2], c[3], n, m), D(c[3], c[4], n, m), D(c[4], 0, n, m)>>

LEMMA DownFacts ==
  ASSUME NEW c \in Word, NEW n, NEW m, <<n, m>> \in Powers
  PROVE  /\ Down(c, n, 2 * m) \in Word
         /\ Down(c, n, 2 * m)[1] % 2 = (c[1] \div n) % 2
         /\ Half(Down(c, n, 2 * m)) = Down(c, 2 * n, m)
<1>1. c[1] \in Byte /\ c[2] \in Byte /\ c[3] \in Byte /\ c[4] \in Byte /\ 0 \in Byte
  BY WordIs DEF Byte
<1>2. Down(c, n, 2 * m) \in Word
  BY <1>1, DFacts, WordMade DEF Down
<1> DEFINE d == Down(c, n, 2 * m)
<1>3. /\ d[1] = D(c[1], c[2], n, 2 * m) /\ d[2] = D(c[2], c[3], n, 2 * m)
      /\ d[3] = D(c[3], c[4], n, 2 * m) /\ d[4] = D(c[4], 0, n, 2 * m)
  BY DEF Down
<1>4. d \in Word
  BY <1>2
<1> HIDE DEF d
<1>5. /\ d[1] % 2 = (c[1] \div n) % 2 /\ d[2] % 2 = (c[2] \div n) % 2
      /\ d[3] % 2 = (c[3] \div n) % 2 /\ d[4] % 2 = (c[4] \div n) % 2
  <2>1. \A a, b \in Byte : D(a, b, n, 2 * m) % 2 = (a \div n) % 2
    BY DFacts
  <2>. QED BY <1>1, <1>3, <2>1
<1>6. Half(d) = <<ShiftB(d[1], d[2] % 2), ShiftB(d[2], d[3] % 2), ShiftB(d[3], d[4] % 2), ShiftB(d[4], 0)>>
  BY <1>4, HalfIs
<1>7. (0 \div n) % 2 = 0
  BY DEF Powers
<1>8. /\ ShiftB(d[1], d[2] % 2) = D(c[1], c[2], 2 * n, m)
      /\ ShiftB(d[2], d[3] % 2) = D(c[2], c[3], 2 * n, m)
      /\ ShiftB(d[3], d[4] % 2) = D(c[3], c[4], 2 * n, m)
      /\ ShiftB(d[4], 0) = D(c[4], 0, 2 * n, m)
  BY <1>1, <1>3, <1>5, <1>7, DStep
<1>9. Half(d) = Down(c, 2 * n, m)
  BY <1>6, <1>8 DEF Down
<1> QED BY <1>4, <1>5, <1>9 DEF d

LEMMA DownEnds ==
  ASSUME NEW c \in Word
  PROVE  Down(c, 1, 256) = c /\ Down(c, 256, 1) = <<c[2], c[3], c[4], 0>>
<1>1. c[1] \in Byte /\ c[2] \in Byte /\ c[3] \in Byte /\ c[4] \in Byte /\ 0 \in Byte
  BY WordIs DEF Byte
<1>2. \A a, b \in Byte : D(a, b, 1, 256) = a /\ D(a, b, 256, 1) = b
  BY DEF D, Byte
<1>3. c = <<c[1], c[2], c[3], c[4]>>
  BY WordIs
<1>4. Down(c, 1, 256) = <<c[1], c[2], c[3], c[4]>>
  BY <1>1, <1>2 DEF Down
<1> QED BY <1>1, <1>2, <1>3, <1>4 DEF Down

LEMMA NibbleBit ==
  ASSUME NEW a \in Byte
  PROVE  /\ (a \div 1) % 2 = B0(a % 16) /\ (a \div 2) % 2 = B1(a % 16)
         /\ (a \div 4) % 2 = B2(a % 16) /\ (a \div 8) % 2 = B3(a % 16)
         /\ (a \div 16) % 2 = B0(a \div 16) /\ (a \div 32) % 2 = B1(a \div 16)
         /\ (a \div 64) % 2 = B2(a \div 16) /\ (a \div 128) % 2 = B3(a \div 16)
<1>1. (a \div 1) % 2 = B0(a % 16) /\ (a \div 2) % 2 = B1(a % 16)
  BY DEF B0, B1, Byte
<1>2. (a \div 4) % 2 = B2(a % 16)
  BY DEF B2, Byte
<1>3. (a \div 8) % 2 = B3(a % 16)
  BY DEF B3, Byte
<1>4. a \div 32 = (a \div 16) \div 2 /\ a \div 64 = (a \div 16) \div 4
      /\ a \div 128 = (a \div 16) \div 8
  BY DEF Byte
<1>. QED BY <1>1, <1>2, <1>3, <1>4 DEF B0, B1, B2, B3

LEMMA XorBBit ==
  ASSUME NEW a \in Byte, NEW b \in Byte, NEW n \in {1, 2, 4, 8, 16, 32, 64, 128}
  PROVE  (XorB(a, b) \div n) % 2 = Sum2((a \div n) % 2, (b \div n) % 2)
<1>1. XorB(a, b) \in Byte /\ a % 16 \in Nibble /\ b % 16 \in Nibble /\ a \div 16 \in Nibble /\ b \div 16 \in Nibble
  BY XorBFacts, ByteNibbles
<1>2. CASE n \in {1, 2, 4, 8}
  BY <1>1, <1>2, NibbleBit, XorBNibbles, XorNBits
<1>3. CASE n \in {16, 32, 64, 128}
  BY <1>1, <1>3, NibbleBit, XorBNibbles, XorNBits
<1>. QED BY <1>2, <1>3

\* Bytes and their quotients are numbers.
LEMMA Quotients ==
  ASSUME NEW n \in {1, 2, 4, 8, 16, 32, 64, 128}, NEW x \in Byte
  PROVE  x \in Nat /\ x \div n \in Nat
BY DEF Byte

\* The registers that take in an octet o with and without the word c move
\* apart by what is left of c, when the other octet is corrected by c.
LEMMA OneApart ==
  ASSUME NEW c \in Word, NEW o \in Byte, NEW h \in Word, NEW n, NEW m, <<n, m>> \in Powers
  PROVE  Shift(XorW(h, Down(c, n, 2 * m)), o \div n)
           = XorW(Shift(h, XorB(c[1], o) \div n), Down(c, 2 * n, m))
<1> DEFINE d == Down(c, n, 2 * m)
           g == XorW(h, d)
           x == XorB(c[1], o)
<1>1. d \in Word /\ d[1] % 2 = (c[1] \div n) % 2 /\ Half(d) = Down(c, 2 * n, m)
  BY DownFacts
<1>2. c[1] \in Byte /\ h[1] \in Byte /\ d[1] \in Byte /\ x \in Byte
  BY <1>1, WordIs, XorBFacts
<1>3. n \in {1, 2, 4, 8, 16, 32, 64, 128}
  BY DEF Powers
<1>4. (x \div n) % 2 = Sum2((c[1] \div n) % 2, (o \div n) % 2)
  BY <1>2, <1>3, XorBBit
<1>5. g[1] = XorB(h[1], d[1]) /\ g \in Word
  BY <1>1, XorWFacts DEF XorW
<1>6. g[1] % 2 = Sum2(h[1] % 2, d[1] % 2) /\ g[1] \in Byte
  BY <1>2, <1>5, XorBLow, XorBFacts
<1>7. Half(g) = XorW(Half(h), Half(d))
  BY <1>1, HalfXor
<1>8. Half(h) \in Word /\ Half(d) \in Word /\ Polynomial \in Word
  BY <1>1, HalfIs, PolynomialInWord
<1> HIDE DEF d, g, x
<1>9. (g[1] + (o \div n)) % 2 = (h[1] + (x \div n)) % 2
  <2>1. x \div n \in Nat /\ o \div n \in Nat /\ c[1] \div n \in Nat /\ h[1] \in Nat /\ g[1] \in Nat
    BY <1>2, <1>3, <1>6, Quotients
  <2> DEFINE X == x \div n
             O == o \div n
             C == c[1] \div n
  <2> HIDE DEF X, O, C
  <2>2. X \in Nat /\ O \in Nat /\ C \in Nat /\ X % 2 = ((C % 2) + (O % 2)) % 2
        /\ g[1] % 2 = ((h[1] % 2) + (C % 2)) % 2
    BY <1>1, <1>4, <1>6, <2>1 DEF X, O, C, Sum2
  <2>3. (g[1] + O) % 2 = (h[1] + X) % 2
    BY <2>1, <2>2
  <2>. QED BY <2>3 DEF X, O
<1>10. XorW(XorW(Half(h), Half(d)), Polynomial) = XorW(XorW(Half(h), Polynomial), Half(d))
  BY <1>8, XorWFacts
<1>11. Shift(g, o \div n) = XorW(Shift(h, x \div n), Half(d))
  BY <1>7, <1>9, <1>10 DEF Shift
<1>. QED BY <1>1, <1>11 DEF d, g, x


LEMMA ShiftedApart ==
  ASSUME NEW c \in Word, NEW o \in Byte
  PROVE  Shifted(o, c, 8) = XorW(Shifted(XorB(c[1], o), Zero, 8), <<c[2], c[3], c[4], 0>>)
<1> DEFINE x == XorB(c[1], o)
<1>1. c[1] \in Byte /\ x \in Byte /\ Zero \in Word
  <2>1. 0 \in Byte
    BY DEF Byte
  <2>. QED BY <2>1, WordIs, WordMade, XorBFacts DEF Zero
<1>2. PICK g \in [0..8 -> Word] : /\ g[0] = c /\ Shifted(o, c, 8) = g[8]
                                  /\ \A k \in 0..7 : g[k + 1] = Shift(g[k], o \div 2^k)
  BY ShiftedIs
<1>3. PICK h \in [0..8 -> Word] : /\ h[0] = Zero /\ Shifted(x, Zero, 8) = h[8]
                                  /\ \A k \in 0..7 : h[k + 1] = Shift(h[k], x \div 2^k)
  <2> HIDE DEF x
  <2>. QED BY <1>1, ShiftedIs
<1> DEFINE At(k, n, m) == g[k] = XorW(h[k], Down(c, n, m))
<1>4. At(0, 1, 256)
  BY <1>1, <1>2, <1>3, DownEnds, XorWFacts
<1>5. ASSUME NEW k \in 0..7, NEW n, NEW m, 2^k = n, <<n, m>> \in Powers, At(k, n, 2 * m)
      PROVE  At(k + 1, 2 * n, m)
  <2>1. g[k + 1] = Shift(g[k], o \div n) /\ h[k + 1] = Shift(h[k], x \div n) /\ h[k] \in Word
    <3>1. g[k + 1] = Shift(g[k], o \div 2^k) /\ h[k + 1] = Shift(h[k], x \div 2^k)
      BY <1>2, <1>3
    <3>2. k \in 0..8
      OBVIOUS
    <3>. QED BY <1>5, <3>1, <3>2
  <2>2. Shift(XorW(h[k], Down(c, n, 2 * m)), o \div n) = XorW(Shift(h[k], x \div n), Down(c, 2 * n, m))
    BY <1>5, <2>1, OneApart
  <2>. QED BY <1>5, <2>1, <2>2
<1> HIDE DEF At
<1>6. 2^0 = 1 /\ 2^1 = 2 /\ 2^2 = 4 /\ 2^3 = 8 /\ 2^4 = 16 /\ 2^5 = 32 /\ 2^6 = 64 /\ 2^7 = 128
  OBVIOUS
<1>7. /\ <<1, 128>> \in Powers /\ <<2, 64>> \in Powers /\ <<4, 32>> \in Powers /\ <<8, 16>> \in Powers
      /\ <<16, 8>> \in Powers /\ <<32, 4>> \in Powers /\ <<64, 2>> \in Powers /\ <<128, 1>> \in Powers
  BY DEF Powers
<1>8. At(1, 2, 128) /\ At(2, 4, 64)
  BY <1>4, <1>5, <1>6, <1>7
<1>9. At(3, 8, 32) /\ At(4, 16, 16)
  BY <1>5, <1>6, <1>7, <1>8
<1>10. At(5, 32, 8) /\ At(6, 64, 4)
  BY <1>5, <1>6, <1>7, <1>9
<1>11. At(7, 128, 2) /\ At(8, 256, 1)
  BY <1>5, <1>6, <1>7, <1>10
<1>12. g[8] = XorW(h[8], <<c[2], c[3], c[4], 0>>)
  BY <1>11, DownEnds DEF At
<1>. QED BY <1>2, <1>3, <1>12

\* For every word and every octet: one access to the table does what eight
\* shifts of the register do.
THEOREM TableStep ==
  ASSUME NEW octet \in Byte, NEW crc \in Word
  PROVE  UPDC32(octet, crc) = Shifted(octet, crc, 8)
<1>1. crc[1] \in Byte /\ octet % 256 = octet /\ XorB(crc[1], octet) \in Byte
  <2>1. crc[1] \in Byte /\ XorB(crc[1], octet) \in Byte
    BY WordIs, XorBFacts
  <2>2. octet % 256 = octet
    BY DEF Byte
  <2>. QED BY <2>1, <2>2
<1>2. TableWord(crc_32_tab, XorB(crc[1], octet)) = Shifted(XorB(crc[1], octet), Zero, 8)
  BY <1>1, TableAssumption DEF Zero
<1>. QED BY <1>1, <1>2, ShiftedApart DEF UPDC32

-----------------------------------------------------------------------------
(* The program crc_32. *)

\* The halves of a seed.
Seeds == Nat \X Nat

\* The halves of the seed are numbers, and the two registers are the same word.
CrcInv == /\ seed \in Seeds
          /\ oldcrc32 \in Word /\ shifted = oldcrc32

LEMMA NextSeed ==
  ASSUME NEW s \in Seeds
  PROVE  next_seed(s) \in Seeds /\ next_seed(s)[1] \in Nat
<1>. DEFINE low == s[2] * 20077 + 12345
            high == s[1] * 20077 + s[2] * 16838 + low \div 65536
<1>1. s[1] \in Nat /\ s[2] \in Nat
  BY DEF Seeds
<1>2. low \in Nat
  BY <1>1
<1>. HIDE DEF low
<1>3. high \in Nat
  BY <1>1, <1>2
<1>. HIDE DEF high
<1>4. high % 32768 \in Nat /\ low % 65536 \in Nat
  BY <1>2, <1>3
<1>5. next_seed(s) = <<high % 32768, low % 65536>>
  BY DEF next_seed, low, high
<1>. QED BY <1>4, <1>5 DEF Seeds

\* A number is more than an octet, and both sides take its low byte.
LEMMA OctetStep ==
  ASSUME NEW n \in Nat, NEW c \in Word
  PROVE  /\ UPDC32(n, c) = Shifted(n % 256, c, 8)
         /\ UPDC32(n, c) \in Word
<1>. DEFINE o == n % 256
<1>1. o \in Byte /\ o % 256 = o
  BY DEF Byte
<1>2. UPDC32(n, c) = UPDC32(o, c)
  BY <1>1 DEF UPDC32
<1>. HIDE DEF o
<1>3. UPDC32(o, c) = Shifted(o, c, 8)
  BY <1>1, TableStep
<1>4. Shifted(o, c, 8) \in Word
  BY <1>1, ShiftedIs
<1>. QED BY <1>2, <1>3, <1>4 DEF o

LEMMA OnesInWord == Ones \in Word
<1>1. 255 \in Byte
  BY DEF Byte
<1>. QED BY <1>1, WordMade DEF Ones

LEMMA CrcInvInit == Init => CrcInv
BY OnesInWord DEF Init, CrcInit, CrcInv, Seeds

LEMMA CrcInvStep == CrcInv /\ [Next]_vars => CrcInv'
<1>. SUFFICES ASSUME CrcInv, [Next]_vars PROVE CrcInv'
  OBVIOUS
<1>1. CASE CrcCall
  <2>1. seed' = <<0, 0>>
    BY <1>1 DEF CrcCall, srand_beebs
  <2>. QED BY <1>1, <2>1, OnesInWord DEF CrcCall, CrcInv, Seeds
<1>2. CASE Octet
  <2>1. next_seed(seed) \in Seeds /\ rand_beebs \in Nat
    BY NextSeed DEF CrcInv, rand_beebs
  <2>2. oldcrc32' = UPDC32(rand_beebs, oldcrc32)
        /\ shifted' = Shifted(rand_beebs % 256, shifted, 8) /\ seed' = next_seed(seed)
    BY <1>2 DEF Octet
  <2>. QED BY <2>1, <2>2, OctetStep DEF CrcInv
<1>3. CASE CrcReturn
  BY <1>3 DEF CrcReturn, CrcInv
<1>4. CASE UNCHANGED crcVars
  BY <1>4 DEF crcVars, CrcInv
<1>5. CrcCall \/ Octet \/ CrcReturn \/ UNCHANGED crcVars
  BY DEF Next, Crc, CrcMain, CrcNext, NettleAes, Aes, Fib, HeapClient, Startup, Wait,
         vars, crcVars
<1>. QED BY <1>1, <1>2, <1>3, <1>4, <1>5

\* For every number of octets: the checksum that crc32pseudo makes with its
\* table is the register that is shifted bit by bit.
THEOREM ChecksumIsShifted == Spec => []CrcIsReference
<1>1. CrcInv => CrcIsReference
  BY TableAssumption DEF CrcInv, CrcIsReference
<1>. QED BY <1>1, CrcInvInit, CrcInvStep, PTL DEF Spec

-----------------------------------------------------------------------------
(* The checksum to its end. *)

\* One octet more leaves a seed and a word.
LEMMA OctetInRegisters ==
  ASSUME NEW x \in Registers
  PROVE  AfterOctet(x) \in Registers
<1> DEFINE s == next_seed(x.seed)
<1>1. x.seed \in Seeds /\ x.crc \in Word
  BY DEF Registers, Seeds
<1>2. s \in Seeds /\ s[1] \in Nat
  BY <1>1, NextSeed
<1>3. AfterOctet(x) = [seed |-> s, crc |-> Shifted(s[1] % 256, x.crc, 8)]
  BY DEF AfterOctet
<1> HIDE DEF s
<1>4. s[1] % 256 \in Byte
  BY <1>2 DEF Byte
<1>5. Shifted(s[1] % 256, x.crc, 8) \in Word
  BY <1>1, <1>4, ShiftedIs
<1>. QED BY <1>2, <1>3, <1>5 DEF Registers, Seeds

\* The registers after each of the octets up to n.
Stream(g, x, n) == /\ g \in [0..n -> Registers] /\ g[0] = x
                   /\ \A k \in 1..n : g[k] = AfterOctet(g[k - 1])

\* They exist, and the reference is the last of them.
LEMMA OctetsAre ==
  ASSUME NEW x \in Registers, NEW n \in Nat
  PROVE  \E g : Stream(g, x, n) /\ AfterOctets(x, n) = g[n]
<1> DEFINE Body(g, k) == IF k = 0 THEN x ELSE AfterOctet(g[k - 1])
           F == [p \in (1..n) \X Registers |-> AfterOctet(p[2])]
           after == CHOOSE g : g = [k \in 0..n |-> Body(g, k)]
<1>1. F \in [(1..n) \X Registers -> Registers]
  BY OctetInRegisters
<1>2. PICK h \in [0..n -> Registers] : Follows(h, n, x, F)
  <2> HIDE DEF F
  <2>. QED BY <1>1, Recursion
<1>3. h = [k \in 0..n |-> Body(h, k)]
  <2>1. ASSUME NEW k \in 0..n PROVE h[k] = Body(h, k)
    <3>1. CASE k = 0
      BY <1>2, <3>1 DEF Follows
    <3>2. CASE k # 0
      <4>1. <<k, h[k - 1]>> \in (1..n) \X Registers
        BY <3>2
      <4>. QED BY <1>2, <3>2, <4>1 DEF Follows
    <3>. QED BY <3>1, <3>2
  <2>. QED BY <1>2, <2>1
<1>4. after = [k \in 0..n |-> Body(after, k)]
  BY <1>3
<1>5. AfterOctets(x, n) = after[n]
  BY DEF AfterOctets
<1> HIDE DEF after
<1>6. after[0] = x
  BY <1>4
<1>7. ASSUME NEW k \in 1..n PROVE after[k] = AfterOctet(after[k - 1])
  BY <1>4
<1>8. ASSUME NEW k \in 1..n, after[k - 1] \in Registers PROVE after[k] \in Registers
  BY <1>7, <1>8, OctetInRegisters
<1>9. \A k \in 0..n : after[k] \in Registers
  BY <1>6, <1>8, AllIn
<1>10. after = [k \in 0..n |-> after[k]]
  BY <1>4
<1>11. after \in [0..n -> Registers]
  BY <1>9, <1>10
<1>. QED BY <1>5, <1>6, <1>7, <1>11 DEF Stream

\* No octet changes nothing; n octets leave a seed and a word.
LEMMA OctetsBegin ==
  ASSUME NEW x \in Registers
  PROVE  AfterOctets(x, 0) = x
<1>1. 0 \in Nat
  OBVIOUS
<1>. QED BY <1>1, OctetsAre DEF Stream

LEMMA OctetsInRegisters ==
  ASSUME NEW x \in Registers, NEW n \in Nat
  PROVE  AfterOctets(x, n) \in Registers
BY OctetsAre DEF Stream

\* The register after n + 1 octets is that after n, and one more.
LEMMA OctetsGoOn ==
  ASSUME NEW x \in Registers, NEW n \in Nat
  PROVE  AfterOctets(x, n + 1) = AfterOctet(AfterOctets(x, n))
<1>1. PICK g : Stream(g, x, n) /\ AfterOctets(x, n) = g[n]
  BY OctetsAre
<1>2. PICK h : Stream(h, x, n + 1) /\ AfterOctets(x, n + 1) = h[n + 1]
  BY OctetsAre
<1> DEFINE same == [k \in 0..n |-> IF g[k] = h[k] THEN 1 ELSE 0]
           One == {1}
<1>3. same[0] \in One
  BY <1>1, <1>2 DEF Stream
<1>4. ASSUME NEW k \in 1..n, same[k - 1] \in One PROVE same[k] \in One
  <2>1. g[k - 1] = h[k - 1] /\ k \in 0..n /\ k \in 1..n + 1
    BY <1>4
  <2>2. g[k] = AfterOctet(g[k - 1]) /\ h[k] = AfterOctet(h[k - 1])
    BY <1>1, <1>2, <2>1 DEF Stream
  <2>. QED BY <2>1, <2>2
<1> HIDE DEF same, One
<1>5. \A k \in 0..n : same[k] \in One
  BY <1>3, <1>4, AllIn
<1>6. g[n] = h[n]
  BY <1>5 DEF same, One
<1>7. n + 1 \in 1..n + 1 /\ (n + 1) - 1 = n
  OBVIOUS
<1>8. h[n + 1] = AfterOctet(h[n])
  BY <1>2, <1>7 DEF Stream
<1>. QED BY <1>1, <1>2, <1>6, <1>8

\* The registers that crc32pseudo starts with.
FirstRegisters == [seed |-> srand_beebs(0), crc |-> Ones]

\* They are a seed and a word.
LEMMA FirstInRegisters == FirstRegisters \in Registers
<1>1. srand_beebs(0) = <<0, 0>>
  BY DEF srand_beebs
<1>. QED BY <1>1, OnesInWord DEF FirstRegisters, Registers

\* The reference goes on line by line.
LEMMA LinesAre ==
  /\ \A n \in 0..32 : AfterLines[n] \in Registers
  /\ AfterLines[0] = FirstRegisters
  /\ \A n \in 1..32 : AfterLines[n] = AfterOctets(AfterLines[n - 1], 32)
<1> DEFINE Body(g, n) == IF n = 0 THEN [seed |-> srand_beebs(0), crc |-> Ones] ELSE After32[g[n - 1]]
           F == [p \in (1..32) \X Registers |-> After32[p[2]]]
<1>1. \A x \in Registers : After32[x] = AfterOctets(x, 32) /\ After32[x] \in Registers
  BY OctetsInRegisters DEF After32
<1>2. F \in [(1..32) \X Registers -> Registers]
  BY <1>1
<1>3. PICK h \in [0..32 -> Registers] : Follows(h, 32, FirstRegisters, F)
  <2> HIDE DEF F
  <2>. QED BY <1>2, FirstInRegisters, Recursion
<1>4. h = [n \in 0..32 |-> Body(h, n)]
  <2>1. ASSUME NEW n \in 0..32 PROVE h[n] = Body(h, n)
    <3>1. CASE n = 0
      BY <1>3, <3>1 DEF Follows, FirstRegisters
    <3>2. CASE n # 0
      <4>1. <<n, h[n - 1]>> \in (1..32) \X Registers
        BY <3>2
      <4>. QED BY <1>3, <3>2, <4>1 DEF Follows
    <3>. QED BY <3>1, <3>2
  <2>. QED BY <1>3, <2>1
<1>5. AfterLines = [n \in 0..32 |-> Body(AfterLines, n)]
  BY <1>4 DEF AfterLines
<1>6. AfterLines[0] = FirstRegisters
  BY <1>5 DEF FirstRegisters
<1>7. ASSUME NEW n \in 1..32 PROVE AfterLines[n] = After32[AfterLines[n - 1]]
  BY <1>5
<1>8. ASSUME NEW n \in 1..32, AfterLines[n - 1] \in Registers PROVE AfterLines[n] \in Registers
  BY <1>1, <1>7, <1>8
<1>9. \A n \in 0..32 : AfterLines[n] \in Registers
  BY <1>6, <1>8, FirstInRegisters, AllIn
<1>10. ASSUME NEW n \in 1..32 PROVE AfterLines[n] = AfterOctets(AfterLines[n - 1], 32)
  BY <1>1, <1>7, <1>9
<1>. QED BY <1>6, <1>9, <1>10

\* A number, from its quotient and its remainder.
LEMMA Divided ==
  ASSUME NEW n \in Nat
  PROVE  n = 32 * (n \div 32) + (n % 32)
OBVIOUS

\* The registers after n octets: whole lines of 32, and the rest.
Position(n) == AfterOctets(AfterLines[n \div 32], n % 32)

\* They are those that crc32pseudo begins with,
LEMMA PositionBegins == Position(0) = FirstRegisters
<1>1. 0 \div 32 = 0 /\ 0 % 32 = 0
  OBVIOUS
<1>. QED BY <1>1, LinesAre, FirstInRegisters, OctetsBegin DEF Position

\* then one octet further each time, also from one line to the next,
LEMMA PositionGoesOn ==
  ASSUME NEW n \in Nat, n < 1024
  PROVE  Position(n + 1) = AfterOctet(Position(n))
<1>1. PICK q \in 0..31 : \E m \in 0..31 : n = 32 * q + m
  <2>1. n \div 32 \in 0..31
    OBVIOUS
  <2>2. n % 32 \in 0..31
    OBVIOUS
  <2>3. n = 32 * (n \div 32) + (n % 32)
    BY Divided
  <2>. QED BY <2>1, <2>2, <2>3
<1>0. PICK m \in 0..31 : n = 32 * q + m
  BY <1>1
<1>2. n \div 32 = q /\ n % 32 = m
  BY <1>0
<1>3. AfterLines[q] \in Registers
  BY LinesAre
<1>4. AfterOctets(AfterLines[q], m + 1) = AfterOctet(Position(n))
  BY <1>2, <1>3, OctetsGoOn DEF Position
<1>5. CASE m < 31
  <2>1. (n + 1) \div 32 = q /\ (n + 1) % 32 = m + 1
    BY <1>0, <1>5
  <2>. QED BY <1>4, <2>1 DEF Position
<1>6. CASE m = 31
  <2>1. (n + 1) \div 32 = q + 1 /\ (n + 1) % 32 = 0 /\ m + 1 = 32 /\ q + 1 \in 1..32 /\ (q + 1) - 1 = q
    BY <1>0, <1>6
  <2>2. AfterLines[q + 1] = AfterOctets(AfterLines[q], 32)
    BY <2>1, LinesAre
  <2>3. AfterLines[q + 1] \in Registers
    BY <2>1, LinesAre
  <2>. QED BY <1>4, <2>1, <2>2, <2>3, OctetsBegin DEF Position
<1>. QED BY <1>5, <1>6

\* and in the end the ones that ChecksumAssumption tells of.
LEMMA PositionEnds == Position(1024) = AfterLines[32]
<1>1. 1024 \div 32 = 32 /\ 1024 % 32 = 0
  OBVIOUS
<1>. QED BY <1>1, LinesAre, OctetsBegin DEF Position

\* While crc32pseudo runs, its seed and its register are those of the reference.
CrcRun == crcAt = "loop" => /\ octets \in Nat /\ octets <= 1024
                            /\ [seed |-> seed, crc |-> shifted] = Position(octets)

\* Nothing runs in the beginning.
LEMMA CrcRunInit == Init => CrcRun
BY DEF Init, CrcInit, CrcRun

\* Each pass of the loop is one octet of the reference.
LEMMA CrcRunStep == CrcInv /\ CrcRun /\ [Next]_vars => CrcRun'
<1> SUFFICES ASSUME CrcInv, CrcRun, [Next]_vars PROVE CrcRun'
  OBVIOUS
<1>1. CASE CrcCall
  <2>1. octets' = 0 /\ seed' = srand_beebs(0) /\ shifted' = Ones
    BY <1>1 DEF CrcCall
  <2>. QED BY <2>1, PositionBegins DEF CrcRun, FirstRegisters
<1>2. CASE Octet
  <2>1. /\ octets \in Nat /\ octets < 1024 /\ octets' = octets + 1
        /\ [seed |-> seed, crc |-> shifted] = Position(octets)
        /\ seed' = next_seed(seed) /\ shifted' = Shifted(next_seed(seed)[1] % 256, shifted, 8)
    BY <1>2 DEF Octet, CrcRun, rand_beebs
  <2>2. Position(octets + 1) = AfterOctet([seed |-> seed, crc |-> shifted])
    BY <2>1, PositionGoesOn
  <2>3. AfterOctet([seed |-> seed, crc |-> shifted]) = [seed |-> seed', crc |-> shifted']
    BY <2>1 DEF AfterOctet
  <2>. QED BY <2>1, <2>2, <2>3 DEF CrcRun
<1>3. CASE CrcReturn
  BY <1>3 DEF CrcReturn, CrcRun
<1>4. CASE UNCHANGED crcVars
  BY <1>4 DEF crcVars, CrcRun
<1>5. CrcCall \/ Octet \/ CrcReturn \/ UNCHANGED crcVars
  BY DEF Next, Crc, CrcMain, CrcNext, NettleAes, Aes, Fib, HeapClient, Startup, Wait,
         vars, crcVars
<1>. QED BY <1>1, <1>2, <1>3, <1>4, <1>5

\* What crc32pseudo returns is what verify_benchmark knows.
LEMMA ChecksumIsKnown == CrcInv /\ CrcRun /\ CrcReturn => CrcResult' = 11433
<1> SUFFICES ASSUME CrcInv, CrcRun, CrcReturn PROVE CrcResult' = 11433
  OBVIOUS
<1>1. /\ [seed |-> seed, crc |-> shifted] = Position(1024) /\ oldcrc32 = shifted
      /\ r' = XorW(oldcrc32, Ones)
  BY DEF CrcReturn, CrcRun, CrcInv
<1>2. AfterLines[32].crc = shifted
  <2>1. [seed |-> seed, crc |-> shifted].crc = shifted
    OBVIOUS
  <2>. QED BY <1>1, <2>1, PositionEnds
<1>3. r' = XorW(AfterLines[32].crc, Ones)
  BY <1>1, <1>2
<1>4. CrcResult' = r'[1] + 256 * (r'[2] % 128)
  BY DEF CrcResult
<1>. QED BY <1>3, <1>4, ChecksumAssumption

-----------------------------------------------------------------------------
(* main of crc_32. *)

\* benchmark makes one iteration, and the result is that of its last pass.
CrcMainInv ==
  program = "crc_32" =>
    /\ pc = "benchmark" => rpt = 1 \/ (rpt = 0 /\ (crcAt = "loop" \/ CrcResult = 11433))
    /\ pc = "verify" => result = 11433
    /\ pc = "wfi" => correct

\* Before main has begun there is nothing to show.
LEMMA CrcMainInvInit == Init => CrcMainInv
BY DEF Init, MainInit, CrcMainInv

\* What main makes of the checksum.
LEMMA CrcMainInvStep == CrcInv /\ CrcRun /\ CrcMainInv /\ [Next]_vars => CrcMainInv'
<1> SUFFICES ASSUME CrcInv, CrcRun, CrcMainInv, [Next]_vars PROVE CrcMainInv'
  OBVIOUS
<1>1. CASE program = "crc_32" /\ Crc
  <2>1. program = "crc_32" /\ program' = "crc_32"
    BY <1>1 DEF Crc
  <2>2. ASSUME NEW heat, WarmCaches(heat) PROVE CrcMainInv'
    BY <2>2 DEF WarmCaches, CrcMainInv
  <2>3. CASE Iterate /\ CrcCall
    <3>1. /\ pc' = pc /\ pc \in {"warm_caches", "benchmark"} /\ rpt > 0 /\ rpt' = rpt - 1
          /\ crcAt' = "loop"
      BY <2>3 DEF Iterate, CrcCall
    <3>2. pc = "benchmark" => rpt' = 0
      BY <2>1, <3>1 DEF CrcMainInv
    <3>. QED BY <3>1, <3>2 DEF CrcMainInv
  <2>4. CASE WarmedUp
    BY <2>4 DEF WarmedUp, Repeat, CrcMainInv
  <2>5. CASE crcAt = "idle" /\ Return(CrcResult)
    <3>1. result' = 11433 /\ pc' = "verify"
      BY <2>1, <2>5 DEF Return, CrcMainInv
    <3>. QED BY <3>1 DEF CrcMainInv
  <2>6. CASE Verify(CrcVerified(result))
    <3>1. CrcVerified(result) = TRUE
      BY <2>1, <2>6 DEF Verify, CrcVerified, CrcMainInv
    <3>2. pc' = "wfi" /\ correct' = TRUE
      BY <2>6, <3>1 DEF Verify
    <3>. QED BY <3>2 DEF CrcMainInv
  <2>7. CASE Octet /\ UNCHANGED mainVars
    BY <2>1, <2>7 DEF Octet, mainVars, CrcMainInv, CrcResult
  <2>8. CASE CrcReturn /\ UNCHANGED mainVars
    <3>1. CrcResult' = 11433
      BY <2>8, ChecksumIsKnown
    <3>. QED BY <2>1, <2>8, <3>1 DEF mainVars, CrcMainInv
  <2>. QED BY <1>1, <2>2, <2>3, <2>4, <2>5, <2>6, <2>7, <2>8 DEF Crc, CrcMain, CrcNext
<1>2. CASE program # "crc_32" /\ program' = program
  BY <1>2 DEF CrcMainInv
<1>3. CASE UNCHANGED vars
  BY <1>3 DEF vars, mainVars, crcVars, CrcMainInv, CrcResult
<1>4. \/ program = "crc_32" /\ Crc
      \/ program # "crc_32" /\ program' = program
      \/ UNCHANGED vars
  BY DEF Next, Crc, NettleAes, Aes, Fib, HeapClient, Startup, Wait
<1>. QED BY <1>1, <1>2, <1>3, <1>4

-----------------------------------------------------------------------------
(* The startup code. *)

\* What is cleared ends where the next store begins, and no store begins
\* above the end of the section.
CrtInv ==
  /\ bss_end \in Nat /\ bss_start <= bss_end
  /\ crtAt \in {"_start", "zero_loop", "main_entry"}
  /\ crtAt = "_start" => zeroed = {}
  /\ crtAt # "_start" =>
       /\ x26 \in Nat /\ x26 % 4 = 0 /\ bss_start <= x26
       /\ zeroed = bss_start..x26 - 1
       /\ x26 <= bss_end + 4 /\ (bss_start = bss_end => x26 = bss_start)
  /\ crtAt = "zero_loop" => x26 <= bss_end /\ bss_start < bss_end
  /\ crtAt = "main_entry" => bss_end <= x26

LEMMA CrtInvInit == Init => CrtInv
<1>. SUFFICES ASSUME Init PROVE CrtInv
  OBVIOUS
<1>1. bss_end \in Nat /\ bss_start <= bss_end
  BY BssAssumption DEF Init
<1>. QED BY <1>1 DEF Init, CrtInit, CrtInv

LEMMA CrtInvStep == CrtInv /\ [Next]_vars => CrtInv'
<1>. SUFFICES ASSUME CrtInv, [Next]_vars PROVE CrtInv'
  OBVIOUS
<1>1. bss_start \in Nat /\ bss_start % 4 = 0
  BY BssAssumption
<1>2. CASE Start
  <2>1. zeroed' = bss_start..x26' - 1
    BY <1>1, <1>2 DEF Start, CrtInv
  <2>. QED BY <1>1, <1>2, <2>1 DEF Start, CrtInv
<1>3. CASE ZeroLoop
  <2>1. /\ x26 \in Nat /\ x26 % 4 = 0 /\ bss_start <= x26 /\ x26 <= bss_end
        /\ bss_start < bss_end /\ zeroed = bss_start..x26 - 1 /\ bss_end \in Nat
        /\ x26' = x26 + 4 /\ zeroed' = zeroed \cup (x26..x26 + 3) /\ bss_end' = bss_end
        /\ crtAt' = IF x26' <= bss_end THEN "zero_loop" ELSE "main_entry"
    BY <1>3 DEF ZeroLoop, CrtInv
  <2>2. zeroed' = bss_start..x26' - 1
    BY <1>1, <2>1
  <2>3. x26' % 4 = 0
    BY <2>1
  <2>. QED BY <1>1, <2>1, <2>2, <2>3 DEF CrtInv
<1>4. CASE UNCHANGED crtVars
  BY <1>4 DEF crtVars, CrtInv
<1>5. Start \/ ZeroLoop \/ UNCHANGED crtVars
  BY DEF Next, Crc, CrtNext, NettleAes, Aes, Fib, HeapClient, Startup, Wait,
         vars, crtVars
<1>. QED BY <1>2, <1>3, <1>4, <1>5

\* Where main is entered, the stores have covered the section.
LEMMA BssCleared == CrtInv /\ crtAt = "main_entry" => BssIsClear
<1>. SUFFICES ASSUME CrtInv, crtAt = "main_entry" PROVE BssIsClear
  OBVIOUS
<1>1. bss_start \in Nat /\ bss_start % 4 = 0
  BY BssAssumption
<1>2. /\ x26 \in Nat /\ x26 % 4 = 0 /\ bss_end \in Nat /\ zeroed = bss_start..x26 - 1
      /\ bss_end <= x26 /\ x26 <= bss_end + 4
      /\ (bss_start = bss_end => x26 = bss_start)
  BY DEF CrtInv
<1>3. x26 - 1 <= bss_end + 3 - (bss_end % 4)
  BY <1>2
<1>4. bss_start..bss_end - 1 \subseteq zeroed
  BY <1>1, <1>2
<1>5. zeroed \subseteq bss_start..(bss_end + 3 - (bss_end % 4))
  BY <1>1, <1>2, <1>3
<1>6. bss_end = bss_start => zeroed = {}
  BY <1>1, <1>2
<1>. QED BY <1>4, <1>5, <1>6 DEF BssIsClear

\* For every end of the section: when main is entered, all of BSS is cleared,
\* and of what follows it at most the rest of a word or one word (crt0.S).
\* This is what ProgramsSucceed says of the startup code.
THEOREM MainFindsBssClear == Spec => [](crtAt = "main_entry" => BssIsClear)
BY BssCleared, CrtInvInit, CrtInvStep, PTL DEF Spec

-----------------------------------------------------------------------------
(* The program fib. *)

\* The Fibonacci numbers below 2^32.
Fibs == <<0, 1, 1, 2, 3, 5, 8, 13,
          21, 34, 55, 89, 144, 233, 377, 610,
          987, 1597, 2584, 4181, 6765, 10946, 17711, 28657,
          46368, 75025, 121393, 196418, 317811, 514229, 832040, 1346269,
          2178309, 3524578, 5702887, 9227465, 14930352, 24157817, 39088169, 63245986,
          102334155, 165580141, 267914296, 433494437, 701408733, 1134903170, 1836311903, 2971215073>>

\* Each is the sum of the two before it.
LEMMA FibsAdd ==
  ASSUME NEW i \in 1..46
  PROVE  Fibs[i] + Fibs[i + 1] = Fibs[i + 2] /\ Fibs[i + 2] < 65536 * 65536
BY SMTT(60) DEF Fibs

\* A word as the pair of its halves, and the number that it is.
IsHalf(n) == n \in Nat /\ n < 65536
Pairs == {p \in Nat \X Nat : IsHalf(p[1]) /\ IsHalf(p[2])}
NumberOf(p) == 65536 * p[1] + p[2]

\* Adding halves with a carry is adding, as long as nothing wraps.
LEMMA Carry ==
  ASSUME NEW a1, NEW a2, NEW b1, NEW b2, IsHalf(a1), IsHalf(a2), IsHalf(b1), IsHalf(b2),
         65536 * a1 + a2 + 65536 * b1 + b2 < 65536 * 65536,
         NEW low, low = a2 + b2, NEW carry, carry = low \div 65536,
         NEW rest, rest = low % 65536, NEW high, high = (a1 + b1 + carry) % 65536
  PROVE  /\ IsHalf(high) /\ IsHalf(rest)
         /\ 65536 * high + rest = 65536 * a1 + a2 + 65536 * b1 + b2
<1>1. /\ a1 \in Nat /\ a2 \in Nat /\ b1 \in Nat /\ b2 \in Nat
      /\ a1 < 65536 /\ a2 < 65536 /\ b1 < 65536 /\ b2 < 65536
  BY DEF IsHalf
<1>2. low \in Nat
  BY <1>1
<1>3. carry \in Nat /\ rest \in Nat /\ rest < 65536 /\ low = 65536 * carry + rest
  BY <1>2
<1>4. 65536 * (a1 + b1 + carry) + rest < 65536 * 65536
  BY <1>1, <1>3
<1>5. a1 + b1 + carry \in Nat /\ a1 + b1 + carry < 65536
  BY <1>1, <1>3, <1>4
<1>6. high = a1 + b1 + carry
  BY <1>5
<1>. QED BY <1>1, <1>3, <1>5, <1>6 DEF IsHalf

\* So it is for the sum of the program.
LEMMA SumIs ==
  ASSUME NEW p \in Pairs, NEW q \in Pairs, NumberOf(p) + NumberOf(q) < 65536 * 65536
  PROVE  Sum(p, q) \in Pairs /\ NumberOf(Sum(p, q)) = NumberOf(p) + NumberOf(q)
<1>1. IsHalf(p[1]) /\ IsHalf(p[2]) /\ IsHalf(q[1]) /\ IsHalf(q[2])
  BY DEF Pairs
<1> DEFINE low == p[2] + q[2]
           carry == low \div 65536
           high == (p[1] + q[1] + carry) % 65536
           rest == low % 65536
<1>2. 65536 * p[1] + p[2] + 65536 * q[1] + q[2] < 65536 * 65536
  BY <1>1 DEF NumberOf, IsHalf
<1>3. Sum(p, q) = <<high, rest>>
  BY DEF Sum
<1>4. /\ low = p[2] + q[2] /\ carry = low \div 65536
      /\ high = (p[1] + q[1] + carry) % 65536 /\ rest = low % 65536
  OBVIOUS
<1> HIDE DEF low, carry, high, rest
<1>5. /\ IsHalf(high) /\ IsHalf(rest)
      /\ 65536 * high + rest = 65536 * p[1] + p[2] + 65536 * q[1] + q[2]
  <2>1. /\ p[1] \in Nat /\ p[2] \in Nat /\ q[1] \in Nat /\ q[2] \in Nat
        /\ low \in Nat /\ carry \in Nat /\ high \in Nat
    BY <1>1, <1>4 DEF IsHalf
  <2>. QED BY <1>1, <1>2, <1>4, <2>1, Carry
<1>. QED BY <1>1, <1>3, <1>5 DEF Pairs, NumberOf, IsHalf

\* The numbers that the program has are the Fibonacci numbers of its counter.
FibInv == /\ number = [a |-> number.a, b |-> number.b, y |-> number.y, next |-> number.next]
          /\ number.next \in 1..47 /\ number.a \in Pairs /\ number.b \in Pairs
          /\ NumberOf(number.a) = Fibs[number.next]
          /\ NumberOf(number.b) = Fibs[number.next + 1]
          /\ number.next # 1 => number.y = number.b

\* The first two are 0 and 1.
LEMMA FibInvInit == Init => FibInv
<1>1. Fibs[1] = 0 /\ Fibs[1 + 1] = 1
  BY DEF Fibs
<1>2. NumberOf(<<0, 0>>) = 0 /\ NumberOf(<<0, 1>>) = 1 /\ <<0, 0>> \in Pairs /\ <<0, 1>> \in Pairs
  BY DEF NumberOf, Pairs, IsHalf
<1>. QED BY <1>1, <1>2 DEF Init, FibInit, FibInv

\* Each pass of the loop makes the next one.
LEMMA FibInvStep == FibInv /\ [Next]_vars => FibInv'
<1> SUFFICES ASSUME FibInv, [Next]_vars PROVE FibInv'
  OBVIOUS
<1>1. CASE FibStep
  <2> DEFINE i == number.next
             y == Sum(number.a, number.b)
  <2>1. i \in 1..46 /\ number.a \in Pairs /\ number.b \in Pairs
        /\ NumberOf(number.a) = Fibs[i] /\ NumberOf(number.b) = Fibs[i + 1]
    BY <1>1 DEF FibStep, FibInv
  <2>2. Fibs[i] + Fibs[i + 1] = Fibs[i + 2] /\ Fibs[i + 2] < 65536 * 65536
    <3> HIDE DEF i
    <3>. QED BY <2>1, FibsAdd
  <2>3. y \in Pairs /\ NumberOf(y) = Fibs[i + 2]
    BY <2>1, <2>2, SumIs
  <2>4. number' = [a |-> number.b, b |-> y, y |-> y, next |-> i + 1]
    BY <1>1 DEF FibStep
  <2> HIDE DEF y
  <2>5. i + 1 \in 1..47 /\ (i + 1) + 1 = i + 2
    BY <2>1
  <2>. QED BY <2>1, <2>3, <2>4, <2>5 DEF FibInv
<1>2. CASE UNCHANGED number
  BY <1>2 DEF FibInv
<1>3. FibStep \/ UNCHANGED number
  BY DEF Next, Crc, NettleAes, Aes, Fib, HeapClient, Startup, Wait, vars
<1>. QED BY <1>1, <1>2, <1>3

\* Where the loop ends, y is the largest Fibonacci number of 32 bits.
LEMMA FibEndsWell == FibInv /\ FibEnds => number.y = F47
<1> SUFFICES ASSUME FibInv, FibEnds PROVE number.y = F47
  OBVIOUS
<1>1. number.y = number.b /\ number.b \in Pairs /\ NumberOf(number.b) = Fibs[47 + 1]
  BY DEF FibInv, FibEnds
<1>2. Fibs[48] = 2971215073
  BY DEF Fibs
<1>3. ASSUME NEW h, NEW l, IsHalf(h), IsHalf(l), 65536 * h + l = 2971215073
      PROVE  h = 45337 /\ l = 9441
  BY <1>3 DEF IsHalf
<1>4. number.b = <<45337, 9441>>
  BY <1>1, <1>2, <1>3 DEF Pairs, NumberOf
<1>5. \hb119 = 45337 /\ \h24e1 = 9441
  OBVIOUS
<1>. QED BY <1>1, <1>4, <1>5 DEF F47

-----------------------------------------------------------------------------
(* AES: the field of FIPS 197. *)

\* A product, bit by bit: what Times does in one of its eight steps.
TimesStep(n, a, i, m) ==
  IF (n \div 2^(8 - i)) % 2 = 1 THEN Plus(Times2(m), a) ELSE Times2(m)

\* A double is a byte.
LEMMA Times2Facts ==
  ASSUME NEW a \in Byte
  PROVE  Times2(a) \in Byte /\ Times2(0) = 0
<1>1. 27 \in Byte /\ (2 * a) % 256 \in Byte /\ (a < 128 => 2 * a \in Byte) /\ 0 \in Byte
  BY DEF Byte
<1>2. Plus((2 * a) % 256, 27) \in Byte
  BY <1>1, XorBFacts DEF Plus
<1>. QED BY <1>1, <1>2 DEF Times2

\* The eight steps of a product, one after the other.
LEMMA TimesIs ==
  ASSUME NEW n \in Nat, NEW a \in Byte
  PROVE  \E g \in [0..8 -> Byte] : /\ g[0] = 0 /\ Times(n, a) = g[8]
                                   /\ \A i \in 1..8 : g[i] = TimesStep(n, a, i, g[i - 1])
<1> DEFINE Body(g, i) == IF i = 0 THEN 0
                         ELSE LET twice == Times2(g[i - 1])
                              IN IF (n \div 2^(8 - i)) % 2 = 1 THEN Plus(twice, a) ELSE twice
           F == [p \in (1..8) \X Byte |-> TimesStep(n, a, p[1], p[2])]
           multiple == CHOOSE g : g = [i \in 0..8 |-> Body(g, i)]
<1>0. 0 \in Byte
  BY DEF Byte
<1>1. F \in [(1..8) \X Byte -> Byte]
  <2>1. \A m \in Byte : Times2(m) \in Byte /\ Plus(Times2(m), a) \in Byte
    BY Times2Facts, XorBFacts DEF Plus
  <2>. QED BY <2>1 DEF TimesStep
<1>2. PICK h \in [0..8 -> Byte] : Follows(h, 8, 0, F)
  <2> HIDE DEF F
  <2>. QED BY <1>0, <1>1, Recursion
<1>3. h = [i \in 0..8 |-> Body(h, i)]
  <2>1. ASSUME NEW i \in 0..8 PROVE h[i] = Body(h, i)
    <3>1. CASE i = 0
      BY <1>2, <3>1 DEF Follows
    <3>2. CASE i # 0
      <4>1. <<i, h[i - 1]>> \in (1..8) \X Byte
        BY <3>2
      <4>. QED BY <1>2, <3>2, <4>1 DEF Follows, TimesStep
    <3>. QED BY <3>1, <3>2
  <2>. QED BY <1>2, <2>1
<1>4. multiple = [i \in 0..8 |-> Body(multiple, i)]
  BY <1>3
<1>5. Times(n, a) = multiple[8]
  BY DEF Times
<1> HIDE DEF multiple
<1>6. multiple[0] = 0
  BY <1>4
<1>7. ASSUME NEW i \in 1..8 PROVE multiple[i] = TimesStep(n, a, i, multiple[i - 1])
  <2>1. i \in 0..8 /\ i # 0
    OBVIOUS
  <2>2. multiple[i] = Body(multiple, i)
    BY <1>4, <2>1
  <2>. QED BY <2>1, <2>2 DEF TimesStep
<1>8. ASSUME NEW i \in 1..8, multiple[i - 1] \in Byte PROVE multiple[i] \in Byte
  <2>1. TimesStep(n, a, i, multiple[i - 1]) \in Byte
    BY <1>8, Times2Facts, XorBFacts DEF TimesStep, Plus
  <2>. QED BY <1>7, <2>1
<1>9. \A i \in 0..8 : multiple[i] \in Byte
  BY <1>0, <1>6, <1>8, AllIn
<1>10. multiple = [i \in 0..8 |-> multiple[i]]
  BY <1>4
<1>11. multiple \in [0..8 -> Byte]
  BY <1>9, <1>10
<1>. QED BY <1>5, <1>6, <1>7, <1>11

\* What two products have in common, step by step, they have in common.
LEMMA TimesFacts ==
  ASSUME NEW n \in Nat, NEW a \in Byte
  PROVE  Times(n, a) \in Byte /\ Times(n, 0) = 0
<1>1. Times(n, a) \in Byte
  BY TimesIs
<1>0. 0 \in Byte
  BY DEF Byte
<1>2. PICK g \in [0..8 -> Byte] : /\ g[0] = 0 /\ Times(n, 0) = g[8]
                                  /\ \A i \in 1..8 : g[i] = TimesStep(n, 0, i, g[i - 1])
  BY <1>0, TimesIs
<1>3. ASSUME NEW i \in 1..8, g[i - 1] \in {0} PROVE g[i] \in {0}
  <2>1. Plus(Times2(0), 0) = 0 /\ Times2(0) = 0
    BY <1>0, Times2Facts, XorBFacts DEF Plus
  <2>2. TimesStep(n, 0, i, 0) = 0
    BY <2>1 DEF TimesStep
  <2>. QED BY <1>2, <1>3, <2>2
<1>4. \A i \in 0..8 : g[i] \in {0}
  BY <1>2, <1>3, AllIn
<1>. QED BY <1>1, <1>2, <1>4

-----------------------------------------------------------------------------
(* AES: the matrix of MixColumns, one byte at a time. *)

\* A polynomial whose coefficients are numbers, and what the byte x at
\* position k of a column contributes to the byte r of its product with m.
Coefficients(m) == m[1] \in Nat /\ m[2] \in Nat /\ m[3] \in Nat /\ m[4] \in Nat

\* What the entry behind place k of a column contributes to its product at i.
Term(m, i, k, x) == Times(m[((k - i + 4) % 4) + 1], x)

\* The entries of the two polynomials are numbers.
LEMMA MixingCoefficients == Coefficients(Mixing) /\ Coefficients(Unmixing)
BY DEF Coefficients, Mixing, Unmixing

\* A term is a byte, and none without a byte.
LEMMA TermFacts ==
  ASSUME NEW m, Coefficients(m), NEW i \in 1..4, NEW k \in 1..4, NEW x \in Byte
  PROVE  Term(m, i, k, x) \in Byte /\ Term(m, i, k, 0) = 0
<1>1. ((k - i + 4) % 4) + 1 \in {1, 2, 3, 4}
  OBVIOUS
<1>2. m[((k - i + 4) % 4) + 1] \in Nat
  BY <1>1 DEF Coefficients
<1>. QED BY <1>2, TimesFacts DEF Term

\* The byte of a mixed column: four terms.
LEMMA MixColumnIs ==
  ASSUME NEW m, NEW col, NEW i \in 1..4
  PROVE  MixColumn(m, col)[i] = XorB(XorB(Term(m, i, 1, col[1]), Term(m, i, 2, col[2])),
                                     XorB(Term(m, i, 3, col[3]), Term(m, i, 4, col[4])))
BY DEF MixColumn, Term, Plus

\* A mixed column is a word.
LEMMA MixColumnInWord ==
  ASSUME NEW m, Coefficients(m), NEW col \in Word
  PROVE  MixColumn(m, col) \in Word
<1>1. ASSUME NEW i \in 1..4 PROVE MixColumn(m, col)[i] \in Byte
  <2>1. \A k \in 1..4 : Term(m, i, k, col[k]) \in Byte
    BY TermFacts DEF Word
  <2>. QED BY <2>1, MixColumnIs, XorBFacts
<1>2. MixColumn(m, col) = [i \in 1..4 |-> MixColumn(m, col)[i]]
  BY DEF MixColumn
<1>. QED BY <1>1, <1>2 DEF Word

\* A column that has one byte.
LEMMA OnlyIs ==
  ASSUME NEW x \in Byte, NEW j \in 1..4
  PROVE  Only(j, x) \in Word /\ \A k \in 1..4 : Only(j, x)[k] = IF k = j THEN x ELSE 0
BY DEF Only, Word, Byte

\* Of such a column one term is left.
LEMMA MixOnly ==
  ASSUME NEW m, Coefficients(m), NEW x \in Byte, NEW j \in 1..4, NEW i \in 1..4
  PROVE  MixColumn(m, Only(j, x))[i] = Term(m, i, j, x)
<1>1. \A k \in 1..4 : Term(m, i, k, 0) = 0 /\ Term(m, i, k, x) \in Byte
  BY TermFacts
<1>2. MixColumn(m, Only(j, x))[i]
        = XorB(XorB(Term(m, i, 1, Only(j, x)[1]), Term(m, i, 2, Only(j, x)[2])),
               XorB(Term(m, i, 3, Only(j, x)[3]), Term(m, i, 4, Only(j, x)[4])))
  BY MixColumnIs
<1>3. \A y \in Byte : XorB(y, 0) = y /\ XorB(0, y) = y
  BY XorBFacts
<1>4. 0 \in Byte /\ XorB(0, 0) = 0
  BY <1>3 DEF Byte
<1>5. CASE j = 1
  BY <1>1, <1>2, <1>3, <1>4, <1>5, OnlyIs
<1>6. CASE j = 2
  BY <1>1, <1>2, <1>3, <1>4, <1>6, OnlyIs
<1>7. CASE j = 3
  BY <1>1, <1>2, <1>3, <1>4, <1>7, OnlyIs
<1>8. CASE j = 4
  BY <1>1, <1>2, <1>3, <1>4, <1>8, OnlyIs
<1>. QED BY <1>5, <1>6, <1>7, <1>8

\* A column is mixed one byte at a time.
LEMMA MixSum ==
  ASSUME NEW m, Coefficients(m), NEW col \in Word
  PROVE  XorW(XorW(MixColumn(m, Only(1, col[1])), MixColumn(m, Only(2, col[2]))),
              XorW(MixColumn(m, Only(3, col[3])), MixColumn(m, Only(4, col[4]))))
           = MixColumn(m, col)
<1> DEFINE o1 == MixColumn(m, Only(1, col[1]))
           o2 == MixColumn(m, Only(2, col[2]))
           o3 == MixColumn(m, Only(3, col[3]))
           o4 == MixColumn(m, Only(4, col[4]))
           s == XorW(XorW(o1, o2), XorW(o3, o4))
<1>1. \A i \in 1..4 : /\ o1[i] = Term(m, i, 1, col[1]) /\ o2[i] = Term(m, i, 2, col[2])
                      /\ o3[i] = Term(m, i, 3, col[3]) /\ o4[i] = Term(m, i, 4, col[4])
  BY WordIs, MixOnly
<1>2. \A i \in 1..4 : MixColumn(m, col)[i] = XorB(XorB(o1[i], o2[i]), XorB(o3[i], o4[i]))
  BY <1>1, MixColumnIs
<1>3. MixColumn(m, col) = <<MixColumn(m, col)[1], MixColumn(m, col)[2],
                            MixColumn(m, col)[3], MixColumn(m, col)[4]>>
  BY MixColumnInWord, WordIs
<1> HIDE DEF o1, o2, o3, o4
<1>4. s = MixColumn(m, col)
  BY <1>2, <1>3 DEF XorW
<1>. QED BY <1>4 DEF o1, o2, o3, o4

\* ... and so is a column that a table mixes and a rotation puts in its place.
LEMMA RotOnly ==
  ASSUME NEW m, Coefficients(m), NEW x \in Byte, NEW n \in 0..3
  PROVE  RotL(n, MixColumn(m, Only(1, x))) = MixColumn(m, Only(n + 1, x))
<1>1. ASSUME NEW i \in 1..4
      PROVE RotL(n, MixColumn(m, Only(1, x)))[i] = MixColumn(m, Only(n + 1, x))[i]
  <2>1. ((i - 1 + 4 - n) % 4) + 1 \in 1..4 /\ n + 1 \in 1..4
    OBVIOUS
  <2>2. ((1 - (((i - 1 + 4 - n) % 4) + 1) + 4) % 4) + 1 = (((n + 1) - i + 4) % 4) + 1
    OBVIOUS
  <2>3. Term(m, ((i - 1 + 4 - n) % 4) + 1, 1, x) = Term(m, i, n + 1, x)
    BY <2>2 DEF Term
  <2>. QED BY <2>1, <2>3, MixOnly DEF RotL
<1>2. RotL(n, MixColumn(m, Only(1, x))) = [i \in 1..4 |-> RotL(n, MixColumn(m, Only(1, x)))[i]]
  BY DEF RotL
<1>3. MixColumn(m, Only(n + 1, x)) = [i \in 1..4 |-> MixColumn(m, Only(n + 1, x))[i]]
  BY DEF MixColumn
<1>. QED BY <1>1, <1>2, <1>3

-----------------------------------------------------------------------------
(* AES: the tables, at every byte. *)

\* A byte and its substitute.
LEMMA ByteSub ==
  ASSUME NEW x \in Byte
  PROVE  sbox[x + 1] \in Byte /\ SBox[x + 1] = sbox[x + 1] /\ SBox[x + 1] \in Byte
BY TablesAssumption DEF TablesAreFips

\* The keys of the decryption are unmixed columns (MIX_COLUMN).
LEMMA KeyUnmixed ==
  ASSUME NEW k \in Word
  PROVE  MIX_COLUMN(k) = MixColumn(Unmixing, k)
<1>1. k[1] \in Byte /\ k[2] \in Byte /\ k[3] \in Byte /\ k[4] \in Byte
  BY WordIs
<1>2. \A x \in Byte : TableWord(mtable, x) = MixColumn(Unmixing, Only(1, x))
  BY TablesAssumption DEF TablesAreFips
<1>3. ASSUME NEW x \in Byte
      PROVE  /\ RotL(1, TableWord(mtable, x)) = MixColumn(Unmixing, Only(2, x))
             /\ RotL(2, TableWord(mtable, x)) = MixColumn(Unmixing, Only(3, x))
             /\ RotL(3, TableWord(mtable, x)) = MixColumn(Unmixing, Only(4, x))
  <2>1. \A n \in 0..3 : RotL(n, TableWord(mtable, x)) = MixColumn(Unmixing, Only(n + 1, x))
    BY <1>2, MixingCoefficients, RotOnly
  <2>. QED BY <2>1
<1>4. XorW(XorW(MixColumn(Unmixing, Only(1, k[1])), MixColumn(Unmixing, Only(2, k[2]))),
           XorW(MixColumn(Unmixing, Only(3, k[3])), MixColumn(Unmixing, Only(4, k[4]))))
        = MixColumn(Unmixing, k)
  BY MixingCoefficients, MixSum
<1>. QED BY <1>1, <1>2, <1>3, <1>4 DEF MIX_COLUMN

\* The four accesses of a round to its tables mix a column of substitutes.
LEMMA TableRound ==
  ASSUME NEW a \in Byte, NEW b \in Byte, NEW c \in Byte, NEW d \in Byte
  PROVE  XorW(XorW(TableWord(dtable0, a), TableWord(dtable1, b)),
              XorW(TableWord(dtable2, c), TableWord(dtable3, d)))
           = MixColumn(Mixing, <<SBox[a + 1], SBox[b + 1], SBox[c + 1], SBox[d + 1]>>)
<1> DEFINE col == <<SBox[a + 1], SBox[b + 1], SBox[c + 1], SBox[d + 1]>>
<1>1. /\ TableWord(dtable0, a) = MixColumn(Mixing, Only(1, col[1]))
      /\ TableWord(dtable1, b) = MixColumn(Mixing, Only(2, col[2]))
      /\ TableWord(dtable2, c) = MixColumn(Mixing, Only(3, col[3]))
      /\ TableWord(dtable3, d) = MixColumn(Mixing, Only(4, col[4]))
  BY TablesAssumption DEF TablesAreFips, EncryptTable
<1>2. col \in Word
  BY ByteSub, WordMade
<1>3. XorW(XorW(MixColumn(Mixing, Only(1, col[1])), MixColumn(Mixing, Only(2, col[2]))),
           XorW(MixColumn(Mixing, Only(3, col[3])), MixColumn(Mixing, Only(4, col[4]))))
        = MixColumn(Mixing, col)
  BY <1>2, MixingCoefficients, MixSum
<1>. QED BY <1>1, <1>3

\* The inverse tables unmix what was there before the substitution.
LEMMA TableRoundBack ==
  ASSUME NEW a \in Byte, NEW b \in Byte, NEW c \in Byte, NEW d \in Byte
  PROVE  XorW(XorW(TableWord(itable0, SBox[a + 1]), TableWord(itable1, SBox[b + 1])),
              XorW(TableWord(itable2, SBox[c + 1]), TableWord(itable3, SBox[d + 1])))
           = MixColumn(Unmixing, <<a, b, c, d>>)
<1> DEFINE col == <<a, b, c, d>>
<1>1. /\ TableWord(itable0, SBox[a + 1]) = MixColumn(Unmixing, Only(1, col[1]))
      /\ TableWord(itable1, SBox[b + 1]) = MixColumn(Unmixing, Only(2, col[2]))
      /\ TableWord(itable2, SBox[c + 1]) = MixColumn(Unmixing, Only(3, col[3]))
      /\ TableWord(itable3, SBox[d + 1]) = MixColumn(Unmixing, Only(4, col[4]))
  BY TablesAssumption DEF TablesAreFips, DecryptTable
<1>2. col \in Word
  BY WordMade
<1>3. XorW(XorW(MixColumn(Unmixing, Only(1, col[1])), MixColumn(Unmixing, Only(2, col[2]))),
           XorW(MixColumn(Unmixing, Only(3, col[3])), MixColumn(Unmixing, Only(4, col[4]))))
        = MixColumn(Unmixing, col)
  BY <1>2, MixingCoefficients, MixSum
<1>. QED BY <1>1, <1>3

-----------------------------------------------------------------------------
(* AES: blocks and their columns. *)

\* A block: sixteen bytes.
Block == [1..16 -> Byte]

\* Functions on 1..m as sequences.
LEMMA SeqOfLength ==
  ASSUME NEW m \in Nat, NEW S, NEW s \in [1..m -> S]
  PROVE  s \in Seq(S) /\ Len(s) = m
<1>1. s \in Seq(S)
  BY SeqDef
<1>2. Len(s) \in Nat /\ DOMAIN s = 1..Len(s)
  BY <1>1, LenProperties
<1>. QED BY <1>1, <1>2

\* The sequence st of length n is s, of length m, with the word t behind it.
Longer(m, n, s, t, st) == /\ st \in [1..n -> Byte]
                          /\ \A i \in 1..m : st[i] = s[i]
                          /\ \A j \in 1..4 : st[m + j] = t[j]

\* A word appended to a sequence.
LEMMA Concat4 ==
  ASSUME NEW m \in Nat, NEW n \in Nat, n = m + 4, NEW s \in [1..m -> Byte], NEW t \in Word
  PROVE  Longer(m, n, s, t, s \o t)
<1>1. Len(s) = m /\ Len(t) = 4 /\ s \in Seq(Byte) /\ t \in Seq(Byte)
  BY SeqOfLength DEF Word
<1> DEFINE st == s \o t
<1>2. st \in Seq(Byte) /\ Len(st) = Len(s) + Len(t)
      /\ \A i \in 1..Len(s) + Len(t) : st[i] = IF i <= Len(s) THEN s[i] ELSE t[i - Len(s)]
  BY <1>1, ConcatProperties
<1>. HIDE DEF st
<1>5. Len(st) = n
  BY <1>1, <1>2
<1>3. st \in [1..n -> Byte]
  BY <1>2, <1>5, LenProperties
<1>6. \A i \in 1..m : st[i] = s[i]
  BY <1>1, <1>2
<1>4. ASSUME NEW j \in 1..4 PROVE st[m + j] = t[j]
  <2>1. m + j \in 1..m + 4 /\ ~(m + j <= m) /\ (m + j) - m = j
    OBVIOUS
  <2>. QED BY <1>1, <1>2, <2>1
<1>. QED BY <1>3, <1>4, <1>6 DEF st, Longer

\* A column is four bytes of its block.
LEMMA Column ==
  ASSUME NEW s \in Block, NEW c \in 0..3
  PROVE  column(s, c) \in Word /\ \A j \in 1..4 : column(s, c)[j] = s[4 * c + j]
<1>1. \A i \in 4 * c + 1..4 * c + 4 : s[i] \in Byte
  BY DEF Block
<1>2. /\ column(s, c) \in Seq(Byte) /\ Len(column(s, c)) = 4
      /\ \A i \in 1..4 : column(s, c)[i] = s[4 * c + 1 + i - 1]
  <2>1. (4 * c + 4) - (4 * c + 1) + 1 = 4 /\ 4 * c + 1 <= 4 * c + 4
    OBVIOUS
  <2>. QED BY <1>1, <2>1, SubSeqProperties DEF column
<1>3. column(s, c) \in Word
  BY <1>2, LenProperties DEF Word
<1>4. \A j \in 1..4 : 4 * c + 1 + j - 1 = 4 * c + j
  OBVIOUS
<1>. QED BY <1>2, <1>3, <1>4

\* The block s is the columns a, b, c and d, one after the other.
Parts(s, a, b, c, d) ==
  /\ s \in Block
  /\ \A j \in 1..4 : s[j] = a[j] /\ s[4 + j] = b[j] /\ s[8 + j] = c[j] /\ s[12 + j] = d[j]

\* Four words make a block.
LEMMA JoinedIs ==
  ASSUME NEW a \in Word, NEW b \in Word, NEW c \in Word, NEW d \in Word
  PROVE  Parts(a \o b \o c \o d, a, b, c, d)
<1> DEFINE ab == a \o b
           abc == ab \o c
           abcd == abc \o d
<1>1. a \in [1..4 -> Byte]
  BY DEF Word
<1>0. /\ 4 \in Nat /\ 8 \in Nat /\ 12 \in Nat /\ 16 \in Nat
      /\ 8 = 4 + 4 /\ 12 = 8 + 4 /\ 16 = 12 + 4
  OBVIOUS
<1>2. Longer(4, 8, a, b, ab)
  BY <1>0, <1>1, Concat4
<1> HIDE DEF ab
<1>3. Longer(8, 12, ab, c, abc)
  <2>1. ab \in [1..8 -> Byte]
    BY <1>2 DEF Longer
  <2>. QED BY <1>0, <2>1, Concat4
<1> HIDE DEF abc
<1>4. Longer(12, 16, abc, d, abcd)
  <2>1. abc \in [1..12 -> Byte]
    BY <1>3 DEF Longer
  <2>. QED BY <1>0, <2>1, Concat4
<1> HIDE DEF abcd
<1>5. \A j \in 1..4 : abcd[j] = a[j] /\ abcd[4 + j] = b[j] /\ abcd[8 + j] = c[j]
  BY <1>2, <1>3, <1>4 DEF Longer
<1>6. abcd \in [1..16 -> Byte] /\ \A j \in 1..4 : abcd[12 + j] = d[j]
  BY <1>4 DEF Longer
<1>. QED BY <1>5, <1>6 DEF abcd, abc, ab, Block, Parts

\* A block is the same when its columns are.
LEMMA SameBlock ==
  ASSUME NEW s \in Block, NEW t \in Block,
         \A j \in 1..4 : s[j] = t[j] /\ s[4 + j] = t[4 + j] /\ s[8 + j] = t[8 + j]
                         /\ s[12 + j] = t[12 + j]
  PROVE  s = t
<1>1. ASSUME NEW i \in 1..16 PROVE s[i] = t[i]
  <2>1. i \in 1..4 \/ i - 4 \in 1..4 \/ i - 8 \in 1..4 \/ i - 12 \in 1..4
    OBVIOUS
  <2>2. i = 4 + (i - 4) /\ i = 8 + (i - 8) /\ i = 12 + (i - 12)
    OBVIOUS
  <2>. QED BY <2>1, <2>2
<1>. QED BY <1>1 DEF Block

\* A column, spelt out.
LEMMA ColumnIs ==
  ASSUME NEW s \in Block, NEW c \in 0..3
  PROVE  column(s, c) = <<s[4 * c + 1], s[4 * c + 2], s[4 * c + 3], s[4 * c + 4]>>
<1>1. column(s, c) \in Word /\ \A j \in 1..4 : column(s, c)[j] = s[4 * c + j]
  BY Column
<1> DEFINE v == column(s, c)
<1>2. v = <<v[1], v[2], v[3], v[4]>>
  BY <1>1, WordIs
<1>. QED BY <1>1, <1>2

\* The columns of a block.
HasColumns(s, a, b, c, d) ==
  /\ s \in Block
  /\ column(s, 0) = a /\ column(s, 1) = b /\ column(s, 2) = c /\ column(s, 3) = d

\* The columns of a block that is made of words are the words.
LEMMA ColumnJoined ==
  ASSUME NEW a \in Word, NEW b \in Word, NEW c \in Word, NEW d \in Word
  PROVE  HasColumns(a \o b \o c \o d, a, b, c, d)
<1> DEFINE s == a \o b \o c \o d
<1>1. Parts(s, a, b, c, d)
  BY JoinedIs
<1> HIDE DEF s
<1>2. s \in Block
  BY <1>1 DEF Parts
<1>3. /\ s[1] = a[1] /\ s[2] = a[2] /\ s[3] = a[3] /\ s[4] = a[4]
      /\ s[4 + 1] = b[1] /\ s[4 + 2] = b[2] /\ s[4 + 3] = b[3] /\ s[4 + 4] = b[4]
      /\ s[8 + 1] = c[1] /\ s[8 + 2] = c[2] /\ s[8 + 3] = c[3] /\ s[8 + 4] = c[4]
      /\ s[12 + 1] = d[1] /\ s[12 + 2] = d[2] /\ s[12 + 3] = d[3] /\ s[12 + 4] = d[4]
  BY <1>1 DEF Parts
<1>4. \A i \in 0..3 :
        column(s, i) = <<s[4 * i + 1], s[4 * i + 2], s[4 * i + 3], s[4 * i + 4]>>
  BY <1>2, ColumnIs
<1>5. /\ a = <<a[1], a[2], a[3], a[4]>> /\ b = <<b[1], b[2], b[3], b[4]>>
      /\ c = <<c[1], c[2], c[3], c[4]>> /\ d = <<d[1], d[2], d[3], d[4]>>
  BY WordIs
<1>6. column(s, 0) = a
  BY <1>3, <1>4, <1>5
<1>7. column(s, 1) = b
  BY <1>3, <1>4, <1>5
<1>8. column(s, 2) = c
  BY <1>3, <1>4, <1>5
<1>9. column(s, 3) = d
  BY <1>3, <1>4, <1>5
<1>10. HasColumns(s, a, b, c, d)
  BY <1>2, <1>6, <1>7, <1>8, <1>9 DEF HasColumns
<1>. QED BY <1>10 DEF s

\* A block is given by its columns.
LEMMA SameColumns ==
  ASSUME NEW s \in Block, NEW t \in Block, \A c \in 0..3 : column(s, c) = column(t, c)
  PROVE  s = t
<1>1. ASSUME NEW j \in 1..4
      PROVE  s[j] = t[j] /\ s[4 + j] = t[4 + j] /\ s[8 + j] = t[8 + j] /\ s[12 + j] = t[12 + j]
  <2>1. \A c \in 0..3 : s[4 * c + j] = t[4 * c + j]
    BY Column
  <2>2. 4 * 0 + j = j /\ 4 * 1 + j = 4 + j /\ 4 * 2 + j = 8 + j /\ 4 * 3 + j = 12 + j
    OBVIOUS
  <2>. QED BY <2>1, <2>2
<1>. QED BY <1>1, SameBlock

\* The words of a round, and the block they are.
Words == [1..4 -> Word]

\* So is that of the four words of the program.
LEMMA WordsJoined ==
  ASSUME NEW v \in Words
  PROVE  Joined(v) \in Block /\ \A c \in 0..3 : column(Joined(v), c) = v[c + 1]
<1>1. v[1] \in Word /\ v[2] \in Word /\ v[3] \in Word /\ v[4] \in Word
  BY DEF Words
<1>2. HasColumns(Joined(v), v[1], v[2], v[3], v[4])
  BY <1>1, ColumnJoined DEF Joined
<1>. QED BY <1>2 DEF HasColumns

\* Four words from the sequence of keys.
FourKeys(ks, n) == \A c \in 1..4 : ks[4 * n + c] \in Word

\* AddRoundKey, column by column.
LEMMA AddKeyIs ==
  ASSUME NEW s \in Block, NEW ks, NEW n \in Nat, FourKeys(ks, n)
  PROVE  /\ AddRoundKey(s, ks, n) \in Block
         /\ \A c \in 0..3 : column(AddRoundKey(s, ks, n), c) = XorW(column(s, c), ks[4 * n + c + 1])
<1> DEFINE sum(c) == XorW(column(s, c), ks[4 * n + c + 1])
           t == AddRoundKey(s, ks, n)
<1>1. ASSUME NEW c \in 0..3
      PROVE  /\ sum(c) \in Word
             /\ sum(c) = LET k == ks[4 * n + c + 1]
                         IN <<Plus(s[4 * c + 1], k[1]), Plus(s[4 * c + 2], k[2]),
                              Plus(s[4 * c + 3], k[3]), Plus(s[4 * c + 4], k[4])>>
  <2>1. c + 1 \in 1..4 /\ 4 * n + (c + 1) = 4 * n + c + 1
    OBVIOUS
  <2>2. ks[4 * n + c + 1] \in Word /\ column(s, c) \in Word
    BY <2>1, Column DEF FourKeys
  <2>. QED BY <2>2, ColumnIs, XorWFacts DEF XorW, Plus
<1>2. t = sum(0) \o sum(1) \o sum(2) \o sum(3)
  <2>1. 0 \in 0..3 /\ 1 \in 0..3 /\ 2 \in 0..3 /\ 3 \in 0..3
    OBVIOUS
  <2>. HIDE DEF sum
  <2>. QED BY <1>1, <2>1, Zenon DEF AddRoundKey
<1>. HIDE DEF sum, t
<1>3. sum(0) \in Word /\ sum(1) \in Word /\ sum(2) \in Word /\ sum(3) \in Word
  BY <1>1
<1>4. HasColumns(t, sum(0), sum(1), sum(2), sum(3))
  BY <1>2, <1>3, ColumnJoined
<1>5. t \in Block /\ \A c \in 0..3 : column(t, c) = sum(c)
  BY <1>4 DEF HasColumns
<1>. QED BY <1>5 DEF sum, t

\* MixColumns, column by column.
LEMMA MixColumnsIs ==
  ASSUME NEW s \in Block
  PROVE  /\ MixColumns(s) \in Block
         /\ \A c \in 0..3 : column(MixColumns(s), c) = MixColumn(Mixing, column(s, c))
<1> DEFINE mixed(c) == MixColumn(Mixing, column(s, c))
           t == MixColumns(s)
<1>1. \A c \in 0..3 : mixed(c) \in Word
  BY Column, MixingCoefficients, MixColumnInWord
<1>2. t = mixed(0) \o mixed(1) \o mixed(2) \o mixed(3)
  BY DEF MixColumns
<1>. HIDE DEF mixed, t
<1>3. HasColumns(t, mixed(0), mixed(1), mixed(2), mixed(3))
  <2>1. mixed(0) \in Word /\ mixed(1) \in Word /\ mixed(2) \in Word /\ mixed(3) \in Word
    BY <1>1
  <2>. QED BY <1>2, <2>1, ColumnJoined
<1>4. t \in Block /\ \A c \in 0..3 : column(t, c) = mixed(c)
  BY <1>3 DEF HasColumns
<1>. QED BY <1>4 DEF mixed, t

\* The column c after the substitution and the shift of the rows.
Moved(s, c) == <<SBox[column(s, c)[1] + 1], SBox[column(s, (c + 1) % 4)[2] + 1],
                 SBox[column(s, (c + 2) % 4)[3] + 1], SBox[column(s, (c + 3) % 4)[4] + 1]>>

\* SubBytes and ShiftRows, column by column.
LEMMA MovedIs ==
  ASSUME NEW s \in Block
  PROVE  /\ ShiftRows(SubBytes(s)) \in Block
         /\ \A c \in 0..3 : column(ShiftRows(SubBytes(s)), c) = Moved(s, c)
<1> DEFINE b == SubBytes(s)
           t == ShiftRows(b)
<1>1. \A i \in 1..16 : b[i] = SBox[s[i] + 1] /\ b[i] \in Byte
  BY ByteSub DEF SubBytes, Block
<1>. HIDE DEF b
<1>2. ASSUME NEW c \in 0..3, NEW j \in 0..3
      PROVE  /\ t[4 * c + j + 1] = b[4 * ((c + j) % 4) + j + 1]
             /\ 4 * ((c + j) % 4) + j + 1 \in 1..16
  <2>1. /\ ((4 * c + j + 1) - 1) % 4 = j /\ ((4 * c + j + 1) - 1) \div 4 = c
        /\ 4 * c + j + 1 \in 1..16 /\ j + 4 * ((c + j) % 4) + 1 = 4 * ((c + j) % 4) + j + 1
        /\ 4 * ((c + j) % 4) + j + 1 \in 1..16
    OBVIOUS
  <2>. QED BY <2>1 DEF ShiftRows
<1>3. ASSUME NEW i \in 1..16 PROVE t[i] \in Byte
  <2>1. (i - 1) \div 4 \in 0..3 /\ (i - 1) % 4 \in 0..3
        /\ i = 4 * ((i - 1) \div 4) + ((i - 1) % 4) + 1
    OBVIOUS
  <2>. QED BY <1>1, <1>2, <2>1
<1>4. t \in Block
  <2>1. t = [i \in 1..16 |-> t[i]]
    BY DEF ShiftRows
  <2>. QED BY <1>3, <2>1 DEF Block
<1>5. ASSUME NEW c \in 0..3, NEW j \in 0..3
      PROVE  t[4 * c + (j + 1)] = SBox[column(s, (c + j) % 4)[j + 1] + 1]
  <2>1. (c + j) % 4 \in 0..3 /\ j + 1 \in 1..4
        /\ 4 * ((c + j) % 4) + (j + 1) = 4 * ((c + j) % 4) + j + 1
        /\ 4 * c + (j + 1) = 4 * c + j + 1
    OBVIOUS
  <2>2. column(s, (c + j) % 4)[j + 1] = s[4 * ((c + j) % 4) + j + 1]
    BY <2>1, Column
  <2>. QED BY <1>1, <1>2, <2>1, <2>2
<1>. HIDE DEF t
<1>6. ASSUME NEW c \in 0..3 PROVE column(t, c) = Moved(s, c)
  <2>1. column(t, c) = <<t[4 * c + 1], t[4 * c + 2], t[4 * c + 3], t[4 * c + 4]>>
    BY <1>4, ColumnIs
  <2>2. (c + 0) % 4 = c
    OBVIOUS
  <2>3. /\ t[4 * c + (0 + 1)] = SBox[column(s, (c + 0) % 4)[0 + 1] + 1]
        /\ t[4 * c + (1 + 1)] = SBox[column(s, (c + 1) % 4)[1 + 1] + 1]
        /\ t[4 * c + (2 + 1)] = SBox[column(s, (c + 2) % 4)[2 + 1] + 1]
        /\ t[4 * c + (3 + 1)] = SBox[column(s, (c + 3) % 4)[3 + 1] + 1]
    BY <1>5
  <2>. QED BY <2>1, <2>2, <2>3 DEF Moved
<1>. QED BY <1>4, <1>6 DEF t, b

-----------------------------------------------------------------------------
(* AES: the rounds of the cipher. *)

\* Round i, of last many, on the block s.
RoundOf(s, ks, last, i) ==
  AddRoundKey(IF i = last THEN ShiftRows(SubBytes(s)) ELSE MixColumns(ShiftRows(SubBytes(s))), ks, i)

\* A round makes a block of a block.
LEMMA RoundInBlock ==
  ASSUME NEW s \in Block, NEW ks, NEW last, NEW i \in Nat, FourKeys(ks, i)
  PROVE  RoundOf(s, ks, last, i) \in Block
BY MovedIs, MixColumnsIs, AddKeyIs DEF RoundOf

\* The keys of the rounds 0 to n.
KeysTo(ks, n) == \A i \in 0..n : FourKeys(ks, i)

\* The block after each of the rounds up to n.
Course(g, block, ks, last, n) ==
  /\ g \in [0..n -> Block] /\ g[0] = AddRoundKey(block, ks, 0)
  /\ \A i \in 1..n : g[i] = RoundOf(g[i - 1], ks, last, i)

\* The cipher, as one course of blocks.
LEMMA RoundsIs ==
  ASSUME NEW block \in Block, NEW ks, NEW last, NEW n \in Nat, KeysTo(ks, n)
  PROVE  \E g : Course(g, block, ks, last, n) /\ Rounds(block, ks, last, n) = g[n]
<1> DEFINE first == AddRoundKey(block, ks, 0)
           F == [p \in (1..n) \X [1..16 -> Byte] |->
                   LET s == ShiftRows(SubBytes(p[2]))
                   IN AddRoundKey(IF p[1] = last THEN s ELSE MixColumns(s), ks, p[1])]
           Body(g, i) == IF i = 0 THEN AddRoundKey(block, ks, 0) ELSE F[<<i, g[i - 1]>>]
           after == CHOOSE g : g = [i \in 0..n |-> Body(g, i)]
<1>0. first \in Block
  <2>1. FourKeys(ks, 0)
    BY DEF KeysTo
  <2>. QED BY <2>1, AddKeyIs
<1>01. F = [p \in (1..n) \X Block |-> RoundOf(p[2], ks, last, p[1])]
  BY DEF RoundOf, Block
<1>1. F \in [(1..n) \X Block -> Block]
  <2>1. \A i \in 1..n, s \in Block : RoundOf(s, ks, last, i) \in Block
    BY RoundInBlock DEF KeysTo
  <2>. HIDE DEF F
  <2>. QED BY <1>01, <2>1
<1>2. PICK h \in [0..n -> Block] : Follows(h, n, first, F)
  <2> HIDE DEF F, first
  <2>. QED BY <1>0, <1>1, Recursion
<1>3. h = [i \in 0..n |-> Body(h, i)]
  <2>1. ASSUME NEW i \in 0..n PROVE h[i] = Body(h, i)
    <3>. HIDE DEF F
    <3>. QED BY <1>2 DEF Follows
  <2>. QED BY <1>2, <2>1
<1>4. after = [i \in 0..n |-> Body(after, i)]
  BY <1>3
<1>5. Rounds(block, ks, last, n) = after[n]
  BY DEF Rounds
<1> HIDE DEF after
<1>6. after[0] = first
  BY <1>4
<1>7. ASSUME NEW i \in 1..n PROVE after[i] = F[<<i, after[i - 1]>>]
  <2>1. i \in 0..n /\ i # 0
    OBVIOUS
  <2>2. after[i] = Body(after, i)
    BY <1>4, <2>1
  <2>. HIDE DEF F
  <2>. QED BY <2>1, <2>2
<1>8. ASSUME NEW i \in 1..n, after[i - 1] \in Block PROVE after[i] \in Block
  <2>1. <<i, after[i - 1]>> \in (1..n) \X Block
    BY <1>8
  <2>. HIDE DEF F
  <2>. QED BY <1>1, <1>7, <2>1
<1>. HIDE DEF first
<1>9. \A i \in 0..n : after[i] \in Block
  <2>. HIDE DEF F
  <2>. QED BY <1>0, <1>6, <1>8, AllIn
<1>10. after = [i \in 0..n |-> after[i]]
  BY <1>4
<1>11. after \in [0..n -> Block]
  BY <1>9, <1>10
<1>12. ASSUME NEW i \in 1..n PROVE after[i] = RoundOf(after[i - 1], ks, last, i)
  <2>1. <<i, after[i - 1]>> \in (1..n) \X Block
    BY <1>9
  <2>. HIDE DEF F
  <2>. QED BY <1>01, <1>7, <2>1
<1>. QED BY <1>5, <1>6, <1>11, <1>12 DEF Course, first

\* Before the first round the first key is added.
LEMMA RoundsBegin ==
  ASSUME NEW block \in Block, NEW ks, NEW last, KeysTo(ks, 0)
  PROVE  Rounds(block, ks, last, 0) = AddRoundKey(block, ks, 0)
<1>1. 0 \in Nat
  OBVIOUS
<1>. QED BY <1>1, RoundsIs DEF Course

\* Rounds make blocks.
LEMMA RoundsInBlock ==
  ASSUME NEW block \in Block, NEW ks, NEW last, NEW n \in Nat, KeysTo(ks, n)
  PROVE  Rounds(block, ks, last, n) \in Block
BY RoundsIs DEF Course

\* One round more.
LEMMA RoundsGoOn ==
  ASSUME NEW block \in Block, NEW ks, NEW last, NEW n \in Nat, KeysTo(ks, n + 1)
  PROVE  Rounds(block, ks, last, n + 1) = RoundOf(Rounds(block, ks, last, n), ks, last, n + 1)
<1>1. KeysTo(ks, n)
  BY DEF KeysTo
<1>2. PICK g : Course(g, block, ks, last, n) /\ Rounds(block, ks, last, n) = g[n]
  BY <1>1, RoundsIs
<1>3. PICK h : Course(h, block, ks, last, n + 1) /\ Rounds(block, ks, last, n + 1) = h[n + 1]
  BY RoundsIs
<1> DEFINE same == [i \in 0..n |-> IF g[i] = h[i] THEN 1 ELSE 0]
           One == {1}
<1>4. same[0] \in One
  BY <1>2, <1>3 DEF Course
<1>5. ASSUME NEW i \in 1..n, same[i - 1] \in One PROVE same[i] \in One
  BY <1>2, <1>3, <1>5 DEF Course
<1>. HIDE DEF same, One
<1>6. \A i \in 0..n : same[i] \in One
  BY <1>4, <1>5, AllIn
<1>7. g[n] = h[n]
  BY <1>6 DEF same, One
<1>8. n + 1 \in 1..n + 1 /\ (n + 1) - 1 = n
  OBVIOUS
<1>9. h[n + 1] = RoundOf(h[n], ks, last, n + 1)
  BY <1>3, <1>8 DEF Course
<1>. QED BY <1>2, <1>3, <1>7, <1>9

-----------------------------------------------------------------------------
(* AES: a round of the program is a round of the cipher. *)

\* The bytes a round takes for column c: those of the shifted rows.
LEMMA SourceForward ==
  ASSUME phase = "enc", w \in Words, NEW c \in 0..3
  PROVE  LET s == Joined(w)
         IN /\ Source(c, 0) = column(s, c)[1] /\ Source(c, 1) = column(s, (c + 1) % 4)[2]
            /\ Source(c, 2) = column(s, (c + 2) % 4)[3] /\ Source(c, 3) = column(s, (c + 3) % 4)[4]
            /\ \A j \in 0..3 : Source(c, j) \in Byte
<1>1. \A j \in 0..3 : (c + j) % 4 \in 0..3
  OBVIOUS
<1>2. \A j \in 0..3 : Source(c, j) = w[((c + j) % 4) + 1][j + 1]
  BY DEF Source
<1>3. \A j \in 0..3 : w[((c + j) % 4) + 1] = column(Joined(w), (c + j) % 4)
  BY <1>1, WordsJoined
<1>4. \A j \in 0..3 : Source(c, j) \in Byte
  BY <1>1, <1>2 DEF Words, Word
<1>5. \A j \in 0..3 : Source(c, j) = column(Joined(w), (c + j) % 4)[j + 1]
  BY <1>2, <1>3
<1>6. (c + 0) % 4 = c
  OBVIOUS
<1>7. /\ Source(c, 0) = column(Joined(w), (c + 0) % 4)[0 + 1]
      /\ Source(c, 1) = column(Joined(w), (c + 1) % 4)[1 + 1]
      /\ Source(c, 2) = column(Joined(w), (c + 2) % 4)[2 + 1]
      /\ Source(c, 3) = column(Joined(w), (c + 3) % 4)[3 + 1]
  BY <1>5
<1>. QED BY <1>4, <1>6, <1>7

\* AES_ROUND and AES_FINAL_ROUND: a column of the next block.
LEMMA RoundForward ==
  ASSUME phase = "enc", w \in Words, NEW c \in 0..3, NEW k
  PROVE  /\ AES_ROUND(c, k) = XorW(MixColumn(Mixing, Moved(Joined(w), c)), k)
         /\ AES_FINAL_ROUND(c, k) = XorW(Moved(Joined(w), c), k)
<1> DEFINE a == Source(c, 0)
           b == Source(c, 1)
           d == Source(c, 2)
           e == Source(c, 3)
<1>1. a \in Byte /\ b \in Byte /\ d \in Byte /\ e \in Byte
  BY SourceForward
<1>2. Moved(Joined(w), c) = <<SBox[a + 1], SBox[b + 1], SBox[d + 1], SBox[e + 1]>>
  BY SourceForward DEF Moved
<1>3. AES_ROUND(c, k) = XorW(XorW(XorW(TableWord(dtable0, a), TableWord(dtable1, b)),
                                  XorW(TableWord(dtable2, d), TableWord(dtable3, e))), k)
  BY DEF AES_ROUND, T, EncryptTable
<1>4. AES_FINAL_ROUND(c, k)
        = XorW(<<sbox[a + 1], sbox[b + 1], sbox[d + 1], sbox[e + 1]>>, k)
  BY DEF AES_FINAL_ROUND, T, EncryptTable
<1>. HIDE DEF a, b, d, e
<1>. QED BY <1>1, <1>2, <1>3, <1>4, TableRound, ByteSub

\* The columns of a round are words.
LEMMA MovedInWord ==
  ASSUME NEW s \in Block, NEW c \in 0..3
  PROVE  Moved(s, c) \in Word /\ MixColumn(Mixing, Moved(s, c)) \in Word
<1>1. Moved(s, c) \in Word
  BY MovedIs, Column
<1>. QED BY <1>1, MixingCoefficients, MixColumnInWord

\* What the code computes from its four words is the next block.
LEMMA RoundColumn ==
  ASSUME NEW s \in Block, NEW ks, NEW last, NEW i \in Nat, FourKeys(ks, i), NEW c \in 0..3
  PROVE  column(RoundOf(s, ks, last, i), c)
           = XorW(IF i = last THEN Moved(s, c) ELSE MixColumn(Mixing, Moved(s, c)),
                  ks[4 * i + c + 1])
<1> DEFINE t == ShiftRows(SubBytes(s))
           u == IF i = last THEN t ELSE MixColumns(t)
<1>1. t \in Block /\ column(t, c) = Moved(s, c)
  BY MovedIs
<1>. HIDE DEF t
<1>2. u \in Block /\ column(u, c) = IF i = last THEN Moved(s, c) ELSE MixColumn(Mixing, Moved(s, c))
  BY <1>1, MixColumnsIs
<1>. HIDE DEF u
<1>3. column(AddRoundKey(u, ks, i), c) = XorW(column(u, c), ks[4 * i + c + 1])
  BY <1>2, AddKeyIs
<1>4. RoundOf(s, ks, last, i) = AddRoundKey(u, ks, i)
  BY DEF RoundOf, u, t
<1>. QED BY <1>2, <1>3, <1>4

\* The four words of the program are the block with the same columns.
LEMMA WordsAre ==
  ASSUME NEW v \in Words, NEW s \in Block, \A c \in 0..3 : v[c + 1] = column(s, c)
  PROVE  Joined(v) = s
BY WordsJoined, SameColumns

\* A pass of the loop of the encryption is a round of FIPS 197.
LEMMA RoundIs ==
  ASSUME phase = "enc", w \in Words, index \in Nat, index < rounds, FourKeys(keys, index), Round
  PROVE  w' \in Words /\ Joined(w') = RoundOf(Joined(w), keys, rounds, index)
<1> DEFINE s == Joined(w)
           t == RoundOf(s, keys, rounds, index)
<1>1. s \in Block
  BY WordsJoined
<1>2. t \in Block
  BY <1>1, RoundInBlock
<1>3. w' = [c \in 1..4 |-> AES_ROUND(c - 1, keys[4 * index + c])]
  BY DEF Round
<1>4. ASSUME NEW c \in 0..3 PROVE w'[c + 1] = column(t, c) /\ column(t, c) \in Word
  <2>1. c + 1 \in 1..4 /\ (c + 1) - 1 = c /\ 4 * index + (c + 1) = 4 * index + c + 1
    OBVIOUS
  <2>2. w'[c + 1] = AES_ROUND(c, keys[4 * index + c + 1])
    BY <1>3, <2>1
  <2>3. AES_ROUND(c, keys[4 * index + c + 1])
          = XorW(MixColumn(Mixing, Moved(s, c)), keys[4 * index + c + 1])
    BY RoundForward
  <2>4. index # rounds
    OBVIOUS
  <2>5. column(t, c) = XorW(MixColumn(Mixing, Moved(s, c)), keys[4 * index + c + 1])
    BY <1>1, <2>4, RoundColumn
  <2>6. column(t, c) \in Word
    BY <1>2, Column
  <2>. QED BY <2>2, <2>3, <2>5, <2>6
<1>. HIDE DEF s, t
<1>5. \A c \in 1..4 : c - 1 \in 0..3 /\ (c - 1) + 1 = c
  OBVIOUS
<1>6. w' \in Words
  <2>1. \A c \in 1..4 : w'[c] \in Word
    BY <1>4, <1>5
  <2>2. w' = [c \in 1..4 |-> w'[c]]
    BY <1>3
  <2>. QED BY <2>1, <2>2 DEF Words
<1>7. Joined(w') = t
  BY <1>2, <1>4, <1>6, WordsAre
<1>. QED BY <1>6, <1>7 DEF s, t

-----------------------------------------------------------------------------
(* AES: the octets of a text. *)

\* A block is given by its bytes.
LEMMA SameBytes ==
  ASSUME NEW s \in Block, NEW t \in Block, \A i \in 1..16 : s[i] = t[i]
  PROVE  s = t
BY DEF Block

\* A block of a text.
LEMMA BlockIs ==
  ASSUME NEW q \in Seq(Byte), NEW o \in Nat, o + 16 <= Len(q)
  PROVE  BlockAt(q, o) \in Block /\ \A i \in 1..16 : BlockAt(q, o)[i] = q[o + i]
<1> DEFINE b == BlockAt(q, o)
<1>1. Len(q) \in Nat /\ \A i \in 1..Len(q) : q[i] \in Byte
  BY LenProperties, ElementOfSeq
<1>2. \A i \in o + 1..o + 16 : q[i] \in Byte
  BY <1>1
<1>3. b = SubSeq(q, o + 1, o + 16) /\ o + 1 \in Int /\ o + 16 \in Int
  BY DEF BlockAt, AES_BLOCK_SIZE
<1>. HIDE DEF b
<1>4. /\ b \in Seq(Byte)
      /\ Len(b) = IF o + 1 <= o + 16 THEN (o + 16) - (o + 1) + 1 ELSE 0
      /\ \A i \in 1..(o + 16) - (o + 1) + 1 : b[i] = q[(o + 1) + i - 1]
  BY <1>2, <1>3, SubSeqProperties
<1>5. Len(b) = 16
  BY <1>4
<1>6. b \in Block
  BY <1>4, <1>5, LenProperties DEF Block
<1>7. \A i \in 1..16 : b[i] = q[o + i]
  BY <1>4
<1>. QED BY <1>6, <1>7 DEF b

\* The sequence p is q with the block s behind it.
Extended(p, q, s) == /\ p \in Seq(Byte) /\ Len(p) = Len(q) + 16
                     /\ \A i \in 1..Len(q) : p[i] = q[i]
                     /\ \A i \in 1..16 : p[Len(q) + i] = s[i]

\* The program appends a block as four words.
LEMMA BlockAppended ==
  ASSUME NEW q \in Seq(Byte), NEW s \in Block
  PROVE  Extended(q \o column(s, 0) \o column(s, 1) \o column(s, 2) \o column(s, 3), q, s)
<1> DEFINE m == Len(q)
           q1 == q \o column(s, 0)
           q2 == q1 \o column(s, 1)
           q3 == q2 \o column(s, 2)
           q4 == q3 \o column(s, 3)
<1>0. m \in Nat /\ m + 4 \in Nat /\ m + 8 \in Nat /\ m + 12 \in Nat /\ m + 16 \in Nat
      /\ m + 8 = (m + 4) + 4 /\ m + 12 = (m + 8) + 4 /\ m + 16 = (m + 12) + 4
  BY LenProperties
<1>1. q \in [1..m -> Byte]
  BY LenProperties
<1>2. /\ column(s, 0) \in Word /\ column(s, 1) \in Word
      /\ column(s, 2) \in Word /\ column(s, 3) \in Word
  BY Column
<1>. HIDE DEF m
<1>3. Longer(m, m + 4, q, column(s, 0), q1)
  BY <1>0, <1>1, <1>2, Concat4
<1>. HIDE DEF q1
<1>4. Longer(m + 4, m + 8, q1, column(s, 1), q2)
  <2>1. q1 \in [1..m + 4 -> Byte]
    BY <1>3 DEF Longer
  <2>. QED BY <1>0, <1>2, <2>1, Concat4
<1>. HIDE DEF q2
<1>5. Longer(m + 8, m + 12, q2, column(s, 2), q3)
  <2>1. q2 \in [1..m + 8 -> Byte]
    BY <1>4 DEF Longer
  <2>. QED BY <1>0, <1>2, <2>1, Concat4
<1>. HIDE DEF q3
<1>6. Longer(m + 12, m + 16, q3, column(s, 3), q4)
  <2>1. q3 \in [1..m + 12 -> Byte]
    BY <1>5 DEF Longer
  <2>. QED BY <1>0, <1>2, <2>1, Concat4
<1>. HIDE DEF q4
<1>7. q4 \in Seq(Byte) /\ Len(q4) = m + 16
  BY <1>0, <1>6, SeqOfLength DEF Longer
<1>8. \A i \in 1..m : q4[i] = q[i]
  <2>1. \A i \in 1..m : q1[i] = q[i]
    BY <1>3 DEF Longer
  <2>2. \A i \in 1..m : q2[i] = q1[i]
    BY <1>0, <1>4 DEF Longer
  <2>3. \A i \in 1..m : q3[i] = q2[i]
    BY <1>0, <1>5 DEF Longer
  <2>4. \A i \in 1..m : q4[i] = q3[i]
    BY <1>0, <1>6 DEF Longer
  <2>. QED BY <2>1, <2>2, <2>3, <2>4
<1>9. ASSUME NEW j \in 1..4
      PROVE  /\ q4[m + j] = column(s, 0)[j] /\ q4[m + 4 + j] = column(s, 1)[j]
             /\ q4[m + 8 + j] = column(s, 2)[j] /\ q4[m + 12 + j] = column(s, 3)[j]
  <2>1. /\ m + j \in 1..m + 4 /\ m + j \in 1..m + 8 /\ m + j \in 1..m + 12
        /\ m + 4 + j \in 1..m + 8 /\ m + 4 + j \in 1..m + 12 /\ m + 8 + j \in 1..m + 12
    BY <1>0
  <2>2. q1[m + j] = column(s, 0)[j] /\ q2[m + j] = q1[m + j] /\ q3[m + j] = q2[m + j]
        /\ q4[m + j] = q3[m + j]
    BY <1>3, <1>4, <1>5, <1>6, <2>1 DEF Longer
  <2>3. q2[m + 4 + j] = column(s, 1)[j] /\ q3[m + 4 + j] = q2[m + 4 + j]
        /\ q4[m + 4 + j] = q3[m + 4 + j]
    BY <1>4, <1>5, <1>6, <2>1 DEF Longer
  <2>4. q3[m + 8 + j] = column(s, 2)[j] /\ q4[m + 8 + j] = q3[m + 8 + j]
        /\ q4[m + 12 + j] = column(s, 3)[j]
    BY <1>5, <1>6, <2>1 DEF Longer
  <2>. QED BY <2>2, <2>3, <2>4
<1>10. ASSUME NEW j \in 1..4
       PROVE  q4[m + j] = s[j] /\ q4[m + (4 + j)] = s[4 + j]
              /\ q4[m + (8 + j)] = s[8 + j] /\ q4[m + (12 + j)] = s[12 + j]
  <2>1. /\ m + (4 + j) = m + 4 + j /\ m + (8 + j) = m + 8 + j /\ m + (12 + j) = m + 12 + j
    BY <1>0
  <2>2. \A c \in 0..3 : column(s, c)[j] = s[4 * c + j]
    BY Column
  <2>3. column(s, 0)[j] = s[4 * 0 + j] /\ column(s, 1)[j] = s[4 * 1 + j]
        /\ column(s, 2)[j] = s[4 * 2 + j] /\ column(s, 3)[j] = s[4 * 3 + j]
    BY <2>2
  <2>4. 4 * 0 + j = j /\ 4 * 1 + j = 4 + j /\ 4 * 2 + j = 8 + j /\ 4 * 3 + j = 12 + j
    OBVIOUS
  <2>. QED BY <1>9, <2>1, <2>3, <2>4
<1>11. ASSUME NEW i \in 1..16 PROVE q4[m + i] = s[i]
  <2>1. i \in 1..4 \/ i - 4 \in 1..4 \/ i - 8 \in 1..4 \/ i - 12 \in 1..4
    OBVIOUS
  <2>2. i = 4 + (i - 4) /\ i = 8 + (i - 8) /\ i = 12 + (i - 12)
    OBVIOUS
  <2>. QED BY <1>10, <2>1, <2>2
<1>12. Extended(q4, q, s)
  BY <1>7, <1>8, <1>11 DEF Extended, m
<1>. QED BY <1>12 DEF q4, q3, q2, q1

\* The blocks that were there stay; the new one is behind them.
LEMMA ExtendedBlocks ==
  ASSUME NEW q \in Seq(Byte), NEW s \in Block, NEW p, Extended(p, q, s)
  PROVE  /\ BlockAt(p, Len(q)) = s
         /\ \A o \in Nat : o + 16 <= Len(q) => BlockAt(p, o) = BlockAt(q, o)
<1> DEFINE m == Len(q)
<1>0. m \in Nat /\ p \in Seq(Byte) /\ Len(p) = m + 16
  BY LenProperties DEF Extended
<1>1. (\A i \in 1..m : p[i] = q[i]) /\ (\A i \in 1..16 : p[m + i] = s[i])
  BY DEF Extended
<1>. HIDE DEF m
<1>2. \A o \in Nat : o + 16 <= m + 16 =>
        BlockAt(p, o) \in Block /\ \A i \in 1..16 : BlockAt(p, o)[i] = p[o + i]
  BY <1>0, BlockIs
<1>3. BlockAt(p, m) = s
  <2>1. BlockAt(p, m) \in Block /\ \A i \in 1..16 : BlockAt(p, m)[i] = p[m + i]
    BY <1>0, <1>2
  <2>2. \A i \in 1..16 : BlockAt(p, m)[i] = s[i]
    BY <1>1, <2>1
  <2>. QED BY <2>1, <2>2 DEF Block
<1>4. ASSUME NEW o \in Nat, o + 16 <= m PROVE BlockAt(p, o) = BlockAt(q, o)
  <2>1. /\ BlockAt(p, o) \in Block /\ \A i \in 1..16 : BlockAt(p, o)[i] = p[o + i]
    BY <1>0, <1>2, <1>4
  <2>2. /\ BlockAt(q, o) \in Block /\ \A i \in 1..16 : BlockAt(q, o)[i] = q[o + i]
    BY <1>4, BlockIs DEF m
  <2>3. \A i \in 1..16 : o + i \in 1..m
    BY <1>0, <1>4
  <2>4. \A i \in 1..16 : p[o + i] = q[o + i]
    BY <1>1, <2>3
  <2>5. \A i \in 1..16 : BlockAt(p, o)[i] = BlockAt(q, o)[i]
    BY <2>1, <2>2, <2>4
  <2>6. BlockAt(p, o) \in Block /\ BlockAt(q, o) \in Block
    BY <2>1, <2>2
  <2>. QED BY <2>5, <2>6, SameBytes
<1>. QED BY <1>3, <1>4 DEF m

-----------------------------------------------------------------------------
(* AES: the first and the last words of a block. *)

\* The texts of the two halves of the benchmark.
Halves(o) == o = [enc |-> o.enc, dec |-> o.dec]

\* Sums that number the bytes of a word.
LEMMA Offsets ==
  ASSUME NEW m \in Nat, NEW n \in Nat
  PROVE  /\ m + n + 1 = m + (n + 1) /\ m + n + 2 = m + (n + 2)
         /\ m + n + 3 = m + (n + 3) /\ m + n + 4 = m + (n + 4)
BY SMT

\* What is loaded is the block of the text with the first key added.
LEMMA LoadIs ==
  ASSUME Input \in Seq(Byte), NEW o \in Nat, o = Len(out[phase]), o + 16 <= Len(Input),
         FourKeys(keys, 0), Load
  PROVE  w' \in Words /\ Joined(w') = AddRoundKey(BlockAt(Input, o), keys, 0)
<1> DEFINE b == BlockAt(Input, o)
           s == AddRoundKey(b, keys, 0)
           q == Input
           ks == keys
<1>1. b \in Block /\ \A i \in 1..16 : b[i] = q[o + i]
  BY BlockIs
<1>2. w' = [c \in 1..4 |-> XorW(LE_READ_UINT32(q, o + 4 * (c - 1)), ks[c])]
  BY DEF Load
<1>. HIDE DEF b, q, ks
<1>3. FourKeys(ks, 0) /\ 0 \in Nat
  BY DEF ks
<1>4. s \in Block /\ \A c \in 0..3 : column(s, c) = XorW(column(b, c), ks[4 * 0 + c + 1])
  BY <1>1, <1>3, AddKeyIs DEF ks
<1>. HIDE DEF s
<1>5. ASSUME NEW c \in 0..3 PROVE w'[c + 1] = column(s, c) /\ column(s, c) \in Word
  <2>1. c + 1 \in 1..4 /\ 4 * 0 + c + 1 = c + 1 /\ (c + 1) - 1 = c
    OBVIOUS
  <2>7. /\ o + 4 * c + 1 = o + (4 * c + 1) /\ o + 4 * c + 2 = o + (4 * c + 2)
        /\ o + 4 * c + 3 = o + (4 * c + 3) /\ o + 4 * c + 4 = o + (4 * c + 4)
    <3>1. 4 * c \in Nat
      OBVIOUS
    <3>. QED BY <3>1, Offsets
  <2>8. /\ 4 * c + 1 \in 1..16 /\ 4 * c + 2 \in 1..16 /\ 4 * c + 3 \in 1..16 /\ 4 * c + 4 \in 1..16
    OBVIOUS
  <2>2. column(b, c) = <<b[4 * c + 1], b[4 * c + 2], b[4 * c + 3], b[4 * c + 4]>>
    BY <1>1, ColumnIs
  <2>3. LE_READ_UINT32(q, o + 4 * c) = column(b, c)
    <3>1. /\ q[o + 4 * c + 1] = b[4 * c + 1] /\ q[o + 4 * c + 2] = b[4 * c + 2]
          /\ q[o + 4 * c + 3] = b[4 * c + 3] /\ q[o + 4 * c + 4] = b[4 * c + 4]
      BY <1>1, <2>7, <2>8
    <3>. QED BY <2>2, <3>1 DEF LE_READ_UINT32
  <2>4. w'[c + 1] = XorW(LE_READ_UINT32(q, o + 4 * c), ks[c + 1])
    BY <1>2, <2>1
  <2>5. column(s, c) = XorW(column(b, c), ks[c + 1])
    BY <1>4, <2>1
  <2>6. column(s, c) \in Word
    BY <1>4, Column
  <2>. QED BY <2>3, <2>4, <2>5, <2>6
<1>6. w' \in Words
  <2>1. \A c \in 1..4 : c - 1 \in 0..3 /\ (c - 1) + 1 = c
    OBVIOUS
  <2>2. \A c \in 1..4 : w'[c] \in Word
    BY <1>5, <2>1
  <2>3. w' = [c \in 1..4 |-> w'[c]]
    BY <1>2
  <2>. QED BY <2>2, <2>3 DEF Words
<1>7. Joined(w') = s
  BY <1>4, <1>5, <1>6, WordsAre
<1>. QED BY <1>6, <1>7 DEF s, b, q, ks

\* The end of a block appends what the last round of FIPS 197 makes.
LEMMA FinalIs ==
  ASSUME phase = "enc", w \in Words, rounds \in Nat, index = rounds, FourKeys(keys, rounds),
         Halves(out), out.enc \in Seq(Byte), FinalRound
  PROVE  /\ Extended(out'.enc, out.enc, RoundOf(Joined(w), keys, rounds, rounds))
         /\ out'.dec = out.dec /\ Halves(out')
<1> DEFINE s == Joined(w)
           t == RoundOf(s, keys, rounds, rounds)
           f(c) == AES_FINAL_ROUND(c, keys[4 * index + c + 1])
           q == out.enc \o f(0) \o f(1) \o f(2) \o f(3)
<1>1. s \in Block
  BY WordsJoined
<1>2. t \in Block
  BY <1>1, RoundInBlock
<1>3. ASSUME NEW c \in 0..3 PROVE f(c) = column(t, c)
  <2>1. f(c) = XorW(Moved(s, c), keys[4 * rounds + c + 1])
    BY RoundForward
  <2>2. column(t, c) = XorW(Moved(s, c), keys[4 * rounds + c + 1])
    BY <1>1, RoundColumn
  <2>. QED BY <2>1, <2>2
<1>4. out' = [out EXCEPT !["enc"] = q]
  BY DEF FinalRound
<1>. HIDE DEF f, t, s
<1>5. q = out.enc \o column(t, 0) \o column(t, 1) \o column(t, 2) \o column(t, 3)
  <2>1. f(0) = column(t, 0) /\ f(1) = column(t, 1) /\ f(2) = column(t, 2) /\ f(3) = column(t, 3)
    BY <1>3
  <2>. QED BY <2>1
<1>. HIDE DEF q
<1>6. Extended(q, out.enc, t)
  BY <1>2, <1>5, BlockAppended
<1>7. out' = [enc |-> q, dec |-> out.dec]
  BY <1>4 DEF Halves
<1>. QED BY <1>6, <1>7 DEF s, t, Halves

-----------------------------------------------------------------------------
(* AES: the key schedule. *)

\* The table of the round constants is what their recursion gives.
LEMMA RconIs ==
  ASSUME NEW g, g = [n \in 1..10 |-> IF n = 1 THEN 1 ELSE Times2(g[n - 1])]
  PROVE  \A n \in 1..10 : g[n] = rcon[n]
<1> DEFINE same == [n \in 0..9 |-> IF g[n + 1] = rcon[n + 1] THEN 1 ELSE 0]
           One == {1}
<1>1. \A n \in 1..10 : rcon[n] = IF n = 1 THEN 1 ELSE Times2(rcon[n - 1])
  BY TablesAssumption
<1>2. \A n \in 1..10 : g[n] = IF n = 1 THEN 1 ELSE Times2(g[n - 1])
  OBVIOUS
<1>3. same[0] \in One
  BY <1>1, <1>2
<1>4. ASSUME NEW n \in 1..9, same[n - 1] \in One PROVE same[n] \in One
  <2>1. n \in 1..10 /\ n + 1 \in 1..10 /\ n + 1 # 1 /\ (n + 1) - 1 = n /\ (n - 1) + 1 = n
    OBVIOUS
  <2>2. g[n] = rcon[n]
    BY <1>4, <2>1
  <2>. QED BY <1>1, <1>2, <2>1, <2>2
<1>. HIDE DEF same, One
<1>5. \A n \in 0..9 : same[n] \in One
  BY <1>3, <1>4, AllIn
<1>6. \A n \in 0..9 : g[n + 1] = rcon[n + 1]
  BY <1>5 DEF same, One
<1>7. ASSUME NEW n \in 1..10 PROVE g[n] = rcon[n]
  <2>1. n - 1 \in 0..9 /\ (n - 1) + 1 = n
    OBVIOUS
  <2>. QED BY <1>6, <2>1
<1>. QED BY <1>7

\* A word of the schedule, from the two words it depends on.
Scheduled(n, first, last, i) ==
  LET sub(v) == [b \in 1..4 |-> SBox[v[b] + 1]]
      t == IF i % n = 0
           THEN [sub(<<last[2], last[3], last[4], last[1]>>) EXCEPT ![1] = XorB(@, rcon[i \div n])]
           ELSE IF n > 6 /\ i % n = 4 THEN sub(last)
           ELSE last
  IN [b \in 1..4 |-> XorB(first[b], t[b])]

\* The next word of FIPS 197, said with these two.
LEMMA NextWordIs ==
  ASSUME NEW n \in Nat, NEW ks, NEW i \in Nat, i % n = 0 => i \div n \in 1..10
  PROVE  NextWord(n, ks, i) = Scheduled(n, ks[i - n + 1], ks[i], i)
<1> DEFINE con == CHOOSE g : g = [m \in 1..10 |-> IF m = 1 THEN 1 ELSE Times2(g[m - 1])]
<1>1. rcon = [m \in 1..10 |-> IF m = 1 THEN 1 ELSE Times2(rcon[m - 1])]
  <2>1. rcon = [m \in 1..10 |-> rcon[m]]
    BY DEF rcon
  <2>. QED BY <2>1, TablesAssumption
<1>2. con = [m \in 1..10 |-> IF m = 1 THEN 1 ELSE Times2(con[m - 1])]
  BY <1>1
<1>3. NextWord(n, ks, i)
        = LET last == ks[i]
              sub(v) == [b \in 1..4 |-> SBox[v[b] + 1]]
              t == IF i % n = 0
                   THEN [sub(<<last[2], last[3], last[4], last[1]>>) EXCEPT ![1] = Plus(@, con[i \div n])]
                   ELSE IF n > 6 /\ i % n = 4 THEN sub(last)
                   ELSE last
          IN [b \in 1..4 |-> Plus(ks[i - n + 1][b], t[b])]
  BY DEF NextWord
<1>. HIDE DEF con
<1>4. i % n = 0 => con[i \div n] = rcon[i \div n]
  BY <1>2, RconIs
<1>. QED BY <1>3, <1>4 DEF Plus, Scheduled

\* The number of words in a key, and what the length of the schedule is.
KeyLengths == {4, 6, 8}

\* The number of words in a schedule for a key of n words.
Whole(n) == 4 * (n + 7)

\* When a schedule takes a round constant, and that the table has it.
LEMMA Constants ==
  ASSUME NEW n \in KeyLengths, NEW i \in Nat, n <= i, i < Whole(n)
  PROVE  /\ i % n = 0 => i \div n \in 1..10 /\ (i - 1) \div n + 1 = i \div n
         /\ i % n # 0 => (i - 1) \div n = i \div n
         /\ i - n + 1 \in 1..i /\ i \in 1..i
<1>1. CASE n = 4
  BY <1>1 DEF Whole
<1>2. CASE n = 6
  BY <1>2 DEF Whole
<1>3. CASE n = 8
  BY <1>3 DEF Whole
<1>. QED BY <1>1, <1>2, <1>3 DEF KeyLengths

\* A word of the schedule is a word.
LEMMA ScheduledIs ==
  ASSUME NEW n \in KeyLengths, NEW i \in Nat, i % n = 0 => i \div n \in 1..10,
         NEW first \in Word, NEW last \in Word
  PROVE  Scheduled(n, first, last, i) \in Word
<1> DEFINE sub(v) == [b \in 1..4 |-> SBox[v[b] + 1]]
           t == IF i % n = 0
                THEN [sub(<<last[2], last[3], last[4], last[1]>>) EXCEPT ![1] = XorB(@, rcon[i \div n])]
                ELSE IF n > 6 /\ i % n = 4 THEN sub(last)
                ELSE last
<1>1. last[1] \in Byte /\ last[2] \in Byte /\ last[3] \in Byte /\ last[4] \in Byte
  BY WordIs
<1>2. \A v \in Word : sub(v) \in Word
  BY ByteSub DEF Word
<1>3. <<last[2], last[3], last[4], last[1]>> \in Word
  BY <1>1, WordMade
<1>. HIDE DEF sub
<1>4. i % n = 0 => rcon[i \div n] \in Byte
  <2>1. \A m \in 1..10 : rcon[m] \in Byte
    BY DEF rcon, Byte
  <2>. QED BY <2>1
<1>5. \A v \in Word, x \in Byte : [v EXCEPT ![1] = XorB(@, x)] \in Word
  BY XorBFacts DEF Word
<1>6. t \in Word
  BY <1>2, <1>3, <1>4, <1>5
<1>. HIDE DEF t
<1>7. [b \in 1..4 |-> XorB(first[b], t[b])] \in Word
  BY <1>6, XorBFacts DEF Word
<1>. QED BY <1>7 DEF Scheduled, t, sub

\* The pass of the program computes it, with its pointer to the constants.
LEMMA ExpandedIs ==
  ASSUME NEW n \in KeyLengths, index \in Nat, n <= index, index < Whole(n), rp = (index - 1) \div n,
         NEW first \in Word, NEW last \in Word
  PROVE  XorW(first, Expanded(n, last)) = Scheduled(n, first, last, index)
<1> DEFINE sub(v) == [b \in 1..4 |-> SBox[v[b] + 1]]
           turned == <<last[2], last[3], last[4], last[1]>>
           t == IF index % n = 0
                THEN [sub(turned) EXCEPT ![1] = XorB(@, rcon[index \div n])]
                ELSE IF n > 6 /\ index % n = 4 THEN sub(last)
                ELSE last
<1>0. last[1] \in Byte /\ last[2] \in Byte /\ last[3] \in Byte /\ last[4] \in Byte
  BY WordIs
<1>1. RotL(3, last) = turned
  BY DEF RotL
<1>2. turned \in Word
  BY <1>0, WordMade
<1>. HIDE DEF turned
<1>3. \A v \in Word : SUBBYTE(v) = sub(v)
  BY ByteSub DEF SUBBYTE, Word
<1>4. index % n = 0 => rp + 1 = index \div n
  BY Constants
<1>. HIDE DEF sub
<1>5. Expanded(n, last) = t
  BY <1>1, <1>2, <1>3, <1>4 DEF Expanded
<1>. HIDE DEF t
<1>6. XorW(first, t) = [b \in 1..4 |-> XorB(first[b], t[b])]
  BY DEF XorW
<1>. QED BY <1>5, <1>6 DEF Scheduled, t, sub, turned

\* The first m words of the schedule of a key of n words.
KeyWords(ks, key_, n, m) ==
  /\ ks \in Seq(Word) /\ Len(ks) = m
  /\ \A i \in 1..m : ks[i] = IF i <= n THEN SubSeq(key_, 4 * i - 3, 4 * i) ELSE NextWord(n, ks, i - 1)

\* One word more.
LEMMA KeyWordsGoOn ==
  ASSUME NEW n \in KeyLengths, NEW i \in Nat, n <= i, i < Whole(n), NEW ks, NEW key_,
         KeyWords(ks, key_, n, i)
  PROVE  KeyWords(Append(ks, Scheduled(n, ks[i - n + 1], ks[i], i)), key_, n, i + 1)
<1> DEFINE x == Scheduled(n, ks[i - n + 1], ks[i], i)
           kx == Append(ks, x)
<1>1. ks \in Seq(Word) /\ Len(ks) = i
  BY DEF KeyWords
<1>2. ks[i - n + 1] \in Word /\ ks[i] \in Word
  BY <1>1, Constants, ElementOfSeq
<1>3. x \in Word
  BY <1>2, Constants, ScheduledIs
<1>. HIDE DEF x
<1>4. kx \in Seq(Word) /\ Len(kx) = i + 1 /\ (\A j \in 1..i : kx[j] = ks[j]) /\ kx[i + 1] = x
  BY <1>1, <1>3, AppendProperties
<1>. HIDE DEF kx
<1>5. ASSUME NEW j \in Nat, n <= j, j <= i PROVE NextWord(n, kx, j) = NextWord(n, ks, j)
  <2>1. j < Whole(n) /\ n \in Nat
    <3>1. n \in Nat /\ Whole(n) \in Nat
      BY DEF Whole, KeyLengths
    <3>. QED BY <1>5, <3>1
  <2>2. j % n = 0 => j \div n \in 1..10
    BY <1>5, <2>1, Constants
  <2>3. j \in 1..i /\ j - n + 1 \in 1..i
    BY <1>5, <2>1 DEF KeyLengths
  <2>4. kx[j] = ks[j] /\ kx[j - n + 1] = ks[j - n + 1]
    BY <1>4, <2>3
  <2>. QED BY <2>1, <2>2, <2>4, NextWordIs
<1>6. kx[i + 1] = NextWord(n, kx, i)
  <2>1. n \in Nat /\ (i % n = 0 => i \div n \in 1..10)
    BY Constants DEF KeyLengths
  <2>2. NextWord(n, ks, i) = x
    BY <2>1, NextWordIs DEF x
  <2>. QED BY <1>4, <1>5, <2>2
<1>7. ASSUME NEW j \in 1..i + 1
      PROVE  kx[j] = IF j <= n THEN SubSeq(key_, 4 * j - 3, 4 * j) ELSE NextWord(n, kx, j - 1)
  <2>1. CASE j = i + 1
    <3>1. ~(j <= n) /\ j - 1 = i
      BY <2>1 DEF KeyLengths
    <3>. QED BY <1>6, <2>1, <3>1
  <2>2. CASE j # i + 1
    <3>1. j \in 1..i
      BY <2>2
    <3>2. kx[j] = IF j <= n THEN SubSeq(key_, 4 * j - 3, 4 * j) ELSE NextWord(n, ks, j - 1)
      BY <1>4, <3>1 DEF KeyWords
    <3>3. ~(j <= n) => NextWord(n, kx, j - 1) = NextWord(n, ks, j - 1)
      <4>1. SUFFICES ASSUME ~(j <= n) PROVE NextWord(n, kx, j - 1) = NextWord(n, ks, j - 1)
        OBVIOUS
      <4>2. j - 1 \in Nat /\ n <= j - 1 /\ j - 1 <= i
        BY <3>1, <4>1 DEF KeyLengths
      <4>. QED BY <1>5, <4>2
    <3>. QED BY <3>2, <3>3
  <2>. QED BY <2>1, <2>2
<1>8. KeyWords(kx, key_, n, i + 1)
  BY <1>4, <1>7 DEF KeyWords
<1>. QED BY <1>8 DEF kx, x

\* The words of the key itself.
LEMMA KeyWordsBegin ==
  ASSUME NEW n \in KeyLengths, NEW key_ \in Seq(Byte), 4 * n <= Len(key_)
  PROVE  KeyWords([k \in 1..n |-> LE_READ_UINT32(key_, 4 * (k - 1))], key_, n, n)
<1> DEFINE ks == [k \in 1..n |-> LE_READ_UINT32(key_, 4 * (k - 1))]
<1>0. n \in Nat /\ Len(key_) \in Nat
  BY LenProperties DEF KeyLengths
<1>1. ASSUME NEW k \in 1..n
      PROVE  /\ LE_READ_UINT32(key_, 4 * (k - 1)) \in Word
             /\ LE_READ_UINT32(key_, 4 * (k - 1)) = SubSeq(key_, 4 * k - 3, 4 * k)
  <2>1. /\ 4 * (k - 1) + 1 = 4 * k - 3 /\ 4 * (k - 1) + 2 = 4 * k - 2
        /\ 4 * (k - 1) + 3 = 4 * k - 1 /\ 4 * (k - 1) + 4 = 4 * k
        /\ 4 * k - 3 \in 1..Len(key_) /\ 4 * k - 2 \in 1..Len(key_)
        /\ 4 * k - 1 \in 1..Len(key_) /\ 4 * k \in 1..Len(key_)
    BY <1>0
  <2> DEFINE s == SubSeq(key_, 4 * k - 3, 4 * k)
  <2>2. \A i \in 4 * k - 3..4 * k : key_[i] \in Byte
    BY <1>0, <2>1, ElementOfSeq
  <2>3. /\ s \in Seq(Byte) /\ Len(s) = 4
        /\ \A i \in 1..4 : s[i] = key_[4 * k - 3 + i - 1]
    <3>1. 4 * k - 3 <= 4 * k /\ (4 * k) - (4 * k - 3) + 1 = 4 /\ 4 * k - 3 \in Int /\ 4 * k \in Int
      BY <1>0
    <3>. QED BY <2>2, <3>1, SubSeqProperties
  <2>. HIDE DEF s
  <2>4. s \in Word
    BY <2>3, LenProperties DEF Word
  <2>5. /\ 4 * k - 3 + 1 - 1 = 4 * k - 3 /\ 4 * k - 3 + 2 - 1 = 4 * k - 2
        /\ 4 * k - 3 + 3 - 1 = 4 * k - 1 /\ 4 * k - 3 + 4 - 1 = 4 * k
    BY <1>0
  <2>6. /\ s[1] = key_[4 * k - 3] /\ s[2] = key_[4 * k - 2]
        /\ s[3] = key_[4 * k - 1] /\ s[4] = key_[4 * k]
    BY <2>3, <2>5
  <2>7. s = <<key_[4 * k - 3], key_[4 * k - 2], key_[4 * k - 1], key_[4 * k]>>
    BY <2>4, <2>6, WordIs
  <2>8. LE_READ_UINT32(key_, 4 * (k - 1)) = s
    BY <2>1, <2>7 DEF LE_READ_UINT32
  <2>. QED BY <2>4, <2>8 DEF s
<1>2. ks \in [1..n -> Word]
  BY <1>1
<1>3. ks \in Seq(Word) /\ Len(ks) = n
  BY <1>0, <1>2, SeqOfLength
<1>4. \A k \in 1..n : ks[k] = SubSeq(key_, 4 * k - 3, 4 * k)
  BY <1>1
<1>. HIDE DEF ks
<1>5. \A k \in 1..n : k <= n
  BY <1>0
<1>6. KeyWords(ks, key_, n, n)
  BY <1>3, <1>4, <1>5 DEF KeyWords
<1>. QED BY <1>6 DEF ks

-----------------------------------------------------------------------------
(* AES: the products of the field add up. *)

\* A shift to the left, with a bit that comes in.
LeftN(a, c) == ((2 * a) % 16) + c

\* Its bits.
LEMMA LeftNBits ==
  ASSUME NEW a \in Nibble, NEW c \in Bit
  PROVE  /\ LeftN(a, c) \in Nibble
         /\ B0(LeftN(a, c)) = c /\ B1(LeftN(a, c)) = B0(a)
         /\ B2(LeftN(a, c)) = B1(a) /\ B3(LeftN(a, c)) = B2(a)
BY DEF LeftN, B0, B1, B2, B3, Nibble, Bit

\* Shifts to the left add up.
LEMMA LeftNXor ==
  ASSUME NEW a \in Nibble, NEW b \in Nibble, NEW c \in Bit, NEW d \in Bit
  PROVE  XorN(LeftN(a, c), LeftN(b, d)) = LeftN(XorN(a, b), Sum2(c, d))
<1> DEFINE left == XorN(LeftN(a, c), LeftN(b, d))
           right == LeftN(XorN(a, b), Sum2(c, d))
<1>1. Sum2(c, d) \in Bit /\ XorN(a, b) \in Nibble /\ LeftN(a, c) \in Nibble /\ LeftN(b, d) \in Nibble
  BY Sum2Facts, XorNFacts, LeftNBits
<1>2. left \in Nibble /\ right \in Nibble
  BY <1>1, XorNBits, LeftNBits
<1>3. B0(left) = B0(right) /\ B1(left) = B1(right) /\ B2(left) = B2(right) /\ B3(left) = B3(right)
  BY <1>1, XorNBits, LeftNBits
<1> HIDE DEF left, right
<1>4. left = right
  BY <1>2, <1>3, SameBits
<1>. QED BY <1>4 DEF left, right

\* Twice a byte, without its highest bit, and that bit.
Twice(a) == (2 * a) % 256

\* The highest bit of a byte.
High(a) == B3(a \div 16)

\* Doubling by nibbles.
LEMMA TwiceNibbles ==
  ASSUME NEW a \in Byte
  PROVE  /\ Twice(a) \in Byte
         /\ Twice(a) \div 16 = LeftN(a \div 16, B3(a % 16))
         /\ Twice(a) % 16 = LeftN(a % 16, 0)
BY DEF Twice, LeftN, B3, Byte

\* Doubling adds up.
LEMMA TwiceXor ==
  ASSUME NEW a \in Byte, NEW b \in Byte
  PROVE  Twice(XorB(a, b)) = XorB(Twice(a), Twice(b))
<1> DEFINE left == Twice(XorB(a, b))
           right == XorB(Twice(a), Twice(b))
<1>1. XorB(a, b) \in Byte /\ Twice(a) \in Byte /\ Twice(b) \in Byte
      /\ left \in Byte /\ right \in Byte
  BY XorBFacts, TwiceNibbles
<1>2. a \div 16 \in Nibble /\ a % 16 \in Nibble /\ b \div 16 \in Nibble /\ b % 16 \in Nibble
  BY ByteNibbles
<1>3. B3(a % 16) \in Bit /\ B3(b % 16) \in Bit /\ 0 \in Bit /\ Sum2(0, 0) = 0
      /\ B3(XorN(a % 16, b % 16)) = Sum2(B3(a % 16), B3(b % 16))
  BY <1>2, Bits0, XorNBits, Sum2Facts DEF Bit
<1>4. left \div 16 = right \div 16
  <2>1. left \div 16 = LeftN(XorN(a \div 16, b \div 16), B3(XorN(a % 16, b % 16)))
    BY <1>1, TwiceNibbles, XorBNibbles
  <2>2. right \div 16 = XorN(LeftN(a \div 16, B3(a % 16)), LeftN(b \div 16, B3(b % 16)))
    BY <1>1, TwiceNibbles, XorBNibbles
  <2>. QED BY <1>2, <1>3, <2>1, <2>2, LeftNXor
<1>5. left % 16 = right % 16
  <2>1. left % 16 = LeftN(XorN(a % 16, b % 16), 0)
    BY <1>1, TwiceNibbles, XorBNibbles
  <2>2. right % 16 = XorN(LeftN(a % 16, 0), LeftN(b % 16, 0))
    BY <1>1, TwiceNibbles, XorBNibbles
  <2>. QED BY <1>2, <1>3, <2>1, <2>2, LeftNXor
<1> HIDE DEF left, right
<1>6. left = right
  BY <1>1, <1>4, <1>5, SameNibbles
<1>. QED BY <1>6 DEF left, right

\* The highest bit decides.
LEMMA HighIs ==
  ASSUME NEW a \in Byte
  PROVE  /\ High(a) \in Bit /\ (a < 128) = (High(a) = 0)
         /\ a < 128 => 2 * a = Twice(a)
BY DEF High, B3, Bit, Byte, Twice

\* Highest bits add up.
LEMMA HighXor ==
  ASSUME NEW a \in Byte, NEW b \in Byte
  PROVE  High(XorB(a, b)) = Sum2(High(a), High(b))
BY XorBNibbles, ByteNibbles, XorNBits DEF High

\* 27, or nothing.
Reduction(c) == IF c = 0 THEN 0 ELSE 27

\* xtime of FIPS 197, as a sum.
LEMMA Times2Is ==
  ASSUME NEW a \in Byte
  PROVE  Times2(a) = XorB(Twice(a), Reduction(High(a)))
<1>1. CASE a < 128
  <2>1. Times2(a) = Twice(a) /\ Reduction(High(a)) = 0
    BY <1>1, HighIs DEF Times2, Reduction
  <2>. QED BY <2>1, TwiceNibbles, XorBFacts
<1>2. CASE ~(a < 128)
  <2>1. Times2(a) = XorB(Twice(a), 27) /\ Reduction(High(a)) = 27
    BY <1>2, HighIs DEF Times2, Reduction, Twice, Plus
  <2>. QED BY <2>1
<1>. QED BY <1>1, <1>2

\* Sums can be exchanged.
LEMMA Exchange ==
  ASSUME NEW a \in Byte, NEW b \in Byte, NEW c \in Byte, NEW d \in Byte
  PROVE  XorB(XorB(a, b), XorB(c, d)) = XorB(XorB(a, c), XorB(b, d))
<1>1. \A x, y \in Byte : XorB(x, y) \in Byte /\ XorB(x, y) = XorB(y, x)
  BY XorBFacts
<1>2. \A x, y, z \in Byte : XorB(XorB(x, y), z) = XorB(x, XorB(y, z))
  BY XorBFacts
<1>3. XorB(XorB(a, b), XorB(c, d)) = XorB(a, XorB(b, XorB(c, d)))
  BY <1>1, <1>2
<1>4. XorB(b, XorB(c, d)) = XorB(c, XorB(b, d))
  BY <1>1, <1>2
<1>5. XorB(XorB(a, c), XorB(b, d)) = XorB(a, XorB(c, XorB(b, d)))
  BY <1>1, <1>2
<1>. QED BY <1>3, <1>4, <1>5

\* xtime is additive.
LEMMA Times2Adds ==
  ASSUME NEW a \in Byte, NEW b \in Byte
  PROVE  Times2(XorB(a, b)) = XorB(Times2(a), Times2(b))
<1> DEFINE s == Reduction(High(a))
           t == Reduction(High(b))
<1>1. High(a) \in Bit /\ High(b) \in Bit
  BY HighIs
<1>2. s \in Byte /\ t \in Byte
  BY DEF Reduction, Byte
<1>3. Reduction(Sum2(High(a), High(b))) = XorB(s, t)
  <2>1. \A x \in Byte : XorB(x, x) = 0 /\ XorB(x, 0) = x /\ XorB(0, x) = x
    BY XorBFacts
  <2>2. Sum2(0, 0) = 0 /\ Sum2(0, 1) = 1 /\ Sum2(1, 0) = 1 /\ Sum2(1, 1) = 0
    BY DEF Sum2
  <2>3. XorB(0, 0) = 0 /\ XorB(0, 27) = 27 /\ XorB(27, 0) = 27 /\ XorB(27, 27) = 0
    BY <2>1 DEF Byte
  <2>. QED BY <1>1, <2>2, <2>3 DEF Reduction, Bit
<1>4. XorB(a, b) \in Byte /\ Twice(a) \in Byte /\ Twice(b) \in Byte
  BY XorBFacts, TwiceNibbles
<1>5. Times2(XorB(a, b)) = XorB(XorB(Twice(a), Twice(b)), XorB(s, t))
  BY <1>3, <1>4, Times2Is, TwiceXor, HighXor
<1>6. Times2(a) = XorB(Twice(a), s) /\ Times2(b) = XorB(Twice(b), t)
  BY Times2Is
<1>. HIDE DEF s, t
<1>. QED BY <1>2, <1>4, <1>5, <1>6, Exchange

\* A step is additive in both numbers.
StepOfSum(n, i, a, b) ==
  \A x, y \in Byte :
    TimesStep(n, XorB(a, b), i, XorB(x, y)) = XorB(TimesStep(n, a, i, x), TimesStep(n, b, i, y))

\* Each of the eight steps is.
LEMMA StepAdds ==
  ASSUME NEW n \in Nat, NEW i \in 1..8, NEW a \in Byte, NEW b \in Byte
  PROVE  StepOfSum(n, i, a, b)
<1> SUFFICES ASSUME NEW x \in Byte, NEW y \in Byte
             PROVE  TimesStep(n, XorB(a, b), i, XorB(x, y))
                      = XorB(TimesStep(n, a, i, x), TimesStep(n, b, i, y))
  BY DEF StepOfSum
<1> DEFINE p == Times2(x)
           q == Times2(y)
<1>1. p \in Byte /\ q \in Byte /\ Times2(XorB(x, y)) = XorB(p, q)
  BY Times2Facts, Times2Adds
<1>. HIDE DEF p, q
<1>2. XorB(XorB(p, q), XorB(a, b)) = XorB(XorB(p, a), XorB(q, b))
  BY <1>1, Exchange
<1>3. CASE (n \div 2^(8 - i)) % 2 = 1
  <2>1. /\ TimesStep(n, a, i, x) = XorB(p, a) /\ TimesStep(n, b, i, y) = XorB(q, b)
        /\ TimesStep(n, XorB(a, b), i, XorB(x, y)) = XorB(XorB(p, q), XorB(a, b))
    BY <1>1, <1>3 DEF TimesStep, Plus, p, q
  <2>. QED BY <1>2, <2>1
<1>4. CASE (n \div 2^(8 - i)) % 2 # 1
  BY <1>1, <1>4 DEF TimesStep, p, q
<1>. QED BY <1>3, <1>4

\* The product is additive: the field is distributive.
LEMMA TimesAdds ==
  ASSUME NEW n \in Nat, NEW a \in Byte, NEW b \in Byte
  PROVE  Times(n, XorB(a, b)) = XorB(Times(n, a), Times(n, b))
<1>0. XorB(a, b) \in Byte
  BY XorBFacts
<1>1. PICK f \in [0..8 -> Byte] : /\ f[0] = 0 /\ Times(n, a) = f[8]
                                  /\ \A i \in 1..8 : f[i] = TimesStep(n, a, i, f[i - 1])
  BY TimesIs
<1>2. PICK g \in [0..8 -> Byte] : /\ g[0] = 0 /\ Times(n, b) = g[8]
                                  /\ \A i \in 1..8 : g[i] = TimesStep(n, b, i, g[i - 1])
  BY TimesIs
<1>3. PICK h \in [0..8 -> Byte] : /\ h[0] = 0 /\ Times(n, XorB(a, b)) = h[8]
                                  /\ \A i \in 1..8 : h[i] = TimesStep(n, XorB(a, b), i, h[i - 1])
  BY <1>0, TimesIs
<1> DEFINE same == [i \in 0..8 |-> IF h[i] = XorB(f[i], g[i]) THEN 1 ELSE 0]
           One == {1}
<1>4. same[0] \in One
  <2>1. 0 \in Byte
    BY DEF Byte
  <2>. QED BY <1>1, <1>2, <1>3, <2>1, XorBFacts
<1>5. ASSUME NEW i \in 1..8, same[i - 1] \in One PROVE same[i] \in One
  <2>1. i \in 0..8 /\ i - 1 \in 0..8
    OBVIOUS
  <2>2. PICK x \in Byte : x = f[i - 1]
    BY <2>1
  <2>3. PICK y \in Byte : y = g[i - 1]
    BY <2>1
  <2>4. h[i - 1] = XorB(x, y)
    BY <1>5, <2>1, <2>2, <2>3
  <2>5. /\ f[i] = TimesStep(n, a, i, x) /\ g[i] = TimesStep(n, b, i, y)
        /\ h[i] = TimesStep(n, XorB(a, b), i, XorB(x, y))
    BY <1>1, <1>2, <1>3, <2>2, <2>3, <2>4
  <2>6. h[i] = XorB(f[i], g[i])
    <3>1. StepOfSum(n, i, a, b)
      BY StepAdds
    <3>. QED BY <2>5, <3>1 DEF StepOfSum
  <2>. QED BY <2>1, <2>6
<1>. HIDE DEF same, One
<1>6. \A i \in 0..8 : same[i] \in One
  BY <1>4, <1>5, AllIn
<1>7. h[8] = XorB(f[8], g[8])
  BY <1>6 DEF same, One
<1>. QED BY <1>1, <1>2, <1>3, <1>7

-----------------------------------------------------------------------------
(* AES: InvMixColumns undoes MixColumns. *)

\* Sums of words can be exchanged.
LEMMA ExchangeW ==
  ASSUME NEW a \in Word, NEW b \in Word, NEW c \in Word, NEW d \in Word
  PROVE  XorW(XorW(a, b), XorW(c, d)) = XorW(XorW(a, c), XorW(b, d))
<1>1. \A x, y \in Word : XorW(x, y) \in Word /\ XorW(x, y) = XorW(y, x)
  BY XorWFacts
<1>2. \A x, y, z \in Word : XorW(XorW(x, y), z) = XorW(x, XorW(y, z))
  BY XorWFacts
<1>3. XorW(XorW(a, b), XorW(c, d)) = XorW(a, XorW(b, XorW(c, d)))
  BY <1>1, <1>2
<1>4. XorW(b, XorW(c, d)) = XorW(c, XorW(b, d))
  BY <1>1, <1>2
<1>5. XorW(XorW(a, c), XorW(b, d)) = XorW(a, XorW(c, XorW(b, d)))
  BY <1>1, <1>2
<1>. QED BY <1>3, <1>4, <1>5

\* What is added twice is gone.
LEMMA XorTwice ==
  ASSUME NEW u \in Word, NEW k \in Word
  PROVE  XorW(XorW(u, k), k) = u
<1>1. \A x \in Byte : XorB(x, x) = 0
  BY XorBFacts
<1>2. XorW(k, k) = Zero
  BY <1>1, WordIs DEF XorW, Zero
<1>. QED BY <1>2, XorWFacts

\* Mixing adds up.
LEMMA MixAdds ==
  ASSUME NEW m, Coefficients(m), NEW u \in Word, NEW v \in Word
  PROVE  MixColumn(m, XorW(u, v)) = XorW(MixColumn(m, u), MixColumn(m, v))
<1> DEFINE x == XorW(u, v)
           l == MixColumn(m, x)
           p == MixColumn(m, u)
           q == MixColumn(m, v)
<1>1. x \in Word /\ \A k \in 1..4 : x[k] = XorB(u[k], v[k])
  BY XorWFacts DEF XorW
<1>2. l \in Word /\ p \in Word /\ q \in Word
  BY <1>1, MixColumnInWord
<1>3. ASSUME NEW i \in 1..4, NEW k \in 1..4
      PROVE  Term(m, i, k, x[k]) = XorB(Term(m, i, k, u[k]), Term(m, i, k, v[k]))
  <2>1. ((k - i + 4) % 4) + 1 \in {1, 2, 3, 4}
    OBVIOUS
  <2>2. m[((k - i + 4) % 4) + 1] \in Nat
    BY <2>1 DEF Coefficients
  <2>3. u[k] \in Byte /\ v[k] \in Byte
    BY DEF Word
  <2>. QED BY <1>1, <2>2, <2>3, TimesAdds DEF Term
<1>4. ASSUME NEW i \in 1..4 PROVE l[i] = XorB(p[i], q[i])
  <2> DEFINE f(k) == Term(m, i, k, u[k])
             g(k) == Term(m, i, k, v[k])
             h(k) == Term(m, i, k, x[k])
  <2>1. \A k \in 1..4 : f(k) \in Byte /\ g(k) \in Byte /\ h(k) = XorB(f(k), g(k))
    BY <1>3, TermFacts DEF Word
  <2>2. /\ l[i] = XorB(XorB(h(1), h(2)), XorB(h(3), h(4)))
        /\ p[i] = XorB(XorB(f(1), f(2)), XorB(f(3), f(4)))
        /\ q[i] = XorB(XorB(g(1), g(2)), XorB(g(3), g(4)))
    BY MixColumnIs
  <2>. HIDE DEF f, g, h
  <2>3. \A a, b, c, d \in Byte :
          XorB(a, b) \in Byte /\ XorB(XorB(a, b), XorB(c, d)) = XorB(XorB(a, c), XorB(b, d))
    BY XorBFacts, Exchange
  <2>4. /\ XorB(h(1), h(2)) = XorB(XorB(f(1), f(2)), XorB(g(1), g(2)))
        /\ XorB(h(3), h(4)) = XorB(XorB(f(3), f(4)), XorB(g(3), g(4)))
    BY <2>1, <2>3
  <2>5. /\ XorB(f(1), f(2)) \in Byte /\ XorB(g(1), g(2)) \in Byte
        /\ XorB(f(3), f(4)) \in Byte /\ XorB(g(3), g(4)) \in Byte
    BY <2>1, <2>3
  <2>. QED BY <2>2, <2>3, <2>4, <2>5
<1>. HIDE DEF l, p, q
<1>5. l = XorW(p, q)
  BY <1>2, <1>4, WordIs DEF XorW
<1>. QED BY <1>5 DEF l, p, q, x

\* A column of zeros but one byte is unmixed from what it is mixed to: a fact
\* about each byte at each place; so is every column.
LEMMA Unmixed ==
  ASSUME NEW u \in Word
  PROVE  MixColumn(Unmixing, MixColumn(Mixing, u)) = u
<1> DEFINE M(v) == MixColumn(Mixing, v)
           U(v) == MixColumn(Unmixing, v)
           o(j) == Only(j, u[j])
<1>1. \A j \in 1..4 : o(j) \in Word /\ U(M(o(j))) = o(j)
  <2>1. \A j \in 1..4 : u[j] \in Byte
    BY DEF Word
  <2>. QED BY <2>1, OnlyIs, TablesAssumption
<1>2. \A v \in Word : M(v) \in Word /\ U(v) \in Word
  BY MixingCoefficients, MixColumnInWord
<1>3. \A v, x \in Word : U(XorW(v, x)) = XorW(U(v), U(x))
  BY MixingCoefficients, MixAdds
<1>4. M(u) = XorW(XorW(M(o(1)), M(o(2))), XorW(M(o(3)), M(o(4))))
  BY MixingCoefficients, MixSum
<1>5. u = XorW(XorW(o(1), o(2)), XorW(o(3), o(4)))
  <2>1. /\ u[1] \in Byte /\ u[2] \in Byte /\ u[3] \in Byte /\ u[4] \in Byte
        /\ u = <<u[1], u[2], u[3], u[4]>>
    BY WordIs
  <2>2. \A x \in Byte : XorB(x, 0) = x /\ XorB(0, x) = x
    BY XorBFacts
  <2>3. XorB(0, 0) = 0
    BY <2>2 DEF Byte
  <2>4. \A j \in 1..4, k \in 1..4 : o(j)[k] = IF k = j THEN u[j] ELSE 0
    <3>1. \A j \in 1..4 : u[j] \in Byte
      BY DEF Word
    <3>. QED BY <3>1, OnlyIs
  <2>. HIDE DEF o
  <2>5. XorW(o(1), o(2)) = <<u[1], u[2], 0, 0>>
    BY <2>1, <2>2, <2>3, <2>4 DEF XorW
  <2>6. XorW(o(3), o(4)) = <<0, 0, u[3], u[4]>>
    BY <2>1, <2>2, <2>3, <2>4 DEF XorW
  <2>. QED BY <2>1, <2>2, <2>5, <2>6 DEF XorW
<1>. HIDE DEF M, U, o
<1>6. /\ M(o(1)) \in Word /\ M(o(2)) \in Word /\ M(o(3)) \in Word /\ M(o(4)) \in Word
      /\ U(M(o(1))) = o(1) /\ U(M(o(2))) = o(2) /\ U(M(o(3))) = o(3) /\ U(M(o(4))) = o(4)
  BY <1>1, <1>2
<1>7. XorW(M(o(1)), M(o(2))) \in Word /\ XorW(M(o(3)), M(o(4))) \in Word
  BY <1>6, XorWFacts
<1>8. U(M(u)) = u
  BY <1>3, <1>4, <1>5, <1>6, <1>7
<1>. QED BY <1>8 DEF U, M

-----------------------------------------------------------------------------
(* AES: a round backwards. *)

\* A block after the substitution and the shift, which the words of the
\* decryption are.
Covered(s) == ShiftRows(SubBytes(s))

\* The bytes a round of the decryption takes for column c: those that came
\* from column c.
LEMMA SourceBack ==
  ASSUME phase = "dec", w \in Words, NEW s \in Block, Joined(w) = Covered(s), NEW c \in 0..3
  PROVE  /\ Source(c, 0) = SBox[column(s, c)[1] + 1] /\ Source(c, 1) = SBox[column(s, c)[2] + 1]
         /\ Source(c, 2) = SBox[column(s, c)[3] + 1] /\ Source(c, 3) = SBox[column(s, c)[4] + 1]
<1>1. \A j \in 0..3 : (c + (4 - j)) % 4 \in 0..3 /\ (((c + (4 - j)) % 4) + j) % 4 = c
  OBVIOUS
<1>2. \A j \in 0..3 : Source(c, j) = w[((c + (4 - j)) % 4) + 1][j + 1]
  BY DEF Source
<1>3. \A k \in 0..3 : w[k + 1] = Moved(s, k)
  BY WordsJoined, MovedIs DEF Covered
<1>4. \A j \in 0..3 : Source(c, j) = Moved(s, (c + (4 - j)) % 4)[j + 1]
  BY <1>1, <1>2, <1>3
<1>5. \A k \in 0..3 :
        /\ Moved(s, k)[0 + 1] = SBox[column(s, k)[1] + 1]
        /\ Moved(s, k)[1 + 1] = SBox[column(s, (k + 1) % 4)[2] + 1]
        /\ Moved(s, k)[2 + 1] = SBox[column(s, (k + 2) % 4)[3] + 1]
        /\ Moved(s, k)[3 + 1] = SBox[column(s, (k + 3) % 4)[4] + 1]
  BY DEF Moved
<1>6. /\ Source(c, 0) = Moved(s, (c + (4 - 0)) % 4)[0 + 1]
      /\ Source(c, 1) = Moved(s, (c + (4 - 1)) % 4)[1 + 1]
      /\ Source(c, 2) = Moved(s, (c + (4 - 2)) % 4)[2 + 1]
      /\ Source(c, 3) = Moved(s, (c + (4 - 3)) % 4)[3 + 1]
  BY <1>4
<1>7. /\ (c + (4 - 0)) % 4 = c
      /\ (((c + (4 - 1)) % 4) + 1) % 4 = c /\ (((c + (4 - 2)) % 4) + 2) % 4 = c
      /\ (((c + (4 - 3)) % 4) + 3) % 4 = c
      /\ (c + (4 - 1)) % 4 \in 0..3 /\ (c + (4 - 2)) % 4 \in 0..3 /\ (c + (4 - 3)) % 4 \in 0..3
  OBVIOUS
<1>. QED BY <1>5, <1>6, <1>7

\* AES_ROUND and AES_FINAL_ROUND of the decryption: a column before the substitution.
LEMMA RoundBack ==
  ASSUME phase = "dec", w \in Words, NEW s \in Block, Joined(w) = Covered(s), NEW c \in 0..3, NEW k
  PROVE  /\ AES_ROUND(c, k) = XorW(MixColumn(Unmixing, column(s, c)), k)
         /\ AES_FINAL_ROUND(c, k) = XorW(column(s, c), k)
<1> DEFINE v == column(s, c)
<1>1. /\ v = <<v[1], v[2], v[3], v[4]>>
      /\ v[1] \in Byte /\ v[2] \in Byte /\ v[3] \in Byte /\ v[4] \in Byte
  BY Column, WordIs
<1>2. /\ Source(c, 0) = SBox[v[1] + 1] /\ Source(c, 1) = SBox[v[2] + 1]
      /\ Source(c, 2) = SBox[v[3] + 1] /\ Source(c, 3) = SBox[v[4] + 1]
  BY SourceBack
<1>. HIDE DEF v
<1>3. AES_ROUND(c, k) = XorW(XorW(XorW(TableWord(itable0, Source(c, 0)), TableWord(itable1, Source(c, 1))),
                                  XorW(TableWord(itable2, Source(c, 2)), TableWord(itable3, Source(c, 3)))), k)
  BY DEF AES_ROUND, T, DecryptTable
<1>4. AES_FINAL_ROUND(c, k)
        = XorW(<<isbox[Source(c, 0) + 1], isbox[Source(c, 1) + 1],
                 isbox[Source(c, 2) + 1], isbox[Source(c, 3) + 1]>>, k)
  BY DEF AES_FINAL_ROUND, T, DecryptTable
<1>5. \A x \in Byte : isbox[SBox[x + 1] + 1] = x
  BY TablesAssumption DEF TablesAreFips
<1>6. AES_ROUND(c, k) = XorW(MixColumn(Unmixing, v), k)
  <2>1. XorW(XorW(TableWord(itable0, SBox[v[1] + 1]), TableWord(itable1, SBox[v[2] + 1])),
             XorW(TableWord(itable2, SBox[v[3] + 1]), TableWord(itable3, SBox[v[4] + 1])))
          = MixColumn(Unmixing, <<v[1], v[2], v[3], v[4]>>)
    BY <1>1, TableRoundBack
  <2>. QED BY <1>1, <1>2, <1>3, <2>1
<1>7. AES_FINAL_ROUND(c, k) = XorW(v, k)
  BY <1>1, <1>2, <1>4, <1>5
<1>. QED BY <1>6, <1>7 DEF v

\* A pass of the loop of the decryption takes one round of the encryption back.
LEMMA RoundBackIs ==
  ASSUME phase = "dec", w \in Words, index \in Nat, index < rounds, rounds \in Nat,
         NEW s \in Block, NEW ks, FourKeys(ks, rounds - index),
         Joined(w) = Covered(RoundOf(s, ks, rounds, rounds - index)),
         index # 0, \A c \in 1..4 : keys[4 * index + c] = MixColumn(Unmixing, ks[4 * (rounds - index) + c]),
         Round
  PROVE  w' \in Words /\ Joined(w') = Covered(s)
<1> DEFINE i == rounds - index
           t == RoundOf(s, ks, rounds, i)
           u == Covered(s)
<1>0. i \in Nat /\ i # rounds
  OBVIOUS
<1>1. t \in Block /\ u \in Block
  BY <1>0, RoundInBlock, MovedIs DEF Covered
<1>2. w' = [c \in 1..4 |-> AES_ROUND(c - 1, keys[4 * index + c])]
  BY DEF Round
<1>3. ASSUME NEW c \in 0..3 PROVE w'[c + 1] = column(u, c) /\ column(u, c) \in Word
  <2> DEFINE k == ks[4 * i + c + 1]
             v == Moved(s, c)
             M(x) == MixColumn(Mixing, x)
             U(x) == MixColumn(Unmixing, x)
  <2>1. c + 1 \in 1..4 /\ (c + 1) - 1 = c /\ 4 * index + (c + 1) = 4 * index + c + 1
        /\ 4 * i + (c + 1) = 4 * i + c + 1
    BY <1>0
  <2>2. k \in Word
    BY <2>1 DEF FourKeys
  <2>3. keys[4 * index + c + 1] = U(k)
    BY <2>1
  <2>4. w'[c + 1] = XorW(U(column(t, c)), U(k))
    BY <1>1, <1>2, <2>1, <2>3, RoundBack
  <2>5. column(t, c) = XorW(M(v), k)
    BY <1>0, RoundColumn
  <2>6. column(u, c) = v /\ v \in Word
    BY MovedIs, MovedInWord DEF Covered
  <2>7. M(v) \in Word /\ U(k) \in Word /\ U(M(v)) = v
    BY <2>2, <2>6, MixingCoefficients, MixColumnInWord, Unmixed
  <2>8. U(XorW(M(v), k)) = XorW(U(M(v)), U(k))
    BY <2>2, <2>7, MixingCoefficients, MixAdds
  <2>9. XorW(XorW(v, U(k)), U(k)) = v
    BY <2>6, <2>7, XorTwice
  <2>. HIDE DEF U, M, v, k, t, u
  <2>. QED BY <2>4, <2>5, <2>6, <2>7, <2>8, <2>9
<1>. HIDE DEF u
<1>4. \A c \in 1..4 : c - 1 \in 0..3 /\ (c - 1) + 1 = c
  OBVIOUS
<1>5. w' \in Words
  <2>1. \A c \in 1..4 : w'[c] \in Word
    BY <1>3, <1>4
  <2>2. w' = [c \in 1..4 |-> w'[c]]
    BY <1>2
  <2>. QED BY <2>1, <2>2 DEF Words
<1>6. Joined(w') = u
  BY <1>1, <1>3, <1>5, WordsAre
<1>. QED BY <1>5, <1>6 DEF u

\* The last round does not mix.
LEMMA LastColumn ==
  ASSUME NEW s \in Block, NEW ks, NEW n \in Nat, FourKeys(ks, n), NEW c \in 0..3
  PROVE  column(RoundOf(s, ks, n, n), c) = XorW(Moved(s, c), ks[4 * n + c + 1])
BY RoundColumn

\* Loading for the decryption takes the last key back.
LEMMA LoadBackIs ==
  ASSUME Input \in Seq(Byte), NEW o \in Nat, o = Len(out[phase]), o + 16 <= Len(Input),
         FourKeys(keys, 0), rounds \in Nat, NEW s \in Block, NEW ks, FourKeys(ks, rounds),
         BlockAt(Input, o) = RoundOf(s, ks, rounds, rounds),
         \A c \in 1..4 : keys[c] = ks[4 * rounds + c],
         Load
  PROVE  w' \in Words /\ Joined(w') = Covered(s)
<1> DEFINE b == RoundOf(s, ks, rounds, rounds)
           t == AddRoundKey(b, keys, 0)
           u == Covered(s)
<1>1. w' \in Words /\ Joined(w') = t
  BY LoadIs
<1>2. b \in Block /\ u \in Block
  BY RoundInBlock, MovedIs DEF Covered
<1>3. t \in Block /\ \A c \in 0..3 : column(t, c) = XorW(column(b, c), keys[4 * 0 + c + 1])
  <2>. HIDE DEF b
  <2>1. 0 \in Nat
    OBVIOUS
  <2>. QED BY <1>2, <2>1, AddKeyIs
<1>4. ASSUME NEW c \in 0..3 PROVE column(t, c) = column(u, c)
  <2> DEFINE k == ks[4 * rounds + c + 1]
             v == Moved(s, c)
  <2>1. c + 1 \in 1..4 /\ 4 * 0 + c + 1 = c + 1 /\ 4 * rounds + (c + 1) = 4 * rounds + c + 1
    OBVIOUS
  <2>2. k \in Word
    BY <2>1 DEF FourKeys
  <2>3. column(b, c) = XorW(v, k)
    BY LastColumn
  <2>4. column(u, c) = v /\ v \in Word
    BY MovedIs, MovedInWord DEF Covered
  <2>0. keys[c + 1] = ks[4 * rounds + (c + 1)]
    BY <2>1
  <2>5. keys[4 * 0 + c + 1] = k
    BY <2>0, <2>1, Zenon
  <2>6. column(t, c) = XorW(column(b, c), keys[4 * 0 + c + 1])
    BY <1>3
  <2>. HIDE DEF k, v, t, u, b
  <2>. QED BY <2>2, <2>3, <2>4, <2>5, <2>6, XorTwice
<1>5. t = u
  <2>. HIDE DEF t, u
  <2>. QED BY <1>2, <1>3, <1>4, SameColumns
<1>. QED BY <1>1, <1>5

\* The end of a block of the decryption appends the block of the text.
LEMMA FinalBackIs ==
  ASSUME phase = "dec", w \in Words, rounds \in Nat, index = rounds,
         NEW s \in Block, NEW ks, FourKeys(ks, 0),
         Joined(w) = Covered(AddRoundKey(s, ks, 0)),
         \A c \in 1..4 : keys[4 * rounds + c] = ks[c],
         Halves(out), out.dec \in Seq(Byte), FinalRound
  PROVE  /\ Extended(out'.dec, out.dec, s)
         /\ out'.enc = out.enc /\ Halves(out')
<1> DEFINE t == AddRoundKey(s, ks, 0)
           f(c) == AES_FINAL_ROUND(c, keys[4 * index + c + 1])
           q == out.dec \o f(0) \o f(1) \o f(2) \o f(3)
<1>1. t \in Block /\ \A c \in 0..3 : column(t, c) = XorW(column(s, c), ks[4 * 0 + c + 1])
  BY AddKeyIs
<1>2. ASSUME NEW c \in 0..3 PROVE f(c) = column(s, c)
  <2> DEFINE k == ks[c + 1]
  <2>1. c + 1 \in 1..4 /\ 4 * 0 + (c + 1) = c + 1 /\ 4 * 0 + c + 1 = c + 1
        /\ 4 * rounds + (c + 1) = 4 * rounds + c + 1
    OBVIOUS
  <2>2. k \in Word /\ keys[4 * index + c + 1] = k
    BY <2>1 DEF FourKeys
  <2>3. f(c) = XorW(column(t, c), k)
    BY <1>1, <2>2, RoundBack
  <2>4. column(t, c) = XorW(column(s, c), k)
    BY <1>1, <2>1
  <2>5. column(s, c) \in Word
    BY Column
  <2>. HIDE DEF f, t, k
  <2>. QED BY <2>2, <2>3, <2>4, <2>5, XorTwice
<1>3. out' = [out EXCEPT !["dec"] = q]
  BY DEF FinalRound
<1>. HIDE DEF f, t
<1>4. q = out.dec \o column(s, 0) \o column(s, 1) \o column(s, 2) \o column(s, 3)
  <2>1. f(0) = column(s, 0) /\ f(1) = column(s, 1) /\ f(2) = column(s, 2) /\ f(3) = column(s, 3)
    BY <1>2
  <2>. QED BY <2>1
<1>. HIDE DEF q
<1>5. Extended(q, out.dec, s)
  BY <1>4, BlockAppended
<1>6. out' = [enc |-> out.enc, dec |-> q]
  BY <1>3 DEF Halves
<1>. QED BY <1>5, <1>6 DEF Halves

-----------------------------------------------------------------------------
(* AES: the keys of the decryption. *)

\* The word n of the keys of the decryption comes from the word Mirror of
\* those of the encryption.
Mirror(n, last) == 4 * (last - (n - 1) \div 4) + ((n - 1) % 4) + 1

\* The groups up to the word i from both ends have changed places.
Swapped(ek, dk, last, i) ==
  \A n \in 1..4 * (last + 1) :
    dk[n] = ek[IF n <= i \/ n > 4 * (last + 1) - i THEN Mirror(n, last) ELSE n]

\* All have, and the words from the fifth to the word i are unmixed.
MixedTo(ek, dk, last, i) ==
  \A n \in 1..4 * (last + 1) :
    dk[n] = IF n \in 5..i THEN MixColumn(Unmixing, ek[Mirror(n, last)]) ELSE ek[Mirror(n, last)]

\* The numbers of rounds.
RoundNumbers == {10, 12, 14}

\* The keys for a number of rounds.
KeysFor(ks, last) == ks \in Seq(Word) /\ Len(ks) = 4 * (last + 1)

\* They are even: there is a group in the middle.
LEMMA EvenRounds ==
  ASSUME NEW last \in RoundNumbers
  PROVE  \E h \in Nat : last = 2 * h
<1>1. 5 \in Nat /\ 6 \in Nat /\ 7 \in Nat /\ (last = 2 * 5 \/ last = 2 * 6 \/ last = 2 * 7)
  BY DEF RoundNumbers
<1>. QED BY <1>1

\* The mirror of a word is a word of the keys.
LEMMA MirrorIs ==
  ASSUME NEW last \in RoundNumbers, NEW n \in 1..4 * (last + 1)
  PROVE  Mirror(n, last) \in 1..4 * (last + 1)
<1>1. last \in Nat
  BY DEF RoundNumbers
<1>. QED BY <1>1 DEF Mirror

\* A pass of the loop that swaps the groups.
Exchanged(dk, last, i) ==
  [k \in DOMAIN dk |-> IF k \in i + 1..i + 4 THEN dk[k - i + (4 * last - i)]
                       ELSE IF k \in 4 * last - i + 1..4 * last - i + 4 THEN dk[k - (4 * last - i) + i]
                       ELSE dk[k]]

\* Two groups more have changed places.
LEMMA SwapStep ==
  ASSUME NEW last \in RoundNumbers, NEW i \in Nat, i % 4 = 0, i < 4 * last - i,
         NEW ek, NEW dk, KeysFor(dk, last), Swapped(ek, dk, last, i)
  PROVE  /\ KeysFor(Exchanged(dk, last, i), last) /\ Swapped(ek, Exchanged(dk, last, i), last, i + 4)
         /\ i + 4 \in 0..2 * last /\ (i + 4) % 4 = 0
<1> DEFINE total == 4 * (last + 1)
           j == 4 * last - i
           new == Exchanged(dk, last, i)
<1>0. last \in Nat /\ total \in Nat /\ j \in Nat /\ i < j /\ i + j = 4 * last /\ total = 4 * last + 4
  BY DEF RoundNumbers
<1>1. PICK g \in Nat : i = 4 * g
  <2>1. i \div 4 \in Nat /\ i = 4 * (i \div 4)
    OBVIOUS
  <2>. QED BY <2>1
<1>2. i + 4 \in 0..2 * last /\ (i + 4) % 4 = 0 /\ i + 4 <= j
  <2>1. PICK h \in Nat : last = 2 * h
    BY EvenRounds
  <2>. QED BY <1>0, <1>1, <2>1
<1>3. dk \in [1..total -> Word]
  BY LenProperties DEF KeysFor
<1>4. new = [k \in 1..total |-> IF k \in i + 1..i + 4 THEN dk[k - i + j]
                                ELSE IF k \in j + 1..j + 4 THEN dk[k - j + i] ELSE dk[k]]
  BY <1>3 DEF Exchanged
<1>. HIDE DEF new, total, j
<1>5. \A k \in 1..total : /\ k \in i + 1..i + 4 => k - i + j \in 1..total
                          /\ k \in j + 1..j + 4 => k - j + i \in 1..total
  BY <1>0, <1>2
<1>6. new \in [1..total -> Word]
  BY <1>3, <1>4, <1>5
<1>7. new \in Seq(Word) /\ Len(new) = total
  BY <1>0, <1>6, SeqOfLength
<1>8. ASSUME NEW n \in 1..total
      PROVE  new[n] = ek[IF n <= i + 4 \/ n > total - (i + 4) THEN Mirror(n, last) ELSE n]
  <2>1. \A m \in 1..total : dk[m] = ek[IF m <= i \/ m > total - i THEN Mirror(m, last) ELSE m]
    BY DEF Swapped, total
  <2>2. CASE n \in i + 1..i + 4
    <3>1. n - i + j \in 1..total /\ ~(n - i + j <= i) /\ ~(n - i + j > total - i)
      BY <1>0, <1>2, <2>2
    <3>2. new[n] = ek[n - i + j]
      BY <1>4, <2>1, <2>2, <3>1
    <3>3. Mirror(n, last) = n - i + j
      BY <1>0, <1>1, <2>2 DEF Mirror
    <3>. QED BY <2>2, <3>2, <3>3
  <2>3. CASE n \in j + 1..j + 4
    <3>1. n - j + i \in 1..total /\ ~(n - j + i <= i) /\ ~(n - j + i > total - i)
          /\ ~(n \in i + 1..i + 4) /\ n > total - (i + 4)
      BY <1>0, <1>2, <2>3
    <3>2. new[n] = ek[n - j + i]
      BY <1>4, <2>1, <2>3, <3>1
    <3>3. Mirror(n, last) = n - j + i
      BY <1>0, <1>1, <2>3 DEF Mirror
    <3>. QED BY <2>3, <3>1, <3>2, <3>3
  <2>4. CASE ~(n \in i + 1..i + 4) /\ ~(n \in j + 1..j + 4)
    <3>1. (n <= i + 4 \/ n > total - (i + 4)) = (n <= i \/ n > total - i)
      BY <1>0, <1>2, <2>4
    <3>. QED BY <1>4, <2>1, <2>4, <3>1
  <2>. QED BY <2>2, <2>3, <2>4
<1>9. Swapped(ek, new, last, i + 4)
  BY <1>8 DEF Swapped, total
<1>. QED BY <1>2, <1>7, <1>9 DEF KeysFor, total, new

\* The group in the middle is its own mirror.
LEMMA SwapEnds ==
  ASSUME NEW last \in RoundNumbers, NEW i \in 0..2 * last, ~(i < 4 * last - i),
         NEW ek, NEW dk, Swapped(ek, dk, last, i)
  PROVE  MixedTo(ek, dk, last, 4)
<1>0. PICK h \in Nat : last = 2 * h
  BY EvenRounds
<1>1. i = 4 * h
  BY <1>0
<1>2. ASSUME NEW n \in 1..4 * (last + 1) PROVE dk[n] = ek[Mirror(n, last)]
  <2>1. CASE n <= i \/ n > 4 * (last + 1) - i
    BY <2>1 DEF Swapped
  <2>2. CASE ~(n <= i \/ n > 4 * (last + 1) - i)
    <3>1. Mirror(n, last) = n
      BY <1>0, <1>1, <2>2 DEF Mirror
    <3>. QED BY <2>2, <3>1 DEF Swapped
  <2>. QED BY <2>1, <2>2
<1>3. \A n \in 1..4 * (last + 1) : ~(n \in 5..4)
  OBVIOUS
<1>. QED BY <1>2, <1>3 DEF MixedTo

\* The keys of an encryption that are copied are mirrored at once.
LEMMA Inverted ==
  ASSUME NEW last \in RoundNumbers, NEW ek, KeysFor(ek, last), NEW dk,
         dk = [k \in 1..4 * (last + 1) |-> ek[4 * (last - (k - 1) \div 4) + ((k - 1) % 4) + 1]]
  PROVE  KeysFor(dk, last) /\ MixedTo(ek, dk, last, 4)
<1> DEFINE total == 4 * (last + 1)
<1>0. last \in Nat /\ total \in Nat
  BY DEF RoundNumbers
<1>1. \A n \in 1..total : dk[n] = ek[Mirror(n, last)]
  BY DEF Mirror
<1>2. ek \in [1..total -> Word]
  BY LenProperties DEF KeysFor
<1>3. dk \in [1..total -> Word]
  <2>1. \A n \in 1..total : dk[n] \in Word
    BY <1>1, <1>2, MirrorIs
  <2>. QED BY <2>1
<1>4. KeysFor(dk, last)
  <2>1. dk \in Seq(Word) /\ Len(dk) = total
    <3>. HIDE DEF total
    <3>. QED BY <1>0, <1>3, SeqOfLength
  <2>. QED BY <2>1 DEF KeysFor
<1>5. \A n \in 1..total : ~(n \in 5..4)
  OBVIOUS
<1>. QED BY <1>1, <1>4, <1>5 DEF MixedTo

\* One word more is unmixed.
LEMMA MixStep ==
  ASSUME NEW last \in RoundNumbers, NEW i \in 4..4 * last, i < 4 * last, NEW ek, NEW dk,
         KeysFor(ek, last), KeysFor(dk, last), MixedTo(ek, dk, last, i)
  PROVE  LET new == [dk EXCEPT ![i + 1] = MIX_COLUMN(@)]
         IN KeysFor(new, last) /\ MixedTo(ek, new, last, i + 1)
<1> DEFINE total == 4 * (last + 1)
           new == [dk EXCEPT ![i + 1] = MIX_COLUMN(@)]
<1>0. last \in Nat /\ total \in Nat /\ i + 1 \in 1..total
  BY DEF RoundNumbers
<1>1. dk \in [1..total -> Word] /\ ek \in [1..total -> Word]
  BY LenProperties DEF KeysFor
<1>2. dk[i + 1] \in Word /\ MIX_COLUMN(dk[i + 1]) = MixColumn(Unmixing, dk[i + 1])
  BY <1>0, <1>1, KeyUnmixed
<1>3. MIX_COLUMN(dk[i + 1]) \in Word
  BY <1>2, MixingCoefficients, MixColumnInWord
<1>4. new \in [1..total -> Word]
  BY <1>0, <1>1, <1>3
<1>5. KeysFor(new, last)
  BY <1>0, <1>4, SeqOfLength DEF KeysFor
<1>6. dk[i + 1] = ek[Mirror(i + 1, last)]
  BY <1>0 DEF MixedTo
<1>7. ASSUME NEW n \in 1..total
      PROVE  new[n] = IF n \in 5..i + 1 THEN MixColumn(Unmixing, ek[Mirror(n, last)])
                      ELSE ek[Mirror(n, last)]
  <2>1. CASE n = i + 1
    <3>1. n \in 5..i + 1 /\ new[n] = MIX_COLUMN(dk[i + 1])
      BY <1>0, <1>1, <2>1
    <3>. QED BY <1>2, <1>6, <2>1, <3>1
  <2>2. CASE n # i + 1
    <3>1. new[n] = dk[n] /\ (n \in 5..i + 1) = (n \in 5..i)
      BY <1>1, <2>2
    <3>. QED BY <3>1 DEF MixedTo
  <2>. QED BY <2>1, <2>2
<1>. HIDE DEF new
<1>8. MixedTo(ek, new, last, i + 1)
  BY <1>7 DEF MixedTo
<1>. QED BY <1>5, <1>8 DEF new

\* The keys of the decryption, group by group.
InGroups(ek, dk, last) ==
  \A g \in 0..last, c \in 1..4 :
    dk[4 * g + c] = IF g \in {0, last} THEN ek[4 * (last - g) + c]
                    ELSE MixColumn(Unmixing, ek[4 * (last - g) + c])

\* The end of the loop that unmixes: all groups are what the decryption needs.
LEMMA DecGroups ==
  ASSUME NEW last \in RoundNumbers, NEW ek, NEW dk, MixedTo(ek, dk, last, 4 * last)
  PROVE  InGroups(ek, dk, last)
<1> SUFFICES ASSUME NEW g \in 0..last, NEW c \in 1..4
             PROVE  dk[4 * g + c] = IF g \in {0, last} THEN ek[4 * (last - g) + c]
                                    ELSE MixColumn(Unmixing, ek[4 * (last - g) + c])
  BY DEF InGroups
<1>0. last \in Nat
  BY DEF RoundNumbers
<1>1. 4 * g + c \in 1..4 * (last + 1) /\ Mirror(4 * g + c, last) = 4 * (last - g) + c
  BY <1>0 DEF Mirror
<1>2. (4 * g + c \in 5..4 * last) = ~(g \in {0, last})
  BY <1>0, <1>1
<1>. QED BY <1>1, <1>2 DEF MixedTo

\* Keys, group by group.
LEMMA KeysInGroups ==
  ASSUME NEW last \in RoundNumbers, NEW ks, KeysFor(ks, last)
  PROVE  KeysTo(ks, last) /\ \A g \in 0..last : FourKeys(ks, g)
<1>0. last \in Nat
  BY DEF RoundNumbers
<1>1. ks \in [1..4 * (last + 1) -> Word]
  BY LenProperties DEF KeysFor
<1>2. \A g \in 0..last : FourKeys(ks, g)
  <2> SUFFICES ASSUME NEW g \in 0..last, NEW c \in 1..4 PROVE ks[4 * g + c] \in Word
    BY DEF FourKeys
  <2>1. 4 * g + c \in 1..4 * (last + 1)
    BY <1>0
  <2>. QED BY <1>1, <2>1
<1>. QED BY <1>2 DEF KeysTo

-----------------------------------------------------------------------------
(* AES: the invariant, and the calls. *)

\* What a call of the library has to bring: a key as long as its size says,
\* if that size is one at all.
JobIsSound(j) ==
  /\ j.text \in Seq(Byte) /\ j.invert \in BOOLEAN
  /\ j.keysize \in 16..32 => j.key \in Seq(Byte) /\ 4 * nk(j.keysize) <= Len(j.key)

\* The numbers of FIPS 197 for the key of the job.
Nk == nk(job.keysize)

\* ... and of rounds.
Nr == nr(job.keysize)

\* What a context of the library holds.
Schedules == [rounds : Nat, keys : Seq(Word)]

\* Types, and which half of the benchmark is at which step.
AesShape ==
  /\ phase \in {"enc", "dec"}
  /\ at \in {"idle", "set_key", "expand", "swap", "mix", "check", "block", "round", "done", "exit"}
  /\ at \in {"swap", "mix", "done"} => phase = "dec"
  /\ at \in {"idle", "exit"} => phase = "enc"
  /\ ctx \in [enc : Schedules, dec : Schedules]
  /\ out \in [enc : Seq(Byte), dec : Seq(Byte)]
  /\ phase = "enc" => out.dec = <<>>
  /\ at \in {"set_key", "expand", "swap", "mix", "check"} => out[phase] = <<>>

\* The keys, loop by loop.
Expanding ==
  /\ rounds = Nr /\ index \in Nat /\ Nk <= index /\ index <= Whole(Nk)
  /\ rp = (index - 1) \div Nk
  /\ KeyWords(keys, job.key, Nk, index)
  /\ phase = "dec" => \A n \in 1..index : ctx.dec.keys[n] = ctx.enc.keys[n]

\* The whole schedule of the encryption.
EncKeys == ctx.enc.rounds = Nr /\ KeyWords(ctx.enc.keys, job.key, Nk, Whole(Nk))

\* The number of keys of the decryption.
DecKeys == ctx.dec.rounds = Nr /\ KeysFor(ctx.dec.keys, Nr)

\* What the keys of the two contexts are at each step.
KeysAreRight ==
  /\ (phase = "dec" \/ at \in {"expand", "check", "block", "round"}) => job.keysize \in 16..32
  /\ (phase = "dec" \/ at \in {"check", "block", "round"}) => EncKeys
  /\ at = "expand" => Expanding
  /\ at = "swap" =>
       DecKeys /\ index \in 0..2 * Nr /\ index % 4 = 0
       /\ Swapped(ctx.enc.keys, ctx.dec.keys, Nr, index)
  /\ at = "mix" =>
       DecKeys /\ index \in 4..4 * Nr /\ MixedTo(ctx.enc.keys, ctx.dec.keys, Nr, index)
  /\ (phase = "dec" /\ at \in {"check", "block", "round", "done"}) =>
       DecKeys /\ MixedTo(ctx.enc.keys, ctx.dec.keys, Nr, 4 * Nr)

\* The blocks of the sequence q are those of the text after all rounds; q is
\* the text again.
Encrypted(q, text, ks, last) ==
  /\ Len(q) % 16 = 0 /\ Len(q) <= Len(text)
  /\ \A o \in Nat : o % 16 = 0 /\ o + 16 <= Len(q) =>
       BlockAt(q, o) = Rounds(BlockAt(text, o), ks, last, last)
Decrypted(q, text) ==
  /\ Len(q) % 16 = 0 /\ Len(q) <= Len(text)
  /\ \A i \in 1..Len(q) : q[i] = text[i]

\* The block behind o, after n rounds.
After(o, n) == Rounds(BlockAt(job.text, o), ctx.enc.keys, Nr, n)

\* What the texts and the four words are at each step.
BlocksAreRight ==
  /\ (phase = "dec" \/ at \in {"block", "round"}) =>
       Length % 16 = 0 /\ Encrypted(out.enc, job.text, ctx.enc.keys, Nr)
  /\ phase = "dec" => Len(out.enc) = Length /\ Decrypted(out.dec, job.text)
  /\ at = "done" => Len(out.dec) = Length
  /\ at = "round" =>
       /\ w \in Words /\ index \in 1..Nr /\ Len(out[phase]) < Length
       /\ phase = "enc" => Joined(w) = After(Len(out.enc), index - 1)
       /\ phase = "dec" => Joined(w) = Covered(After(Len(out.dec), Nr - index))

\* The inductive invariant of the benchmark.
AesInvariant == AesShape /\ KeysAreRight /\ BlocksAreRight

\* A size that the library takes has a schedule.
LEMMA KeyNumbers ==
  ASSUME JobIsSound(job), job.keysize \in 16..32
  PROVE  /\ Nk \in KeyLengths /\ Nr \in RoundNumbers /\ Whole(Nk) = 4 * (Nr + 1)
         /\ Nk \in Nat /\ Nr \in Nat /\ Nk <= Whole(Nk)
         /\ job.key \in Seq(Byte) /\ 4 * Nk <= Len(job.key)
BY DEF JobIsSound, Nk, Nr, nk, nr, KeyLengths, RoundNumbers, Whole

\* What depends on the job alone stays with it.
LEMMA JobStays ==
  ASSUME job' = job
  PROVE  Nk' = Nk /\ Nr' = Nr /\ Length' = Length
BY DEF Nk, Nr, Length

\* A schedule that is complete is enough for every round.
LEMMA EncKeysUsable ==
  ASSUME JobIsSound(job), job.keysize \in 16..32, EncKeys
  PROVE  KeysFor(ctx.enc.keys, Nr) /\ KeysTo(ctx.enc.keys, Nr)
         /\ \A g \in 0..Nr : FourKeys(ctx.enc.keys, g)
<1>1. KeysFor(ctx.enc.keys, Nr)
  BY KeyNumbers DEF EncKeys, KeyWords, KeysFor
<1>. QED BY <1>1, KeyNumbers, KeysInGroups

\* It holds in the beginning.
LEMMA AesBegins ==
  ASSUME AesInit
  PROVE  AesInvariant
<1>1. <<>> \in Seq(Word) /\ <<>> \in Seq(Byte) /\ 0 \in Nat
  BY EmptySeq
<1>2. ctx \in [enc : Schedules, dec : Schedules]
  BY <1>1 DEF AesInit, NoKeys, Schedules
<1>3. out \in [enc : Seq(Byte), dec : Seq(Byte)] /\ out.dec = <<>>
  BY <1>1 DEF AesInit
<1>4. phase = "enc" /\ at = "idle"
  BY DEF AesInit
<1>. QED BY <1>2, <1>3, <1>4 DEF AesInvariant, AesShape, KeysAreRight, BlocksAreRight

\* The call of the benchmark.
LEMMA CallKeeps ==
  ASSUME AesInvariant, AesCall
  PROVE  AesInvariant'
<1>1. <<>> \in Seq(Byte)
  BY EmptySeq
<1>2. phase' = "enc" /\ at' = "set_key" /\ out' = [enc |-> <<>>, dec |-> <<>>] /\ ctx' = ctx
  BY DEF AesCall
<1>3. AesShape'
  BY <1>1, <1>2 DEF AesInvariant, AesShape
<1>4. KeysAreRight'
  BY <1>2 DEF KeysAreRight
<1>5. BlocksAreRight'
  BY <1>2 DEF BlocksAreRight
<1>. QED BY <1>3, <1>4, <1>5 DEF AesInvariant

\* Nothing is encrypted rightly, and decrypted rightly.
LEMMA NothingYet ==
  ASSUME NEW q, q = <<>>, NEW text \in Seq(Byte), NEW ks, NEW last
  PROVE  Encrypted(q, text, ks, last) /\ Decrypted(q, text)
<1>1. Len(q) = 0 /\ Len(text) \in Nat
  BY LenProperties, EmptySeq
<1>2. Len(q) % 16 = 0 /\ Len(q) <= Len(text)
  BY <1>1
<1>3. \A o \in Nat : ~(o + 16 <= Len(q))
  BY <1>1
<1>4. \A i \in 1..Len(q) : FALSE
  BY <1>1
<1>. QED BY <1>2, <1>3, <1>4 DEF Encrypted, Decrypted

\* The assertion on the length.
LEMMA CheckKeeps ==
  ASSUME JobIsSound(job), AesInvariant, Check
  PROVE  AesInvariant'
<1>1. /\ at = "check" /\ UNCHANGED <<job, phase, index, rp, ctx, w, out>>
      /\ at' = IF Length % 16 = 0 THEN "block" ELSE "exit"
  BY DEF Check, AES_BLOCK_SIZE
<1>2. Nk' = Nk /\ Nr' = Nr /\ Length' = Length
  BY <1>1, JobStays
<1>3. out[phase] = <<>> 
  BY <1>1 DEF AesInvariant, AesShape
<1>4. AesShape'
  BY <1>1 DEF AesInvariant, AesShape, BlocksAreRight
<1>5. KeysAreRight'
  BY <1>1, <1>2 DEF AesInvariant, AesShape, KeysAreRight, EncKeys, DecKeys
<1>6. at' = "block" /\ phase = "enc" => Encrypted(out.enc, job.text, ctx.enc.keys, Nr)
  <2>1. job.text \in Seq(Byte)
    BY DEF JobIsSound
  <2>2. phase = "enc" => out.enc = <<>>
    BY <1>3
  <2>. QED BY <2>1, <2>2, NothingYet
<1>7. BlocksAreRight'
  BY <1>1, <1>2, <1>6 DEF AesInvariant, AesShape, BlocksAreRight
<1>. QED BY <1>4, <1>5, <1>7 DEF AesInvariant

\* The end of the encryption and that of the decryption.
LEMMA EndOfHalfKeeps ==
  ASSUME JobIsSound(job), AesInvariant, EndOfHalf
  PROVE  AesInvariant'
<1>1. /\ at = "block" /\ UNCHANGED <<job, index, rp, ctx, w, out>> /\ Len(out[phase]) = Length
      /\ phase' = "dec" /\ at' = IF phase = "enc" THEN "set_key" ELSE "done"
  BY DEF EndOfHalf, AesInvariant, AesShape
<1>2. Nk' = Nk /\ Nr' = Nr /\ Length' = Length
  BY <1>1, JobStays
<1>3. phase = "enc" => out.dec = <<>>
  BY DEF AesInvariant, AesShape
<1>4. AesShape'
  BY <1>1, <1>3 DEF AesInvariant, AesShape
<1>5. KeysAreRight'
  BY <1>1, <1>2 DEF AesInvariant, AesShape, KeysAreRight, EncKeys, DecKeys
<1>6. phase = "enc" => Decrypted(out.dec, job.text)
  <2>1. job.text \in Seq(Byte)
    BY DEF JobIsSound
  <2>. QED BY <1>3, <2>1, NothingYet
<1>7. BlocksAreRight'
  BY <1>1, <1>2, <1>6 DEF AesInvariant, AesShape, BlocksAreRight
<1>. QED BY <1>4, <1>5, <1>7 DEF AesInvariant

-----------------------------------------------------------------------------
(* AES: _aes_set_key. *)

\* A change of the keys of the half, and only that.
LEMMA NewSchedule ==
  ASSUME AesInvariant, NEW s \in Schedules, NEW c, c = [ctx EXCEPT ![phase] = s]
  PROVE  /\ c \in [enc : Schedules, dec : Schedules] /\ c[phase] = s
         /\ phase = "dec" => c.enc = ctx.enc
<1>1. phase \in {"enc", "dec"} /\ ctx \in [enc : Schedules, dec : Schedules]
  BY DEF AesInvariant, AesShape
<1>2. CASE phase = "enc"
  BY <1>1, <1>2
<1>3. CASE phase = "dec"
  BY <1>1, <1>3
<1>. QED BY <1>1, <1>2, <1>3

\* New keys for the half, and only that.
LEMMA NewKeys ==
  ASSUME AesInvariant, NEW ks \in Seq(Word), NEW c, c = [ctx EXCEPT ![phase].keys = ks]
  PROVE  /\ c \in [enc : Schedules, dec : Schedules]
         /\ c[phase].keys = ks /\ c[phase].rounds = rounds
         /\ phase = "dec" => c.enc = ctx.enc
<1> DEFINE old == ctx[phase]
           s == [old EXCEPT !.keys = ks]
<1>1. old \in Schedules
  BY DEF AesInvariant, AesShape
<1>2. c = [ctx EXCEPT ![phase] = s]
  OBVIOUS
<1>. HIDE DEF old
<1>3. s \in Schedules /\ s.keys = ks /\ s.rounds = old.rounds
  BY <1>1 DEF Schedules
<1>. HIDE DEF s
<1>. QED BY <1>2, <1>3, NewSchedule DEF rounds, old

\* The blocks are the same while keys of the decryption are made.
LEMMA BlocksStayRight ==
  ASSUME AesInvariant, UNCHANGED <<job, phase, w, out>>, at' \notin {"block", "round", "done"},
         phase = "dec" => ctx'.enc = ctx.enc
  PROVE  BlocksAreRight'
<1>1. Nk' = Nk /\ Nr' = Nr /\ Length' = Length
  BY JobStays
<1>2. phase \in {"enc", "dec"}
  BY DEF AesInvariant, AesShape
<1>3. CASE phase = "enc"
  BY <1>3 DEF BlocksAreRight
<1>4. CASE phase = "dec"
  BY <1>1, <1>4 DEF AesInvariant, BlocksAreRight
<1>. QED BY <1>2, <1>3, <1>4

\* The entry, with the assertions on the size of the key.
LEMMA SetKeyKeeps ==
  ASSUME JobIsSound(job), AesInvariant, SetKey
  PROVE  AesInvariant'
<1> DEFINE ks == [k \in 1..Nk |-> LE_READ_UINT32(job.key, 4 * (k - 1))]
           s == [rounds |-> Nr, keys |-> ks]
<1>1. /\ at = "set_key" /\ ~(phase = "dec" /\ job.invert) /\ UNCHANGED <<job, phase, w, out>> /\ rp' = 0
      /\ job.keysize \in 16..32 => ctx' = [ctx EXCEPT ![phase] = s] /\ index' = Nk /\ at' = "expand"
      /\ job.keysize \notin 16..32 => at' = "exit" /\ UNCHANGED <<ctx, index>>
  BY DEF SetKey, Nk, Nr
<1>2. Nk' = Nk /\ Nr' = Nr /\ Length' = Length
  BY <1>1, JobStays
<1>3. phase \in {"enc", "dec"}
  BY DEF AesInvariant, AesShape
<1>. HIDE DEF s, ks
<1>4. CASE job.keysize \in 16..32
  <2>1. /\ Nk \in KeyLengths /\ Nr \in RoundNumbers /\ Whole(Nk) = 4 * (Nr + 1)
        /\ Nk \in Nat /\ Nr \in Nat /\ Nk <= Whole(Nk)
        /\ job.key \in Seq(Byte) /\ 4 * Nk <= Len(job.key)
    BY <1>4, KeyNumbers
  <2>2. KeyWords(ks, job.key, Nk, Nk)
    BY <2>1, KeyWordsBegin DEF ks
  <2>3. ks \in Seq(Word) /\ \A n \in 1..Nk : ks[n] = SubSeq(job.key, 4 * n - 3, 4 * n)
    <3>1. \A n \in 1..Nk : n <= Nk
      BY <2>1
    <3>. QED BY <2>2, <3>1 DEF KeyWords
  <2>4. s \in Schedules /\ s.rounds = Nr /\ s.keys = ks
    BY <2>1, <2>3 DEF s, Schedules
  <2>5. /\ ctx' \in [enc : Schedules, dec : Schedules] /\ ctx'[phase] = s
        /\ phase = "dec" => ctx'.enc = ctx.enc
    BY <1>1, <1>4, <2>4, NewSchedule
  <2>6. AesShape'
    BY <1>1, <1>4, <2>5 DEF AesInvariant, AesShape
  <2>7. Expanding'
    <3>1. 0 = (Nk - 1) \div Nk
      BY <2>1 DEF KeyLengths
    <3>2. phase = "dec" => \A n \in 1..Nk : ctx'.dec.keys[n] = ctx'.enc.keys[n]
      <4>1. SUFFICES ASSUME phase = "dec", NEW n \in 1..Nk PROVE ctx'.dec.keys[n] = ctx'.enc.keys[n]
        OBVIOUS
      <4>2. n \in 1..Whole(Nk) /\ n <= Nk
        BY <2>1
      <4>3. ctx.enc.keys[n] = SubSeq(job.key, 4 * n - 3, 4 * n)
        BY <4>1, <4>2 DEF AesInvariant, KeysAreRight, EncKeys, KeyWords
      <4>. QED BY <2>3, <2>4, <2>5, <4>1, <4>3
    <3>. QED BY <1>1, <1>2, <1>4, <2>1, <2>2, <2>4, <2>5, <3>1, <3>2 DEF Expanding, rounds, keys
  <2>8. KeysAreRight'
    BY <1>1, <1>2, <1>3, <1>4, <2>5, <2>7 DEF AesInvariant, KeysAreRight, EncKeys
  <2>9. BlocksAreRight'
    BY <1>1, <1>4, <2>5, BlocksStayRight
  <2>. QED BY <2>6, <2>8, <2>9 DEF AesInvariant
<1>5. CASE job.keysize \notin 16..32
  <2>1. phase = "enc"
    BY <1>3, <1>5 DEF AesInvariant, KeysAreRight
  <2>2. AesShape'
    BY <1>1, <1>5, <2>1 DEF AesInvariant, AesShape
  <2>3. KeysAreRight'
    BY <1>1, <1>5, <2>1 DEF KeysAreRight
  <2>4. BlocksAreRight'
    BY <1>1, <1>5, <2>1 DEF BlocksAreRight
  <2>. QED BY <2>2, <2>3, <2>4 DEF AesInvariant
<1>. QED BY <1>4, <1>5

\* The loop of the key schedule.
LEMMA ExpandKeeps ==
  ASSUME JobIsSound(job), AesInvariant, ExpandKey
  PROVE  AesInvariant'
<1> DEFINE ks == keys
           x == Scheduled(Nk, ks[index - Nk + 1], ks[index], index)
           kx == Append(ks, x)
<1>1. /\ at = "expand" /\ index < 4 * (rounds + 1) /\ UNCHANGED <<job, phase, at, w, out>>
      /\ ctx' = [ctx EXCEPT ![phase].keys =
                   Append(@, XorW(@[index - Nk + 1], Expanded(Nk, @[index])))]
      /\ rp' = (IF index % Nk = 0 THEN rp + 1 ELSE rp) /\ index' = index + 1
  BY DEF ExpandKey, Nk
<1>2. Nk' = Nk /\ Nr' = Nr /\ Length' = Length
  BY <1>1, JobStays
<1>3. /\ phase \in {"enc", "dec"} /\ ctx \in [enc : Schedules, dec : Schedules]
      /\ job.keysize \in 16..32 /\ Expanding
  BY <1>1 DEF AesInvariant, AesShape, KeysAreRight
<1>4. /\ Nk \in KeyLengths /\ Nr \in RoundNumbers /\ Whole(Nk) = 4 * (Nr + 1)
      /\ Nk \in Nat /\ Nr \in Nat /\ Nk <= Whole(Nk)
  BY <1>3, KeyNumbers
<1>5. /\ index \in Nat /\ Nk <= index /\ index < Whole(Nk) /\ rp = (index - 1) \div Nk
      /\ rounds = Nr /\ KeyWords(ks, job.key, Nk, index)
  BY <1>1, <1>3, <1>4 DEF Expanding
<1>6. ctx' = [ctx EXCEPT ![phase].keys =
                Append(ks, XorW(ks[index - Nk + 1], Expanded(Nk, ks[index])))]
  <2>1. ctx[phase].keys = ks
    BY DEF keys
  <2>. QED BY <1>1, <1>3, <2>1
<1>. HIDE DEF ks
<1>7. ks \in Seq(Word) /\ Len(ks) = index
  BY <1>5 DEF KeyWords
<1>8. index - Nk + 1 \in 1..index /\ index \in 1..index
  BY <1>4, <1>5, Constants
<1>9. ks[index - Nk + 1] \in Word /\ ks[index] \in Word
  BY <1>7, <1>8, ElementOfSeq
<1>10. XorW(ks[index - Nk + 1], Expanded(Nk, ks[index])) = x
  BY <1>4, <1>5, <1>9, ExpandedIs
<1>. HIDE DEF x
<1>11. ctx' = [ctx EXCEPT ![phase].keys = kx]
  BY <1>6, <1>10
<1>12. KeyWords(kx, job.key, Nk, index + 1)
  BY <1>4, <1>5, KeyWordsGoOn DEF x
<1>13. kx \in Seq(Word) /\ (\A n \in 1..index : kx[n] = ks[n]) /\ kx[index + 1] = x
  <2>1. x \in Word
    BY <1>4, <1>5, <1>9, Constants, ScheduledIs DEF x
  <2>. QED BY <1>7, <2>1, AppendProperties
<1>. HIDE DEF kx
<1>14. /\ ctx' \in [enc : Schedules, dec : Schedules]
       /\ ctx'[phase].keys = kx /\ ctx'[phase].rounds = rounds
       /\ phase = "dec" => ctx'.enc = ctx.enc
  BY <1>11, <1>13, NewKeys
<1>15. AesShape'
  BY <1>1, <1>14 DEF AesInvariant, AesShape
<1>16. rp' = ((index + 1) - 1) \div Nk
  <2>1. (index + 1) - 1 = index
    BY <1>5
  <2>. QED BY <1>1, <1>4, <1>5, <2>1, Constants
<1>17. phase = "dec" => \A n \in 1..index + 1 : ctx'.dec.keys[n] = ctx'.enc.keys[n]
  <2>1. SUFFICES ASSUME phase = "dec", NEW n \in 1..index + 1
                 PROVE  ctx'.dec.keys[n] = ctx'.enc.keys[n]
    OBVIOUS
  <2>2. ctx'.dec.keys = kx /\ ctx'.enc = ctx.enc /\ ks = ctx.dec.keys
    BY <1>14, <2>1 DEF ks, keys
  <2>3. \A m \in 1..index : ks[m] = ctx.enc.keys[m]
    BY <1>3, <2>1, <2>2 DEF Expanding
  <2>4. CASE n \in 1..index
    BY <1>13, <2>2, <2>3, <2>4
  <2>5. CASE n = index + 1
    <3> DEFINE ek == ctx.enc.keys
    <3>1. KeyWords(ek, job.key, Nk, Whole(Nk))
      BY <2>1 DEF AesInvariant, KeysAreRight, EncKeys
    <3>. HIDE DEF ek
    <3>2. n \in 1..Whole(Nk) /\ ~(n <= Nk) /\ n - 1 = index
      BY <1>4, <1>5, <2>5
    <3>3. ek[n] = NextWord(Nk, ek, index)
      BY <3>1, <3>2 DEF KeyWords
    <3>4. index % Nk = 0 => index \div Nk \in 1..10
      BY <1>4, <1>5, Constants
    <3>5. NextWord(Nk, ek, index) = Scheduled(Nk, ek[index - Nk + 1], ek[index], index)
      BY <1>4, <1>5, <3>4, NextWordIs
    <3>6. ek[index - Nk + 1] = ks[index - Nk + 1] /\ ek[index] = ks[index]
      BY <1>8, <2>3 DEF ek
    <3>7. ek[n] = x
      BY <3>3, <3>5, <3>6 DEF x
    <3>. QED BY <1>13, <2>2, <2>5, <3>7 DEF ek
  <2>. QED BY <1>5, <2>1, <2>4, <2>5
<1>18. Expanding'
  <2>1. index + 1 \in Nat /\ Nk <= index + 1 /\ index + 1 <= Whole(Nk)
    BY <1>4, <1>5
  <2>2. rounds' = Nr /\ keys' = kx
    BY <1>1, <1>5, <1>14 DEF rounds, keys
  <2>. QED BY <1>1, <1>2, <1>12, <1>16, <1>17, <2>1, <2>2 DEF Expanding
<1>19. KeysAreRight'
  BY <1>1, <1>2, <1>3, <1>14, <1>18 DEF AesInvariant, KeysAreRight, EncKeys
<1>20. BlocksAreRight'
  BY <1>1, <1>14, BlocksStayRight
<1>. QED BY <1>15, <1>19, <1>20 DEF AesInvariant

\* Its end.
LEMMA ExpandedKeeps ==
  ASSUME JobIsSound(job), AesInvariant, KeysExpanded
  PROVE  AesInvariant'
<1>1. /\ at = "expand" /\ index = 4 * (rounds + 1) /\ UNCHANGED <<job, phase, rp, ctx, w, out>>
      /\ index' = 0 /\ at' = IF phase = "enc" THEN "check" ELSE "swap"
  BY DEF KeysExpanded
<1>2. Nk' = Nk /\ Nr' = Nr /\ Length' = Length
  BY <1>1, JobStays
<1>3. phase \in {"enc", "dec"} /\ job.keysize \in 16..32 /\ Expanding
  BY <1>1 DEF AesInvariant, AesShape, KeysAreRight
<1>4. Nr \in RoundNumbers /\ Whole(Nk) = 4 * (Nr + 1) /\ Nr \in Nat
  BY <1>3, KeyNumbers
<1>5. index = Whole(Nk) /\ rounds = Nr /\ KeyWords(keys, job.key, Nk, Whole(Nk))
  BY <1>1, <1>3, <1>4 DEF Expanding
<1>6. AesShape'
  BY <1>1, <1>3 DEF AesInvariant, AesShape
<1>7. BlocksAreRight'
  BY <1>1, BlocksStayRight
<1>8. CASE phase = "enc"
  <2>1. EncKeys
    BY <1>5, <1>8 DEF EncKeys, keys, rounds
  <2>. QED BY <1>1, <1>2, <1>3, <1>6, <1>7, <1>8, <2>1 DEF AesInvariant, KeysAreRight, EncKeys
<1>9. CASE phase = "dec"
  <2>1. DecKeys
    BY <1>4, <1>5, <1>9 DEF DecKeys, keys, rounds, KeyWords, KeysFor
  <2>2. Swapped(ctx.enc.keys, ctx.dec.keys, Nr, 0)
    <3>1. \A n \in 1..4 * (Nr + 1) : ~(n <= 0 \/ n > 4 * (Nr + 1) - 0)
      BY <1>4
    <3>2. \A n \in 1..4 * (Nr + 1) : ctx.dec.keys[n] = ctx.enc.keys[n]
      BY <1>3, <1>4, <1>5, <1>9 DEF Expanding
    <3>. QED BY <3>1, <3>2 DEF Swapped
  <2>3. 0 \in 0..2 * Nr /\ 0 % 4 = 0
    BY <1>4
  <2>4. KeysAreRight'
    BY <1>1, <1>2, <1>3, <1>9, <2>1, <2>2, <2>3 DEF AesInvariant, KeysAreRight, EncKeys, DecKeys
  <2>. QED BY <1>6, <1>7, <2>4 DEF AesInvariant
<1>. QED BY <1>3, <1>8, <1>9

-----------------------------------------------------------------------------
(* AES: _nettle_aes_invert. *)

\* The loop that swaps the groups in place.
LEMMA SwapKeeps ==
  ASSUME JobIsSound(job), AesInvariant, SwapKeys
  PROVE  AesInvariant'
<1> DEFINE ek == ctx.enc.keys
           dk == ctx.dec.keys
           new == Exchanged(dk, Nr, index)
<1>1. /\ at = "swap" /\ phase = "dec" /\ job.keysize \in 16..32 /\ EncKeys /\ DecKeys
      /\ index \in 0..2 * Nr /\ index % 4 = 0 /\ Swapped(ek, dk, Nr, index)
  BY DEF SwapKeys, AesInvariant, AesShape, KeysAreRight
<1>2. /\ UNCHANGED <<job, phase, rp, w, out>>
      /\ index < 4 * Nr - index =>
           ctx' = [ctx EXCEPT ![phase].keys = new] /\ index' = index + 4 /\ at' = at
      /\ ~(index < 4 * Nr - index) => index' = 4 /\ at' = "mix" /\ ctx' = ctx
  <2>1. rounds = Nr /\ keys = dk
    BY <1>1 DEF DecKeys, rounds, keys
  <2>. QED BY <1>1, <2>1 DEF SwapKeys, Exchanged
<1>3. Nk' = Nk /\ Nr' = Nr /\ Length' = Length
  BY <1>2, JobStays
<1>4. Nr \in RoundNumbers /\ Nr \in Nat
  BY <1>1, KeyNumbers
<1>5. CASE index < 4 * Nr - index
  <2>1. /\ KeysFor(new, Nr) /\ Swapped(ek, new, Nr, index + 4)
        /\ index + 4 \in 0..2 * Nr /\ (index + 4) % 4 = 0
    <3>1. index \in Nat
      BY <1>1, <1>4
    <3>. QED BY <1>1, <1>4, <1>5, <3>1, SwapStep DEF DecKeys
  <2>. HIDE DEF new
  <2>2. /\ ctx' \in [enc : Schedules, dec : Schedules] /\ ctx'.enc = ctx.enc
        /\ ctx'.dec.keys = new /\ ctx'.dec.rounds = ctx.dec.rounds
    <3>1. new \in Seq(Word)
      BY <2>1 DEF KeysFor
    <3>. QED BY <1>1, <1>2, <1>5, <3>1, NewKeys DEF rounds
  <2>3. AesShape'
    BY <1>1, <1>2, <1>5, <2>2 DEF AesInvariant, AesShape
  <2>4. KeysAreRight'
    BY <1>1, <1>2, <1>3, <1>5, <2>1, <2>2 DEF KeysAreRight, EncKeys, DecKeys
  <2>5. BlocksAreRight'
    BY <1>1, <1>2, <1>5, <2>2, BlocksStayRight
  <2>. QED BY <2>3, <2>4, <2>5 DEF AesInvariant
<1>6. CASE ~(index < 4 * Nr - index)
  <2>1. MixedTo(ek, dk, Nr, 4)
    BY <1>1, <1>4, <1>6, SwapEnds
  <2>2. AesShape'
    BY <1>1, <1>2, <1>6 DEF AesInvariant, AesShape
  <2>3. 4 \in 4..4 * Nr
    BY <1>4 DEF RoundNumbers
  <2>4. KeysAreRight'
    BY <1>1, <1>2, <1>3, <1>6, <2>1, <2>3 DEF KeysAreRight, EncKeys, DecKeys
  <2>5. BlocksAreRight'
    BY <1>1, <1>2, <1>6, BlocksStayRight
  <2>. QED BY <2>2, <2>4, <2>5 DEF AesInvariant
<1>. QED BY <1>5, <1>6

\* The copy of the encryption's keys.
LEMMA InvertKeeps ==
  ASSUME JobIsSound(job), AesInvariant, InvertKey
  PROVE  AesInvariant'
<1> DEFINE ek == ctx.enc.keys
           dk == [k \in 1..4 * (Nr + 1) |-> ek[4 * (Nr - (k - 1) \div 4) + ((k - 1) % 4) + 1]]
           s == [rounds |-> Nr, keys |-> dk]
<1>1. at = "set_key" /\ phase = "dec" /\ job.keysize \in 16..32 /\ EncKeys
  BY DEF InvertKey, AesInvariant, KeysAreRight
<1>2. /\ ctx' = [ctx EXCEPT !.dec = s] /\ index' = 4 /\ at' = "mix"
      /\ UNCHANGED <<job, phase, rp, w, out>>
  BY <1>1 DEF InvertKey, EncKeys
<1>3. Nk' = Nk /\ Nr' = Nr /\ Length' = Length
  BY <1>2, JobStays
<1>4. Nr \in RoundNumbers /\ Nr \in Nat /\ KeysFor(ek, Nr)
  BY <1>1, KeyNumbers, EncKeysUsable
<1>5. KeysFor(dk, Nr) /\ MixedTo(ek, dk, Nr, 4)
  BY <1>4, Inverted
<1>. HIDE DEF dk
<1>6. s \in Schedules /\ s.rounds = Nr /\ s.keys = dk
  BY <1>4, <1>5 DEF KeysFor, Schedules
<1>. HIDE DEF s
<1>7. ctx' \in [enc : Schedules, dec : Schedules] /\ ctx'.dec = s /\ ctx'.enc = ctx.enc
  <2>1. ctx' = [ctx EXCEPT ![phase] = s]
    BY <1>1, <1>2
  <2>. QED BY <1>1, <1>6, <2>1, NewSchedule
<1>8. AesShape'
  BY <1>1, <1>2, <1>7 DEF AesInvariant, AesShape
<1>9. KeysAreRight'
  <2>1. 4 \in 4..4 * Nr
    BY <1>4 DEF RoundNumbers
  <2>. QED BY <1>1, <1>2, <1>3, <1>5, <1>6, <1>7, <2>1 DEF KeysAreRight, EncKeys, DecKeys
<1>10. BlocksAreRight'
  BY <1>1, <1>2, <1>7, BlocksStayRight
<1>. QED BY <1>8, <1>9, <1>10 DEF AesInvariant

\* The loop of MIX_COLUMN.
LEMMA MixKeeps ==
  ASSUME JobIsSound(job), AesInvariant, MixKeys
  PROVE  AesInvariant'
<1> DEFINE ek == ctx.enc.keys
           dk == ctx.dec.keys
           new == [dk EXCEPT ![index + 1] = MIX_COLUMN(@)]
<1>1. /\ at = "mix" /\ phase = "dec" /\ job.keysize \in 16..32 /\ EncKeys /\ DecKeys
      /\ index \in 4..4 * Nr /\ MixedTo(ek, dk, Nr, index)
  BY DEF MixKeys, AesInvariant, AesShape, KeysAreRight
<1>2. ctx \in [enc : Schedules, dec : Schedules] /\ rounds = Nr /\ keys = dk
  BY <1>1 DEF AesInvariant, AesShape, DecKeys, rounds, keys
<1>3. /\ UNCHANGED <<job, phase, rp, w, out>>
      /\ index < 4 * Nr => /\ ctx' = [ctx EXCEPT ![phase].keys[index + 1] = MIX_COLUMN(@)]
                           /\ index' = index + 1 /\ at' = at
      /\ ~(index < 4 * Nr) => index' = index /\ at' = "check" /\ ctx' = ctx
  BY <1>2 DEF MixKeys
<1>4. Nk' = Nk /\ Nr' = Nr /\ Length' = Length
  BY <1>3, JobStays
<1>5. Nr \in RoundNumbers /\ Nr \in Nat /\ KeysFor(ek, Nr)
  BY <1>1, KeyNumbers, EncKeysUsable
<1>6. CASE index < 4 * Nr
  <2>1. KeysFor(new, Nr) /\ MixedTo(ek, new, Nr, index + 1)
    BY <1>1, <1>5, <1>6, MixStep DEF DecKeys
  <2>2. ctx' = [ctx EXCEPT ![phase].keys = new]
    <3>1. ctx' = [ctx EXCEPT !["dec"].keys[index + 1] = MIX_COLUMN(@)]
      BY <1>1, <1>3, <1>6
    <3>2. ctx' = [ctx EXCEPT !["dec"].keys = new]
      BY <1>2, <3>1
    <3>. QED BY <1>1, <3>2
  <2>. HIDE DEF new
  <2>3. /\ ctx' \in [enc : Schedules, dec : Schedules] /\ ctx'.enc = ctx.enc
        /\ ctx'.dec.keys = new /\ ctx'.dec.rounds = ctx.dec.rounds
    <3>1. new \in Seq(Word)
      BY <2>1 DEF KeysFor
    <3>. QED BY <1>1, <2>2, <3>1, NewKeys DEF rounds
  <2>4. AesShape'
    BY <1>1, <1>3, <1>6, <2>3 DEF AesInvariant, AesShape
  <2>5. KeysAreRight'
    <3>1. index + 1 \in 4..4 * Nr
      BY <1>1, <1>5, <1>6
    <3>. QED BY <1>1, <1>3, <1>4, <1>6, <2>1, <2>3, <3>1 DEF KeysAreRight, EncKeys, DecKeys
  <2>6. BlocksAreRight'
    BY <1>1, <1>3, <1>6, <2>3, BlocksStayRight
  <2>. QED BY <2>4, <2>5, <2>6 DEF AesInvariant
<1>7. CASE ~(index < 4 * Nr)
  <2>1. index = 4 * Nr
    BY <1>1, <1>5, <1>7
  <2>2. AesShape'
    BY <1>1, <1>3, <1>7 DEF AesInvariant, AesShape
  <2>3. KeysAreRight'
    BY <1>1, <1>3, <1>4, <1>7, <2>1 DEF KeysAreRight, EncKeys, DecKeys
  <2>4. BlocksAreRight'
    BY <1>1, <1>3, <1>7, BlocksStayRight
  <2>. QED BY <2>2, <2>3, <2>4 DEF AesInvariant
<1>. QED BY <1>6, <1>7

-----------------------------------------------------------------------------
(* AES: the words of a block are loaded. *)

\* The keys stay as they are while blocks are worked on.
LEMMA KeysStayRight ==
  ASSUME AesInvariant, UNCHANGED <<job, phase, ctx>>, at \in {"block", "round"}, at' \in {"block", "round"}
  PROVE  KeysAreRight'
<1>1. Nk' = Nk /\ Nr' = Nr
  BY JobStays
<1>. QED BY <1>1 DEF AesInvariant, KeysAreRight, EncKeys, DecKeys

\* What is known while a block is worked on, or before one.
LEMMA Working ==
  ASSUME JobIsSound(job), AesInvariant, at \in {"block", "round"}
  PROVE  /\ phase \in {"enc", "dec"} /\ out \in [enc : Seq(Byte), dec : Seq(Byte)]
         /\ Nr \in RoundNumbers /\ Nr \in Nat /\ rounds = Nr /\ KeysFor(keys, Nr)
         /\ KeysTo(ctx.enc.keys, Nr) /\ KeysFor(ctx.enc.keys, Nr)
         /\ job.text \in Seq(Byte) /\ Length \in Nat
<1>1. job.keysize \in 16..32 /\ EncKeys /\ (phase = "dec" => DecKeys) /\ phase \in {"enc", "dec"}
  BY DEF AesInvariant, AesShape, KeysAreRight
<1>2. Nr \in RoundNumbers /\ Nr \in Nat /\ KeysFor(ctx.enc.keys, Nr) /\ KeysTo(ctx.enc.keys, Nr)
  BY <1>1, KeyNumbers, EncKeysUsable
<1>3. rounds = Nr /\ KeysFor(keys, Nr)
  BY <1>1, <1>2 DEF EncKeys, DecKeys, rounds, keys
<1>4. job.text \in Seq(Byte) /\ Length \in Nat
  BY LenProperties DEF JobIsSound, Length
<1>. QED BY <1>1, <1>2, <1>3, <1>4 DEF AesInvariant, AesShape

\* There is room for one more block.
LEMMA Room ==
  ASSUME NEW q, NEW text \in Seq(Byte), q \in Seq(Byte), Len(q) % 16 = 0, Len(text) % 16 = 0,
         Len(q) < Len(text)
  PROVE  Len(q) \in Nat /\ Len(q) + 16 <= Len(text) /\ (Len(q) + 16) % 16 = 0
<1>1. Len(q) \in Nat /\ Len(text) \in Nat
  BY LenProperties
<1>. QED BY <1>1

\* The block behind o and what each round makes of it.
Going(text, o, ks, last) ==
  /\ BlockAt(text, o) \in Block
  /\ Rounds(BlockAt(text, o), ks, last, 0) = AddRoundKey(BlockAt(text, o), ks, 0)
  /\ \A n \in 0..last : Rounds(BlockAt(text, o), ks, last, n) \in Block
  /\ \A n \in 1..last : Rounds(BlockAt(text, o), ks, last, n)
                          = RoundOf(Rounds(BlockAt(text, o), ks, last, n - 1), ks, last, n)

\* It is so for every block of a text.
LEMMA AfterIs ==
  ASSUME NEW text \in Seq(Byte), NEW o \in Nat, o + 16 <= Len(text), NEW last \in Nat, NEW ks, KeysTo(ks, last)
  PROVE  Going(text, o, ks, last)
<1> DEFINE b == BlockAt(text, o)
           after(n) == Rounds(b, ks, last, n)
<1>1. b \in Block
  BY BlockIs
<1>. HIDE DEF b
<1>2. \A n \in 0..last : KeysTo(ks, n)
  BY DEF KeysTo
<1>3. after(0) = AddRoundKey(b, ks, 0)
  <2>1. KeysTo(ks, 0)
    BY <1>2
  <2>. QED BY <1>1, <2>1, RoundsBegin
<1>4. ASSUME NEW n \in 0..last PROVE after(n) \in Block
  BY <1>1, <1>2, RoundsInBlock
<1>5. ASSUME NEW n \in 1..last PROVE after(n) = RoundOf(after(n - 1), ks, last, n)
  <2>1. n - 1 \in Nat /\ (n - 1) + 1 = n /\ n \in 0..last
    OBVIOUS
  <2> DEFINE m == n - 1
  <2>2. KeysTo(ks, m + 1) /\ m \in Nat
    BY <1>2, <2>1
  <2>. HIDE DEF m
  <2>3. Rounds(b, ks, last, m + 1) = RoundOf(Rounds(b, ks, last, m), ks, last, m + 1)
    BY <1>1, <2>2, RoundsGoOn
  <2>. QED BY <2>1, <2>3 DEF m
<1>. QED BY <1>1, <1>3, <1>4, <1>5 DEF b, Going

\* The load of a block.
LEMMA LoadKeeps ==
  ASSUME JobIsSound(job), AesInvariant, Load
  PROVE  AesInvariant'
<1> DEFINE o == Len(out[phase])
           ek == ctx.enc.keys
           after(n) == Rounds(BlockAt(job.text, o), ek, Nr, n)
<1>1. /\ at = "block" /\ o < Length /\ index' = 1 /\ at' = "round"
      /\ UNCHANGED <<job, phase, rp, ctx, out>>
  BY DEF Load
<1>2. /\ phase \in {"enc", "dec"} /\ out \in [enc : Seq(Byte), dec : Seq(Byte)]
      /\ Nr \in RoundNumbers /\ Nr \in Nat /\ rounds = Nr /\ KeysFor(keys, Nr)
      /\ KeysTo(ek, Nr) /\ KeysFor(ek, Nr) /\ job.text \in Seq(Byte) /\ Length \in Nat
  BY <1>1, Working
<1>3. /\ Length % 16 = 0 /\ Encrypted(out.enc, job.text, ek, Nr)
      /\ phase = "dec" => Len(out.enc) = Length /\ Decrypted(out.dec, job.text)
  BY <1>1 DEF AesInvariant, BlocksAreRight
<1>4. o \in Nat /\ o % 16 = 0 /\ o + 16 <= Length
  <2>1. out[phase] \in Seq(Byte) /\ Len(out[phase]) % 16 = 0
    BY <1>2, <1>3 DEF Encrypted, Decrypted
  <2>2. Length = Len(job.text)
    BY DEF Length
  <2>. QED BY <1>1, <1>2, <1>3, <2>1, <2>2, Room
<1>5. FourKeys(keys, 0)
  <2>1. 0 \in 0..Nr
    BY <1>2
  <2>. QED BY <1>2, <2>1, KeysInGroups
<1>6. /\ BlockAt(job.text, o) \in Block /\ after(0) = AddRoundKey(BlockAt(job.text, o), ek, 0)
      /\ \A n \in 0..Nr : after(n) \in Block
      /\ \A n \in 1..Nr : after(n) = RoundOf(after(n - 1), ek, Nr, n)
  <2>1. o + 16 <= Len(job.text)
    BY <1>4 DEF Length
  <2>2. Going(job.text, o, ek, Nr)
    <3>. HIDE DEF o, ek
    <3>. QED BY <1>2, <1>4, <2>1, AfterIs
  <2>. QED BY <2>2 DEF Going
<1>7. ASSUME phase = "enc" PROVE w' \in Words /\ Joined(w') = after(0)
  <2>1. Input \in Seq(Byte) /\ o + 16 <= Len(Input) /\ Input = job.text /\ keys = ek
    BY <1>2, <1>4, <1>7 DEF Input, Length, keys
  <2>2. w' \in Words /\ Joined(w') = AddRoundKey(BlockAt(Input, o), keys, 0)
    BY <1>4, <1>5, <2>1, LoadIs
  <2>. QED BY <1>6, <2>1, <2>2
<1>8. ASSUME phase = "dec" PROVE w' \in Words /\ Joined(w') = Covered(after(Nr - 1))
  <2>1. Input \in Seq(Byte) /\ o + 16 <= Len(Input) /\ Input = out.enc /\ MixedTo(ek, keys, Nr, 4 * Nr)
    BY <1>1, <1>2, <1>3, <1>4, <1>8 DEF Input, keys, AesInvariant, KeysAreRight
  <2>2. BlockAt(Input, o) = after(Nr)
    BY <1>3, <1>4, <1>8, <2>1 DEF Encrypted
  <2> DEFINE s == after(Nr - 1)
  <2>3. s \in Block /\ after(Nr) = RoundOf(s, ek, Nr, Nr)
    <3>1. Nr - 1 \in 0..Nr /\ Nr \in 1..Nr
      BY <1>2 DEF RoundNumbers
    <3>. QED BY <1>6, <3>1
  <2>4. FourKeys(ek, Nr)
    BY <1>2 DEF KeysTo
  <2>5. \A c \in 1..4 : keys[c] = ek[4 * Nr + c]
    <3>1. ASSUME NEW c \in 1..4 PROVE keys[c] = ek[4 * Nr + c]
      <4>1. 0 \in 0..Nr /\ 4 * 0 + c = c /\ Nr - 0 = Nr
        BY <1>2
      <4>2. InGroups(ek, keys, Nr)
        <5>. HIDE DEF ek
        <5>. QED BY <1>2, <2>1, DecGroups
      <4>3. keys[4 * 0 + c] = ek[4 * (Nr - 0) + c]
        BY <4>1, <4>2 DEF InGroups
      <4>. QED BY <4>1, <4>3
    <3>. QED BY <3>1
  <2>. HIDE DEF after, ek, s
  <2>6. w' \in Words /\ Joined(w') = Covered(s)
    BY <1>2, <1>4, <1>5, <2>1, <2>2, <2>3, <2>4, <2>5, LoadBackIs
  <2>. QED BY <2>6 DEF s
<1>9. /\ w' \in Words
      /\ phase = "enc" => Joined(w') = after(0)
      /\ phase = "dec" => Joined(w') = Covered(after(Nr - 1))
  BY <1>2, <1>7, <1>8
<1>10. AesShape'
  BY <1>1 DEF AesInvariant, AesShape
<1>11. KeysAreRight'
  BY <1>1, KeysStayRight
<1>12. BlocksAreRight'
  <2>1. Nr' = Nr /\ Length' = Length
    BY <1>1, JobStays
  <2>2. 1 \in 1..Nr /\ 1 - 1 = 0
    BY <1>2 DEF RoundNumbers
  <2>. QED BY <1>1, <1>2, <1>3, <1>9, <2>1, <2>2 DEF BlocksAreRight, After
<1>. QED BY <1>10, <1>11, <1>12 DEF AesInvariant

-----------------------------------------------------------------------------
(* AES: the rounds and the end of a block. *)

\* What is known in a round.
LEMMA InRound ==
  ASSUME JobIsSound(job), AesInvariant, at = "round"
  PROVE  LET o == Len(out[phase])
         IN /\ o \in Nat /\ o % 16 = 0 /\ o + 16 <= Length /\ (o + 16) % 16 = 0
            /\ Going(job.text, o, ctx.enc.keys, Nr)
            /\ w \in Words /\ index \in 1..Nr /\ Length % 16 = 0
            /\ Encrypted(out.enc, job.text, ctx.enc.keys, Nr)
            /\ phase = "enc" => keys = ctx.enc.keys
            /\ phase = "dec" => /\ Len(out.enc) = Length /\ Decrypted(out.dec, job.text)
                                /\ InGroups(ctx.enc.keys, keys, Nr)
<1> DEFINE o == Len(out[phase])
           ek == ctx.enc.keys
<1>1. /\ phase \in {"enc", "dec"} /\ out \in [enc : Seq(Byte), dec : Seq(Byte)]
      /\ Nr \in RoundNumbers /\ Nr \in Nat /\ KeysTo(ek, Nr) /\ job.text \in Seq(Byte)
  BY Working
<1>2. /\ Length % 16 = 0 /\ Encrypted(out.enc, job.text, ek, Nr)
      /\ phase = "dec" => Len(out.enc) = Length /\ Decrypted(out.dec, job.text)
      /\ w \in Words /\ index \in 1..Nr /\ o < Length
  BY DEF AesInvariant, BlocksAreRight
<1>3. o \in Nat /\ o % 16 = 0 /\ o + 16 <= Length /\ (o + 16) % 16 = 0
  <2>1. out[phase] \in Seq(Byte) /\ Len(out[phase]) % 16 = 0
    BY <1>1, <1>2 DEF Encrypted, Decrypted
  <2>2. Length = Len(job.text)
    BY DEF Length
  <2>. QED BY <1>1, <1>2, <2>1, <2>2, Room
<1>4. Going(job.text, o, ek, Nr)
  <2>1. o + 16 <= Len(job.text)
    BY <1>3 DEF Length
  <2>. HIDE DEF o, ek
  <2>. QED BY <1>1, <1>3, <2>1, AfterIs
<1>5. phase = "enc" => keys = ek
  BY DEF keys
<1>6. phase = "dec" => InGroups(ek, keys, Nr)
  <2>1. phase = "dec" => MixedTo(ek, keys, Nr, 4 * Nr)
    BY DEF AesInvariant, KeysAreRight, keys
  <2>. HIDE DEF ek
  <2>. QED BY <1>1, <2>1, DecGroups
<1>. QED BY <1>2, <1>3, <1>4, <1>5, <1>6

\* A round that is not the last.
LEMMA RoundKeeps ==
  ASSUME JobIsSound(job), AesInvariant, Round
  PROVE  AesInvariant'
<1> DEFINE o == Len(out[phase])
           ek == ctx.enc.keys
           after(n) == Rounds(BlockAt(job.text, o), ek, Nr, n)
<1>1. /\ at = "round" /\ index < rounds /\ index' = index + 1
      /\ UNCHANGED <<job, phase, at, rp, ctx, out>>
  BY DEF Round
<1>2. /\ phase \in {"enc", "dec"} /\ Nr \in RoundNumbers /\ Nr \in Nat /\ rounds = Nr
      /\ KeysFor(keys, Nr) /\ KeysFor(ek, Nr)
  BY <1>1, Working
<1>3. /\ o \in Nat /\ Going(job.text, o, ek, Nr) /\ w \in Words /\ index \in 1..Nr
      /\ Length % 16 = 0 /\ Encrypted(out.enc, job.text, ek, Nr)
      /\ phase = "enc" => keys = ek
      /\ phase = "dec" => /\ Len(out.enc) = Length /\ Decrypted(out.dec, job.text)
                          /\ InGroups(ek, keys, Nr)
  BY <1>1, InRound
<1>4. /\ \A n \in 0..Nr : after(n) \in Block
      /\ \A n \in 1..Nr : after(n) = RoundOf(after(n - 1), ek, Nr, n)
  BY <1>3 DEF Going
<1>5. /\ phase = "enc" => Joined(w) = after(index - 1)
      /\ phase = "dec" => Joined(w) = Covered(after(Nr - index))
      /\ o < Length
  BY <1>1 DEF AesInvariant, BlocksAreRight, After
<1>6. /\ index \in Nat /\ index # 0 /\ index < Nr /\ index \in 0..Nr
      /\ index + 1 \in 1..Nr /\ (index + 1) - 1 = index
      /\ Nr - index \in 1..Nr /\ Nr - index \in 0..Nr
      /\ (Nr - index) - 1 = Nr - (index + 1) /\ Nr - (index + 1) \in 0..Nr
  BY <1>1, <1>2, <1>3
<1>7. FourKeys(keys, index) /\ FourKeys(ek, Nr - index)
  <2>1. \A g \in 0..Nr : FourKeys(keys, g)
    BY <1>2, KeysInGroups
  <2>2. \A g \in 0..Nr : FourKeys(ek, g)
    <3>. HIDE DEF ek
    <3>. QED BY <1>2, KeysInGroups
  <2>. QED BY <1>6, <2>1, <2>2
<1>8. ASSUME phase = "enc" PROVE w' \in Words /\ Joined(w') = after(index)
  <2>1. w' \in Words /\ Joined(w') = RoundOf(Joined(w), keys, rounds, index)
    BY <1>1, <1>3, <1>6, <1>7, <1>8, RoundIs
  <2>2. after(index) = RoundOf(after(index - 1), ek, Nr, index)
    BY <1>3, <1>4
  <2>. QED BY <1>2, <1>3, <1>5, <1>8, <2>1, <2>2
<1>9. ASSUME phase = "dec" PROVE w' \in Words /\ Joined(w') = Covered(after(Nr - (index + 1)))
  <2> DEFINE s == after(Nr - (index + 1))
  <2>1. s \in Block /\ after(Nr - index) = RoundOf(s, ek, Nr, Nr - index)
    BY <1>4, <1>6
  <2>2. \A c \in 1..4 : keys[4 * index + c] = MixColumn(Unmixing, ek[4 * (Nr - index) + c])
    <3>1. ~(index \in {0, Nr}) /\ index \in 0..Nr
      BY <1>6
    <3>. QED BY <1>3, <1>9, <3>1 DEF InGroups
  <2>3. Joined(w) = Covered(RoundOf(s, ek, rounds, rounds - index))
    BY <1>2, <1>5, <1>9, <2>1
  <2>4. \A c \in 1..4 : keys[4 * index + c] = MixColumn(Unmixing, ek[4 * (rounds - index) + c])
    BY <1>2, <2>2
  <2>5. rounds \in Nat /\ FourKeys(ek, rounds - index)
    BY <1>2, <1>7
  <2>. HIDE DEF after, ek, s
  <2>6. w' \in Words /\ Joined(w') = Covered(s)
    BY <1>1, <1>3, <1>6, <1>9, <2>1, <2>3, <2>4, <2>5, RoundBackIs
  <2>. QED BY <2>6 DEF s
<1>10. AesShape'
  BY <1>1 DEF AesInvariant, AesShape
<1>11. KeysAreRight'
  BY <1>1, KeysStayRight
<1>12. BlocksAreRight'
  <2>1. Nr' = Nr /\ Length' = Length
    BY <1>1, JobStays
  <2>. QED BY <1>1, <1>2, <1>3, <1>5, <1>6, <1>8, <1>9, <2>1 DEF BlocksAreRight, After
<1>. QED BY <1>10, <1>11, <1>12 DEF AesInvariant

\* One more block that is right.
EncryptedNext(p, q, s, text, ks, last) ==
  Encrypted(q, text, ks, last) /\ Len(q) + 16 <= Len(text) /\ Extended(p, q, s)
  /\ s = Rounds(BlockAt(text, Len(q)), ks, last, last)

\* One block more has been encrypted.
LEMMA EncryptedOn ==
  ASSUME NEW text \in Seq(Byte), NEW q \in Seq(Byte), NEW ks, NEW last, NEW p, NEW s \in Block,
         EncryptedNext(p, q, s, text, ks, last)
  PROVE  Encrypted(p, text, ks, last)
<1>. USE DEF EncryptedNext
<1> DEFINE m == Len(q)
<1>0. m \in Nat /\ m % 16 = 0 /\ Len(p) = m + 16 /\ m + 16 <= Len(text)
  BY LenProperties DEF Encrypted, Extended
<1>1. BlockAt(p, m) = s /\ \A o \in Nat : o + 16 <= m => BlockAt(p, o) = BlockAt(q, o)
  BY ExtendedBlocks
<1>2. \A o \in Nat : o % 16 = 0 /\ o + 16 <= m =>
        BlockAt(q, o) = Rounds(BlockAt(text, o), ks, last, last)
  BY DEF Encrypted
<1>3. s = Rounds(BlockAt(text, m), ks, last, last)
  OBVIOUS
<1>. HIDE DEF m
<1>4. ASSUME NEW o \in Nat, o % 16 = 0, o + 16 <= m + 16
      PROVE  BlockAt(p, o) = Rounds(BlockAt(text, o), ks, last, last)
  <2>1. o = m \/ o + 16 <= m
    BY <1>0, <1>4
  <2>. QED BY <1>1, <1>2, <1>3, <1>4, <2>1
<1>5. (m + 16) % 16 = 0
  BY <1>0
<1>. QED BY <1>0, <1>4, <1>5 DEF Encrypted

\* ... and for the decryption.
DecryptedNext(p, q, text) ==
  Decrypted(q, text) /\ Len(q) + 16 <= Len(text) /\ Extended(p, q, BlockAt(text, Len(q)))

\* One block more has been decrypted.
LEMMA DecryptedOn ==
  ASSUME NEW text \in Seq(Byte), NEW q \in Seq(Byte), NEW p, DecryptedNext(p, q, text)
  PROVE  Decrypted(p, text)
<1>. USE DEF DecryptedNext
<1> DEFINE m == Len(q)
           s == BlockAt(text, m)
<1>0. m \in Nat /\ m % 16 = 0 /\ Len(p) = m + 16 /\ m + 16 <= Len(text)
  BY LenProperties DEF Decrypted, Extended
<1>1. (\A i \in 1..m : p[i] = q[i]) /\ (\A i \in 1..16 : p[m + i] = s[i])
  BY DEF Extended
<1>2. \A i \in 1..16 : s[i] = text[m + i]
  BY <1>0, BlockIs
<1>3. \A i \in 1..m : q[i] = text[i]
  BY DEF Decrypted
<1>. HIDE DEF s, m
<1>4. ASSUME NEW i \in 1..m + 16 PROVE p[i] = text[i]
  <2>1. i \in 1..m \/ (i - m \in 1..16 /\ m + (i - m) = i)
    BY <1>0
  <2>. QED BY <1>1, <1>2, <1>3, <2>1
<1>5. (m + 16) % 16 = 0
  BY <1>0
<1>. QED BY <1>0, <1>4, <1>5 DEF Decrypted

\* The last round.
LEMMA FinalKeeps ==
  ASSUME JobIsSound(job), AesInvariant, FinalRound
  PROVE  AesInvariant'
<1> DEFINE o == Len(out[phase])
           ek == ctx.enc.keys
           after(n) == Rounds(BlockAt(job.text, o), ek, Nr, n)
<1>1. /\ at = "round" /\ index = rounds /\ at' = "block"
      /\ UNCHANGED <<job, phase, index, rp, ctx, w>>
  BY DEF FinalRound
<1>2. /\ phase \in {"enc", "dec"} /\ Nr \in RoundNumbers /\ Nr \in Nat /\ rounds = Nr
      /\ KeysFor(keys, Nr) /\ KeysFor(ek, Nr) /\ job.text \in Seq(Byte)
      /\ out \in [enc : Seq(Byte), dec : Seq(Byte)]
  BY <1>1, Working
<1>3. /\ o \in Nat /\ o + 16 <= Length /\ Going(job.text, o, ek, Nr) /\ w \in Words /\ index \in 1..Nr
      /\ Length % 16 = 0 /\ Encrypted(out.enc, job.text, ek, Nr)
      /\ phase = "enc" => keys = ek
      /\ phase = "dec" => /\ Len(out.enc) = Length /\ Decrypted(out.dec, job.text)
                          /\ InGroups(ek, keys, Nr)
  BY <1>1, InRound
<1>4. /\ BlockAt(job.text, o) \in Block /\ after(0) = AddRoundKey(BlockAt(job.text, o), ek, 0)
      /\ \A n \in 0..Nr : after(n) \in Block
      /\ \A n \in 1..Nr : after(n) = RoundOf(after(n - 1), ek, Nr, n)
  BY <1>3 DEF Going
<1>5. /\ phase = "enc" => Joined(w) = after(index - 1)
      /\ phase = "dec" => Joined(w) = Covered(after(Nr - index))
  BY <1>1 DEF AesInvariant, BlocksAreRight, After
<1>6. Nr \in 0..Nr /\ Nr \in 1..Nr /\ 0 \in 0..Nr /\ Nr - Nr = 0 /\ index = Nr
  BY <1>1, <1>2 DEF RoundNumbers
<1>7. FourKeys(keys, Nr) /\ FourKeys(ek, 0)
  <2>1. \A g \in 0..Nr : FourKeys(keys, g)
    BY <1>2, KeysInGroups
  <2>2. \A g \in 0..Nr : FourKeys(ek, g)
    <3>. HIDE DEF ek
    <3>. QED BY <1>2, KeysInGroups
  <2>. QED BY <1>6, <2>1, <2>2
<1>8. Halves(out)
  BY <1>2 DEF Halves
<1>9. ASSUME phase = "enc"
      PROVE  /\ Encrypted(out'.enc, job.text, ek, Nr)
             /\ out' \in [enc : Seq(Byte), dec : Seq(Byte)] /\ out'.dec = out.dec
  <2>1. Extended(out'.enc, out.enc, RoundOf(Joined(w), keys, rounds, rounds))
        /\ out'.dec = out.dec /\ Halves(out')
    BY <1>1, <1>2, <1>3, <1>7, <1>8, <1>9, FinalIs
  <2>2. after(Nr) = RoundOf(Joined(w), keys, rounds, rounds)
    BY <1>2, <1>3, <1>4, <1>5, <1>6, <1>9
  <2>3. Extended(out'.enc, out.enc, after(Nr)) /\ after(Nr) \in Block
    BY <1>4, <1>6, <2>1, <2>2
  <2>4. Encrypted(out'.enc, job.text, ek, Nr)
    <3> DEFINE q == out.enc
               p == out'.enc
               s == after(Nr)
    <3>1. q \in Seq(Byte) /\ s \in Block /\ EncryptedNext(p, q, s, job.text, ek, Nr)
      BY <1>2, <1>3, <1>9, <2>3 DEF Length, EncryptedNext
    <3>. HIDE DEF q, p, s, ek
    <3>2. Encrypted(p, job.text, ek, Nr)
      BY <1>2, <3>1, EncryptedOn
    <3>. QED BY <3>2 DEF p, ek
  <2>5. out'.enc \in Seq(Byte) /\ out'.dec \in Seq(Byte)
    BY <1>2, <2>1 DEF Extended
  <2>. QED BY <2>1, <2>4, <2>5 DEF Halves
<1>10. ASSUME phase = "dec"
       PROVE  /\ Decrypted(out'.dec, job.text)
              /\ out' \in [enc : Seq(Byte), dec : Seq(Byte)] /\ out'.enc = out.enc
  <2> DEFINE s == BlockAt(job.text, o)
  <2>1. Joined(w) = Covered(AddRoundKey(s, ek, 0))
    BY <1>4, <1>5, <1>6, <1>10
  <2>2. \A c \in 1..4 : keys[4 * rounds + c] = ek[c]
    <3>1. \A c \in 1..4 : keys[4 * Nr + c] = ek[4 * (Nr - Nr) + c]
      BY <1>3, <1>6, <1>10 DEF InGroups
    <3>2. \A c \in 1..4 : 4 * (Nr - Nr) + c = c
      BY <1>6
    <3>. QED BY <1>2, <3>1, <3>2
  <2>3. Extended(out'.dec, out.dec, s) /\ out'.enc = out.enc /\ Halves(out')
    <3>1. /\ s \in Block /\ index = rounds /\ rounds \in Nat /\ FourKeys(ek, 0) /\ w \in Words
          /\ out.dec \in Seq(Byte)
      BY <1>1, <1>2, <1>3, <1>4, <1>7
    <3>. HIDE DEF s, ek, after
    <3>. QED BY <1>8, <1>10, <2>1, <2>2, <3>1, FinalBackIs
  <2>4. Decrypted(out'.dec, job.text)
    <3> DEFINE q == out.dec
               p == out'.dec
    <3>1. q \in Seq(Byte) /\ DecryptedNext(p, q, job.text)
      BY <1>2, <1>3, <1>10, <2>3 DEF Length, DecryptedNext
    <3>. HIDE DEF q, p
    <3>2. Decrypted(p, job.text)
      BY <1>2, <3>1, DecryptedOn
    <3>. QED BY <3>2 DEF p
  <2>5. out'.enc \in Seq(Byte) /\ out'.dec \in Seq(Byte)
    BY <1>2, <2>3 DEF Extended
  <2>. QED BY <2>3, <2>4, <2>5 DEF Halves
<1>11. AesShape'
  BY <1>1, <1>2, <1>9, <1>10 DEF AesInvariant, AesShape
<1>12. KeysAreRight'
  BY <1>1, KeysStayRight
<1>13. BlocksAreRight'
  <2>1. Nr' = Nr /\ Length' = Length
    BY <1>1, JobStays
  <2>. QED BY <1>1, <1>2, <1>3, <1>9, <1>10, <2>1 DEF BlocksAreRight
<1>. QED BY <1>11, <1>12, <1>13 DEF AesInvariant

-----------------------------------------------------------------------------
(* AES: the theorems. *)

\* Every step of the benchmark keeps the invariant.
LEMMA AesKeeps ==
  ASSUME JobIsSound(job), AesInvariant, AesNext
  PROVE  AesInvariant'
BY SetKeyKeeps, ExpandKeeps, ExpandedKeeps, SwapKeeps, InvertKeeps, MixKeeps, CheckKeeps,
   LoadKeeps, EndOfHalfKeeps, RoundKeeps, FinalKeeps DEF AesNext

\* The invariant, with what is known of the job.
AesFacts == JobIsSound(job) /\ AesInvariant

\* So do the steps of the other programs.
LEMMA AesStutters ==
  ASSUME AesInvariant, UNCHANGED aesVars
  PROVE  AesInvariant'
<1>1. Nk' = Nk /\ Nr' = Nr /\ Length' = Length
  BY JobStays DEF aesVars
<1>2. AesShape'
  BY DEF AesInvariant, AesShape, aesVars
<1>3. KeysAreRight'
  BY <1>1 DEF AesInvariant, KeysAreRight, Expanding, EncKeys, DecKeys, keys, rounds, aesVars
<1>4. BlocksAreRight'
  BY <1>1 DEF AesInvariant, BlocksAreRight, After, aesVars
<1>. QED BY <1>2, <1>3, <1>4 DEF AesInvariant

\* For every key, size and text, right or not: at each step of the C code
\* the keys are what the schedule, the swap and the unmixing have made of them
\* so far, and the texts and the four words are blocks of the cipher.
THEOREM AesFactsHold == Spec => []AesFacts
<1>1. Init => AesFacts
  <2> SUFFICES ASSUME Init PROVE AesFacts
    OBVIOUS
  <2>1. job \in Jobs \cup {BenchmarkJob}
    BY DEF Init
  <2>2. JobIsSound(job)
    BY <2>1, JobsAssumption DEF JobIsSound
  <2>3. AesInvariant
    BY AesBegins DEF Init
  <2>. QED BY <2>2, <2>3 DEF AesFacts
<1>2. AesFacts /\ [Next]_vars => AesFacts'
  <2> SUFFICES ASSUME AesFacts, [Next]_vars PROVE AesFacts'
    OBVIOUS
  <2>1. AesNext \/ AesCall \/ UNCHANGED aesVars
    BY DEF Next, Crc, NettleAes, AesMain, Aes, Fib, HeapClient, Startup, Wait, vars
  <2>2. job' = job
    BY <2>1 DEF AesNext, SetKey, ExpandKey, KeysExpanded, SwapKeys, InvertKey, MixKeys, Check, Load,
                EndOfHalf, Round, FinalRound, AesCall, aesVars
  <2>3. AesInvariant'
    BY <2>1, AesKeeps, CallKeeps, AesStutters DEF AesFacts
  <2>. QED BY <2>2, <2>3 DEF AesFacts, JobIsSound
<1>. QED BY <1>1, <1>2, PTL DEF Spec

\* The keys of a complete schedule are those of FIPS 197.
LEMMA Subkeys ==
  ASSUME AesFacts
  PROVE  SubkeysAreFips
<1>0. JobIsSound(job) /\ AesInvariant /\ phase \in {"enc", "dec"}
  BY DEF AesFacts, AesInvariant, AesShape
<1>1. ASSUME NEW n, NEW m, KeyWords(keys, job.key, Nk, m), n \in 1..m PROVE IsSubkey(n)
  BY <1>1 DEF KeyWords, IsSubkey, Nk
<1>2. at = "expand" => IsSubkey(index)
  <2> SUFFICES ASSUME at = "expand" PROVE IsSubkey(index)
    OBVIOUS
  <2>1. Expanding /\ Nk \in KeyLengths
    BY <1>0, KeyNumbers DEF AesInvariant, KeysAreRight
  <2>2. index \in 1..index /\ KeyWords(keys, job.key, Nk, index)
    BY <2>1 DEF Expanding, KeyLengths
  <2>. QED BY <1>1, <2>2
<1>3. at = "check" => /\ Nr \in RoundNumbers /\ Nr \in Nat /\ Whole(Nk) = 4 * (Nr + 1)
                      /\ phase = "enc" => rounds = Nr /\ KeyWords(keys, job.key, Nk, Whole(Nk))
                      /\ phase = "dec" => /\ rounds = Nr /\ KeysFor(keys, Nr)
                                          /\ MixedTo(ctx.enc.keys, keys, Nr, 4 * Nr)
  BY <1>0, KeyNumbers DEF AesInvariant, KeysAreRight, EncKeys, DecKeys, keys, rounds
<1>4. at = "check" => Len(keys) = 4 * (nr(job.keysize) + 1)
  BY <1>0, <1>3 DEF KeyWords, KeysFor, Nr
<1>5. (at = "check" /\ phase = "enc") => \A n \in DOMAIN keys : IsSubkey(n)
  <2> SUFFICES ASSUME at = "check", phase = "enc", NEW n \in DOMAIN keys PROVE IsSubkey(n)
    OBVIOUS
  <2>1. n \in 1..Whole(Nk)
    BY <1>3, LenProperties DEF KeyWords
  <2>. QED BY <1>1, <1>3, <2>1
<1>6. (at = "check" /\ phase = "dec") =>
        \A g \in 0..rounds, c \in 1..4 :
          LET word == ctx.enc.keys[4 * (rounds - g) + c]
          IN keys[4 * g + c] = IF g \in {0, rounds} THEN word
                               ELSE MixColumn(Unmixing, word)
  <2> SUFFICES ASSUME at = "check", phase = "dec"
               PROVE  \A g \in 0..rounds, c \in 1..4 :
                        keys[4 * g + c] = IF g \in {0, rounds} THEN ctx.enc.keys[4 * (rounds - g) + c]
                                          ELSE MixColumn(Unmixing, ctx.enc.keys[4 * (rounds - g) + c])
    OBVIOUS
  <2> DEFINE ek == ctx.enc.keys
  <2>1. rounds = Nr /\ Nr \in RoundNumbers /\ MixedTo(ek, keys, Nr, 4 * Nr)
    BY <1>3
  <2>2. InGroups(ek, keys, Nr)
    <3>. HIDE DEF ek
    <3>. QED BY <2>1, DecGroups
  <2>. QED BY <2>1, <2>2 DEF InGroups
<1>. QED BY <1>2, <1>4, <1>5, <1>6 DEF SubkeysAreFips

\* The block before an end of a text.
LEMMA BlockBefore ==
  ASSUME NEW m \in Nat, m # 0, m % 16 = 0
  PROVE  m - 16 \in Nat /\ (m - 16) % 16 = 0 /\ (m - 16) + 16 <= m
OBVIOUS

\* The ciphertext is that of FIPS 197, block by block.
LEMMA Encryption ==
  ASSUME AesFacts
  PROVE  CipherIsFips
<1>0. JobIsSound(job) /\ AesInvariant
  BY DEF AesFacts
<1>1. (phase = "enc" /\ at \in {"block", "round"}) =>
        /\ keys = ctx.enc.keys /\ rounds = Nr /\ Encrypted(out.enc, job.text, keys, rounds)
        /\ out.enc \in Seq(Byte)
  BY <1>0, Working DEF AesInvariant, BlocksAreRight, keys
<1>2. (phase = "enc" /\ at = "round") =>
        Joined(w) = Rounds(BlockAt(job.text, Len(out.enc)), keys, rounds, index - 1)
  BY <1>0, <1>1 DEF AesInvariant, BlocksAreRight, After
<1>3. (phase = "enc" /\ at = "block" /\ out.enc # <<>>) =>
        BlockAt(out.enc, Len(out.enc) - 16) = Rounds(BlockAt(job.text, Len(out.enc) - 16), keys, rounds, rounds)
  <2> SUFFICES ASSUME phase = "enc", at = "block", out.enc # <<>>
               PROVE  BlockAt(out.enc, Len(out.enc) - 16)
                        = Rounds(BlockAt(job.text, Len(out.enc) - 16), keys, rounds, rounds)
    OBVIOUS
  <2> DEFINE o == Len(out.enc) - 16
  <2>1. Len(out.enc) \in Nat \ {0} /\ Len(out.enc) % 16 = 0
    BY <1>1, EmptySeq DEF Encrypted
  <2>2. o \in Nat /\ o % 16 = 0 /\ o + 16 <= Len(out.enc)
    BY <2>1, BlockBefore
  <2>. HIDE DEF o
  <2>3. BlockAt(out.enc, o) = Rounds(BlockAt(job.text, o), keys, rounds, rounds)
    BY <1>1, <2>2 DEF Encrypted
  <2>. QED BY <2>3 DEF o
<1>. QED BY <1>2, <1>3, TablesAssumption DEF CipherIsFips, AES_BLOCK_SIZE

\* The decryption is the way back, block by block.
LEMMA Decryption ==
  ASSUME AesFacts
  PROVE  DecryptionRetraces
<1>0. JobIsSound(job) /\ AesInvariant /\ out.dec \in Seq(Byte) /\ job.text \in Seq(Byte)
  BY DEF AesFacts, AesInvariant, AesShape, JobIsSound
<1> SUFFICES ASSUME phase = "dec"
             PROVE  /\ at = "round" =>
                         Joined(w) = ShiftRows(SubBytes(Rounds(BlockAt(job.text, Len(out.dec)),
                                                               ctx.enc.keys, rounds, rounds - index)))
                    /\ out.dec = SubSeq(job.text, 1, Len(out.dec))
                    /\ at = "done" => out.dec = job.text
  BY DEF DecryptionRetraces
<1>1. at = "round" =>
        Joined(w) = ShiftRows(SubBytes(Rounds(BlockAt(job.text, Len(out.dec)), ctx.enc.keys, rounds, rounds - index)))
  BY <1>0, Working DEF AesInvariant, BlocksAreRight, After, Covered
<1>2. /\ Len(out.dec) <= Len(job.text) /\ \A i \in 1..Len(out.dec) : out.dec[i] = job.text[i]
      /\ at = "done" => Len(out.dec) = Len(job.text)
  BY <1>0 DEF AesInvariant, BlocksAreRight, Decrypted, Length
<1> DEFINE n == Len(out.dec)
           s == SubSeq(job.text, 1, n)
<1>3. out.dec = s
  <2>1. n \in Nat /\ Len(job.text) \in Nat /\ 1 \in Int /\ n \in Int /\ (IF 1 <= n THEN n - 1 + 1 ELSE 0) = n
        /\ n - 1 + 1 = n
    BY <1>0, LenProperties
  <2>2. \A i \in 1..n : job.text[i] \in Byte
    BY <1>0, <1>2, <2>1, ElementOfSeq
  <2>3. s \in Seq(Byte) /\ Len(s) = n /\ \A i \in 1..n : s[i] = job.text[1 + i - 1]
    <3>. HIDE DEF n
    <3>. QED BY <2>1, <2>2, SubSeqProperties
  <2>4. \A i \in 1..n : 1 + i - 1 = i
    OBVIOUS
  <2>5. \A i \in 1..n : out.dec[i] = s[i]
    BY <1>2, <2>3, <2>4
  <2>. HIDE DEF s
  <2>. QED BY <1>0, <2>3, <2>5, SeqEqual
<1>4. at = "done" => out.dec = job.text
  BY <1>0, <1>2, SeqEqual
<1>. QED BY <1>1, <1>3, <1>4

\* For every key of 128, 192 or 256 bits: the loop of _aes_set_key,
\* with its running pointer to the round constants, makes the key schedule of
\* FIPS 197, and the keys of the decryption are those, mirrored and unmixed.
THEOREM SubkeysFollowFips == Spec => []SubkeysAreFips
<1>1. AesFacts => SubkeysAreFips
  BY Subkeys
<1>. QED BY <1>1, AesFactsHold, PTL

\* For every key and every text: the rounds by tables and rotated words of
\* _nettle_aes_encrypt make of each block what the cipher of FIPS 197 makes.
THEOREM CipherFollowsFips == Spec => []CipherIsFips
<1>1. AesFacts => CipherIsFips
  BY Encryption
<1>. QED BY <1>1, AesFactsHold, PTL

\* For every key and every text: what _nettle_aes_decrypt makes of the
\* ciphertext is the text.
THEOREM DecryptionGoesBack == Spec => []DecryptionRetraces
<1>1. AesFacts => DecryptionRetraces
  BY Decryption
<1>. QED BY <1>1, AesFactsHold, PTL

-----------------------------------------------------------------------------
(* AES: the answer. *)

\* The first words of a schedule, as a sequence of their own.
FirstOf(ks, m) == [k \in 1..m |-> ks[k]]

\* It is one, as long as it should be.
LEMMA FirstWords ==
  ASSUME NEW ks \in Seq(Word), NEW m \in Nat, m <= Len(ks)
  PROVE  /\ FirstOf(ks, m) \in Seq(Word) /\ Len(FirstOf(ks, m)) = m
         /\ \A k \in 1..m : FirstOf(ks, m)[k] = ks[k]
<1>1. Len(ks) \in Nat
  BY LenProperties
<1>2. \A k \in 1..m : ks[k] \in Word
  BY <1>1, ElementOfSeq
<1>3. FirstOf(ks, m) \in [1..m -> Word]
  BY <1>2 DEF FirstOf
<1>4. \A k \in 1..m : FirstOf(ks, m)[k] = ks[k]
  BY DEF FirstOf
<1>. QED BY <1>3, <1>4, SeqOfLength

\* FIPS 197 makes one more word of the first ones.
LEMMA ScheduleGoesOn ==
  ASSUME NEW n \in KeyLengths, NEW m, m = Whole(n), NEW ks, NEW key_, KeyWords(ks, key_, n, m),
         NEW i \in Nat, n <= i, i < m
  PROVE  Append(FirstOf(ks, i), NextWord(n, FirstOf(ks, i), i)) = FirstOf(ks, i + 1)
<1> DEFINE v == FirstOf(ks, i)
           u == FirstOf(ks, i + 1)
<1>1. ks \in Seq(Word) /\ Len(ks) = m /\ m \in Nat /\ n \in Nat
  BY DEF KeyWords, Whole, KeyLengths
<1>2. v \in Seq(Word) /\ Len(v) = i /\ \A k \in 1..i : v[k] = ks[k]
  BY <1>1, FirstWords
<1>3. u \in Seq(Word) /\ Len(u) = i + 1 /\ \A k \in 1..i + 1 : u[k] = ks[k]
  <2>1. i + 1 \in Nat /\ i + 1 <= m
    BY <1>1
  <2>. QED BY <1>1, <2>1, FirstWords
<1>. HIDE DEF v, u
<1>4. i % n = 0 => i \div n \in 1..10
  BY Constants
<1>5. i - n + 1 \in 1..i /\ i \in 1..i
  BY Constants
<1>6. NextWord(n, v, i) = NextWord(n, ks, i)
  <2>1. v[i - n + 1] = ks[i - n + 1] /\ v[i] = ks[i]
    BY <1>2, <1>5
  <2>. QED BY <1>1, <1>4, <2>1, NextWordIs
<1>7. ks[i + 1] = NextWord(n, ks, i)
  <2>1. i + 1 \in 1..m /\ ~(i + 1 <= n) /\ (i + 1) - 1 = i
    BY <1>1
  <2>. QED BY <2>1 DEF KeyWords
<1>8. ks[i + 1] \in Word
  <2>1. i + 1 \in 1..Len(ks)
    BY <1>1
  <2>. QED BY <1>1, <2>1, ElementOfSeq
<1> DEFINE a == Append(v, ks[i + 1])
<1>9. a \in Seq(Word) /\ Len(a) = i + 1 /\ (\A k \in 1..i : a[k] = v[k]) /\ a[i + 1] = ks[i + 1]
  BY <1>2, <1>8, AppendProperties
<1>. HIDE DEF a
<1>10. \A k \in 1..i + 1 : a[k] = u[k]
  <2> SUFFICES ASSUME NEW k \in 1..i + 1 PROVE a[k] = u[k]
    OBVIOUS
  <2>1. k \in 1..i \/ k = i + 1
    OBVIOUS
  <2>. QED BY <1>2, <1>3, <1>9, <2>1
<1>11. a = u
  BY <1>3, <1>9, <1>10, SeqEqual
<1>. QED BY <1>6, <1>7, <1>11 DEF a, v, u

\* The schedule that the program has is the schedule of FIPS 197: there is
\* only one.
LEMMA ScheduleIs ==
  ASSUME NEW n \in KeyLengths, NEW m, m = Whole(n), NEW ks, NEW key_, KeyWords(ks, key_, n, m)
  PROVE  KeySchedule(key_, n, m) = ks
<1> DEFINE first == [k \in 1..n |-> SubSeq(key_, 4 * k - 3, 4 * k)]
           Body(g, i) == IF i = 0 THEN first
                         ELSE Append(g[i - 1], NextWord(n, g[i - 1], n + i - 1))
           h == [i \in 0..m - n |-> FirstOf(ks, n + i)]
           longer == CHOOSE g : g = [i \in 0..m - n |-> Body(g, i)]
<1>1. ks \in Seq(Word) /\ Len(ks) = m /\ m \in Nat /\ n \in Nat /\ n <= m /\ m - n \in Nat
  BY DEF KeyWords, Whole, KeyLengths
<1>2. first = FirstOf(ks, n + 0)
  <2>1. ASSUME NEW k \in 1..n PROVE SubSeq(key_, 4 * k - 3, 4 * k) = ks[k]
    <3>1. k \in 1..m /\ k <= n
      BY <1>1
    <3>. QED BY <3>1 DEF KeyWords
  <2>2. n + 0 = n
    BY <1>1
  <2>. QED BY <2>1, <2>2 DEF FirstOf
<1>3. ASSUME NEW i \in 1..m - n
      PROVE  Append(FirstOf(ks, n + (i - 1)), NextWord(n, FirstOf(ks, n + (i - 1)), n + i - 1))
               = FirstOf(ks, n + i)
  <2>1. n + (i - 1) \in Nat /\ n <= n + (i - 1) /\ n + (i - 1) < m
        /\ (n + (i - 1)) + 1 = n + i /\ n + i - 1 = n + (i - 1)
    BY <1>1
  <2>. QED BY <2>1, ScheduleGoesOn
<1>. HIDE DEF first
<1>4. h = [i \in 0..m - n |-> Body(h, i)]
  <2>1. ASSUME NEW i \in 0..m - n PROVE FirstOf(ks, n + i) = Body(h, i)
    <3>1. CASE i = 0
      BY <1>2, <3>1
    <3>2. CASE i # 0
      <4>1. i \in 1..m - n /\ i - 1 \in 0..m - n
        BY <1>1, <3>2
      <4>2. h[i - 1] = FirstOf(ks, n + (i - 1))
        BY <4>1
      <4>. HIDE DEF h
      <4>. QED BY <1>3, <3>2, <4>1, <4>2
    <3>. QED BY <3>1, <3>2
  <2>. QED BY <2>1
<1>5. longer = [i \in 0..m - n |-> Body(longer, i)]
  <2>. HIDE DEF h
  <2>. QED BY <1>4
<1>6. KeySchedule(key_, n, m) = longer[m - n]
  BY DEF KeySchedule, first
<1>. HIDE DEF longer
<1> DEFINE same == [i \in 0..m - n |-> IF longer[i] = FirstOf(ks, n + i) THEN 1 ELSE 0]
           One == {1}
<1>7. same[0] \in One
  BY <1>1, <1>2, <1>5
<1>8. ASSUME NEW i \in 1..m - n, same[i - 1] \in One PROVE same[i] \in One
  <2>1. i \in 0..m - n /\ i - 1 \in 0..m - n /\ i # 0
    BY <1>1
  <2>2. longer[i - 1] = FirstOf(ks, n + (i - 1))
    BY <1>8, <2>1
  <2>3. longer[i] = Append(longer[i - 1], NextWord(n, longer[i - 1], n + i - 1))
    BY <1>5, <2>1
  <2>4. longer[i] = FirstOf(ks, n + i)
    BY <1>3, <2>2, <2>3
  <2>. QED BY <2>1, <2>4
<1>. HIDE DEF same, One
<1>9. \A i \in 0..m - n : same[i] \in One
  BY <1>1, <1>7, <1>8, AllIn
<1>10. longer[m - n] = FirstOf(ks, n + (m - n))
  <2>1. m - n \in 0..m - n
    BY <1>1
  <2>. QED BY <1>9, <2>1 DEF same, One
<1>11. FirstOf(ks, m) = ks
  <2>1. m \in Nat /\ m <= Len(ks)
    BY <1>1
  <2>. QED BY <1>1, <2>1, FirstWords, SeqEqual
<1>12. n + (m - n) = m
  BY <1>1
<1>. QED BY <1>6, <1>10, <1>11, <1>12

\* A multiple of 16.
LEMMA Sixteens ==
  ASSUME NEW n \in Nat, n % 16 = 0
  PROVE  n = 16 * (n \div 16)
OBVIOUS

\* Where a byte of a text is.
LEMMA PlaceInBlock ==
  ASSUME NEW i \in Nat, i > 0, NEW n \in Nat, n % 16 = 0, i <= n
  PROVE  \E o \in Nat : \E j \in 1..16 : o % 16 = 0 /\ o + 16 <= n /\ i = o + j
<1>1. PICK q \in Nat : n = 16 * q
  <2> DEFINE q == n \div 16
  <2>1. q \in Nat
    OBVIOUS
  <2>2. n = 16 * q
    BY Sixteens
  <2>. HIDE DEF q
  <2>. QED BY <2>1, <2>2
<1>2. PICK k \in Nat : 16 * k <= i - 1 /\ i - 1 < 16 * k + 16
  <2> DEFINE k == (i - 1) \div 16
  <2>1. i - 1 \in Nat
    OBVIOUS
  <2>2. k \in Nat /\ 16 * k <= i - 1 /\ i - 1 < 16 * k + 16
    BY <2>1
  <2>. QED BY <2>2
<1>3. k < q
  BY <1>1, <1>2
<1>4. 16 * k \in Nat /\ (16 * k) % 16 = 0 /\ 16 * k + 16 <= n
  BY <1>1, <1>3
<1>5. i - 16 * k \in 1..16 /\ i = 16 * k + (i - 16 * k)
  BY <1>2
<1>. QED BY <1>4, <1>5

\* Texts of the same blocks are the same.
LEMMA SameText ==
  ASSUME NEW p \in Seq(Byte), NEW q \in Seq(Byte), Len(p) = Len(q), Len(p) % 16 = 0,
         \A o \in Nat : o % 16 = 0 /\ o + 16 <= Len(p) => BlockAt(p, o) = BlockAt(q, o)
  PROVE  p = q
<1>1. Len(p) \in Nat /\ Len(q) \in Nat
  BY LenProperties
<1>2. ASSUME NEW i \in 1..Len(p) PROVE p[i] = q[i]
  <2>1. PICK o \in Nat : \E j \in 1..16 : o % 16 = 0 /\ o + 16 <= Len(p) /\ i = o + j
    <3> DEFINE n == Len(p)
    <3>1. i \in Nat /\ i > 0 /\ n \in Nat /\ n % 16 = 0 /\ i <= n
      BY <1>1
    <3>. HIDE DEF n
    <3>2. \E o \in Nat : \E j \in 1..16 : o % 16 = 0 /\ o + 16 <= n /\ i = o + j
      BY <3>1, PlaceInBlock
    <3>. QED BY <3>2 DEF n
  <2>2. PICK j \in 1..16 : o % 16 = 0 /\ o + 16 <= Len(p) /\ i = o + j
    BY <2>1
  <2>3. BlockAt(p, o) = BlockAt(q, o)
    BY <2>2
  <2>4. BlockAt(p, o)[j] = p[o + j]
    BY <2>2, BlockIs
  <2>5. BlockAt(q, o)[j] = q[o + j]
    BY <2>2, BlockIs
  <2>. QED BY <2>2, <2>3, <2>4, <2>5
<1>. QED BY <1>1, <1>2, SeqEqual

-----------------------------------------------------------------------------
(* main of nettle-aes. *)

\* What is known of the job and of its end: a call that ends at a check is one
\* that the library refuses.
AesEnds == /\ job \in Jobs \cup {BenchmarkJob}
           /\ program # "aes" => job = BenchmarkJob
           /\ at = "exit" => IsRefused(job)

\* No call has ended in the beginning.
LEMMA AesEndsInit == Init => AesEnds
BY DEF Init, AesInit, AesEnds

\* The two checks that end a call are those of IsRefused.
LEMMA AesEndsStep == AesEnds /\ [Next]_vars => AesEnds'
<1> SUFFICES ASSUME AesEnds, [Next]_vars PROVE AesEnds'
  OBVIOUS
<1>1. program' = program
  BY DEF Next, Crc, NettleAes, Aes, Fib, HeapClient, Startup, Wait, vars
<1>2. AesNext \/ AesCall \/ UNCHANGED aesVars
  BY DEF Next, Crc, NettleAes, AesMain, Aes, Fib, HeapClient, Startup, Wait, vars
<1>3. job' = job
  BY <1>2 DEF AesNext, SetKey, ExpandKey, KeysExpanded, SwapKeys, InvertKey, MixKeys, Check, Load,
              EndOfHalf, Round, FinalRound, AesCall, aesVars
<1>4. at' = "exit" => IsRefused(job)
  <2>1. CASE SetKey
    BY <2>1 DEF SetKey, IsRefused
  <2>2. CASE Check
    BY <2>2 DEF Check, IsRefused, Length
  <2>3. CASE KeysExpanded
    BY <2>3 DEF KeysExpanded
  <2>4. CASE \/ ExpandKey \/ SwapKeys \/ InvertKey \/ MixKeys
             \/ Load \/ EndOfHalf \/ Round \/ FinalRound \/ AesCall
    BY <2>4 DEF ExpandKey, SwapKeys, InvertKey, MixKeys, Load, EndOfHalf, Round, FinalRound, AesCall
  <2>5. CASE UNCHANGED aesVars
    BY <2>5 DEF aesVars, AesEnds
  <2>. QED BY <1>2, <2>1, <2>2, <2>3, <2>4, <2>5 DEF AesNext
<1>. QED BY <1>1, <1>3, <1>4 DEF AesEnds

\* A call that comes to its end was not refused, and has the text and its answer.
LEMMA DoneIsRight ==
  ASSUME AesFacts, AesEnds, at = "done"
  PROVE  /\ ~IsRefused(job)
         /\ out = [enc |-> job.answer, dec |-> job.text]
<1>1. JobIsSound(job) /\ AesInvariant /\ phase = "dec" /\ job.text \in Seq(Byte)
  BY DEF AesFacts, AesInvariant, AesShape, JobIsSound
<1>2. /\ job.keysize \in 16..32 /\ EncKeys /\ Length % 16 = 0
      /\ Encrypted(out.enc, job.text, ctx.enc.keys, Nr) /\ Len(out.enc) = Length
  BY <1>1 DEF AesInvariant, KeysAreRight, BlocksAreRight
<1>3. ~IsRefused(job)
  BY <1>2 DEF IsRefused, Length, AES_BLOCK_SIZE
<1>4. out = [enc |-> out.enc, dec |-> out.dec] /\ out.enc \in Seq(Byte)
  BY <1>1 DEF AesInvariant, AesShape
<1>5. out.dec = job.text
  <2>1. DecryptionRetraces
    BY Decryption
  <2>. QED BY <1>1, <2>1 DEF DecryptionRetraces
<1>6. KeySchedule(job.key, Nk, 4 * (Nr + 1)) = ctx.enc.keys
  BY <1>1, <1>2, KeyNumbers, ScheduleIs DEF EncKeys
<1>7. /\ job.answer \in Seq(Byte)
      /\ IsCipherOf(job.answer, job.text, ctx.enc.keys, Nr)
  BY <1>3, <1>6, AnswersAssumption DEF AesEnds, Nk, Nr
<1>8. out.enc = job.answer
  <2>1. Len(out.enc) = Len(job.text) /\ Len(job.answer) = Len(job.text) /\ Len(job.text) % 16 = 0
        /\ Len(job.text) \in Nat
    BY <1>1, <1>2, <1>7, LenProperties DEF IsCipherOf, Length
  <2>2. ASSUME NEW o \in Nat, o % 16 = 0, o + 16 <= Len(out.enc)
        PROVE  BlockAt(out.enc, o) = BlockAt(job.answer, o)
    <3>1. BlockAt(out.enc, o) = Rounds(BlockAt(job.text, o), ctx.enc.keys, Nr, Nr)
      BY <1>2, <2>2 DEF Encrypted
    <3>2. o \in 0..Len(job.text) - 1
      BY <2>1, <2>2
    <3>3. BlockAt(job.answer, o) = Rounds(BlockAt(job.text, o), ctx.enc.keys, Nr, Nr)
      BY <1>7, <2>2, <3>2 DEF IsCipherOf, BlockAt, AES_BLOCK_SIZE
    <3>. QED BY <3>1, <3>3
  <2>. QED BY <1>4, <1>7, <2>1, <2>2, SameText
<1>. QED BY <1>3, <1>4, <1>5, <1>8

\* The last iteration of benchmark has ended when its result is looked at.
AesMainInv ==
  program = "nettle-aes" =>
    /\ pc = "benchmark" => rpt = 1 \/ (rpt = 0 /\ at # "idle")
    /\ pc \in {"verify", "wfi"} => at = "done"
    /\ pc = "wfi" => correct

\* Before main has begun there is nothing to show.
LEMMA AesMainInvInit == Init => AesMainInv
BY DEF Init, MainInit, AesMainInv

\* What main makes of the two texts.
LEMMA AesMainInvStep == AesFacts /\ AesEnds /\ AesMainInv /\ [Next]_vars => AesMainInv'
<1> SUFFICES ASSUME AesFacts, AesEnds, AesMainInv, [Next]_vars PROVE AesMainInv'
  OBVIOUS
<1>1. CASE program = "nettle-aes" /\ NettleAes
  <2>1. program = "nettle-aes" /\ program' = "nettle-aes" /\ job = BenchmarkJob
    BY <1>1 DEF NettleAes, AesEnds
  <2>2. ASSUME NEW heat, WarmCaches(heat) PROVE AesMainInv'
    BY <2>2 DEF WarmCaches, AesMainInv
  <2>3. CASE Iterate /\ AesCall
    <3>1. /\ pc' = pc /\ pc \in {"warm_caches", "benchmark"} /\ rpt > 0 /\ rpt' = rpt - 1
          /\ at' = "set_key"
      BY <2>3 DEF Iterate, AesCall
    <3>2. pc = "benchmark" => rpt' = 0
      BY <2>1, <3>1 DEF AesMainInv
    <3>. QED BY <3>1, <3>2 DEF AesMainInv
  <2>4. CASE WarmedUp
    BY <2>4 DEF WarmedUp, Repeat, AesMainInv
  <2>5. CASE at \in {"idle", "done"} /\ Return(0) /\ UNCHANGED aesVars
    <3>1. at = "done" /\ pc' = "verify" /\ at' = at
      BY <2>1, <2>5 DEF Return, AesMainInv, aesVars
    <3>. QED BY <3>1 DEF AesMainInv
  <2>6. CASE Verify(AesVerified) /\ UNCHANGED aesVars
    <3>1. at = "done"
      BY <2>1, <2>6 DEF Verify, AesMainInv
    <3>2. out = [enc |-> expected, dec |-> plaintext]
      BY <2>1, <3>1, DoneIsRight DEF BenchmarkJob
    <3>3. AesVerified = TRUE
      BY <3>2 DEF AesVerified
    <3>4. pc' = "wfi" /\ correct' = TRUE /\ at' = at
      BY <2>6, <3>3 DEF Verify, aesVars
    <3>. QED BY <3>1, <3>4 DEF AesMainInv
  <2>7. CASE AesNext /\ UNCHANGED mainVars
    <3>1. at # "done" /\ at' # "idle"
      BY <2>7 DEF AesNext, SetKey, ExpandKey, KeysExpanded, SwapKeys, InvertKey, MixKeys, Check, Load,
                  EndOfHalf, Round, FinalRound
    <3>. QED BY <2>1, <2>7, <3>1 DEF mainVars, AesMainInv
  <2>. QED BY <1>1, <2>2, <2>3, <2>4, <2>5, <2>6, <2>7 DEF NettleAes, AesMain
<1>2. CASE program # "nettle-aes" /\ program' = program
  BY <1>2 DEF AesMainInv
<1>3. CASE UNCHANGED vars
  BY <1>3 DEF vars, mainVars, aesVars, AesMainInv
<1>4. \/ program = "nettle-aes" /\ NettleAes
      \/ program # "nettle-aes" /\ program' = program
      \/ UNCHANGED vars
  BY DEF Next, Crc, NettleAes, Aes, Fib, HeapClient, Startup, Wait
<1>. QED BY <1>1, <1>2, <1>3, <1>4

-----------------------------------------------------------------------------
(* The ends of all programs. *)

\* All that is known of them.
EndsInv == /\ CrcInv /\ CrcRun /\ CrcMainInv
           /\ AesFacts /\ AesEnds /\ AesMainInv
           /\ FibInv /\ CrtInv

\* It is enough at each of the ends.
LEMMA EndsWell == EndsInv => ProgramsSucceed
<1> SUFFICES ASSUME EndsInv, Ended PROVE ProgramsSucceed
  BY DEF ProgramsSucceed
<1>1. CASE program \in {"crc_32", "nettle-aes"}
  <2>1. pc = "wfi"
    BY <1>1 DEF Ended
  <2>2. correct
    BY <1>1, <2>1 DEF EndsInv, CrcMainInv, AesMainInv
  <2>. QED BY <1>1, <2>2 DEF ProgramsSucceed
<1>2. CASE program = "fib"
  <2>1. FibEnds
    BY <1>2 DEF Ended
  <2>2. number.y = F47
    BY <2>1, FibEndsWell DEF EndsInv
  <2>. QED BY <1>2, <2>2 DEF ProgramsSucceed
<1>3. CASE program = "crt0"
  <2>1. crtAt = "main_entry"
    BY <1>3 DEF Ended
  <2>2. BssIsClear
    BY <2>1, BssCleared DEF EndsInv
  <2>. QED BY <1>3, <2>2 DEF ProgramsSucceed
<1>4. CASE program = "aes"
  <2>1. at \in {"done", "exit"}
    BY <1>4 DEF Ended
  <2>2. CASE at = "done"
    BY <1>4, <2>2, DoneIsRight DEF EndsInv, ProgramsSucceed
  <2>3. CASE at = "exit"
    BY <1>4, <2>3 DEF EndsInv, AesEnds, ProgramsSucceed
  <2>. QED BY <2>1, <2>2, <2>3
<1>5. program \in {"crc_32", "nettle-aes", "fib", "crt0", "aes"}
  BY DEF Ended
<1>. QED BY <1>1, <1>2, <1>3, <1>4, <1>5

\* For every text, key and number of warm-up iterations, and every end of the
\* BSS section: where a program ends, its verify_benchmark has accepted what it
\* computed (crc_32.c, nettle-aes.c), fib.c has the number of its comment, a
\* call of the library has the text and the ciphertext of FIPS 197 or was
\* refused, and crt0.S has cleared the section.
THEOREM ProgramsEndWell == Spec => []ProgramsSucceed
<1>1. Spec => []AesFacts
  BY AesFactsHold
<1>2. Init => CrcInv /\ CrcRun /\ CrcMainInv /\ AesEnds /\ AesMainInv /\ FibInv /\ CrtInv
  BY CrcInvInit, CrcRunInit, CrcMainInvInit, AesEndsInit, AesMainInvInit, FibInvInit, CrtInvInit
<1>3. EndsInv /\ [Next]_vars
        => (CrcInv /\ CrcRun /\ CrcMainInv /\ AesEnds /\ AesMainInv /\ FibInv /\ CrtInv)'
  BY CrcInvStep, CrcRunStep, CrcMainInvStep, AesEndsStep, AesMainInvStep, FibInvStep, CrtInvStep
     DEF EndsInv
<1>4. Spec => []EndsInv
  BY <1>1, <1>2, <1>3, PTL DEF Spec, EndsInv
<1>. QED BY <1>4, EndsWell, PTL

=============================================================================

------------------------------ MODULE HeapProofs ------------------------------
(***************************************************************************)
(* Proofs about Heap, for every heap and every set of sizes that does not  *)
(* reach the limit of size_t.                                              *)
(***************************************************************************)
EXTENDS Heap, CommonLemmas, FiniteSetTheorems, FunctionTheorems, TLAPS

----------------------------------------------------------------------------
(* Rounding. *)

\* ALIGN_16 rounds up to a multiple of 16, as long as nothing wraps.
LEMMA AlignIs ==
  ASSUME NEW v \in Nat, v + 15 < WORD
  PROVE  /\ ALIGN_16(v) \in Nat
         /\ ALIGN_16(v) % 16 = 0
         /\ v <= ALIGN_16(v) /\ ALIGN_16(v) <= v + 15
<1>1. (v + (Alignment - 1)) % WORD = v + 15
  BY HeapConstantsOK DEF Alignment
<1> QED
  BY <1>1 DEF ALIGN_16, Alignment

\* The header takes 16 bytes.
LEMMA OverheadIs == overhead = 16
<1>1. 8 \in Nat /\ 8 + 15 < WORD
  <2>1. HEAP_START >= 16
    BY HeapConstantsOK DEF Alignment
  <2> QED
    BY <2>1, HeapConstantsOK DEF Alignment
<1>2. overhead \in Nat /\ overhead % 16 = 0 /\ 8 <= overhead /\ overhead <= 8 + 15
  BY <1>1, AlignIs DEF overhead, SIZEOF_BLOCK
<1> QED
  BY <1>2

\* What malloc looks for: room for header and request, a multiple of 16.
LEMMA SizeIs ==
  ASSUME NEW n \in Sizes
  PROVE  LET s == ALIGN_16((n + overhead) % WORD)
         IN  s \in Nat /\ s % 16 = 0 /\ n + 16 <= s /\ s <= n + 31
<1>1. n \in Nat /\ n + 16 \in Nat /\ (n + 16) + 15 < WORD
  BY HeapConstantsOK DEF Alignment
<1>2. (n + overhead) % WORD = n + 16
  BY <1>1, OverheadIs, HeapConstantsOK
<1> QED
  BY <1>1, <1>2, AlignIs

----------------------------------------------------------------------------
(* The inductive invariant. *)

Header == [next : Int, size : Nat]

Types ==
  /\ header \in [Blocks -> Header]
  /\ live \in [DOMAIN live -> Nat]
  /\ current_heap_address \in HEAP_START..(HEAP_START + HEAP_SIZE)
  /\ current_heap_address % 16 = 0
  /\ pc \in {"idle", "search"} /\ errno \in {"none", "ENOMEM"}
  /\ IsFiniteSet(DOMAIN live) /\ peak \in Nat

\* Blocks are aligned, below the break, and do not overlap.
BlocksInv ==
  /\ \A b \in Blocks :
       /\ b \in Nat /\ HEAP_START <= b /\ b % 16 = 0
       /\ header[b].size % 16 = 0 /\ 16 <= header[b].size
       /\ b + header[b].size <= current_heap_address
  /\ \A b, c \in Blocks :
       b # c => b + header[b].size <= c \/ c + header[c].size <= b

\* A pointer in use is the inside of a block large enough.
LiveInv ==
  \A p \in DOMAIN live :
    p \in Nat /\ p - 16 \in Blocks /\ live[p] + 16 <= header[p - 16].size

IsFree(b) == b \in Blocks /\ b + 16 \notin DOMAIN live

\* The free list holds free blocks only, and no two pointers of it, the head
\* included, lead to the same block.
ListInv ==
  /\ free_list = NULL \/ IsFree(free_list)
  /\ \A b \in Blocks : IsFree(b) =>
       \/ header[b].next = NULL
       \/ /\ IsFree(header[b].next)
          /\ header[b].next # free_list
          /\ \A c \in Blocks : IsFree(c) /\ header[c].next = header[b].next => b = c
  /\ \A b \in Blocks : header[b].next \in Blocks \cup {NULL, Unset}

\* malloc's walk: block is a free block or the end, and head leads to it.
SearchInv ==
  /\ pc = "idle" => size = 0 /\ asked = 0 /\ block = NULL /\ head = ListHead
  /\ pc = "search" =>
       /\ asked \in Sizes
       /\ size \in Nat /\ size % 16 = 0 /\ asked + 16 <= size /\ size <= asked + 31
       /\ block = NULL \/ IsFree(block)
       /\ \/ head = ListHead /\ free_list = block
          \/ head # ListHead /\ IsFree(head) /\ header[head].next = block

IInv == Types /\ BlocksInv /\ LiveInv /\ ListInv /\ SearchInv

\* The invariant holds of the empty heap.
LEMMA HeapInit == Init => IInv
<1> SUFFICES ASSUME Init PROVE IInv
  OBVIOUS
<1> USE HeapConstantsOK DEF Init, Blocks
<1>1. IsFiniteSet(DOMAIN live)
  BY FS_EmptySet
<1>2. Types
  BY <1>1 DEF Types, Header, Alignment
<1>3. BlocksInv /\ LiveInv /\ ListInv /\ SearchInv
  BY DEF BlocksInv, LiveInv, ListInv, SearchInv
<1> QED
  BY <1>2, <1>3 DEF IInv

----------------------------------------------------------------------------
(* Every step keeps the invariant. *)

\* A call of malloc keeps it: it has the size rounded and stands before the list.
LEMMA MallocInv == ASSUME NEW n \in Sizes PROVE IInv /\ malloc(n) => IInv'
<1> SUFFICES ASSUME IInv, malloc(n) PROVE IInv'
  OBVIOUS
<1> USE DEF malloc, listVars, Blocks
<1>1. UNCHANGED <<free_list, header, current_heap_address, errno, live, peak>>
  OBVIOUS
<1>2. Types' /\ BlocksInv' /\ LiveInv' /\ ListInv'
  BY <1>1 DEF IInv, Types, BlocksInv, LiveInv, ListInv, IsFree
<1>3. SearchInv'
  BY <1>1, SizeIs DEF IInv, SearchInv, ListInv, IsFree
<1> QED
  BY <1>2, <1>3 DEF IInv

\* So does a step of the walk to the next block.
LEMMA NextBlockInv == IInv /\ next_block => IInv'
<1> SUFFICES ASSUME IInv, next_block PROVE IInv'
  OBVIOUS
<1> USE DEF next_block, listVars, Blocks
<1>1. UNCHANGED <<free_list, header, current_heap_address, errno, live, peak, pc, size, asked>>
  OBVIOUS
<1>2. Types' /\ BlocksInv' /\ LiveInv' /\ ListInv'
  BY <1>1 DEF IInv, Types, BlocksInv, LiveInv, ListInv, IsFree
<1>3. IsFree(block) /\ block # ListHead
  BY HeapConstantsOK DEF IInv, SearchInv, IsFree, BlocksInv, ListHead
<1>4. block' = NULL \/ IsFree(block')
  BY <1>3 DEF IInv, ListInv, IsFree
<1>5. SearchInv'
  BY <1>1, <1>3, <1>4 DEF IInv, SearchInv, IsFree
<1> QED
  BY <1>2, <1>5 DEF IInv

\* Handing out a pointer keeps the bookkeeping finite.
LEMMA HandOutFinite ==
  ASSUME Types, NEW p, HandOut(p)
  PROVE  IsFiniteSet(DOMAIN live') /\ peak' \in Nat
<1>1. DOMAIN live' = DOMAIN live \cup {p}
  BY DEF HandOut
<1>2. IsFiniteSet(DOMAIN live')
  BY <1>1, FS_AddElement DEF Types
<1>3. Cardinality(DOMAIN live') \in Nat
  BY <1>2, FS_CardinalityType
<1> QED
  BY <1>2, <1>3 DEF HandOut, Types

\* A free block leaves the list; the pointer that led to it now leads on.
LEMMA TakeBlockInv == IInv /\ take_block => IInv'
<1> SUFFICES ASSUME IInv, take_block PROVE IInv'
  OBVIOUS
<1> USE DEF take_block, Return, listVars, Blocks
<1>1. /\ IsFree(block) /\ block # ListHead /\ block \in Nat
      /\ size <= header[block].size /\ asked + 16 <= size /\ asked \in Nat
  BY HeapConstantsOK DEF IInv, SearchInv, IsFree, BlocksInv, ListHead, Fits, Types, Header
<1>2. /\ live' = [q \in DOMAIN live \cup {block + 16} |->
                    IF q = block + 16 THEN asked ELSE live[q]]
      /\ IsFiniteSet(DOMAIN live') /\ peak' \in Nat
  BY HandOutFinite, OverheadIs DEF HandOut, Ptr, IInv
<1>3. /\ DOMAIN header' = DOMAIN header
      /\ header' \in [Blocks -> Header]
      /\ \A b \in DOMAIN header : header'[b].size = header[b].size
  BY <1>1 DEF unlink, SetNext, IInv, Types, Header, SearchInv, IsFree, ListInv, BlocksInv
<1>4. Types'
  BY <1>1, <1>2, <1>3 DEF IInv, Types
<1>5. BlocksInv'
  BY <1>3 DEF IInv, BlocksInv
<1>6. LiveInv'
  <2> SUFFICES ASSUME NEW p \in DOMAIN live'
               PROVE  /\ p \in Nat /\ p - 16 \in DOMAIN header
                      /\ live'[p] + 16 <= header[p - 16].size
    BY <1>3 DEF LiveInv
  <2>1. CASE p = block + 16
    <3>1. p - 16 = block /\ live'[p] = asked
      BY <1>1, <1>2, <2>1
    <3> QED
      BY <1>1, <2>1, <3>1 DEF IsFree, IInv, Types, Header, SearchInv
  <2>2. CASE p # block + 16
    <3>1. p \in DOMAIN live /\ live'[p] = live[p]
      BY <1>2, <2>2
    <3> QED
      BY <3>1 DEF IInv, LiveInv
  <2> QED
    BY <2>1, <2>2
<1>7. \A b \in DOMAIN header : IsFree(b)' <=> IsFree(b) /\ b # block
  BY <1>1, <1>2, <1>3 DEF IsFree, IInv, BlocksInv
<1>8. ListInv'
  <2>1. CASE head = ListHead
    <3>1. free_list = block /\ free_list' = header[block].next /\ header' = header
      BY <2>1 DEF unlink, SetNext, IInv, SearchInv
    <3> QED
      BY <1>1, <1>7, <3>1 DEF ListInv, IInv, IsFree
  <2>2. CASE head # ListHead
    <3>1. /\ IsFree(head) /\ header[head].next = block /\ free_list' = free_list
          /\ header'[head].next = header[block].next
          /\ \A b \in DOMAIN header : b # head => header'[b] = header[b]
      BY <2>2, <1>1 DEF unlink, SetNext, IInv, SearchInv, Types, Header, IsFree
    <3> QED
      BY <1>1, <1>3, <1>7, <3>1 DEF ListInv, IInv, IsFree
  <2> QED
    BY <2>1, <2>2
<1>9. SearchInv'
  BY DEF SearchInv
<1> QED
  BY <1>4, <1>5, <1>6, <1>8, <1>9 DEF IInv

\* A refused sbrk changes no block.
LEMMA SbrkFailsInv == IInv /\ sbrk_fails => IInv'
<1> SUFFICES ASSUME IInv, sbrk_fails PROVE IInv'
  OBVIOUS
<1> USE DEF sbrk_fails, Return, listVars, Blocks
<1>1. UNCHANGED <<free_list, header, current_heap_address, live, peak>>
  OBVIOUS
<1>2. Types' /\ BlocksInv' /\ LiveInv' /\ ListInv'
  BY <1>1 DEF IInv, Types, BlocksInv, LiveInv, ListInv, IsFree
<1>3. SearchInv'
  BY DEF SearchInv
<1> QED
  BY <1>2, <1>3 DEF IInv

\* The new block begins at the old break, where all other blocks end.
LEMMA SbrkInv == IInv /\ sbrk => IInv'
<1> SUFFICES ASSUME IInv, sbrk PROVE IInv'
  OBVIOUS
<1> DEFINE new == current_heap_address
<1> USE DEF sbrk, Return, listVars, Blocks
<1>1. /\ new \in Nat /\ HEAP_START <= new /\ new % 16 = 0
      /\ size \in Nat /\ size % 16 = 0 /\ asked \in Nat /\ asked + 16 <= size
      /\ new + size < WORD
  BY HeapConstantsOK DEF IInv, Types, SearchInv, Alignment
<1>2. /\ (new + size) % WORD = new + size
      /\ (new + size) % 16 = 0
  BY <1>1, HeapConstantsOK
<1>3. /\ current_heap_address' = new + size
      /\ new + size <= HEAP_START + HEAP_SIZE
      /\ DOMAIN header' = DOMAIN header \cup {new}
      /\ header'[new] = [next |-> Unset, size |-> size]
      /\ \A b \in DOMAIN header : b # new => header'[b] = header[b]
      /\ free_list' = free_list
  BY <1>2
<1>4. \A b \in DOMAIN header : b # new /\ b + 16 # new + 16
  BY <1>1 DEF IInv, BlocksInv, Types, Header
<1>5. new + 16 \notin DOMAIN live
  BY <1>1, <1>4 DEF IInv, LiveInv
<1>6. /\ live' = [q \in DOMAIN live \cup {new + 16} |->
                    IF q = new + 16 THEN asked ELSE live[q]]
      /\ IsFiniteSet(DOMAIN live') /\ peak' \in Nat
  BY HandOutFinite, OverheadIs DEF HandOut, Ptr, IInv
<1>7. Types'
  <2>1. header' \in [DOMAIN header' -> Header]
    BY <1>1, <1>3 DEF IInv, Types, Header, Unset
  <2>2. live' \in [DOMAIN live' -> Nat]
    BY <1>1, <1>6 DEF IInv, Types
  <2> QED
    BY <1>1, <1>2, <1>3, <1>6, <2>1, <2>2, HeapConstantsOK DEF IInv, Types
<1>8. BlocksInv'
  <2>1. ASSUME NEW b \in DOMAIN header, NEW c \in DOMAIN header
        PROVE  /\ header'[b].size = header[b].size /\ b \in Nat
               /\ b + header[b].size <= new
    BY <1>3, <1>4 DEF IInv, BlocksInv
  <2>2. header'[new].size = size
    BY <1>3
  <2>3. ASSUME NEW b \in DOMAIN header'
        PROVE  /\ b \in Nat /\ HEAP_START <= b /\ b % 16 = 0
               /\ header'[b].size % 16 = 0 /\ 16 <= header'[b].size
               /\ b + header'[b].size <= new + size
    <3>1. CASE b = new
      BY <1>1, <2>2, <3>1
    <3>2. CASE b \in DOMAIN header
      BY <1>1, <2>1, <3>2 DEF IInv, BlocksInv, Types, Header
    <3> QED
      BY <1>3, <3>1, <3>2
  <2>4. ASSUME NEW b \in DOMAIN header', NEW c \in DOMAIN header', b # c
        PROVE  b + header'[b].size <= c \/ c + header'[c].size <= b
    <3>1. CASE b \in DOMAIN header /\ c \in DOMAIN header
      BY <2>1, <2>4, <3>1 DEF IInv, BlocksInv
    <3>2. CASE b = new \/ c = new
      BY <1>3, <2>1, <2>4, <3>2
    <3> QED
      BY <1>3, <3>1, <3>2
  <2> QED
    BY <1>3, <2>3, <2>4 DEF BlocksInv
<1>9. LiveInv'
  <2> SUFFICES ASSUME NEW p \in DOMAIN live'
               PROVE  /\ p \in Nat /\ p - 16 \in DOMAIN header'
                      /\ live'[p] + 16 <= header'[p - 16].size
    BY DEF LiveInv
  <2>1. CASE p = new + 16
    <3>1. p - 16 = new /\ live'[p] = asked
      BY <1>1, <1>6, <2>1
    <3> QED
      BY <1>1, <1>3, <2>1, <3>1
  <2>2. CASE p # new + 16
    <3>1. p \in DOMAIN live /\ live'[p] = live[p]
      BY <1>6, <2>2
    <3> QED
      BY <1>3, <1>4, <3>1 DEF IInv, LiveInv
  <2> QED
    BY <2>1, <2>2
<1>10. \A b : IsFree(b)' <=> IsFree(b)
  BY <1>3, <1>4, <1>6 DEF IsFree
<1>11. ListInv'
  BY <1>3, <1>4, <1>10 DEF IInv, ListInv, IsFree
<1>12. SearchInv'
  BY DEF SearchInv
<1> QED
  BY <1>7, <1>8, <1>9, <1>11, <1>12 DEF IInv

\* The block freed becomes the first of the list; it was in use, so nothing
\* in the list led to it.
LEMMA FreeInv == ASSUME NEW ptr \in DOMAIN live PROVE IInv /\ free(ptr) => IInv'
<1> SUFFICES ASSUME IInv, free(ptr) PROVE IInv'
  OBVIOUS
<1> DEFINE b0 == ptr - 16
<1> USE DEF Blocks
<1>1. /\ ptr \in Nat /\ b0 \in DOMAIN header /\ b0 + 16 = ptr /\ ~IsFree(b0)
      /\ b0 \in Nat /\ b0 # NULL
  BY HeapConstantsOK DEF IInv, LiveInv, BlocksInv, IsFree, NULL
<1>2. /\ header' = [header EXCEPT ![b0] = [next |-> free_list, size |-> header[b0].size]]
      /\ free_list' = b0
      /\ live' = [q \in DOMAIN live \ {ptr} |-> live[q]]
      /\ UNCHANGED <<current_heap_address, errno, pc, size, block, head, asked, peak>>
      /\ pc = "idle"
  BY OverheadIs DEF free, SetNext, localVars
<1>3. free_list \in Int /\ (free_list = NULL \/ IsFree(free_list))
  BY DEF IInv, ListInv, IsFree, BlocksInv, NULL
<1>4. /\ DOMAIN header' = DOMAIN header
      /\ header' \in [DOMAIN header -> Header]
      /\ \A b \in DOMAIN header : header'[b].size = header[b].size
      /\ header'[b0].next = free_list
      /\ \A b \in DOMAIN header : b # b0 => header'[b].next = header[b].next
  BY <1>1, <1>2, <1>3 DEF IInv, Types, Header
<1>5. IsFiniteSet(DOMAIN live')
  <2>1. DOMAIN live' = DOMAIN live \ {ptr}
    BY <1>2
  <2> QED
    BY <2>1, FS_RemoveElement DEF IInv, Types
<1>6. Types'
  BY <1>2, <1>4, <1>5 DEF IInv, Types
<1>7. BlocksInv'
  BY <1>2, <1>4 DEF IInv, BlocksInv
<1>8. LiveInv'
  BY <1>2, <1>4 DEF IInv, LiveInv
<1>9. \A b \in DOMAIN header : IsFree(b)' <=> IsFree(b) \/ b = b0
  BY <1>1, <1>2, <1>4 DEF IsFree, IInv, BlocksInv
<1>10. ListInv'
  BY <1>1, <1>2, <1>3, <1>4, <1>9 DEF IInv, ListInv, IsFree
<1>11. SearchInv'
  BY <1>2 DEF IInv, SearchInv
<1> QED
  BY <1>6, <1>7, <1>8, <1>10, <1>11 DEF IInv

\* Every step keeps the invariant.
LEMMA HeapNext == IInv /\ [Next]_vars => IInv'
<1> SUFFICES ASSUME IInv, [Next]_vars PROVE IInv'
  OBVIOUS
<1>1. CASE Next
  BY <1>1, MallocInv, NextBlockInv, TakeBlockInv, SbrkFailsInv, SbrkInv, FreeInv
  DEF Next, Search
<1>2. CASE UNCHANGED vars
  BY <1>2 DEF vars, listVars, localVars, IInv, Types, BlocksInv, LiveInv, ListInv,
              SearchInv, IsFree, Blocks
<1> QED
  BY <1>1, <1>2

\* The inductive invariant holds of every behaviour of malloc and free.
THEOREM HeapInductive == Spec => []IInv
  BY HeapInit, HeapNext, PTL DEF Spec

\* malloc, free and sbrk never leave the heap, never hand out a pointer that
\* is not the inside of a block, and the list never leads out of the blocks.
THEOREM HeapTypeCorrect == Spec => []TypeOK
<1>1. IInv => TypeOK
  <2> SUFFICES ASSUME IInv PROVE TypeOK
    OBVIOUS
  <2>1. \A b \in Blocks : /\ b \in HEAP_START..current_heap_address
                          /\ b % 16 = 0 /\ header[b].size \in Nat
    BY HeapConstantsOK DEF IInv, BlocksInv, Types, Header
  <2>2. DOMAIN live \subseteq {Ptr(b) : b \in Blocks}
    <3> SUFFICES ASSUME NEW p \in DOMAIN live PROVE \E b \in Blocks : p = Ptr(b)
      OBVIOUS
    <3>1. p - 16 \in Blocks /\ p \in Nat
      BY DEF IInv, LiveInv
    <3> QED
      BY <3>1, OverheadIs DEF Ptr
  <2> QED
    BY <2>1, <2>2, HeapConstantsOK
    DEF IInv, Types, ListInv, SearchInv, TypeOK, IsFree, Alignment
<1> QED
  BY <1>1, HeapInductive, PTL

----------------------------------------------------------------------------
(* The heap implements the allocator. *)

\* What malloc returns for a block that is free lies in the heap, is aligned
\* and overlaps nothing in use.
LEMMA FreeBlockIsAlloc ==
  ASSUME IInv, NEW b \in Nat, NEW s \in Nat,
         asked \in Sizes, asked + 16 <= s, b % 16 = 0, HEAP_START <= b,
         b + s <= HEAP_START + HEAP_SIZE, b + 16 \notin DOMAIN live,
         \A c \in Blocks : b # c => b + s <= c \/ c + header[c].size <= b,
         HandOut(b + 16)
  PROVE  Alloc!Next
<1> DEFINE p == b + 16
<1>1. p \in HEAP_START..(HEAP_START + HEAP_SIZE) /\ p % 16 = 0 /\ asked \in Nat
      /\ p + asked <= HEAP_START + HEAP_SIZE
  BY HeapConstantsOK
<1>2. ASSUME NEW q \in DOMAIN live
      PROVE  p + asked <= q \/ q + live[q] <= p
  <2>1. /\ q \in Nat /\ q - 16 \in Blocks /\ live[q] + 16 <= header[q - 16].size
        /\ live[q] \in Nat /\ header[q - 16].size \in Nat
    BY DEF IInv, LiveInv, Types, Header
  <2>2. q - 16 # b
    BY <2>1
  <2>3. b + s <= q - 16 \/ (q - 16) + header[q - 16].size <= b
    BY <2>1, <2>2
  <2> QED
    BY <1>1, <2>1, <2>3
<1>3. Alloc!Alloc(p, asked)
  BY <1>1, <1>2 DEF HandOut, Alloc!Alloc, Alloc!Disjoint, Alignment
<1> QED
  BY <1>1, <1>3 DEF Alloc!Next

\* malloc, free and sbrk implement the allocator, for every heap and every
\* sequence of calls.
THEOREM HeapIsAllocator == Spec => IsAllocator
<1>1. Init => Alloc!Init
  BY DEF Init, Alloc!Init
<1>2. IInv /\ [Next]_vars => [Alloc!Next]_live
  <2> SUFFICES ASSUME IInv, [Next]_vars PROVE [Alloc!Next]_live
    OBVIOUS
  <2>1. CASE take_block
    <3>1. /\ IsFree(block) /\ block \in Nat /\ asked \in Sizes /\ block % 16 = 0
          /\ header[block].size \in Nat /\ asked + 16 <= header[block].size
          /\ HEAP_START <= block /\ block + header[block].size <= HEAP_START + HEAP_SIZE
      BY <2>1, HeapConstantsOK DEF take_block, Fits, IInv, SearchInv, BlocksInv, Types, Header,
                                   IsFree, Blocks
    <3>2. HandOut(block + 16)
      BY <2>1, OverheadIs DEF take_block, Ptr
    <3>3. \A c \in Blocks : block # c =>
            block + header[block].size <= c \/ c + header[c].size <= block
      BY <3>1 DEF IInv, BlocksInv, IsFree
    <3> QED
      BY <3>1, <3>2, <3>3, FreeBlockIsAlloc DEF IsFree
  <2>2. CASE sbrk
    <3> DEFINE new == current_heap_address
    <3>1. /\ new \in Nat /\ HEAP_START <= new /\ new % 16 = 0
          /\ size \in Nat /\ asked \in Sizes /\ asked + 16 <= size /\ new + size < WORD
      BY <2>2, HeapConstantsOK DEF sbrk, IInv, Types, SearchInv, Alignment
    <3>2. (new + size) % WORD = new + size
      BY <3>1, HeapConstantsOK
    <3>3. new + size <= HEAP_START + HEAP_SIZE
      BY <2>2, <3>2 DEF sbrk
    <3>4. \A c \in Blocks : c + header[c].size <= new /\ c # new
      BY <3>1 DEF IInv, BlocksInv, Types, Header
    <3>5. new + 16 \notin DOMAIN live
      BY <3>1, <3>4 DEF IInv, LiveInv
    <3>6. HandOut(new + 16)
      BY <2>2, OverheadIs DEF sbrk, Ptr
    <3> QED
      BY <3>1, <3>3, <3>4, <3>5, <3>6, FreeBlockIsAlloc
  <2>3. CASE \E ptr \in DOMAIN live : free(ptr)
    BY <2>3 DEF free, Alloc!Next, Alloc!Free
  <2>4. CASE next_block \/ sbrk_fails \/ (\E n \in Sizes : malloc(n)) \/ UNCHANGED vars
    BY <2>4 DEF next_block, sbrk_fails, malloc, vars
  <2> QED
    BY <2>1, <2>2, <2>3, <2>4 DEF Next, Search
<1> QED
  BY <1>1, <1>2, HeapInductive, PTL DEF Spec, IsAllocator, Alloc!Spec
----------------------------------------------------------------------------
(* The free list as a whole: a chain of the free blocks, in an order.  That  *)
(* the walk of malloc has passed only blocks that are too small is what      *)
(* keeps the heap from creeping.                                             *)

\* s[0], ..., s[n - 1] are the free blocks, each once, in the order of the
\* list, and s[n] is its end.
Chain(n, s) ==
  /\ s[0] = free_list /\ s[n] = NULL
  /\ \A i \in 0..(n - 1) : IsFree(s[i]) /\ header[s[i]].next = s[i + 1]
  /\ \A b \in Blocks : IsFree(b) => \E i \in 0..(n - 1) : s[i] = b
  /\ \A i, j \in 0..(n - 1) : s[i] = s[j] => i = j

\* malloc's walk is at s[k]; what it passed does not fit.
Walk(n, s) ==
  \E k \in 0..n :
    /\ block = s[k] /\ head = IF k = 0 THEN ListHead ELSE s[k - 1]
    /\ \A i \in 0..(k - 1) : header[s[i]].size < size

ChainInv ==
  \E n \in Nat : \E s \in [0..n -> Int] :
    Chain(n, s) /\ (pc = "search" => Walk(n, s))

\* The list is empty at first.
LEMMA ChainInit == Init => ChainInv
<1> SUFFICES ASSUME Init PROVE ChainInv
  OBVIOUS
<1> DEFINE s == [i \in 0..0 |-> NULL]
<1>1. s \in [0..0 -> Int] /\ s[0] = NULL
  BY DEF NULL
<1> HIDE DEF s
<1>2. Chain(0, s)
  BY <1>1 DEF Init, Chain, IsFree, Blocks
<1> QED  BY <1>1, <1>2 DEF Init, ChainInv

\* A step that leaves the free blocks and their links alone leaves the chain.
LEMMA ChainKept ==
  ASSUME NEW n \in Nat, NEW s \in [0..n -> Int], Chain(n, s),
         free_list' = free_list, \A b : IsFree(b)' <=> IsFree(b),
         \A b \in Blocks : IsFree(b) => header'[b].next = header[b].next
  PROVE  Chain(n, s)'
<1>1. \A b \in Blocks' : IsFree(b)' => b \in Blocks /\ IsFree(b)
  BY DEF IsFree
<1>2. \A i \in 0..(n - 1) : IsFree(s[i])' /\ header'[s[i]].next = s[i + 1]
  BY DEF Chain, IsFree
<1> QED  BY <1>1, <1>2 DEF Chain

\* malloc starts at the first block of the list.
LEMMA MallocChain == ASSUME IInv, ChainInv, NEW m \in Sizes, malloc(m) PROVE ChainInv'
<1>1. PICK n \in Nat : \E s \in [0..n -> Int] : Chain(n, s)
  BY DEF ChainInv
<1>2. PICK s \in [0..n -> Int] : Chain(n, s)
  BY <1>1
<1>3. UNCHANGED <<free_list, header, live>> /\ block' = free_list /\ head' = ListHead
  BY DEF malloc, listVars
<1>4. Chain(n, s)'
  BY <1>2, <1>3, ChainKept DEF IsFree, Blocks
<1>5. Walk(n, s)'
  BY <1>2, <1>3 DEF Walk, Chain
<1> QED  BY <1>4, <1>5 DEF ChainInv

\* It goes on to the next block of the list if the block does not fit.
LEMMA NextBlockChain == ASSUME IInv, ChainInv, next_block PROVE ChainInv'
<1>0. pc = "search" /\ block # NULL
  BY DEF next_block
<1>1. PICK n \in Nat : \E s \in [0..n -> Int] : Chain(n, s) /\ Walk(n, s)
  BY <1>0 DEF ChainInv
<1>2. PICK s \in [0..n -> Int] : Chain(n, s) /\ Walk(n, s)
  BY <1>1
<1>3. /\ UNCHANGED <<free_list, header, live, size>> /\ head' = block
      /\ block' = header[block].next /\ ~(header[block].size >= size)
  BY DEF next_block, listVars, Fits
<1>4. Chain(n, s)'
  BY <1>2, <1>3, ChainKept DEF IsFree, Blocks
<1>5. PICK k \in 0..n : /\ block = s[k]
                        /\ \A i \in 0..(k - 1) : header[s[i]].size < size
  BY <1>2 DEF Walk
<1>6. k \in 0..(n - 1)
  BY <1>0, <1>2, <1>5 DEF Chain
<1>7. block' = s[k + 1] /\ k + 1 \in 0..n
  BY <1>2, <1>3, <1>5, <1>6 DEF Chain
<1>8. header[block].size \in Nat /\ size \in Nat
  BY <1>0 DEF IInv, SearchInv, Types, Header, IsFree
<1>9. \A i \in 0..k : header[s[i]].size < size
  BY <1>3, <1>5, <1>8
<1>10. Walk(n, s)'
  <2> DEFINE l == k + 1
  <2>1. /\ l \in 0..n /\ block' = s[l] /\ head' = IF l = 0 THEN ListHead ELSE s[l - 1]
        /\ \A i \in 0..(l - 1) : header'[s[i]].size < size'
    BY <1>3, <1>5, <1>6, <1>7, <1>9
  <2> HIDE DEF l
  <2> QED  BY <2>1 DEF Walk
<1> QED  BY <1>4, <1>10 DEF ChainInv

\* A free block that is taken leaves the chain; the rest keeps its order.
LEMMA TakeBlockChain == ASSUME IInv, ChainInv, take_block PROVE ChainInv'
<1> USE DEF Blocks
<1>0. pc = "search" /\ block # NULL /\ pc' = "idle" /\ unlink
  BY DEF take_block, Return
<1>1. PICK n \in Nat : \E s \in [0..n -> Int] : Chain(n, s) /\ Walk(n, s)
  BY <1>0 DEF ChainInv
<1>2. PICK s \in [0..n -> Int] : Chain(n, s) /\ Walk(n, s)
  BY <1>1
<1>3. PICK k \in 0..n : block = s[k] /\ head = IF k = 0 THEN ListHead ELSE s[k - 1]
  BY <1>2 DEF Walk
<1>4. k \in 0..(n - 1)
  BY <1>0, <1>2, <1>3 DEF Chain
<1>5. /\ IsFree(block) /\ header[block].next = s[k + 1]
      /\ k > 0 => IsFree(head) /\ head = s[k - 1] /\ k - 1 \in 0..(n - 1)
  BY <1>2, <1>3, <1>4 DEF Chain
<1>6. \A b : IsFree(b) => b \in Nat /\ b # ListHead
  BY HeapConstantsOK DEF IInv, BlocksInv, IsFree, ListHead
<1>7. k > 0 <=> head # ListHead
  BY <1>3, <1>5, <1>6
\* What unlink does to the links.
<1>8. /\ DOMAIN header' = DOMAIN header
      /\ free_list' = IF k = 0 THEN s[k + 1] ELSE free_list
      /\ \A b \in DOMAIN header : header'[b].next =
           IF k > 0 /\ b = s[k - 1] THEN s[k + 1] ELSE header[b].next
  <2>1. CASE k = 0
    BY <1>0, <1>5, <1>7, <2>1 DEF unlink
  <2>2. CASE k > 0
    <3>1. header' = [header EXCEPT ![head] = [next |-> header[block].next, size |-> header[head].size]]
          /\ free_list' = free_list
      BY <1>0, <1>7, <2>2 DEF unlink, SetNext
    <3>2. head \in DOMAIN header /\ header \in [DOMAIN header -> Header]
      BY <1>5, <2>2 DEF IsFree, IInv, Types
    <3> QED  BY <1>5, <2>2, <3>1, <3>2
  <2> QED  BY <1>4, <2>1, <2>2
<1>9. \A b \in DOMAIN header : IsFree(b)' <=> IsFree(b) /\ b # block
  <2>1. DOMAIN live' = DOMAIN live \cup {block + 16}
    BY OverheadIs DEF take_block, HandOut, Ptr
  <2> QED  BY <1>5, <1>8, <2>1 DEF IsFree, IInv, BlocksInv
<1> DEFINE m == n - 1
           r == [i \in 0..m |-> IF i < k THEN s[i] ELSE s[i + 1]]
<1>10. m \in Nat /\ r \in [0..m -> Int]
  BY <1>4
<1>11. \A i \in 0..m : r[i] = IF i < k THEN s[i] ELSE s[i + 1]
  OBVIOUS
<1>12. n = m + 1
  OBVIOUS
<1> HIDE DEF m, r
<1>13. /\ s[0] = free_list /\ s[n] = NULL
       /\ \A i \in 0..(n - 1) : IsFree(s[i]) /\ header[s[i]].next = s[i + 1]
       /\ \A b \in DOMAIN header : IsFree(b) => \E i \in 0..(n - 1) : s[i] = b
       /\ \A i, j \in 0..(n - 1) : s[i] = s[j] => i = j
  BY <1>2 DEF Chain
<1>14. r[0] = free_list' /\ r[m] = NULL
  BY <1>4, <1>8, <1>10, <1>11, <1>12, <1>13
<1>15. ASSUME NEW i \in 0..(m - 1) PROVE IsFree(r[i])' /\ header'[r[i]].next = r[i + 1]
  <2>1. CASE i < k
    <3>1. r[i] = s[i] /\ i \in 0..(n - 1) /\ i # k /\ s[i] # block /\ IsFree(s[i])
      BY <1>3, <1>4, <1>10, <1>11, <1>12, <1>13, <2>1
    <3>2. IsFree(r[i])'
      BY <1>9, <3>1 DEF IsFree
    <3>3. CASE i + 1 < k
      <4>1. s[i] # s[k - 1] /\ r[i + 1] = s[i + 1]
        BY <1>4, <1>10, <1>11, <1>12, <1>13, <2>1, <3>3
      <4>2. s[i] \in DOMAIN header /\ header[s[i]].next = s[i + 1]
        BY <1>13, <3>1 DEF IsFree
      <4>3. header'[s[i]].next = s[i + 1]
        BY <1>8, <4>1, <4>2
      <4> QED  BY <3>1, <3>2, <4>1, <4>3
    <3>4. CASE i + 1 = k
      <4>1. s[i] = s[k - 1] /\ r[i + 1] = s[k + 1] /\ k > 0
        BY <1>4, <1>10, <1>11, <1>12, <2>1, <3>4
      <4> QED  BY <1>8, <3>1, <3>2, <4>1 DEF IsFree
    <3> QED  BY <1>4, <1>10, <2>1, <3>3, <3>4
  <2>2. CASE i >= k
    <3>1. r[i] = s[i + 1] /\ r[i + 1] = s[i + 2] /\ i + 1 \in 0..(n - 1)
      BY <1>4, <1>10, <1>11, <1>12, <2>2
    <3>2. IsFree(s[i + 1]) /\ header[s[i + 1]].next = s[i + 2] /\ s[i + 1] # block
      BY <1>3, <1>4, <1>13, <2>2, <3>1
    <3>3. k > 0 => s[i + 1] # s[k - 1]
      BY <1>4, <1>13, <2>2, <3>1
    <3> QED  BY <1>8, <1>9, <3>1, <3>2, <3>3 DEF IsFree
  <2> QED  BY <1>4, <1>10, <2>1, <2>2
<1>16. ASSUME NEW b \in DOMAIN header, IsFree(b)' PROVE \E i \in 0..(m - 1) : r[i] = b
  <2>1. IsFree(b) /\ b # block
    BY <1>9, <1>16
  <2>2. PICK j \in 0..(n - 1) : s[j] = b
    BY <1>13, <2>1
  <2>3. j # k
    BY <1>3, <2>1, <2>2
  <2>4. CASE j < k
    <3>1. j \in 0..(m - 1) /\ r[j] = b
      BY <1>4, <1>10, <1>11, <1>12, <2>2, <2>4
    <3> QED  BY <3>1
  <2>5. CASE j > k
    <3> DEFINE i == j - 1
    <3>1. i \in 0..(m - 1) /\ ~(i < k) /\ i + 1 = j
      BY <1>4, <1>10, <1>12, <2>5
    <3> HIDE DEF i
    <3>2. r[i] = b
      BY <1>10, <1>11, <2>2, <3>1
    <3> QED  BY <3>1, <3>2
  <2> QED  BY <1>4, <2>3, <2>4, <2>5
<1>17. ASSUME NEW i \in 0..(m - 1), NEW j \in 0..(m - 1), r[i] = r[j] PROVE i = j
  <2> DEFINE I == IF i < k THEN i ELSE i + 1
             J == IF j < k THEN j ELSE j + 1
  <2>1. I \in 0..(n - 1) /\ J \in 0..(n - 1) /\ r[i] = s[I] /\ r[j] = s[J]
    BY <1>4, <1>10, <1>11, <1>12
  <2>2. I = J => i = j
    BY <1>4, <1>10
  <2> HIDE DEF I, J
  <2> QED  BY <1>13, <1>17, <2>1, <2>2
<1>18. Chain(m, r)'
  BY <1>8, <1>14, <1>15, <1>16, <1>17 DEF Chain
<1> QED  BY <1>0, <1>10, <1>18 DEF ChainInv

\* Neither a failing nor a successful sbrk touches the list.
LEMMA SbrkChain == ASSUME IInv, ChainInv, sbrk \/ sbrk_fails PROVE ChainInv'
<1> USE DEF Blocks
<1>1. PICK n \in Nat : \E s \in [0..n -> Int] : Chain(n, s)
  BY DEF ChainInv
<1>2. PICK s \in [0..n -> Int] : Chain(n, s)
  BY <1>1
<1>3. pc' = "idle" /\ free_list' = free_list
  BY DEF sbrk, sbrk_fails, Return, listVars
<1>4. CASE sbrk_fails
  <2>1. UNCHANGED <<header, live>>
    BY <1>4 DEF sbrk_fails, listVars
  <2>2. Chain(n, s)'
    BY <1>2, <1>3, <2>1, ChainKept DEF IsFree
  <2> QED  BY <1>3, <2>2 DEF ChainInv
<1>5. CASE sbrk
  <2> DEFINE new == current_heap_address
  <2>1. /\ DOMAIN header' = DOMAIN header \cup {new} /\ DOMAIN live' = DOMAIN live \cup {new + 16}
        /\ \A b \in DOMAIN header : b # new => header'[b] = header[b]
    BY <1>5, OverheadIs DEF sbrk, HandOut, Ptr
  <2>2. \A b \in DOMAIN header : b \in Nat /\ b # new /\ new \in Nat
    BY HeapConstantsOK DEF IInv, BlocksInv, Types, Header
  <2> HIDE DEF new
  <2>3. \A b : IsFree(b)' <=> IsFree(b)
    BY <2>1, <2>2 DEF IsFree
  <2>4. \A b \in Blocks : IsFree(b) => header'[b].next = header[b].next
    BY <2>1, <2>2
  <2>5. Chain(n, s)'
    BY <1>2, <1>3, <2>3, <2>4, ChainKept
  <2> QED  BY <1>3, <2>5 DEF ChainInv
<1> QED  BY <1>4, <1>5

\* A block that is freed is put before the others.
LEMMA FreeChain == ASSUME IInv, ChainInv, NEW ptr \in DOMAIN live, free(ptr) PROVE ChainInv'
<1> USE DEF Blocks
<1>1. PICK n \in Nat : \E s \in [0..n -> Int] : Chain(n, s)
  BY DEF ChainInv
<1>2. PICK s \in [0..n -> Int] : Chain(n, s)
  BY <1>1
<1> DEFINE b0 == ptr - 16
<1>3. /\ ptr \in Nat /\ b0 \in DOMAIN header /\ b0 + 16 = ptr /\ ~IsFree(b0) /\ b0 \in Int
  BY HeapConstantsOK DEF IInv, LiveInv, BlocksInv, IsFree
<1>4. /\ header' = [header EXCEPT ![b0] = [next |-> free_list, size |-> header[b0].size]]
      /\ free_list' = b0 /\ DOMAIN live' = DOMAIN live \ {ptr}
      /\ pc' = "idle"
  BY OverheadIs DEF free, SetNext
<1> HIDE DEF b0
<1>5. /\ DOMAIN header' = DOMAIN header /\ header'[b0].next = free_list
      /\ \A b \in DOMAIN header : b # b0 => header'[b].next = header[b].next
  BY <1>3, <1>4 DEF IInv, Types
<1>6. \A b \in DOMAIN header : IsFree(b)' <=> IsFree(b) \/ b = b0
  BY <1>3, <1>4, <1>5 DEF IsFree, IInv, BlocksInv
<1> DEFINE m == n + 1
           r == [i \in 0..m |-> IF i = 0 THEN b0 ELSE s[i - 1]]
<1>7. m \in Nat /\ r \in [0..m -> Int] /\ n = m - 1
  BY <1>3
<1>8. r[0] = b0 /\ \A i \in 1..m : r[i] = s[i - 1]
  OBVIOUS
<1> HIDE DEF m, r
<1>9. /\ s[0] = free_list /\ s[n] = NULL
      /\ \A i \in 0..(n - 1) : IsFree(s[i]) /\ header[s[i]].next = s[i + 1]
      /\ \A b \in DOMAIN header : IsFree(b) => \E i \in 0..(n - 1) : s[i] = b
      /\ \A i, j \in 0..(n - 1) : s[i] = s[j] => i = j
  BY <1>2 DEF Chain
<1>10. r[m] = NULL
  BY <1>7, <1>8, <1>9
<1>11. ASSUME NEW i \in 0..(m - 1) PROVE IsFree(r[i])' /\ header'[r[i]].next = r[i + 1]
  <2>1. CASE i = 0
    <3>1. r[i + 1] = free_list
      BY <1>7, <1>8, <1>9, <2>1
    <3> QED  BY <1>3, <1>5, <1>6, <1>8, <2>1, <3>1
  <2>2. CASE i > 0
    <3> DEFINE j == i - 1
    <3>1. j \in 0..(n - 1) /\ r[i] = s[j] /\ r[i + 1] = s[j + 1]
      BY <1>7, <1>8, <2>2
    <3> HIDE DEF j
    <3>2. IsFree(s[j]) /\ s[j] \in DOMAIN header /\ s[j] # b0
      BY <1>3, <1>9, <3>1 DEF IsFree
    <3> QED  BY <1>5, <1>6, <1>9, <3>1, <3>2
  <2> QED  BY <1>7, <2>1, <2>2
<1>12. ASSUME NEW b \in DOMAIN header, IsFree(b)' PROVE \E i \in 0..(m - 1) : r[i] = b
  <2>1. CASE b = b0
    BY <1>7, <1>8, <2>1
  <2>2. CASE IsFree(b)
    <3>1. PICK j \in 0..(n - 1) : s[j] = b
      BY <1>9, <2>2
    <3> DEFINE i == j + 1
    <3>2. i \in 1..(m - 1) /\ i \in 1..m /\ i - 1 = j
      BY <1>7
    <3> HIDE DEF i
    <3>3. r[i] = b /\ i \in 0..(m - 1)
      BY <1>7, <1>8, <3>1, <3>2
    <3> QED  BY <3>3
  <2> QED  BY <1>6, <1>12, <2>1, <2>2
<1>13. ASSUME NEW i \in 0..(m - 1), NEW j \in 0..(m - 1), r[i] = r[j] PROVE i = j
  <2>1. \A l \in 1..(m - 1) : r[l] = s[l - 1] /\ l - 1 \in 0..(n - 1) /\ r[l] # b0
    BY <1>3, <1>7, <1>8, <1>9
  <2>2. CASE i = 0 \/ j = 0
    BY <1>7, <1>8, <1>13, <2>1, <2>2
  <2>3. CASE i > 0 /\ j > 0
    <3>1. i - 1 = j - 1
      BY <1>7, <1>9, <1>13, <2>1, <2>3
    <3> QED  BY <1>7, <3>1
  <2> QED  BY <1>7, <2>2, <2>3
<1>14. Chain(m, r)'
  BY <1>4, <1>5, <1>8, <1>10, <1>11, <1>12, <1>13 DEF Chain
<1> QED  BY <1>4, <1>7, <1>14 DEF ChainInv

\* Every step keeps the chain.
LEMMA ChainNext == IInv /\ ChainInv /\ [Next]_vars => ChainInv'
<1> SUFFICES ASSUME IInv, ChainInv, [Next]_vars PROVE ChainInv'
  OBVIOUS
<1>1. CASE UNCHANGED vars
  <2>1. PICK n \in Nat : \E s \in [0..n -> Int] : Chain(n, s) /\ (pc = "search" => Walk(n, s))
    BY DEF ChainInv
  <2>2. PICK s \in [0..n -> Int] : Chain(n, s) /\ (pc = "search" => Walk(n, s))
    BY <2>1
  <2>3. UNCHANGED <<free_list, header, live, pc, block, head, size>>
    BY <1>1 DEF vars, listVars, localVars
  <2>4. Chain(n, s)'
    BY <2>2, <2>3, ChainKept DEF IsFree, Blocks
  <2>5. Walk(n, s) => Walk(n, s)'
    BY <2>3 DEF Walk
  <2> QED  BY <2>2, <2>3, <2>4, <2>5 DEF ChainInv
<1> QED  BY <1>1, MallocChain, NextBlockChain, TakeBlockChain, SbrkChain, FreeChain DEF Next, Search

----------------------------------------------------------------------------
(* Nothing leaks. *)

\* The links from the head of the list on are the chain.  A recursive function
\* is one that satisfies its equation, if there is any; the chain gives one.
LEMMA LinkIs ==
  ASSUME IInv, NEW n \in Nat, NEW s \in [0..n -> Int], Chain(n, s)
  PROVE  \A i \in 0..n : Link[i] = s[i]
<1> DEFINE Follow(g) == [i \in Nat |-> IF i = 0 THEN free_list
                                       ELSE IF g[i - 1] = NULL THEN NULL
                                            ELSE header[g[i - 1]].next]
           f == [i \in Nat |-> IF i <= n THEN s[i] ELSE NULL]
<1>1. \A i \in 0..(n - 1) : s[i] # NULL
  BY HeapConstantsOK DEF Chain, IsFree, IInv, BlocksInv, NULL
<1>2. f = Follow(f)
  <2>1. \A i \in 0..n : f[i] = s[i]
    OBVIOUS
  <2>2. \A i \in Nat : i > n => f[i] = NULL
    OBVIOUS
  <2>3. s[0] = free_list /\ s[n] = NULL
    BY DEF Chain
  <2>4. ASSUME NEW i \in Nat
        PROVE  f[i] = IF i = 0 THEN free_list
                      ELSE IF f[i - 1] = NULL THEN NULL ELSE header[f[i - 1]].next
    <3> HIDE DEF f
    <3>1. CASE i = 0
      BY <2>1, <2>3, <3>1
    <3>2. CASE i \in 1..n
      <4> DEFINE j == i - 1
      <4>1. j \in 0..(n - 1) /\ j \in 0..n /\ j + 1 = i /\ i # 0 /\ i \in 0..n
        BY <3>2
      <4> HIDE DEF j
      <4>2. header[s[j]].next = s[i]
        BY <4>1 DEF Chain
      <4>3. f[i] = s[i] /\ f[j] = s[j] /\ s[j] # NULL
        BY <1>1, <2>1, <4>1
      <4> QED  BY <4>1, <4>2, <4>3 DEF j
    <3>3. CASE i > n
      <4> DEFINE j == i - 1
      <4>1. j \in Nat /\ i # 0 /\ (j = n \/ j > n)
        BY <3>3
      <4>2. f[j] = NULL /\ f[i] = NULL
        <5> HIDE DEF j
        <5> QED  BY <2>1, <2>2, <2>3, <3>3, <4>1
      <4> HIDE DEF j
      <4> QED  BY <4>1, <4>2 DEF j
    <3> QED  BY <3>1, <3>2, <3>3
  <2>5. f = [i \in Nat |-> f[i]]
    OBVIOUS
  <2> QED  BY <2>4, <2>5
<1> HIDE DEF f
<1>3. Link = Follow(Link)
  BY <1>2 DEF Link
<1> DEFINE Wrong == {i \in 0..n : Link[i] # s[i]}
<1>4. Wrong = {}
  <2> SUFFICES ASSUME Wrong # {} PROVE FALSE
    OBVIOUS
  <2>1. Wrong \subseteq Nat
    OBVIOUS
  <2>2. PICK w \in Wrong : \A y \in Wrong : w <= y
    <3> HIDE DEF Wrong
    <3> QED  BY <2>1, LeastExists
  <2>3. w \in 0..n /\ Link[w] # s[w]
    OBVIOUS
  <2>4. Link[0] = free_list
    BY <1>3
  <2>5. w # 0
    BY <2>3, <2>4 DEF Chain
  <2> DEFINE j == w - 1
  <2>6. j \in 0..(n - 1) /\ j \in 0..n /\ j + 1 = w /\ w \in Nat /\ ~(w <= j)
    BY <2>3, <2>5
  <2>7. Link[j] = s[j]
    BY <2>2, <2>6
  <2>8. Link[w] = IF Link[j] = NULL THEN NULL ELSE header[Link[j]].next
    BY <1>3, <2>5, <2>6
  <2> HIDE DEF j
  <2>9. header[s[j]].next = s[w] /\ s[j] # NULL
    BY <1>1, <2>6 DEF Chain
  <2> QED  BY <2>3, <2>7, <2>8, <2>9
<1> QED  BY <1>4

\* The chain has as many blocks as there are free blocks.
LEMMA ChainLength ==
  ASSUME NEW n \in Nat, NEW s \in [0..n -> Int], Chain(n, s)
  PROVE  /\ FreeBlocks = {s[i] : i \in 0..(n - 1)}
         /\ Cardinality(FreeBlocks) = n
<1> DEFINE f == [i \in 0..(n - 1) |-> s[i]]
<1>1. FreeBlocks = {b \in Blocks : IsFree(b)}
  BY OverheadIs DEF FreeBlocks, IsFree, Ptr
<1>2. \A i \in 0..(n - 1) : s[i] \in FreeBlocks
  BY <1>1 DEF Chain, IsFree
<1>3. \A b \in FreeBlocks : \E i \in 0..(n - 1) : s[i] = b
  BY <1>1 DEF Chain
<1>4. FreeBlocks = {s[i] : i \in 0..(n - 1)}
  BY <1>2, <1>3
<1>5. f \in Bijection(0..(n - 1), FreeBlocks)
  <2>1. f \in [0..(n - 1) -> FreeBlocks]
    BY <1>2
  <2>2. \A b \in FreeBlocks : \E i \in 0..(n - 1) : f[i] = b
    BY <1>3
  <2>3. \A i, j \in 0..(n - 1) : f[i] = f[j] => i = j
    BY DEF Chain
  <2> HIDE DEF f
  <2> QED  BY <2>1, <2>2, <2>3, Fun_IsBij
<1>6. IsFiniteSet(0..(n - 1)) /\ Cardinality(0..(n - 1)) = n
  <2>1. 0 \in Int /\ n - 1 \in Int
    OBVIOUS
  <2>2. IsFiniteSet(0..(n - 1)) /\ Cardinality(0..(n - 1)) = IF 0 > n - 1 THEN 0 ELSE n - 1 - 0 + 1
    BY <2>1, FS_Interval
  <2> QED  BY <2>2
<1>7. ExistsBijection(0..(n - 1), FreeBlocks)
  BY <1>5 DEF ExistsBijection
<1> QED  BY <1>4, <1>6, <1>7, FS_Bijection

\* Every block that is not in use is in the free list, once, and nothing else
\* is, whatever the order in which blocks were freed and taken again.
THEOREM HeapNoLeak == Spec => []NoLeak
<1>1. IInv /\ ChainInv => NoLeak
  <2> SUFFICES ASSUME IInv, ChainInv PROVE NoLeak
    OBVIOUS
  <2>1. PICK n \in Nat : \E s \in [0..n -> Int] : Chain(n, s)
    BY DEF ChainInv
  <2>2. PICK s \in [0..n -> Int] : Chain(n, s)
    BY <2>1
  <2>3. \A i \in 0..n : Link[i] = s[i]
    BY <2>2, LinkIs
  <2>4. FreeBlocks = {s[i] : i \in 0..(n - 1)} /\ Cardinality(FreeBlocks) = n
    BY <2>2, ChainLength
  <2>5. {Link[i] : i \in 0..(n - 1)} = {s[i] : i \in 0..(n - 1)}
    BY <2>3
  <2>6. Link[n] = NULL
    BY <2>2, <2>3 DEF Chain
  <2> QED  BY <2>4, <2>5, <2>6 DEF NoLeak
<1> QED  BY <1>1, HeapInductive, ChainInit, ChainNext, PTL DEF Spec

----------------------------------------------------------------------------
(* The heap does not creep. *)

SizeClass(z) == {c \in Blocks : header[c].size = z}

CountInv ==
  /\ IsFiniteSet(Blocks)
  /\ Cardinality(DOMAIN live) <= peak
  /\ \A z \in Nat : Cardinality(SizeClass(z)) <= peak

\* When malloc asks sbrk, every block as large as the one it needs is in use.
LEMMA NoneFits ==
  ASSUME IInv, ChainInv, pc = "search", block = NULL, NEW b \in Blocks, header[b].size >= size
  PROVE  b + 16 \in DOMAIN live
<1>1. PICK n \in Nat : \E s \in [0..n -> Int] : Chain(n, s) /\ Walk(n, s)
  BY DEF ChainInv
<1>2. PICK s \in [0..n -> Int] : Chain(n, s) /\ Walk(n, s)
  BY <1>1
<1>3. PICK k \in 0..n : block = s[k] /\ \A i \in 0..(k - 1) : header[s[i]].size < size
  BY <1>2 DEF Walk
<1>4. \A i \in 0..(n - 1) : s[i] # NULL
  BY <1>2, HeapConstantsOK DEF Chain, IsFree, IInv, BlocksInv, NULL
<1>5. k = n
  BY <1>3, <1>4
<1>6. header[b].size \in Nat /\ size \in Nat
  BY DEF IInv, Types, Header, SearchInv
<1>7. ~IsFree(b)
  <2> SUFFICES ASSUME IsFree(b) PROVE FALSE
    OBVIOUS
  <2>1. PICK i \in 0..(n - 1) : s[i] = b
    BY <1>2 DEF Chain
  <2> QED  BY <1>3, <1>5, <1>6, <2>1
<1> QED  BY <1>7 DEF IsFree

\* A set of blocks in use is no larger than the set of pointers in use.
LEMMA UsedBlocks ==
  ASSUME NEW S \in SUBSET Nat, NEW L, IsFiniteSet(L), \A b \in S : b + 16 \in L
  PROVE  IsFiniteSet(S) /\ Cardinality(S) <= Cardinality(L)
<1> DEFINE f == [b \in S |-> b + 16]
<1>1. f \in [S -> L] /\ \A a, b \in S : f[a] = f[b] => a = b
  OBVIOUS
<1> HIDE DEF f
<1>2. f \in Injection(S, L)
  BY <1>1, Fun_IsInj
<1> QED  BY <1>2, FS_Injection

\* A step that makes no block and whose peak does not fall.
LEMMA CountKept ==
  ASSUME IInv, IInv', CountInv, Blocks' = Blocks, \A b \in Blocks : header'[b].size = header[b].size,
         peak <= peak', Cardinality(DOMAIN live') <= peak'
  PROVE  CountInv'
<1>1. ASSUME NEW z \in Nat PROVE Cardinality(SizeClass(z)') <= peak'
  <2>1. SizeClass(z)' = SizeClass(z)
    BY DEF SizeClass
  <2>2. IsFiniteSet(SizeClass(z))
    BY FS_Subset DEF CountInv, SizeClass
  <2>3. Cardinality(SizeClass(z)) \in Nat
    BY <2>2, FS_CardinalityType
  <2> QED  BY <2>1, <2>3 DEF CountInv, IInv, Types
<1> QED  BY <1>1 DEF CountInv

\* A pointer handed out is counted.
LEMMA HandOutCounted ==
  ASSUME IInv, IInv', CountInv, NEW p, HandOut(p)
  PROVE  peak <= peak' /\ Cardinality(DOMAIN live') <= peak'
<1>1. Cardinality(DOMAIN live') \in Nat /\ peak \in Nat
  BY FS_CardinalityType DEF IInv, Types
<1> QED  BY <1>1 DEF HandOut

\* Every step keeps the count; a new block is made only when all of its size
\* are in use.
LEMMA CountNext == IInv /\ ChainInv /\ CountInv /\ [Next]_vars => CountInv'
<1> SUFFICES ASSUME IInv, ChainInv, CountInv, [Next]_vars PROVE CountInv'
  OBVIOUS
<1>0. IInv' /\ peak \in Nat
  BY HeapNext DEF IInv, Types
<1>1. CASE next_block \/ sbrk_fails \/ (\E m \in Sizes : malloc(m)) \/ UNCHANGED vars
  <2>1. UNCHANGED <<header, live, peak>>
    BY <1>1 DEF next_block, sbrk_fails, malloc, vars, listVars
  <2> QED  BY <1>0, <2>1, CountKept DEF CountInv, Blocks
<1>2. CASE take_block
  <2>1. HandOut(Ptr(block)) /\ unlink
    BY <1>2 DEF take_block
  <2>2. Blocks' = Blocks /\ \A b \in Blocks : header'[b].size = header[b].size
    <3>1. CASE head = ListHead
      BY <2>1, <3>1 DEF unlink, Blocks
    <3>2. CASE head # ListHead
      BY <2>1, <3>2 DEF unlink, SetNext, Blocks, IInv, Types
    <3> QED  BY <3>1, <3>2
  <2> QED  BY <1>0, <2>1, <2>2, HandOutCounted, CountKept
<1>3. CASE \E ptr \in DOMAIN live : free(ptr)
  <2>1. PICK ptr \in DOMAIN live : free(ptr)
    BY <1>3
  <2>2. Blocks' = Blocks /\ \A b \in Blocks : header'[b].size = header[b].size
    BY <2>1 DEF free, SetNext, Blocks, IInv, Types
  <2>3. DOMAIN live' = DOMAIN live \ {ptr} /\ peak' = peak
    BY <2>1 DEF free
  <2>4. Cardinality(DOMAIN live') = Cardinality(DOMAIN live) - 1 /\ Cardinality(DOMAIN live) \in Nat
    BY <2>3, FS_RemoveElement, FS_CardinalityType DEF IInv, Types
  <2> QED  BY <1>0, <2>2, <2>3, <2>4, CountKept DEF CountInv
<1>4. CASE sbrk
  <2> DEFINE new == current_heap_address
  <2>1. /\ pc = "search" /\ block = NULL /\ HandOut(new + 16)
        /\ Blocks' = Blocks \cup {new} /\ header'[new].size = size
        /\ \A b \in Blocks : b # new => header'[b] = header[b]
    BY <1>4, OverheadIs DEF sbrk, Ptr, Blocks
  <2>2. peak <= peak' /\ Cardinality(DOMAIN live') <= peak' /\ peak' \in Nat
    BY <1>0, <2>1, HandOutCounted DEF IInv, Types
  <2>3. IsFiniteSet(Blocks')
    BY <2>1, FS_AddElement DEF CountInv
  <2>4. \A b \in Blocks : b # new
    BY HeapConstantsOK DEF IInv, BlocksInv, Types, Header
  <2>5. ASSUME NEW z \in Nat PROVE Cardinality(SizeClass(z)') <= peak'
    <3>1. CASE z = size
      <4>1. ASSUME NEW b \in SizeClass(z)' PROVE b + 16 \in DOMAIN live'
        <5>1. DOMAIN live' = DOMAIN live \cup {new + 16}
          BY <2>1 DEF HandOut
        <5>2. CASE b = new
          BY <5>1, <5>2
        <5>3. CASE b # new
          <6>1. b \in Blocks /\ header[b].size = size /\ size \in Nat
            BY <2>1, <3>1, <5>3 DEF SizeClass
          <6>2. b + 16 \in DOMAIN live
            BY <2>1, <6>1, NoneFits
          <6> QED  BY <5>1, <6>2
        <5> QED  BY <5>2, <5>3
      <4>2. SizeClass(z)' \in SUBSET Nat
        BY <1>0 DEF SizeClass, IInv, BlocksInv
      <4>3. IsFiniteSet(DOMAIN live')
        BY <1>0 DEF IInv, Types
      <4> DEFINE C == SizeClass(z)'
                 L == DOMAIN live'
      <4> HIDE DEF C, L
      <4>4. IsFiniteSet(C) /\ Cardinality(C) <= Cardinality(L)
        <5>1. \A b \in C : b + 16 \in L
          BY <4>1 DEF C, L
        <5>2. C \in SUBSET Nat /\ IsFiniteSet(L)
          BY <4>2, <4>3 DEF C, L
        <5> QED  BY <5>1, <5>2, UsedBlocks
      <4>5. Cardinality(C) \in Nat /\ Cardinality(L) \in Nat
        BY <4>3, <4>4, FS_CardinalityType DEF L
      <4> QED  BY <2>2, <4>4, <4>5 DEF C, L
    <3>2. CASE z # size
      <4>1. SizeClass(z)' = SizeClass(z)
        BY <2>1, <2>4, <3>2 DEF SizeClass
      <4>2. IsFiniteSet(SizeClass(z))
        BY FS_Subset DEF CountInv, SizeClass
      <4>3. Cardinality(SizeClass(z)) \in Nat
        BY <4>2, FS_CardinalityType
      <4> QED  BY <1>0, <2>2, <4>1, <4>3 DEF CountInv
    <3> QED  BY <3>1, <3>2
  <2> QED  BY <2>2, <2>3, <2>5 DEF CountInv
<1> QED  BY <1>1, <1>2, <1>3, <1>4 DEF Next, Search

\* There are no blocks at first.
LEMMA CountInit == Init => CountInv
<1> SUFFICES ASSUME Init PROVE CountInv
  OBVIOUS
<1>1. Blocks = {} /\ DOMAIN live = {} /\ \A z \in Nat : SizeClass(z) = {}
  BY DEF Init, Blocks, SizeClass
<1> QED  BY <1>1, FS_EmptySet DEF Init, CountInv

\* Of no size are there ever more blocks than there were pointers in use at
\* once: a task that allocates and frees frames again and again cannot use up
\* the heap.
THEOREM HeapDoesNotCreep == Spec => []BlocksBounded
<1>1. IInv /\ CountInv => BlocksBounded
  <2> SUFFICES ASSUME IInv, CountInv, NEW b \in Blocks
               PROVE  Cardinality({c \in Blocks : header[c].size = header[b].size}) <= peak
    BY DEF BlocksBounded
  <2>1. header[b].size \in Nat
    BY DEF IInv, Types, Header
  <2> QED  BY <2>1 DEF CountInv, SizeClass
<1> QED  BY <1>1, HeapInductive, ChainInit, ChainNext, CountInit, CountNext, PTL DEF Spec
=============================================================================

--------------------------------- MODULE Heap ---------------------------------
(***************************************************************************)
(* The heap: malloc and free of libc/stdlib/malloc.c on top of sbrk.       *)
(*                                                                         *)
(* A block is a header, [next, size], followed by the memory handed out;   *)
(* blocks are named by the address of their header.  A block once made is  *)
(* never split or joined.  The free blocks form a list threaded through    *)
(* the headers, newest first.  malloc walks the list step by step, as its  *)
(* loop does.  malloc is documented as not thread safe: one task at a time *)
(* is in it, and it frees only what it was given.                          *)
(***************************************************************************)
EXTENDS Integers, FiniteSets

CONSTANTS
  WORD,                  \* size_t and uint32_t count modulo WORD (2^32)
  HEAP_START, HEAP_SIZE,
  Sizes                  \* sizes that are asked for

SIZEOF_BLOCK == 8        \* a pointer and a size_t
Alignment    == 16

\* No request comes near 2^32: neither the rounded size nor the new break
\* wraps.
ASSUME HeapConstantsOK ==
  /\ WORD \in Nat /\ HEAP_START \in Nat \ {0} /\ HEAP_SIZE \in Nat
  /\ HEAP_START % Alignment = 0
  /\ Sizes \subseteq Nat
  /\ HEAP_START + HEAP_SIZE + 2 * Alignment < WORD
  /\ \A n \in Sizes : HEAP_START + HEAP_SIZE + n + 2 * Alignment < WORD

VARIABLES
  free_list,             \* free_block_list_head.next
  header,                \* the headers of all blocks made so far
  current_heap_address,  \* the break
  errno,
  pc, size, block, head, \* malloc: where it is and its locals
  asked,                 \* its argument before the rounding
  live,                  \* history: the size asked for of every pointer in use
  peak                   \* history: the most pointers in use at once

listVars  == <<free_list, header>>
localVars == <<size, block, head, asked>>
vars == <<listVars, current_heap_address, errno, pc, localVars, live, peak>>

NULL     == 0
Unset    == -1           \* the next pointer of a block that was never free
ListHead == -2           \* head points to free_block_list_head.next

\* Faulty variant: nothing is rounded.
Bad_no_rounding(val) == val % WORD

\* ((val) + 15) & -16, in 32 bits.
ALIGN_16(val) ==
  LET sum == (val + (Alignment - 1)) % WORD IN sum - (sum % Alignment)

overhead == ALIGN_16(SIZEOF_BLOCK)

Blocks == DOMAIN header
Ptr(b) == b + overhead

\* b->next = to
SetNext(b, to) == [header EXCEPT ![b] = [next |-> to, size |-> header[b].size]]

FreeBlocks == {b \in Blocks : Ptr(b) \notin DOMAIN live}

----------------------------------------------------------------------------
(* malloc. *)

\* History: p is handed out.
HandOut(p) ==
  /\ live' = [q \in DOMAIN live \cup {p} |-> IF q = p THEN asked ELSE live[q]]
  /\ peak' = IF Cardinality(DOMAIN live') > peak THEN Cardinality(DOMAIN live') ELSE peak

\* The call ends; its locals are gone.
Return ==
  /\ pc' = "idle"
  /\ size' = 0 /\ block' = NULL /\ head' = ListHead /\ asked' = 0

malloc(n) ==
  /\ pc = "idle"
  /\ asked' = n
  /\ size' = ALIGN_16((n + overhead) % WORD)
  /\ block' = free_list
  /\ head' = ListHead
  /\ pc' = "search"
  /\ UNCHANGED <<listVars, current_heap_address, errno, live, peak>>

\* Faulty variant: a block of exactly the size is passed over.
Bad_fits == header[block].size > size

Fits == header[block].size >= size

\* Faulty variants: the block stays in the list; it is taken for the first.
Bad_no_unlink == UNCHANGED listVars
Bad_unlink_first == free_list' = header[block].next /\ UNCHANGED header

\* *head = block->next
unlink ==
  IF head = ListHead
    THEN free_list' = header[block].next /\ UNCHANGED header
    ELSE /\ header' = SetNext(head, header[block].next)
         /\ UNCHANGED free_list

take_block ==
  /\ pc = "search" /\ block # NULL /\ Fits
  /\ unlink
  /\ HandOut(Ptr(block))
  /\ Return
  /\ UNCHANGED <<current_heap_address, errno>>

next_block ==
  /\ pc = "search" /\ block # NULL /\ ~Fits
  /\ head' = block
  /\ block' = header[block].next
  /\ UNCHANGED <<listVars, current_heap_address, errno, pc, size, asked, live, peak>>

\* No block fits: sbrk, which refuses when the heap is used up.
sbrk_fails ==
  /\ pc = "search" /\ block = NULL
  /\ (current_heap_address + size) % WORD > HEAP_START + HEAP_SIZE
  /\ errno' = "ENOMEM"
  /\ Return
  /\ UNCHANGED <<listVars, current_heap_address, live, peak>>

sbrk ==
  LET new == current_heap_address
  IN  /\ pc = "search" /\ block = NULL
      /\ (new + size) % WORD <= HEAP_START + HEAP_SIZE
      /\ current_heap_address' = (new + size) % WORD
      /\ header' = [b \in Blocks \cup {new} |->
                      IF b = new THEN [next |-> Unset, size |-> size] ELSE header[b]]
      /\ HandOut(Ptr(new))
      /\ Return
      /\ UNCHANGED <<free_list, errno>>

----------------------------------------------------------------------------
(* free. *)

\* Faulty variant: the list head is changed before it is read.
Bad_free_swapped(ptr) ==
  LET b == ptr - overhead
  IN  /\ pc = "idle"
      /\ header' = SetNext(b, b)
      /\ free_list' = b
      /\ live' = [q \in DOMAIN live \ {ptr} |-> live[q]]
      /\ UNCHANGED <<current_heap_address, errno, pc, localVars, peak>>

free(ptr) ==
  LET b == ptr - overhead
  IN  /\ pc = "idle"
      /\ header' = SetNext(b, free_list)
      /\ free_list' = b
      /\ live' = [q \in DOMAIN live \ {ptr} |-> live[q]]
      /\ UNCHANGED <<current_heap_address, errno, pc, localVars, peak>>

----------------------------------------------------------------------------
Init ==
  /\ free_list = NULL /\ header = [b \in {} |-> [next |-> NULL, size |-> 0]]
  /\ current_heap_address = HEAP_START /\ errno = "none"
  /\ pc = "idle" /\ size = 0 /\ block = NULL /\ head = ListHead /\ asked = 0
  /\ live = [p \in {} |-> 0] /\ peak = 0

Search == take_block \/ next_block \/ sbrk_fails \/ sbrk

Next ==
  \/ Search
  \/ \E n \in Sizes : malloc(n)
  \/ \E ptr \in DOMAIN live : free(ptr)

Spec == Init /\ [][Next]_vars

\* The loop of malloc is executed.
FairSpec == Spec /\ WF_vars(Search)

TypeOK ==
  /\ current_heap_address \in HEAP_START..(HEAP_START + HEAP_SIZE)
  /\ \A b \in Blocks :
       /\ b \in HEAP_START..current_heap_address /\ b % Alignment = 0
       /\ header[b].next \in Blocks \cup {NULL, Unset} /\ header[b].size \in Nat
  /\ free_list \in Blocks \cup {NULL}
  /\ block \in Blocks \cup {NULL} /\ head \in Blocks \cup {ListHead}
  /\ pc \in {"idle", "search"} /\ size \in Nat /\ asked \in Sizes \cup {0}
  /\ DOMAIN live \subseteq {Ptr(b) : b \in Blocks}
  /\ errno \in {"none", "ENOMEM"} /\ peak \in Nat

----------------------------------------------------------------------------
(* Properties. *)

Alloc == INSTANCE Allocator WITH
           First <- HEAP_START, Limit <- HEAP_START + HEAP_SIZE

\* malloc, free and sbrk are an allocator: what malloc returns lies in the
\* heap, is aligned to 16 bytes and overlaps nothing in use, however blocks
\* of different sizes have been freed and taken again before.
IsAllocator == Alloc!Spec

\* The n-th block of the free list, NULL beyond its end.
Link[n \in Nat] ==
  IF n = 0 THEN free_list
  ELSE IF Link[n - 1] = NULL THEN NULL ELSE header[Link[n - 1]].next

\* Nothing leaks: every block not in use is in the free list, which holds
\* nothing else and no block twice.
NoLeak ==
  LET count == Cardinality(FreeBlocks)
  IN  /\ {Link[n] : n \in 0..(count - 1)} = FreeBlocks
      /\ Link[count] = NULL

\* The heap does not creep: of any one size there are never more blocks than
\* there were pointers in use at once.  A task that keeps allocating and
\* freeing a frame, as ethernet_send does, cannot use up the heap.
BlocksBounded ==
  \A b \in Blocks :
    Cardinality({c \in Blocks : header[c].size = header[b].size}) <= peak

\* The walk over the free list ends.
MallocReturns == pc # "idle" ~> pc = "idle"
=============================================================================

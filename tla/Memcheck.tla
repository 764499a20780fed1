------------------------------- MODULE Memcheck -------------------------------
(***************************************************************************)
(* The allocation tracker of the expat test suite (memcheck.c): a doubly   *)
(* linked list of the blocks handed out, with a pointer to both ends.      *)
(*                                                                         *)
(* A record of the list and the block it describes come from the C library *)
(* allocator, which may fail at any time.  Following a NULL pointer ends   *)
(* the process ("crashed").                                                *)
(***************************************************************************)
EXTENDS Naturals, FiniteSets

CONSTANTS
  Blocks,     \* addresses of blocks
  Entries,    \* addresses of list records
  Foreign,    \* blocks somebody allocated without the tracker
  Null

ASSUME AddressAssumption ==
  /\ IsFiniteSet(Entries)
  /\ Foreign \subseteq Blocks
  /\ Null \notin Blocks \union Entries

VARIABLES
  alloc_head, alloc_tail,   \* the two ends of the list
  next, prev,               \* the links of each record
  allocation,               \* the block each record describes, Null if unused
  heap,                     \* history: blocks handed out by the tracker, in use
  foreign,                  \* blocks in use that it has not handed out
  crashed

list == <<alloc_head, alloc_tail, next, prev, allocation>>
vars == <<alloc_head, alloc_tail, next, prev, allocation, heap, foreign, crashed>>

MaybeEntry == Entries \union {Null}

Init ==
  /\ alloc_head = Null
  /\ alloc_tail = Null
  /\ next = [e \in Entries |-> Null]
  /\ prev = [e \in Entries |-> Null]
  /\ allocation = [e \in Entries |-> Null]
  /\ heap = {}
  /\ foreign = Foreign
  /\ crashed = FALSE

(* The record reached from the head in k steps.                            *)
Nth[k \in Nat] ==
  IF k = 0 THEN alloc_head
  ELSE IF Nth[k - 1] = Null THEN Null ELSE next[Nth[k - 1]]

Listed  == {Nth[k] : k \in 0 .. Cardinality(Entries)} \ {Null}
Tracked == {allocation[e] : e \in Listed}
Unused  == {e \in Entries : allocation[e] = Null}

(* find_allocation() walks the list from the head.                         *)
Find(b) == {e \in Listed : allocation[e] = b}

-------------------------------------------------------------------------------

(* Adding a record at the tail, or dereferencing a NULL tail.              *)
AddEntry(e, b) ==
  /\ e \in Unused
  /\ IF alloc_head # Null /\ alloc_tail = Null
     THEN crashed' = TRUE /\ UNCHANGED list
     ELSE /\ allocation' = [allocation EXCEPT ![e] = b]
          /\ alloc_head' = IF alloc_head = Null THEN e ELSE alloc_head
          /\ alloc_tail' = e
          /\ prev' = [prev EXCEPT ![e] = IF alloc_head = Null THEN Null ELSE alloc_tail]
          /\ next' = IF alloc_head = Null THEN [next EXCEPT ![e] = Null]
                     ELSE [next EXCEPT ![e] = Null, ![alloc_tail] = e]
          /\ UNCHANGED crashed

(* tracking_malloc() with memory for both the record and the block.  Out   *)
(* of memory it returns NULL and leaves everything as it was.              *)
Malloc(e, b) ==
  /\ ~crashed
  /\ b \notin heap \union foreign
  /\ heap' = heap \union {b}
  /\ AddEntry(e, b)
  /\ UNCHANGED foreign

(* Mutant: an Unlink that drops the rest of the list.                      *)
UnlinkRest(e) ==
  /\ next' = IF prev[e] = Null THEN next ELSE [next EXCEPT ![prev[e]] = Null]
  /\ alloc_head' = IF prev[e] = Null THEN next[e] ELSE alloc_head
  /\ prev' = IF next[e] = Null THEN prev ELSE [prev EXCEPT ![next[e]] = prev[e]]
  /\ alloc_tail' = IF next[e] = Null THEN next[e] ELSE alloc_tail
  /\ allocation' = [allocation EXCEPT ![e] = Null]

(* Mutant: an Unlink that looks at the wrong neighbour for the tail.       *)
UnlinkWrongTail(e) ==
  /\ next' = IF prev[e] = Null THEN next ELSE [next EXCEPT ![prev[e]] = next[e]]
  /\ alloc_head' = IF prev[e] = Null THEN next[e] ELSE alloc_head
  /\ prev' = IF next[e] = Null THEN prev ELSE [prev EXCEPT ![next[e]] = prev[e]]
  /\ alloc_tail' = IF prev[e] = Null THEN prev[e] ELSE alloc_tail
  /\ allocation' = [allocation EXCEPT ![e] = Null]

(* The removal in tracking_free(): without a successor the tail becomes    *)
(* entry->next, which is NULL, and not entry->prev.                        *)
Unlink(e) ==
  /\ next' = IF prev[e] = Null THEN next ELSE [next EXCEPT ![prev[e]] = next[e]]
  /\ alloc_head' = IF prev[e] = Null THEN next[e] ELSE alloc_head
  /\ prev' = IF next[e] = Null THEN prev ELSE [prev EXCEPT ![next[e]] = prev[e]]
  /\ alloc_tail' = IF next[e] = Null THEN next[e] ELSE alloc_tail
  /\ allocation' = [allocation EXCEPT ![e] = Null]

(* tracking_free(b) of a block the caller owns.                            *)
Free(b) ==
  /\ ~crashed
  /\ b \in heap
  /\ heap' = heap \ {b}
  /\ \E e \in Find(b) : Unlink(e)
  /\ UNCHANGED <<foreign, crashed>>

(* tracking_free() of a block it does not know: a message and free().      *)
FreeForeign(b) ==
  /\ ~crashed
  /\ b \in foreign
  /\ foreign' = foreign \ {b}
  /\ UNCHANGED <<list, heap, crashed>>

(* tracking_realloc(b, size) for size # 0: the block stays or moves to c.  *)
(* If realloc fails the record keeps the old block.                        *)
Realloc(b, c) ==
  /\ ~crashed
  /\ b \in heap
  /\ c \notin (heap \union foreign) \ {b}
  /\ heap' = (heap \ {b}) \union {c}
  /\ \E e \in Find(b) : allocation' = [allocation EXCEPT ![e] = c]
  /\ UNCHANGED <<alloc_head, alloc_tail, next, prev, foreign, crashed>>

(* tracking_realloc() of a block it does not know adds a record for it.    *)
ReallocForeign(e, b, c) ==
  /\ ~crashed
  /\ b \in foreign
  /\ c \notin (heap \union foreign) \ {b}
  /\ foreign' = foreign \ {b}
  /\ heap' = heap \union {c}
  /\ AddEntry(e, c)

Next ==
  \/ \E e \in Entries, b \in Blocks : Malloc(e, b)
  \/ \E b \in Blocks : Free(b)
  \/ \E b \in Blocks : FreeForeign(b)
  \/ \E b, c \in Blocks : Realloc(b, c)
  \/ \E e \in Entries, b, c \in Blocks : ReallocForeign(e, b, c)

Spec == Init /\ [][Next]_vars

-------------------------------------------------------------------------------

TypeOK ==
  /\ alloc_head \in MaybeEntry
  /\ alloc_tail \in MaybeEntry
  /\ next \in [Entries -> MaybeEntry]
  /\ prev \in [Entries -> MaybeEntry]
  /\ allocation \in [Entries -> Blocks \union {Null}]
  /\ heap \subseteq Blocks
  /\ foreign \subseteq Blocks
  /\ crashed \in BOOLEAN

(* The tracker knows exactly the blocks in use, which is what              *)
(* tracking_report() at the end of a test relies on.                       *)
TracksHeap == ~crashed => Tracked = heap

(* The list never loses its tail while it holds a record.  Refuted: a free *)
(* of the newest block sets alloc_tail to NULL (memcheck.c 116), and the   *)
(* next allocation writes through it (memcheck.c 77).                      *)
NeverCrashes == ~crashed

===============================================================================

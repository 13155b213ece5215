----------------------------- MODULE SharedArray -----------------------------
(***************************************************************************)
(* The circular array of multi-lookup.c (struct SHARED_ARRAY).  A slot     *)
(* holds NULL or an item; head is the slot read next and tail the slot     *)
(* written next.  head = tail is both the empty and the full array: the    *)
(* slot itself tells which.                                                *)
(*                                                                         *)
(* The operations are given in the single writes the C code makes          *)
(* (StoreItem, AdvanceTail, FetchItem, AdvanceHead), for MultiLookup to    *)
(* interleave, and composed into whole calls for the sequential RingSpec   *)
(* of this module.  Between malloc and free the array is allocated; when   *)
(* malloc has failed no operation looks at it, and all of them stray.      *)
(***************************************************************************)
EXTENDS Naturals, Sequences

CONSTANTS MaxSize,    \* s_array->maxSize
          Names,      \* the items (hostnames)
          NULL        \* the empty slot

ASSUME SizeAssumption == MaxSize \in Nat \ {0}
ASSUME NullAssumption == NULL \notin Names

VARIABLES allocated, array, head, tail

ringVars == <<allocated, array, head, tail>>

Slots == 0 .. MaxSize - 1

\* Without memory SHARED_ARRAY_FAILURE is returned, and no slot or index counts.
SHARED_ARRAY_INIT == /\ allocated \in BOOLEAN
                     /\ array = [i \in Slots |-> NULL]
                     /\ head = 0
                     /\ tail = 0

TEST_EMPTY == head = tail /\ array[head] = NULL

TEST_FULL  == head = tail /\ array[head] # NULL

Successor(i) == (i + 1) % MaxSize

StoreItem(x) == array' = [array EXCEPT ![tail] = x]
AdvanceTail  == tail' = Successor(tail)
FetchItem    == array' = [array EXCEPT ![head] = NULL]
AdvanceHead  == head' = Successor(head)
------------------------------------------------------------------------------
(* Whole calls, as a single thread makes them of an array it has.          *)

\* Mutant: a full array is written over.
AddUntested(x) ==
    /\ allocated
    /\ StoreItem(x)
    /\ AdvanceTail
    /\ UNCHANGED <<allocated, head>>

SHARED_ARRAY_ADD_ITEM(x) ==
    /\ allocated
    /\ ~TEST_FULL                       \* otherwise SHARED_ARRAY_FAILURE
    /\ StoreItem(x)
    /\ AdvanceTail
    /\ UNCHANGED <<allocated, head>>

\* Mutant: the slot is read but not set back to NULL.
RemoveKeepsItem ==
    /\ allocated
    /\ ~TEST_EMPTY
    /\ AdvanceHead
    /\ UNCHANGED <<allocated, array, tail>>

SHARED_ARRAY_REMOVE_ITEM ==
    /\ allocated
    /\ ~TEST_EMPTY                      \* otherwise NULL is returned
    /\ FetchItem
    /\ AdvanceHead
    /\ UNCHANGED <<allocated, tail>>

\* Removes until TEST_EMPTY, so head stops where tail is; then frees.
SHARED_ARRAY_CLEAR ==
    /\ allocated /\ allocated' = FALSE
    /\ array' = [i \in Slots |-> NULL]
    /\ head' = tail
    /\ UNCHANGED tail

\* An array that was cleared, or never had memory, may be initialised (again).
Reinit == /\ ~allocated /\ allocated' = TRUE
          /\ array' = [i \in Slots |-> NULL]
          /\ head' = 0
          /\ tail' = 0

RingNext ==
    \/ Reinit
    \/ \E x \in Names : SHARED_ARRAY_ADD_ITEM(x)
    \/ SHARED_ARRAY_REMOVE_ITEM
    \/ SHARED_ARRAY_CLEAR

RingSpec == SHARED_ARRAY_INIT /\ [][RingNext]_ringVars
------------------------------------------------------------------------------
(* The queue the array stands for, read from slot h up to slot t.          *)

Length(h, t) ==
    CASE h = t -> IF array[h] = NULL THEN 0 ELSE MaxSize
      [] h < t -> t - h
      [] h > t -> t - h + MaxSize

\* The slot k places after h.
Place(h, k) == IF h + k < MaxSize THEN h + k ELSE h + k - MaxSize

Contents(h, t) == [i \in 1 .. Length(h, t) |-> array[Place(h, i - 1)]]

RingTypeOK == /\ array \in [Slots -> Names \cup {NULL}]
              /\ head \in Slots
              /\ tail \in Slots

\* The occupied slots are exactly the ones from head up to tail: no hole and no
\* forgotten item, so that head = tail can never be misread by TEST_EMPTY or
\* TEST_FULL however often the indices have wrapped.
Contiguous ==
    \A k \in Slots : array[Place(head, k)] # NULL <=> k < Length(head, tail)

RingInv == RingTypeOK /\ Contiguous

\* The circular array is a bounded first-in first-out queue: ADD_ITEM appends,
\* REMOVE_ITEM takes the oldest, CLEAR discards, INIT begins empty however the array
\* was left, and no other slot is touched.
Queue == INSTANCE BoundedQueue
         WITH Items <- Names, Capacity <- MaxSize, queue <- Contents(head, tail)

IsQueue == Queue!Spec
==============================================================================

------------------------- MODULE MultiLookupProofs -------------------------
(***************************************************************************)
(* multi-lookup.c for any number of requesters and resolvers, any size of  *)
(* the array and any input files.  In this order:                          *)
(*   - the circular array is a bounded queue (SharedArray);                *)
(*   - the locking protocol: whoever is at the array is there alone;       *)
(*   - both together: the interleaved threads implement the queue;         *)
(*   - no interleaving loses or doubles a name (NameFlow);                 *)
(*   - the names of a requester keep the order of its files (NameFlow);    *)
(*   - the threads never wait for each other in a circle.                  *)
(*                                                                         *)
(* The lemmas about the array speak of any array and any two slots, so     *)
(* that they serve the single calls of SharedArray as well as the          *)
(* interleaved ones of MultiLookup, where an index lags behind its slot.   *)
(***************************************************************************)
EXTENDS NameFlow, FiniteSetTheorems, SequenceTheorems, WellFoundedInduction,
        TLAPS
------------------------------------------------------------------------------
(*                             THE ARRAY                                   *)

\* Length, Contents and RingInv of SharedArray, as functions of the array.
LengthOf(arr, h, t) ==
    IF h = t THEN IF arr[h] = NULL THEN 0 ELSE MaxSize
    ELSE IF h < t THEN t - h ELSE t - h + MaxSize

ContentsOf(arr, h, t) == [i \in 1 .. LengthOf(arr, h, t) |-> arr[Place(h, i - 1)]]

\* Append by another name, which the provers do not unfold.
Longer(q, x) == Append(q, x)

WellFormed(arr, h, t) ==
    /\ arr \in [Slots -> Names \cup {NULL}]
    /\ h \in Slots /\ t \in Slots
    /\ \A k \in Slots : arr[Place(h, k)] # NULL <=> k < LengthOf(arr, h, t)
------------------------------------------------------------------------------
(* Places                                                                  *)

\* The index arithmetic of the code: one more, or back to 0.
LEMMA SuccessorValue ==
    ASSUME NEW i \in Slots
    PROVE  Successor(i) = IF i + 1 < MaxSize THEN i + 1 ELSE 0
BY SizeAssumption DEF Successor, Slots

LEMMA PlaceFacts ==
    ASSUME NEW h \in Slots
    PROVE  /\ \A k \in Slots : Place(h, k) \in Slots
           /\ \A k, l \in Slots : Place(h, k) = Place(h, l) => k = l
           /\ Place(h, 0) = h
           /\ \A k \in Slots : k + 1 \in Slots =>
                 Place(Successor(h), k) = Place(h, k + 1)
           /\ Place(Successor(h), MaxSize - 1) = h
BY SizeAssumption, SuccessorValue DEF Place, Slots

\* The slot written next is the first one behind the contents.
LEMMA EndPlace ==
    ASSUME NEW arr, NEW h \in Slots, NEW t \in Slots,
           LengthOf(arr, h, t) # MaxSize
    PROVE  LengthOf(arr, h, t) \in Slots /\ Place(h, LengthOf(arr, h, t)) = t
BY SizeAssumption DEF Slots, Place, LengthOf

LEMMA LengthRange ==
    ASSUME NEW arr, NEW h \in Slots, NEW t \in Slots
    PROVE  LengthOf(arr, h, t) \in 0 .. MaxSize
BY SizeAssumption DEF Slots, LengthOf

\* The contents are names, as many as the length says.
LEMMA ContentsType ==
    ASSUME NEW arr, NEW h, NEW t, WellFormed(arr, h, t)
    PROVE  /\ ContentsOf(arr, h, t) \in Seq(Names)
           /\ Len(ContentsOf(arr, h, t)) = LengthOf(arr, h, t)
<1> DEFINE L == LengthOf(arr, h, t)
<1>1. L \in 0 .. MaxSize
  BY LengthRange DEF WellFormed
<1>2. ASSUME NEW i \in 1 .. L PROVE arr[Place(h, i - 1)] \in Names
  <2>1. i - 1 \in Slots /\ i - 1 < L
    BY <1>1, SizeAssumption DEF Slots
  <2>2. arr[Place(h, i - 1)] # NULL
    BY <2>1 DEF WellFormed
  <2>3. Place(h, i - 1) \in Slots
    BY <2>1, PlaceFacts DEF WellFormed
  <2> QED BY <2>2, <2>3 DEF WellFormed
<1>3. L \in Nat
  BY <1>1
<1> HIDE DEF L
<1>4. [i \in 1 .. L |-> arr[Place(h, i - 1)]] \in Seq(Names)
  BY <1>2, <1>3
<1>5. Len([i \in 1 .. L |-> arr[Place(h, i - 1)]]) = L
  BY <1>3
<1> QED BY <1>4, <1>5 DEF ContentsOf, L
------------------------------------------------------------------------------
(* The three operations                                                    *)

\* Writing a name over the slot at the end makes the queue longer by that name.
LEMMA PutAtEnd ==
    ASSUME NEW arr, NEW h, NEW t, WellFormed(arr, h, t),
           LengthOf(arr, h, t) # MaxSize, NEW x \in Names,
           NEW new, new = [arr EXCEPT ![t] = x]
    PROVE  /\ WellFormed(new, h, Successor(t))
           /\ LengthOf(new, h, Successor(t)) = LengthOf(arr, h, t) + 1
           /\ ContentsOf(new, h, Successor(t)) = Longer(ContentsOf(arr, h, t), x)
<1> DEFINE L == LengthOf(arr, h, t)
<1>1. /\ arr \in [Slots -> Names \cup {NULL}] /\ h \in Slots /\ t \in Slots
      /\ x # NULL
  BY NullAssumption DEF WellFormed
<1>2. L \in Slots /\ Place(h, L) = t /\ Successor(t) \in Slots
  BY <1>1, EndPlace, SuccessorValue, SizeAssumption DEF Slots
<1>3. new[t] = x /\ \A i \in Slots \ {t} : new[i] = arr[i]
  BY <1>1
<1>4. new \in [Slots -> Names \cup {NULL}]
  BY <1>1
<1>5. h # t => arr[h] # NULL /\ new[h] # NULL
  <2> SUFFICES ASSUME h # t PROVE arr[h] # NULL
    BY <1>1, <1>3
  <2>1. 0 \in Slots /\ 0 < L /\ Place(h, 0) = h
    BY <1>1, PlaceFacts, SizeAssumption DEF Slots, LengthOf
  <2> QED BY <2>1 DEF WellFormed
<1>6. LengthOf(new, h, Successor(t)) = L + 1
  <2> DEFINE u == Successor(t)
  <2>1. u = IF t + 1 < MaxSize THEN t + 1 ELSE 0
    BY <1>1, SuccessorValue
  <2>2. new[h] # NULL
    BY <1>1, <1>3, <1>5
  <2> HIDE DEF u
  <2> SUFFICES LengthOf(new, h, u) = L + 1
    BY DEF u
  <2>3. CASE h = t
    BY <2>1, <2>2, <2>3, <1>1, SizeAssumption DEF Slots, LengthOf
  <2>4. CASE h # t
    BY <2>1, <2>2, <2>4, <1>1, SizeAssumption DEF Slots, LengthOf
  <2> QED BY <2>3, <2>4
<1>7. ASSUME NEW k \in Slots
      PROVE  new[Place(h, k)] = IF k = L THEN x ELSE arr[Place(h, k)]
  BY <1>1, <1>2, <1>3, PlaceFacts
<1>8. WellFormed(new, h, Successor(t))
  <2>1. ASSUME NEW k \in Slots PROVE new[Place(h, k)] # NULL <=> k < L + 1
    <3>1. arr[Place(h, k)] # NULL <=> k < L
      BY DEF WellFormed
    <3>2. k < L + 1 <=> k < L \/ k = L
      BY <1>2 DEF Slots
    <3> QED BY <3>1, <3>2, <1>7, <1>1
  <2> QED BY <2>1, <1>1, <1>2, <1>4, <1>6 DEF WellFormed
<1>9. ContentsOf(new, h, Successor(t)) = Append(ContentsOf(arr, h, t), x)
  <2>1. ContentsOf(arr, h, t) \in Seq(Names) /\ Len(ContentsOf(arr, h, t)) = L
    BY ContentsType
  <2>2. L \in Nat
    BY <1>2 DEF Slots
  <2>3. ASSUME NEW i \in 1 .. L + 1
        PROVE  new[Place(h, i - 1)] = Append(ContentsOf(arr, h, t), x)[i]
    <3>1. i - 1 \in Slots
      BY <1>2, SizeAssumption DEF Slots
    <3>2. CASE i = L + 1
      <4>1. Append(ContentsOf(arr, h, t), x)[i] = x
        BY <3>2, <2>1, <2>2
      <4>2. i - 1 = L
        BY <3>2, <2>2
      <4> QED BY <4>1, <4>2, <3>1, <1>7
    <3>3. CASE i # L + 1
      <4>1. i \in 1 .. L /\ i - 1 # L
        BY <3>3, <2>2
      <4>2. Append(ContentsOf(arr, h, t), x)[i] = ContentsOf(arr, h, t)[i]
        BY <4>1, <2>1, <2>2
      <4>3. ContentsOf(arr, h, t)[i] = arr[Place(h, i - 1)]
        BY <4>1 DEF ContentsOf
      <4> QED BY <4>1, <4>2, <4>3, <3>1, <1>7
    <3> QED BY <3>2, <3>3
  <2>4. ContentsOf(new, h, Successor(t)) = [i \in 1 .. L + 1 |-> new[Place(h, i - 1)]]
    BY <1>6 DEF ContentsOf
  <2>5. Append(ContentsOf(arr, h, t), x) \in Seq(Names)
        /\ Len(Append(ContentsOf(arr, h, t), x)) = L + 1
    BY <2>1, <2>2
  <2>6. ASSUME NEW q \in Seq(Names), NEW n, Len(q) = n
        PROVE  q = [i \in 1 .. n |-> q[i]]
    BY <2>6
  <2> HIDE DEF L
  <2>7. L + 1 \in Nat
    BY <2>2
  <2> QED BY <2>3, <2>4, <2>5, <2>6, <2>7
<1> QED BY <1>6, <1>8, <1>9 DEF Longer

\* Setting the oldest slot to NULL and moving on takes the head of the queue.
LEMMA TakeOldest ==
    ASSUME NEW arr, NEW h, NEW t, WellFormed(arr, h, t),
           LengthOf(arr, h, t) # 0
    PROVE  LET new == [arr EXCEPT ![h] = NULL]
           IN  /\ WellFormed(new, Successor(h), t)
               /\ LengthOf(new, Successor(h), t) = LengthOf(arr, h, t) - 1
               /\ ContentsOf(new, Successor(h), t) = Tail(ContentsOf(arr, h, t))
               /\ arr[h] \in Names /\ arr[h] = Head(ContentsOf(arr, h, t))
<1> DEFINE new == [arr EXCEPT ![h] = NULL]
           L == LengthOf(arr, h, t)
           g == Successor(h)
<1>1. arr \in [Slots -> Names \cup {NULL}] /\ h \in Slots /\ t \in Slots
  BY DEF WellFormed
<1>2. g = (IF h + 1 < MaxSize THEN h + 1 ELSE 0) /\ g \in Slots
  BY <1>1, SuccessorValue, SizeAssumption DEF Slots
<1>3. new[h] = NULL /\ \A i \in Slots \ {h} : new[i] = arr[i]
  BY <1>1
<1>4. new \in [Slots -> Names \cup {NULL}]
  BY <1>1
<1>5. L \in 1 .. MaxSize
  BY <1>1, LengthRange
<1>6. \A k \in Slots : arr[Place(h, k)] # NULL <=> k < L
  BY DEF WellFormed
\* The place k behind the new head is the place k + 1 behind the old one.
<1>7. ASSUME NEW k \in Slots
      PROVE  new[Place(g, k)] = IF k + 1 < MaxSize THEN arr[Place(h, k + 1)] ELSE NULL
  <2>1. CASE k + 1 < MaxSize
    <3>1. k + 1 \in Slots /\ 0 \in Slots /\ k + 1 # 0
      BY <2>1, SizeAssumption DEF Slots
    <3>2. /\ Place(g, k) = Place(h, k + 1) /\ Place(h, k + 1) \in Slots
          /\ Place(h, 0) = h /\ Place(h, k + 1) # Place(h, 0)
      BY <3>1, <1>1, PlaceFacts
    <3> QED BY <2>1, <3>2, <1>3
  <2>2. CASE ~(k + 1 < MaxSize)
    <3>1. k = MaxSize - 1
      BY <2>2, SizeAssumption DEF Slots
    <3> QED BY <2>2, <3>1, <1>1, <1>3, PlaceFacts
  <2> QED BY <2>1, <2>2
<1>8. LengthOf(new, g, t) = L - 1
  <2>1. g = t => (new[g] # NULL <=> 1 < L)
    <3> HIDE DEF g, new, L
    <3>0. g \in Slots
      BY <1>2
    <3>4. Place(g, 0) = g
      BY <3>0, PlaceFacts
    <3>1. 0 \in Slots /\ Place(g, 0) = g /\ 0 + 1 = 1
      BY <3>4, SizeAssumption DEF Slots
    <3>2. CASE 1 < MaxSize
      <4>1. 1 \in Slots
        BY <3>2, SizeAssumption DEF Slots
      <4> QED BY <3>1, <3>2, <4>1, <1>6, <1>7
    <3>3. CASE ~(1 < MaxSize)
      BY <3>1, <3>3, <1>5, <1>7, SizeAssumption
    <3> QED BY <3>2, <3>3, SizeAssumption
  <2> HIDE DEF g, new
  <2>2. L = LengthOf(arr, h, t)
    OBVIOUS
  <2> HIDE DEF L
  <2> QED BY <2>1, <2>2, <1>1, <1>2, <1>5, SizeAssumption DEF Slots, LengthOf
<1>9. WellFormed(new, g, t)
  <2>1. ASSUME NEW k \in Slots PROVE new[Place(g, k)] # NULL <=> k < L - 1
    <3>1. CASE k + 1 < MaxSize
      <4>1. k + 1 \in Slots
        BY <3>1, SizeAssumption DEF Slots
      <4>2. k + 1 < L <=> k < L - 1
        BY <1>5 DEF Slots
      <4> QED BY <3>1, <4>1, <4>2, <1>6, <1>7
    <3>2. CASE ~(k + 1 < MaxSize)
      <4>1. ~(k < L - 1)
        BY <3>2, <1>5, SizeAssumption DEF Slots
      <4> QED BY <3>2, <4>1, <1>7
    <3> QED BY <3>1, <3>2
  <2> HIDE DEF g, new
  <2> QED BY <2>1, <1>1, <1>2, <1>4, <1>8 DEF WellFormed
<1>10. /\ ContentsOf(arr, h, t) \in Seq(Names)
       /\ Len(ContentsOf(arr, h, t)) = L
       /\ ContentsOf(new, g, t) \in Seq(Names)
       /\ Len(ContentsOf(new, g, t)) = L - 1
  BY <1>8, <1>9, ContentsType
<1>11. ContentsOf(new, g, t) = Tail(ContentsOf(arr, h, t))
  <2>1. ASSUME NEW i \in 1 .. L - 1
        PROVE  ContentsOf(new, g, t)[i] = ContentsOf(arr, h, t)[i + 1]
    <3>1. i - 1 \in Slots /\ (i - 1) + 1 < MaxSize /\ (i - 1) + 1 = i
      BY <1>5, SizeAssumption DEF Slots
    <3>2. new[Place(g, i - 1)] = arr[Place(h, i)]
      BY <3>1, <1>7
    <3>3. ContentsOf(new, g, t)[i] = new[Place(g, i - 1)]
      BY <1>8 DEF ContentsOf
    <3>4. ContentsOf(arr, h, t)[i + 1] = arr[Place(h, i)]
      <4>1. i + 1 \in 1 .. L /\ (i + 1) - 1 = i
        BY <1>5
      <4> QED BY <4>1 DEF ContentsOf
    <3> QED BY <3>2, <3>3, <3>4
  <2> DEFINE p == ContentsOf(arr, h, t)
             q == ContentsOf(new, g, t)
  <2>2. p \in Seq(Names) /\ Len(p) = L /\ q \in Seq(Names) /\ Len(q) = L - 1
    BY <1>10
  <2>3. \A i \in 1 .. L - 1 : q[i] = p[i + 1]
    BY <2>1
  <2>4. L \in Nat \ {0}
    BY <1>5
  <2> HIDE DEF p, q, L
  <2>5. Tail(p) \in Seq(Names) /\ Len(Tail(p)) = L - 1
        /\ \A i \in 1 .. L - 1 : Tail(p)[i] = p[i + 1]
    BY <2>2, <2>4
  <2>6. q = Tail(p)
    BY <2>2, <2>3, <2>4, <2>5
  <2> QED BY <2>6 DEF p, q
<1>12. arr[h] \in Names /\ arr[h] = Head(ContentsOf(arr, h, t))
  <2>1. 0 \in Slots /\ 0 < L /\ 1 \in 1 .. L /\ 1 - 1 = 0
    BY <1>5, SizeAssumption DEF Slots
  <2>2. Place(h, 0) = h
    BY <1>1, PlaceFacts
  <2>3. arr[h] # NULL
    BY <2>1, <2>2, <1>6
  <2>4. ContentsOf(arr, h, t)[1] = arr[h]
    BY <2>1, <2>2 DEF ContentsOf
  <2>5. Head(ContentsOf(arr, h, t)) = ContentsOf(arr, h, t)[1]
    BY <1>10
  <2> QED BY <2>3, <2>4, <2>5, <1>1
<1> QED BY <1>8, <1>9, <1>11, <1>12

\* With both indices at one slot and every slot NULL the queue is empty.
LEMMA Cleared ==
    ASSUME NEW t \in Slots
    PROVE  LET new == [i \in Slots |-> NULL]
           IN  WellFormed(new, t, t) /\ ContentsOf(new, t, t) = << >>
BY SizeAssumption, PlaceFacts DEF WellFormed, LengthOf, ContentsOf, Slots
------------------------------------------------------------------------------
(* The array as a single thread uses it                                    *)

USE DEF ringVars

\* The lemmas speak of what SharedArray defines.
LEMMA SameQueue ==
    /\ Length(head, tail) = LengthOf(array, head, tail) \/ ~RingTypeOK
    /\ RingInv <=> WellFormed(array, head, tail)
    /\ RingTypeOK => Contents(head, tail) = ContentsOf(array, head, tail)
<1>1. ASSUME RingTypeOK PROVE Length(head, tail) = LengthOf(array, head, tail)
  BY <1>1, SizeAssumption DEF RingTypeOK, Slots, Length, LengthOf
<1>2. RingInv <=> WellFormed(array, head, tail)
  BY <1>1 DEF RingInv, RingTypeOK, Contiguous, WellFormed
<1>3. ASSUME RingTypeOK PROVE Contents(head, tail) = ContentsOf(array, head, tail)
  BY <1>1, <1>3 DEF Contents, ContentsOf
<1> QED BY <1>1, <1>2, <1>3

\* The same of the next state.
LEMMA SameQueueNext ==
    /\ RingInv' <=> WellFormed(array', head', tail')
    /\ RingTypeOK' => Contents(head, tail)' = ContentsOf(array', head', tail')
<1>1. ASSUME RingTypeOK'
      PROVE  Length(head, tail)' = LengthOf(array', head', tail')
  BY <1>1, SizeAssumption DEF RingTypeOK, Slots, Length, LengthOf
<1>2. RingInv' <=> WellFormed(array', head', tail')
  BY <1>1 DEF RingInv, RingTypeOK, Contiguous, WellFormed
<1>3. ASSUME RingTypeOK'
      PROVE  Contents(head, tail)' = ContentsOf(array', head', tail')
  BY <1>1, <1>3 DEF Contents, ContentsOf
<1> QED BY <1>2, <1>3

\* What each call does to the queue.
LEMMA RingSteps ==
    ASSUME RingInv, [RingNext]_ringVars
    PROVE  /\ WellFormed(array', head', tail')
           /\ \/ /\ LengthOf(array, head, tail) < MaxSize
                 /\ \E x \in Names : ContentsOf(array', head', tail')
                                       = Longer(ContentsOf(array, head, tail), x)
              \/ /\ LengthOf(array, head, tail) # 0
                 /\ ContentsOf(array', head', tail')
                       = Tail(ContentsOf(array, head, tail))
              \/ ContentsOf(array', head', tail') = << >>
              \/ UNCHANGED ringVars
<1>1. /\ WellFormed(array, head, tail) /\ head \in Slots /\ tail \in Slots
      /\ LengthOf(array, head, tail) \in 0 .. MaxSize
  BY SameQueue, LengthRange DEF WellFormed
<1>2. CASE \E x \in Names : SHARED_ARRAY_ADD_ITEM(x)
  <2> PICK x \in Names : SHARED_ARRAY_ADD_ITEM(x)
    BY <1>2
  <2>1. LengthOf(array, head, tail) # MaxSize
    BY <1>1, SizeAssumption DEF SHARED_ARRAY_ADD_ITEM, TEST_FULL, LengthOf, Slots
  <2>2. array' = [array EXCEPT ![tail] = x] /\ tail' = Successor(tail) /\ head' = head
    BY DEF SHARED_ARRAY_ADD_ITEM, StoreItem, AdvanceTail
  <2>3. /\ WellFormed(array', head', tail')
        /\ ContentsOf(array', head', tail') = Longer(ContentsOf(array, head, tail), x)
    <3>1. WellFormed(array, head, tail)
      BY <1>1
    <3>2. WellFormed([array EXCEPT ![tail] = x], head, Successor(tail))
      BY <2>1, <3>1, PutAtEnd
    <3>3. ContentsOf([array EXCEPT ![tail] = x], head, Successor(tail))
             = Longer(ContentsOf(array, head, tail), x)
      BY <2>1, <3>1, PutAtEnd
    <3> QED BY <2>2, <3>2, <3>3, Zenon
  <2>4. LengthOf(array, head, tail) < MaxSize
    BY <1>1, <2>1, SizeAssumption
  <2> QED BY <2>3, <2>4
<1>3. CASE SHARED_ARRAY_REMOVE_ITEM
  <2>1. LengthOf(array, head, tail) # 0
    BY <1>1, <1>3, SizeAssumption
    DEF SHARED_ARRAY_REMOVE_ITEM, TEST_EMPTY, LengthOf, Slots
  <2>2. array' = [array EXCEPT ![head] = NULL] /\ head' = Successor(head) /\ tail' = tail
    BY <1>3 DEF SHARED_ARRAY_REMOVE_ITEM, FetchItem, AdvanceHead
  <2> QED BY <1>1, <2>1, <2>2, TakeOldest
<1>4. CASE SHARED_ARRAY_CLEAR
  <2>1. array' = [i \in Slots |-> NULL] /\ head' = tail /\ tail' = tail
    BY <1>4 DEF SHARED_ARRAY_CLEAR
  <2> QED BY <1>1, <2>1, Cleared
<1>5. CASE UNCHANGED ringVars
  BY <1>1, <1>5
<1>6. CASE Reinit
  <2>1. array' = [i \in Slots |-> NULL] /\ head' = 0 /\ tail' = 0 /\ 0 \in Slots
    BY <1>6, SizeAssumption DEF Reinit, Slots
  <2> QED BY <2>1, Cleared
<1> QED BY <1>2, <1>3, <1>4, <1>5, <1>6 DEF RingNext

\* The array never has a hole or a forgotten item, across any sequence of
\* SHARED_ARRAY_ADD_ITEM, _REMOVE_ITEM and _CLEAR.
THEOREM ArrayCorrect == RingSpec => []RingInv
<1>1. SHARED_ARRAY_INIT => RingInv
  <2> SUFFICES ASSUME SHARED_ARRAY_INIT PROVE WellFormed(array, head, tail)
    BY SameQueue
  <2>1. 0 \in Slots
    BY SizeAssumption DEF Slots
  <2> QED BY <2>1, Cleared DEF SHARED_ARRAY_INIT
<1>2. RingInv /\ [RingNext]_ringVars => RingInv'
  <2> SUFFICES ASSUME RingInv, [RingNext]_ringVars
               PROVE  WellFormed(array', head', tail')
    BY SameQueueNext
  <2> QED BY RingSteps
<1> QED BY <1>1, <1>2, PTL DEF RingSpec

\* The array implements the bounded queue: SHARED_ARRAY_ADD_ITEM appends,
\* SHARED_ARRAY_REMOVE_ITEM takes the oldest, SHARED_ARRAY_CLEAR discards.
THEOREM ArrayIsQueue == RingSpec => IsQueue
<1>1. SHARED_ARRAY_INIT => Queue!Init
  <2> SUFFICES ASSUME SHARED_ARRAY_INIT PROVE Contents(head, tail) = << >>
    BY DEF Queue!Init
  <2>1. 0 \in Slots
    BY SizeAssumption DEF Slots
  <2>2. WellFormed(array, head, tail) /\ ContentsOf(array, head, tail) = << >>
    BY <2>1, Cleared DEF SHARED_ARRAY_INIT
  <2> QED BY <2>2, SameQueue DEF RingInv
<1>2. RingInv /\ [RingNext]_ringVars => [Queue!Next]_(Contents(head, tail))
  <2> SUFFICES ASSUME RingInv, [RingNext]_ringVars
               PROVE  [Queue!Next]_(Contents(head, tail))
    OBVIOUS
  <2>1. WellFormed(array, head, tail) /\ WellFormed(array', head', tail')
    BY RingSteps, SameQueue
  <2>2. /\ Contents(head, tail) = ContentsOf(array, head, tail)
        /\ Contents(head, tail)' = ContentsOf(array', head', tail')
    BY <2>1, SameQueue, SameQueueNext DEF RingInv
  <2>3. Len(ContentsOf(array, head, tail)) = LengthOf(array, head, tail)
    BY <2>1, ContentsType
  <2>4. CASE LengthOf(array, head, tail) < MaxSize /\ \E x \in Names :
                ContentsOf(array', head', tail') = Longer(ContentsOf(array, head, tail), x)
    BY <2>2, <2>3, <2>4 DEF Longer, Queue!Next, Queue!Put
  <2>5. CASE /\ LengthOf(array, head, tail) # 0
             /\ ContentsOf(array', head', tail') = Tail(ContentsOf(array, head, tail))
    <3>1. ContentsOf(array, head, tail) # << >>
      BY <2>3, <2>5
    <3> QED BY <2>2, <2>5, <3>1 DEF Queue!Next, Queue!Take
  <2>6. CASE ContentsOf(array', head', tail') = << >>
    BY <2>2, <2>6 DEF Queue!Next, Queue!Discard
  <2>7. CASE UNCHANGED ringVars
    BY <2>2, <2>7
  <2> QED BY <2>4, <2>5, <2>6, <2>7, RingSteps
<1> QED BY <1>1, <1>2, ArrayCorrect, PTL DEF RingSpec, IsQueue, Queue!Spec
------------------------------------------------------------------------------
(*                             THE LOCKS                                   *)

LEMMA ThreadSets ==
    /\ Requesters \subseteq Threads /\ Resolvers \subseteq Threads
    /\ Threads = Requesters \cup Resolvers
    /\ Requesters \cap Resolvers = {}
    /\ NoThread \notin Threads
    /\ IsFiniteSet(Resolvers)
<1>1. /\ Requesters \subseteq Threads /\ Resolvers \subseteq Threads
      /\ Threads = Requesters \cup Resolvers
      /\ Requesters \cap Resolvers = {}
      /\ NoThread \notin Threads
  BY PoolAssumption DEF Requesters, Resolvers, Threads, NumThreads, NoThread
<1>2. IsFiniteSet(Resolvers)
  BY PoolAssumption, FS_Interval DEF Resolvers
<1> QED BY <1>1, <1>2

LEMMA SlotFacts ==
    /\ 0 \in Slots
    /\ \A i \in Slots : Successor(i) \in Slots
BY SizeAssumption DEF Slots, Successor

\* Taking the first name out of the first file leaves a list of files.
LEMMA RestOfFiles ==
    ASSUME NEW fs \in Seq(File), fs # << >>, fs[1].names # << >>
    PROVE  AfterScan(fs) \in Seq(File)
<1>1. 1 \in 1 .. Len(fs) /\ fs[1] \in File
  OBVIOUS
<1>2. [opened |-> TRUE, names |-> Tail(fs[1].names)] \in File
  BY <1>1 DEF File
<1> QED BY <1>1, <1>2 DEF AfterScan
------------------------------------------------------------------------------
(* Type correctness                                                        *)

USE DEF ringVars, mainVars, localVars, ioVars

LEMMA TypeInit == Init => TypeOK /\ Named
<1> SUFFICES ASSUME Init PROVE TypeOK /\ Named
  OBVIOUS
<1>1. RingTypeOK
  BY SlotFacts DEF Init, SHARED_ARRAY_INIT, RingTypeOK
<1>2. /\ pc \in [Threads -> RequesterLabels \cup ResolverLabels]
      /\ \A r \in Requesters : pc[r] \in RequesterLabels
      /\ \A t \in Resolvers : pc[t] \in ResolverLabels
  BY ThreadSets DEF Init, RequesterLabels, ResolverLabels
<1>3. created \in 0 .. NumThreads /\ joined \in 0 .. NumThreads
  BY PoolAssumption DEF Init, NumThreads
<1>6. /\ status \in {"running", "done", "aborted", "undefined"}
      /\ req_th_done \in BOOLEAN /\ allocated \in BOOLEAN
  BY DEF Init, SHARED_ARRAY_INIT
<1>4. /\ lock \in [Mutexes -> Threads \cup {NoThread}]
      /\ readCount \in Nat
      /\ files \in [Requesters -> Seq(File)]
      /\ hostname \in [Threads -> Names \cup {NULL}]
      /\ completed \in [Requesters -> BOOLEAN]
      /\ empty \in [Resolvers -> BOOLEAN]
      /\ serviced \subseteq Requesters \X Nat
      /\ results \in Seq(Names \X (Answers \cup {Blank}))
  BY InputAssumption DEF Init
<1>5. Named
  BY ThreadSets DEF Init, Named
<1> QED BY <1>1, <1>2, <1>3, <1>4, <1>5, <1>6 DEF TypeOK

PcType == /\ pc \in [Threads -> RequesterLabels \cup ResolverLabels]
          /\ \A r \in Requesters : pc[r] \in RequesterLabels
          /\ \A u \in Resolvers : pc[u] \in ResolverLabels

\* Whoever uses what is not there leaves every variable but status as it is.
LEMMA LostStep ==
    ASSUME Strays \/ LacksResource
    PROVE  /\ status = "running" /\ status' = "undefined"
           /\ UNCHANGED <<ringVars, created, joined, req_th_done, pc, lock, readCount,
                          localVars, ioVars>>
BY DEF Strays, LacksResource, Undefined

\* Moving a thread to a label of its own keeps the types of pc.
LEMMA GotoType ==
    ASSUME PcType, NEW t \in Threads, NEW to, Goto(t, to),
           t \in Requesters => to \in RequesterLabels,
           t \in Resolvers => to \in ResolverLabels
    PROVE  PcType'
BY ThreadSets DEF PcType, Goto

\* What moves thread t, and at most acquires or releases mutexes, keeps the types.
LEMMA LockStepType ==
    ASSUME TypeOK, Named, NEW t \in Threads, NEW from, NEW m, NEW to,
           LockStep(t, from, m, to), m \in Mutexes,
           t \in Requesters => to \in RequesterLabels,
           t \in Resolvers => to \in ResolverLabels,
           to \in {"lockError", "lookup"} => hostname[t] # NULL
    PROVE  TypeOK' /\ Named'
<1> USE ThreadSets DEF LockStep
<1>1. PcType'
  BY GotoType DEF TypeOK, PcType
<1>2. lock' \in [Mutexes -> Threads \cup {NoThread}]
  BY DEF TypeOK, Acquire
<1>3. Named'
  BY DEF Named, TypeOK, Goto
<1> QED BY <1>1, <1>2, <1>3 DEF TypeOK, RingTypeOK, PcType

LEMMA RequesterType ==
    ASSUME TypeOK, Named, NEW r \in Requesters, Requester(r)
    PROVE  TypeOK' /\ Named'
<1> USE ThreadSets
<1>1. CASE \/ RequesterLocksLog(r) \/ RequesterLocksRead(r) \/ RequesterLocksWrite(r)
  BY <1>1, LockStepType
     DEF RequesterLocksLog, RequesterLocksRead, RequesterLocksWrite, Mutexes,
         RequesterLabels
<1>2. CASE Report(r)
  BY <1>2 DEF Report, TypeOK, Named, RingTypeOK, Goto, Release, RequesterLabels
<1>3. CASE ReadName(r)
  <2>1. PcType' /\ Named'
    BY <1>3, GotoType DEF ReadName, TypeOK, PcType, RequesterLabels, Named, Goto
  <2>2. files[r] \in Seq(File) /\ files[r][1] \in File /\ files[r][1].names # << >>
    BY <1>3 DEF ReadName, TypeOK
  <2>3. Head(files[r][1].names) \in Names
    BY <2>2 DEF File
  <2>4. AfterScan(files[r]) \in Seq(File)
    BY <2>2, <1>3, RestOfFiles DEF ReadName
  <2>5. files' \in [Requesters -> Seq(File)]
    BY <1>3, <2>4 DEF ReadName, TypeOK
  <2>6. hostname' \in [Threads -> Names \cup {NULL}]
    BY <1>3, <2>3 DEF ReadName, TypeOK
  <2>7. completed' \in [Requesters -> BOOLEAN]
    BY <1>3 DEF ReadName, TypeOK
  <2> QED
    BY <1>3, <2>1, <2>5, <2>6, <2>7 DEF ReadName, TypeOK, PcType, RingTypeOK
<1>4. CASE CloseFile(r)
  BY <1>4 DEF CloseFile, TypeOK, Named, RingTypeOK
<1>5. CASE FinishRequester(r)
  BY <1>5 DEF FinishRequester, TypeOK, Named, RingTypeOK, Goto, RequesterLabels
<1>6. CASE TestFull(r)
  BY <1>6 DEF TestFull, TypeOK, Named, RingTypeOK, Goto, RequesterLabels
<1>7. CASE AddItem(r)
  <2>1. PcType' /\ Named'
    BY <1>7, GotoType DEF AddItem, TypeOK, PcType, RequesterLabels, Named, Goto
  <2>2. array' \in [Slots -> Names \cup {NULL}]
    BY <1>7 DEF AddItem, TypeOK, RingTypeOK, StoreItem
  <2>3. hostname' \in [Threads -> Names \cup {NULL}]
    BY <1>7 DEF AddItem, TypeOK
  <2>4. completed' \in [Requesters -> BOOLEAN]
    BY <1>7 DEF AddItem, TypeOK
  <2> QED
    BY <1>7, <2>1, <2>2, <2>3, <2>4 DEF AddItem, TypeOK, PcType, RingTypeOK
<1>8. CASE MoveTail(r)
  BY <1>8, SlotFacts
     DEF MoveTail, TypeOK, Named, RingTypeOK, Goto, AdvanceTail, RequesterLabels
<1>9. CASE RequesterUnlocks(r)
  BY <1>9 DEF RequesterUnlocks, TypeOK, Named, RingTypeOK, Goto, Release, RequesterLabels
<1> QED BY <1>1, <1>2, <1>3, <1>4, <1>5, <1>6, <1>7, <1>8, <1>9 DEF Requester

LEMMA ResolverType ==
    ASSUME TypeOK, Named, NEW t \in Resolvers, Resolver(t),
           pc[t] = "leave" => readCount > 0
    PROVE  TypeOK' /\ Named'
<1> USE ThreadSets
<1>1. CASE \/ ResolverLocksRead(t) \/ ResolverLocksMutex(t) \/ ResolverLocksWrite(t)
           \/ ResolverLocksArray(t) \/ ResolverLeaves(t)
  BY <1>1, LockStepType
     DEF ResolverLocksRead, ResolverLocksMutex, ResolverLocksWrite,
         ResolverLocksArray, ResolverLeaves, Mutexes, ResolverLabels
<1>2. CASE ResolverLocksError(t)
  BY <1>2, LockStepType
     DEF ResolverLocksError, Mutexes, ResolverLabels, Named, LockStep, At
<1>3. CASE Check(t)
  BY <1>3 DEF Check, TypeOK, Named, RingTypeOK, Goto, ResolverLabels
<1>4. CASE CountReader(t)
  BY <1>4 DEF CountReader, TypeOK, Named, RingTypeOK, Goto, ResolverLabels
<1>5. CASE Admit(t)
  BY <1>5 DEF Admit, TypeOK, Named, RingTypeOK, Goto, Release, ResolverLabels
<1>6. CASE TestEmpty(t)
  <2>1. PcType' /\ Named'
    BY <1>6, GotoType DEF TestEmpty, TypeOK, PcType, ResolverLabels, Named, Goto
  <2>2. TEST_EMPTY \in BOOLEAN
    BY Zenon DEF TEST_EMPTY
  <2>3. empty' \in [Resolvers -> BOOLEAN]
    BY <1>6, <2>2 DEF TestEmpty, TypeOK
  <2> QED
    BY <1>6, <2>1, <2>3 DEF TestEmpty, TypeOK, PcType, RingTypeOK
<1>7. CASE RemoveItem(t)
  <2>1. PcType' /\ Named'
    BY <1>7, GotoType DEF RemoveItem, TypeOK, PcType, ResolverLabels, Named, Goto
  <2>2. array' \in [Slots -> Names \cup {NULL}]
    BY <1>7 DEF RemoveItem, TypeOK, RingTypeOK, FetchItem
  <2>3. hostname' \in [Threads -> Names \cup {NULL}]
    BY <1>7 DEF RemoveItem, TypeOK, RingTypeOK
  <2> QED
    BY <1>7, <2>1, <2>2, <2>3 DEF RemoveItem, TypeOK, PcType, RingTypeOK
<1>8. CASE MoveHead(t)
  BY <1>8, SlotFacts
     DEF MoveHead, TypeOK, Named, RingTypeOK, Goto, AdvanceHead, ResolverLabels
<1>9. CASE ResolverUnlocksArray(t)
  BY <1>9 DEF ResolverUnlocksArray, TypeOK, Named, RingTypeOK, Goto, Release, ResolverLabels
<1>10. CASE UncountReader(t)
  <2>1. PcType' /\ Named'
    BY <1>10, GotoType DEF UncountReader, TypeOK, PcType, ResolverLabels, Named, Goto
  <2>2. readCount' \in Nat
    BY <1>10 DEF UncountReader, At, TypeOK
  <2>3. lock' \in [Mutexes -> Threads \cup {NoThread}]
    BY <1>10 DEF UncountReader, TypeOK, Release
  <2> QED
    BY <1>10, <2>1, <2>2, <2>3 DEF UncountReader, TypeOK, PcType, RingTypeOK
<1>11. CASE Lookup(t)
  BY <1>11, AddressAssumption
     DEF Lookup, TypeOK, Named, At, RingTypeOK, Goto, Release, ResolverLabels
<1> QED BY <1>1, <1>2, <1>3, <1>4, <1>5, <1>6, <1>7, <1>8, <1>9, <1>10, <1>11 DEF Resolver

LEMMA MainType ==
    ASSUME TypeOK, Named, Main
    PROVE  TypeOK' /\ Named'
<1> USE PoolAssumption DEF NumThreads
<1>1. CASE CreateThread
  BY <1>1 DEF CreateThread, TypeOK, Named, RingTypeOK
<1>2. CASE CreateFails
  BY <1>2 DEF CreateFails, TypeOK, Named, RingTypeOK
<1>3. CASE JoinRequester
  BY <1>3 DEF JoinRequester, TypeOK, Named, RingTypeOK
<1>4. CASE SetDone
  BY <1>4 DEF SetDone, TypeOK, Named, RingTypeOK
<1>5. CASE JoinResolver
  BY <1>5 DEF JoinResolver, TypeOK, Named, RingTypeOK
<1>6. CASE Finish
  BY <1>6 DEF Finish, SHARED_ARRAY_CLEAR, TypeOK, Named, RingTypeOK
<1> QED BY <1>1, <1>2, <1>3, <1>4, <1>5, <1>6 DEF Main
------------------------------------------------------------------------------
(* The locks                                                               *)

LEMMA SectionFacts ==
    /\ Section["read_mutex"] = {"lockWrite", "testFull", "storeItem", "advanceTail",
           "unlock", "enterMutex", "count", "enterWrite", "admit"}
    /\ Section["write1"] = {"testFull", "storeItem", "advanceTail", "unlock"}
    /\ Section["mutex"] = {"count", "enterWrite", "admit", "leave"}
    /\ Section["shared_array_mutex"] = {"testEmpty", "fetchItem", "advanceHead",
           "unlockArray"}
    /\ Section["error_report"] = {"lookup"}
    /\ Section["write2"] = {"report"}
BY DEF Section, Mutexes

\* What thread t does to mutex m on its way to the label to: it leaves m alone and
\* stays on the same side of its section, it enters the section as it acquires m,
\* or it leaves the section as it releases m.
Respects(t, to, m) ==
    \/ lock'[m] = lock[m] /\ (to \in Section[m] <=> pc[t] \in Section[m])
    \/ lock[m] = NoThread /\ lock'[m] = t /\ to \in Section[m]
    \/ pc[t] \in Section[m] /\ lock'[m] = NoThread /\ to \notin Section[m]

LEMMA PlainStep ==
    ASSUME TypeOK, PlainLocks, NEW t \in Threads, NEW to, Goto(t, to),
           \A m \in Mutexes \ {"write1"} : Respects(t, to, m)
    PROVE  PlainLocks'
<1> SUFFICES ASSUME NEW u \in Threads, NEW m \in Mutexes \ {"write1"}
             PROVE  pc'[u] \in Section[m] <=> lock'[m] = u
  BY DEF PlainLocks, Section
<1>1. pc' = [pc EXCEPT ![t] = to] /\ pc \in [Threads -> RequesterLabels \cup ResolverLabels]
  BY DEF Goto, TypeOK
<1>2. Respects(t, to, m) /\ NoThread \notin Threads
  BY ThreadSets
<1>3. /\ pc[t] \in Section[m] <=> lock[m] = t
      /\ pc[u] \in Section[m] <=> lock[m] = u
  BY DEF PlainLocks
<1>4. CASE u = t
  BY <1>1, <1>2, <1>3, <1>4 DEF Respects
<1>5. CASE u # t
  BY <1>1, <1>2, <1>3, <1>5 DEF Respects
<1> QED BY <1>4, <1>5

\* Unlocking the mutexes ms moves thread t respectfully if they are the ones whose
\* sections t leaves.
LEMMA ReleaseStep ==
    ASSUME NEW t \in Threads, NEW to, NEW ms, Release(ms), TypeOK,
           \A m \in Mutexes \ {"write1"} :
               IF m \in ms THEN pc[t] \in Section[m] /\ to \notin Section[m]
                           ELSE to \in Section[m] <=> pc[t] \in Section[m]
    PROVE  \A m \in Mutexes \ {"write1"} : Respects(t, to, m)
<1> SUFFICES ASSUME NEW m \in Mutexes \ {"write1"} PROVE Respects(t, to, m)
  OBVIOUS
<1>1. lock'[m] = IF m \in ms THEN NoThread ELSE lock[m]
  BY DEF Release
<1> QED BY <1>1 DEF Respects

LEMMA RequesterPlain ==
    ASSUME TypeOK, PlainLocks, NEW r \in Requesters, Requester(r)
    PROVE  PlainLocks'
<1>0. r \in Threads /\ lock \in [Mutexes -> Threads \cup {NoThread}]
  BY ThreadSets DEF TypeOK
<1> USE <1>0, SectionFacts DEF Mutexes, At
<1>1. CASE RequesterLocksLog(r)
  BY <1>1, PlainStep DEF RequesterLocksLog, LockStep, Acquire, Respects
<1>2. CASE Report(r)
  <2>1. \A m \in Mutexes \ {"write1"} : Respects(r, "scan", m)
    BY <1>2, ReleaseStep DEF Report
  <2> QED BY <1>2, <2>1, PlainStep DEF Report
<1>3. CASE ReadName(r)
  BY <1>3, PlainStep DEF ReadName, Respects
<1>4. CASE CloseFile(r)
  BY <1>4 DEF CloseFile, PlainLocks
<1>5. CASE FinishRequester(r)
  BY <1>5, PlainStep DEF FinishRequester, Respects
<1>6. CASE RequesterLocksRead(r)
  BY <1>6, PlainStep DEF RequesterLocksRead, LockStep, Acquire, Respects
<1>7. CASE RequesterLocksWrite(r)
  BY <1>7, PlainStep DEF RequesterLocksWrite, LockStep, Acquire, Respects
<1>8. CASE TestFull(r)
  BY <1>8, PlainStep DEF TestFull, Respects
<1>9. CASE AddItem(r)
  BY <1>9, PlainStep DEF AddItem, Respects
<1>10. CASE MoveTail(r)
  BY <1>10, PlainStep DEF MoveTail, Respects
<1>11. CASE RequesterUnlocks(r)
  <2>1. PICK to \in {"scan", "lockRead"} : Goto(r, to)
    BY <1>11 DEF RequesterUnlocks
  <2>2. \A m \in Mutexes \ {"write1"} : Respects(r, to, m)
    BY <1>11, ReleaseStep DEF RequesterUnlocks
  <2> QED BY <2>1, <2>2, PlainStep
<1> QED
  BY <1>1, <1>2, <1>3, <1>4, <1>5, <1>6, <1>7, <1>8, <1>9, <1>10, <1>11 DEF Requester

LEMMA ResolverPlain ==
    ASSUME TypeOK, PlainLocks, NEW t \in Resolvers, Resolver(t)
    PROVE  PlainLocks'
<1>0. t \in Threads /\ lock \in [Mutexes -> Threads \cup {NoThread}]
  BY ThreadSets DEF TypeOK
<1> USE <1>0, SectionFacts DEF Mutexes, At
<1>1. CASE Check(t)
  BY <1>1, PlainStep DEF Check, Respects
<1>2. CASE ResolverLocksRead(t)
  BY <1>2, PlainStep DEF ResolverLocksRead, LockStep, Acquire, Respects
<1>3. CASE ResolverLocksMutex(t)
  BY <1>3, PlainStep DEF ResolverLocksMutex, LockStep, Acquire, Respects
<1>4. CASE CountReader(t)
  BY <1>4, PlainStep DEF CountReader, Respects
<1>5. CASE ResolverLocksWrite(t)
  BY <1>5, PlainStep DEF ResolverLocksWrite, LockStep, Acquire, Respects
<1>6. CASE Admit(t)
  <2>1. \A m \in Mutexes \ {"write1"} : Respects(t, "lockArray", m)
    BY <1>6, ReleaseStep DEF Admit
  <2> QED BY <1>6, <2>1, PlainStep DEF Admit
<1>7. CASE ResolverLocksArray(t)
  BY <1>7, PlainStep DEF ResolverLocksArray, LockStep, Acquire, Respects
<1>8. CASE TestEmpty(t)
  BY <1>8, PlainStep DEF TestEmpty, Respects
<1>9. CASE RemoveItem(t)
  BY <1>9, PlainStep DEF RemoveItem, Respects
<1>10. CASE MoveHead(t)
  BY <1>10, PlainStep DEF MoveHead, Respects
<1>11. CASE ResolverUnlocksArray(t)
  <2>1. \A m \in Mutexes \ {"write1"} : Respects(t, "leaveMutex", m)
    BY <1>11, ReleaseStep DEF ResolverUnlocksArray
  <2> QED BY <1>11, <2>1, PlainStep DEF ResolverUnlocksArray
<1>12. CASE ResolverLeaves(t)
  BY <1>12, PlainStep DEF ResolverLeaves, LockStep, Acquire, Respects
<1>13. CASE UncountReader(t)
  <2>1. PICK to \in {"lockError", "check"} : Goto(t, to)
    BY <1>13 DEF UncountReader
  <2>2. PICK ms \in {{"mutex", "write1"}, {"mutex"}} : Release(ms)
    BY <1>13 DEF UncountReader
  <2>3. \A m \in Mutexes \ {"write1"} : Respects(t, to, m)
    BY <1>13, <2>2, ReleaseStep DEF UncountReader
  <2> QED BY <2>1, <2>3, PlainStep
<1>14. CASE ResolverLocksError(t)
  BY <1>14, PlainStep DEF ResolverLocksError, LockStep, Acquire, Respects
<1>15. CASE Lookup(t)
  <2>1. \A m \in Mutexes \ {"write1"} : Respects(t, "check", m)
    BY <1>15, ReleaseStep DEF Lookup
  <2> QED BY <1>15, <2>1, PlainStep DEF Lookup
<1> QED
  BY <1>1, <1>2, <1>3, <1>4, <1>5, <1>6, <1>7, <1>8, <1>9, <1>10, <1>11, <1>12,
     <1>13, <1>14, <1>15 DEF Resolver
------------------------------------------------------------------------------
(* write1 and readCount                                                    *)

\* A requester's step leaves every resolver where it is.
LEMMA ResolversStay ==
    ASSUME TypeOK, NEW r \in Requesters, NEW to, Goto(r, to)
    PROVE  Admitted' = Admitted /\ Entering' = Entering /\ Readers' = Readers
<1>1. \A t \in Resolvers : pc'[t] = pc[t]
  BY ThreadSets DEF Goto, TypeOK
<1> QED BY <1>1 DEF Admitted, Entering, Readers

LEMMA RequesterWrite ==
    ASSUME TypeOK, LockInv, ReaderInv, NEW r \in Requesters, Requester(r)
    PROVE  WriteLock' /\ ReaderInv'
<1>0. /\ r \in Threads /\ lock \in [Mutexes -> Threads \cup {NoThread}]
      /\ pc \in [Threads -> RequesterLabels \cup ResolverLabels]
      /\ Requesters \cap Resolvers = {} /\ NoThread \notin Threads
      /\ Requesters \subseteq Threads /\ Resolvers \subseteq Threads
      /\ WriteLock /\ ReaderInv /\ "write1" \in Mutexes
  BY ThreadSets DEF TypeOK, LockInv, Mutexes
<1> USE <1>0
<1>1. CASE UNCHANGED <<pc, lock, readCount>>
  BY <1>1 DEF WriteLock, ReaderInv, Admitted, Entering, Readers
<1>2. ASSUME NEW to, Goto(r, to), readCount' = readCount, Respects(r, to, "write1")
      PROVE  WriteLock' /\ ReaderInv'
  <2>1. Admitted' = Admitted /\ Entering' = Entering /\ Readers' = Readers
    BY <1>2, ResolversStay
  <2>2. ReaderInv'
    BY <1>2, <2>1 DEF ReaderInv
  <2>3. pc' = [pc EXCEPT ![r] = to]
    BY <1>2 DEF Goto
  <2>4. ASSUME NEW q \in Requesters
        PROVE  pc'[q] \in Section["write1"] <=> lock'["write1"] = q
    BY <1>2, <2>3 DEF Respects, WriteLock
  <2>5. Admitted # {} <=> lock'["write1"] \in Resolvers
    BY <1>2 DEF Respects, WriteLock
  <2> QED BY <2>1, <2>2, <2>4, <2>5 DEF WriteLock
<1>3. CASE RequesterLocksWrite(r)
  BY <1>2, <1>3, SectionFacts DEF RequesterLocksWrite, LockStep, Acquire, At, Respects
<1>4. CASE RequesterUnlocks(r)
  <2>1. PICK to \in {"scan", "lockRead"} : Goto(r, to)
    BY <1>4 DEF RequesterUnlocks
  <2>2. Respects(r, to, "write1")
    BY <1>4, <2>1, SectionFacts DEF RequesterUnlocks, Release, At, Respects
  <2> QED BY <1>2, <1>4, <2>1, <2>2 DEF RequesterUnlocks
<1>5. CASE \/ RequesterLocksLog(r) \/ RequesterLocksRead(r)
  BY <1>2, <1>5, SectionFacts
     DEF RequesterLocksLog, RequesterLocksRead, LockStep, Acquire, At, Respects, Mutexes
<1>6. CASE Report(r)
  BY <1>2, <1>6, SectionFacts DEF Report, Release, At, Respects
<1>7. CASE \/ ReadName(r) \/ FinishRequester(r)
  BY <1>2, <1>7, SectionFacts DEF ReadName, FinishRequester, At, Respects
<1>8. CASE CloseFile(r)
  BY <1>1, <1>8 DEF CloseFile
<1>9. CASE \/ TestFull(r) \/ AddItem(r) \/ MoveTail(r)
  BY <1>2, <1>9, SectionFacts DEF TestFull, AddItem, MoveTail, At, Respects
<1> QED
  BY <1>3, <1>4, <1>5, <1>6, <1>7, <1>8, <1>9 DEF Requester

\* A resolver's step leaves every requester where it is, and the other resolvers.
LEMMA OthersStay ==
    ASSUME TypeOK, NEW t \in Resolvers, NEW to, Goto(t, to)
    PROVE  /\ \A r \in Requesters : pc'[r] = pc[r]
           /\ pc'[t] = to
           /\ \A u \in Resolvers : u # t => pc'[u] = pc[u]
BY ThreadSets DEF Goto, TypeOK

AdmittedLabels == {"admit", "lockArray", "testEmpty", "fetchItem", "advanceHead",
                   "unlockArray", "leaveMutex", "leave"}

\* A resolver that neither enters nor leaves the protected part changes nothing.
LEMMA NeutralStep ==
    ASSUME TypeOK, WriteLock, ReaderInv, NEW t \in Resolvers, NEW to, Goto(t, to),
           lock'["write1"] = lock["write1"], readCount' = readCount,
           to \in AdmittedLabels <=> pc[t] \in AdmittedLabels,
           to # "enterWrite", pc[t] # "enterWrite"
    PROVE  WriteLock' /\ ReaderInv'
<1>1. Admitted' = Admitted /\ Entering' = Entering
  BY OthersStay DEF Admitted, Entering, AdmittedLabels
<1> QED BY <1>1, OthersStay DEF WriteLock, ReaderInv, Readers

LEMMA ReadersFinite == IsFiniteSet(Readers)
<1>1. Readers \subseteq Resolvers
  BY DEF Readers, Admitted, Entering
<1> QED BY <1>1, ThreadSets, FS_Subset

\* Only one resolver at a time is between its locking of mutex and its unlocking.
LEMMA MutexAlone ==
    ASSUME PlainLocks, NEW t \in Resolvers, NEW u \in Resolvers,
           pc[t] \in Section["mutex"], pc[u] \in Section["mutex"]
    PROVE  t = u
BY ThreadSets DEF PlainLocks, Mutexes

\* The count goes up: the first one in goes for write1, the others find it theirs.
LEMMA CountStep ==
    ASSUME TypeOK, LockInv, ReaderInv, NEW t \in Resolvers, CountReader(t)
    PROVE  WriteLock' /\ ReaderInv'
<1>1. /\ pc[t] = "count" /\ lock' = lock /\ readCount' = readCount + 1
      /\ WriteLock /\ PlainLocks /\ readCount \in Nat
  BY DEF CountReader, At, LockInv, TypeOK
<1>2. Entering = {}
  BY <1>1, MutexAlone, SectionFacts DEF Entering
<1>3. t \notin Readers /\ IsFiniteSet(Readers) /\ readCount = Cardinality(Readers)
  BY <1>1, ReadersFinite DEF Readers, Admitted, Entering, ReaderInv
<1>4. Cardinality(Readers \cup {t}) = readCount + 1
  BY <1>1, <1>3, FS_AddElement
<1>5. CASE readCount = 0
  <2>1. Readers = {}
    BY <1>3, <1>5, FS_EmptySet
  <2>2. Goto(t, "enterWrite")
    BY <1>1, <1>5 DEF CountReader
  <2>3. Admitted' = Admitted /\ Entering' = {t}
    BY <2>1, <2>2, <1>1, <1>2, OthersStay DEF Readers, Admitted, Entering
  <2>4. Readers' = {t}
    BY <2>1, <2>3 DEF Readers
  <2> QED
    BY <1>1, <1>4, <1>5, <2>1, <2>2, <2>3, <2>4, OthersStay
       DEF WriteLock, ReaderInv, Readers
<1>6. CASE readCount # 0
  <2>1. Admitted # {}
    BY <1>2, <1>3, <1>6, FS_EmptySet DEF Readers
  <2>2. Goto(t, "admit")
    BY <1>1, <1>6 DEF CountReader
  <2>3. Admitted' = Admitted \cup {t} /\ Entering' = {}
    BY <2>2, <1>2, OthersStay DEF Admitted, Entering
  <2>4. Readers' = Readers \cup {t}
    BY <2>3, <1>2 DEF Readers
  <2> QED
    BY <1>1, <1>4, <2>1, <2>2, <2>3, <2>4, OthersStay DEF WriteLock, ReaderInv
<1> QED BY <1>5, <1>6

\* The first one in gets write1 for all.
LEMMA EnterStep ==
    ASSUME TypeOK, LockInv, ReaderInv, NEW t \in Resolvers, ResolverLocksWrite(t)
    PROVE  WriteLock' /\ ReaderInv'
<1>1. /\ pc[t] = "enterWrite" /\ Goto(t, "admit") /\ readCount' = readCount
      /\ lock["write1"] = NoThread /\ lock'["write1"] = t
      /\ WriteLock
  BY DEF ResolverLocksWrite, LockStep, At, Acquire, LockInv, TypeOK, Mutexes
<1>2. Readers = {t} /\ Entering = {t} /\ t \notin Admitted
  BY <1>1 DEF ReaderInv, Readers, Entering, Admitted
<1>3. Admitted' = {t} /\ Entering' = {}
  BY <1>1, <1>2, OthersStay DEF Readers, Admitted, Entering
<1>4. Readers' = Readers
  BY <1>2, <1>3 DEF Readers
<1> QED
  BY <1>1, <1>3, <1>4, OthersStay, ThreadSets DEF WriteLock, ReaderInv

\* The count goes down: write1 is released exactly by the last one out.
LEMMA UncountStep ==
    ASSUME TypeOK, LockInv, ReaderInv, NEW t \in Resolvers, UncountReader(t)
    PROVE  WriteLock' /\ ReaderInv'
<1>1. /\ pc[t] = "leave" /\ readCount' = readCount - 1
      /\ WriteLock /\ PlainLocks /\ readCount \in Nat
      /\ lock \in [Mutexes -> Threads \cup {NoThread}]
  BY DEF UncountReader, At, LockInv, TypeOK
<1>2. PICK to \in {"lockError", "check"} : Goto(t, to)
  BY DEF UncountReader
<1>3. Entering = {} /\ Readers = Admitted /\ t \in Admitted
  BY <1>1, MutexAlone, SectionFacts DEF Readers, Entering, Admitted
<1>4. Admitted' = Admitted \ {t} /\ Entering' = {}
  BY <1>2, <1>3, OthersStay DEF Admitted, Entering
<1>5. Readers' = Readers \ {t}
  BY <1>3, <1>4 DEF Readers
<1>6. IsFiniteSet(Readers) /\ IsFiniteSet(Readers') /\ readCount = Cardinality(Readers)
  BY <1>5, ReadersFinite, FS_Subset DEF ReaderInv
<1>7. Cardinality(Readers') = readCount - 1
  BY <1>3, <1>5, <1>6, FS_RemoveElement
<1>8. readCount' = 0 <=> Admitted' = {}
  BY <1>1, <1>4, <1>5, <1>3, <1>6, <1>7, FS_EmptySet
<1>9. ReaderInv'
  BY <1>1, <1>4, <1>7 DEF ReaderInv
<1>10. lock["write1"] \in Resolvers
  BY <1>1, <1>3 DEF WriteLock
<1>11. lock'["write1"] = IF readCount' = 0 THEN NoThread ELSE lock["write1"]
  BY DEF UncountReader, Release, Mutexes
<1>12. WriteLock'
  BY <1>1, <1>2, <1>8, <1>10, <1>11, OthersStay, ThreadSets DEF WriteLock
<1> QED BY <1>9, <1>12

LEMMA ResolverWrite ==
    ASSUME TypeOK, LockInv, ReaderInv, NEW t \in Resolvers, Resolver(t)
    PROVE  WriteLock' /\ ReaderInv'
<1>0. WriteLock
  BY DEF LockInv
<1> USE <1>0 DEF AdmittedLabels
<1>1. CASE CountReader(t)
  BY <1>1, CountStep
<1>2. CASE ResolverLocksWrite(t)
  BY <1>2, EnterStep
<1>3. CASE UncountReader(t)
  BY <1>3, UncountStep
<1>4. CASE Check(t)
  BY <1>4, NeutralStep DEF Check, At
<1>5. CASE \/ ResolverLocksRead(t) \/ ResolverLocksMutex(t) \/ ResolverLocksArray(t)
           \/ ResolverLeaves(t) \/ ResolverLocksError(t)
  <2>1. lock'["write1"] = lock["write1"]
    BY <1>5 DEF ResolverLocksRead, ResolverLocksMutex, ResolverLocksArray,
                ResolverLeaves, ResolverLocksError, LockStep, Acquire, TypeOK, Mutexes
  <2> QED
    BY <1>5, <2>1, NeutralStep
       DEF ResolverLocksRead, ResolverLocksMutex, ResolverLocksArray,
           ResolverLeaves, ResolverLocksError, LockStep, At
<1>6. CASE Admit(t) \/ ResolverUnlocksArray(t) \/ Lookup(t)
  <2>1. lock'["write1"] = lock["write1"]
    BY <1>6 DEF Admit, ResolverUnlocksArray, Lookup, Release, Mutexes
  <2> QED
    BY <1>6, <2>1, NeutralStep DEF Admit, ResolverUnlocksArray, Lookup, At
<1>7. CASE TestEmpty(t) \/ MoveHead(t)
  BY <1>7, NeutralStep DEF TestEmpty, MoveHead, At
<1>8. CASE RemoveItem(t)
  BY <1>8, NeutralStep DEF RemoveItem, At
<1> QED
  BY <1>1, <1>2, <1>3, <1>4, <1>5, <1>6, <1>7, <1>8 DEF Resolver
------------------------------------------------------------------------------
(* The theorems                                                            *)

\* TypeOK is not inductive: that readCount never goes below zero needs ReaderInv,
\* which needs LockInv, which needs the types.
IInv == TypeOK /\ Named /\ LockInv /\ ReaderInv

LEMMA LockInit == Init => LockInv /\ ReaderInv
<1> SUFFICES ASSUME Init PROVE LockInv /\ ReaderInv
  OBVIOUS
<1>1. \A t \in Threads : pc[t] \in {"lockLog", "check"}
  BY DEF Init
<1>2. PlainLocks
  BY <1>1, SectionFacts, ThreadSets DEF Init, PlainLocks, Mutexes
<1>3. Admitted = {} /\ Entering = {} /\ Readers = {}
  BY <1>1, ThreadSets DEF Admitted, Entering, Readers
<1>4. WriteLock
  BY <1>1, <1>3, SectionFacts, ThreadSets DEF Init, WriteLock, Mutexes
<1>5. ReaderInv
  BY <1>3, FS_EmptySet DEF Init, ReaderInv
<1> QED BY <1>2, <1>4, <1>5 DEF LockInv

LEMMA Inductive == IInv /\ [Next]_vars => IInv'
<1> SUFFICES ASSUME IInv, [Next]_vars PROVE IInv'
  OBVIOUS
<1> USE DEF IInv
<1>1. CASE \E r \in Requesters : Requester(r)
  BY <1>1, RequesterType, RequesterPlain, RequesterWrite DEF LockInv
<1>2. CASE \E t \in Resolvers : Resolver(t)
  <2>1. PICK t \in Resolvers : Resolver(t)
    BY <1>2
  <2>2. pc[t] = "leave" => readCount > 0
    <3> SUFFICES ASSUME pc[t] = "leave" PROVE readCount > 0
      OBVIOUS
    <3>1. t \in Readers
      BY DEF Readers, Admitted
    <3>2. readCount # 0
      BY <3>1, ReadersFinite, FS_EmptySet DEF ReaderInv
    <3> QED BY <3>2 DEF TypeOK
  <2> QED
    BY <2>1, <2>2, ResolverType, ResolverPlain, ResolverWrite DEF LockInv
<1>3. CASE Main
  <2>1. UNCHANGED <<pc, lock, readCount>>
    BY <1>3 DEF Main, CreateThread, CreateFails, JoinRequester, SetDone,
                JoinResolver, Finish
  <2>2. LockInv' /\ ReaderInv'
    BY <2>1 DEF LockInv, PlainLocks, WriteLock, ReaderInv, Readers, Admitted, Entering
  <2> QED BY <1>3, <2>2, MainType
<1>4. CASE UNCHANGED vars
  <2>1. TypeOK' /\ Named'
    BY <1>4 DEF vars, TypeOK, RingTypeOK, Named
  <2>2. LockInv' /\ ReaderInv'
    BY <1>4 DEF vars, LockInv, PlainLocks, WriteLock, ReaderInv, Readers, Admitted,
                Entering
  <2> QED BY <2>1, <2>2
<1>5. CASE Strays \/ LacksResource
  <2>1. TypeOK' /\ Named'
    BY <1>5, LostStep DEF TypeOK, RingTypeOK, Named
  <2>2. LockInv' /\ ReaderInv'
    BY <1>5, LostStep DEF LockInv, PlainLocks, WriteLock, ReaderInv, Readers, Admitted,
                Entering
  <2> QED BY <2>1, <2>2
<1> QED BY <1>1, <1>2, <1>3, <1>4, <1>5 DEF Next, Terminated

LEMMA ExclusionFromLocks == IInv => Exclusion
<1> SUFFICES ASSUME IInv, NEW t \in AtArray, NEW u \in AtArray PROVE t = u
  BY DEF Exclusion
<1>1. LockInv /\ TypeOK /\ t \in Threads /\ u \in Threads
  BY DEF IInv, AtArray
<1>2. ASSUME NEW r \in Requesters, r \in AtArray
      PROVE  lock["write1"] = r
  BY <1>1, <1>2, SectionFacts DEF AtArray, LockInv, WriteLock, TypeOK, RequesterLabels
<1>3. ASSUME NEW q \in Resolvers, q \in AtArray
      PROVE  lock["write1"] \in Resolvers /\ lock["shared_array_mutex"] = q
  <2>1. q \in Admitted /\ pc[q] \in Section["shared_array_mutex"]
    BY <1>1, <1>3, SectionFacts DEF AtArray, Admitted, TypeOK, ResolverLabels
  <2> QED
    BY <1>1, <2>1, ThreadSets DEF LockInv, PlainLocks, WriteLock, Mutexes
<1> QED BY <1>1, <1>2, <1>3, ThreadSets

\* For every number of threads: the invariant that ties mutexes, counter and labels.
THEOREM Invariance == Spec => []IInv
<1>1. Init => IInv
  BY TypeInit, LockInit DEF IInv
<1> QED BY <1>1, Inductive, PTL DEF Spec

\* The variables keep their types; in particular readCount never goes below zero.
THEOREM TypeCorrect == Spec => []TypeOK
<1>1. IInv => TypeOK
  BY DEF IInv
<1> QED BY <1>1, Invariance, PTL

\* Every mutex is owned by exactly the thread inside its sections, write1 by the
\* resolvers as a group, and readCount counts that group.
THEOREM LocksCorrect == Spec => []LockInv /\ []ReaderInv
<1>1. IInv => LockInv /\ ReaderInv
  BY DEF IInv
<1> QED BY <1>1, Invariance, PTL

\* readCount is the number of resolvers between their two sections, for any pools.
THEOREM ReadersCounted == Spec => []ReaderInv
BY LocksCorrect, PTL

\* No two threads are ever at the shared array, whatever the size of the pools.
THEOREM MutualExclusion == Spec => []Exclusion
BY Invariance, ExclusionFromLocks, PTL
------------------------------------------------------------------------------
(*                         THREADS AND QUEUE                               *)

\* A requester that is about to store has a name to store.
Carrying ==
    \A r \in Requesters :
        /\ pc[r] \in {"lockRead", "lockWrite", "testFull", "storeItem"} => hostname[r] # NULL
        /\ pc[r] = "unlock" => completed[r] \/ hostname[r] # NULL
        /\ pc[r] = "advanceTail" => completed[r]

\* The threads main has joined are at their end.
JoinedEnded == \A t \in Threads : t <= joined => pc[t] = "done"

\* The array, read with the index that is about to be written, is a queue.
QueueShaped == WellFormed(array, EffectiveHead, EffectiveTail)

QInv == IInv /\ Carrying /\ JoinedEnded /\ QueueShaped

TheQueue == ContentsOf(array, EffectiveHead, EffectiveTail)

\* What a step of the program does to the queue.
Puts(x) == /\ x \in Names
           /\ LengthOf(array, EffectiveHead, EffectiveTail) < MaxSize
           /\ TheQueue' = Longer(TheQueue, x)
Takes   == /\ LengthOf(array, EffectiveHead, EffectiveTail) # 0
           /\ TheQueue' = Tail(TheQueue)
Stays   == TheQueue' = TheQueue

QueueStep == (\E x \in Names : Puts(x)) \/ Takes \/ TheQueue' = << >> \/ Stays
------------------------------------------------------------------------------
(* Carrying and JoinedEnded                                                *)

LEMMA CarryingInit == Init => Carrying /\ JoinedEnded
BY ThreadSets, PoolAssumption
   DEF Init, Carrying, JoinedEnded, Threads, Requesters, NumThreads

\* A step of another thread, or of main, that leaves the requesters alone.
LEMMA CarryingFrame ==
    ASSUME Carrying,
           \A r \in Requesters : /\ pc'[r] = pc[r] /\ hostname'[r] = hostname[r]
                                 /\ completed'[r] = completed[r]
    PROVE  Carrying'
BY DEF Carrying

LEMMA RequesterCarrying ==
    ASSUME TypeOK, Carrying, NEW r \in Requesters, Requester(r)
    PROVE  Carrying'
<1>0. /\ r \in Threads /\ Requesters \subseteq Threads
      /\ pc \in [Threads -> RequesterLabels \cup ResolverLabels]
      /\ hostname \in [Threads -> Names \cup {NULL}]
      /\ completed \in [Requesters -> BOOLEAN]
  BY ThreadSets DEF TypeOK
<1> USE <1>0 DEF At, Goto
<1>1. CASE \/ RequesterLocksLog(r) \/ RequesterLocksRead(r) \/ RequesterLocksWrite(r)
  BY <1>1 DEF RequesterLocksLog, RequesterLocksRead, RequesterLocksWrite, LockStep,
              Carrying
<1>2. CASE Report(r) \/ FinishRequester(r) \/ CloseFile(r)
  BY <1>2 DEF Report, FinishRequester, CloseFile, Carrying
<1>3. CASE ReadName(r)
  <2>1. files[r] \in Seq(File) /\ files[r][1] \in File /\ files[r][1].names # << >>
    BY <1>3 DEF ReadName, TypeOK
  <2>2. Head(files[r][1].names) # NULL
    BY <2>1, NullAssumption DEF File
  <2> QED BY <1>3, <2>2 DEF ReadName, Carrying
<1>4. CASE TestFull(r)
  BY <1>4 DEF TestFull, Carrying
<1>5. CASE AddItem(r)
  BY <1>5 DEF AddItem, Carrying
<1>6. CASE MoveTail(r)
  BY <1>6 DEF MoveTail, Carrying
<1>7. CASE RequesterUnlocks(r)
  BY <1>7 DEF RequesterUnlocks, Carrying
<1> QED BY <1>1, <1>2, <1>3, <1>4, <1>5, <1>6, <1>7 DEF Requester

\* A resolver writes no name but its own.
LEMMA ResolverCarrying ==
    ASSUME TypeOK, Carrying, NEW t \in Resolvers, Resolver(t)
    PROVE  Carrying'
<1>1. \A r \in Requesters : r \in Threads /\ r # t
  BY ThreadSets
<1>2. \A r \in Requesters : pc'[r] = pc[r]
  <2>1. \A to : Goto(t, to) => \A r \in Requesters : pc'[r] = pc[r]
    BY <1>1 DEF Goto, TypeOK
  <2> QED
    BY <2>1 DEF Resolver, Check, ResolverLocksRead, ResolverLocksMutex, CountReader,
        ResolverLocksWrite, Admit, ResolverLocksArray, TestEmpty, RemoveItem,
        MoveHead, ResolverUnlocksArray, ResolverLeaves, UncountReader,
        ResolverLocksError, Lookup, LockStep
<1>3. /\ \A r \in Requesters : hostname'[r] = hostname[r]
      /\ completed' = completed
  BY <1>1 DEF TypeOK, Resolver, Check, ResolverLocksRead, ResolverLocksMutex,
        CountReader, ResolverLocksWrite, Admit, ResolverLocksArray, TestEmpty,
        RemoveItem, MoveHead, ResolverUnlocksArray, ResolverLeaves, UncountReader,
        ResolverLocksError, Lookup, LockStep
<1> QED BY <1>2, <1>3, CarryingFrame

\* A thread that has ended takes no step.
LEMMA ThreadEnded ==
    ASSUME TypeOK, JoinedEnded, NEW t \in Threads, joined' = joined,
           pc[t] # "done", NEW to, Goto(t, to) \/ pc' = pc
    PROVE  JoinedEnded'
BY DEF JoinedEnded, Goto, TypeOK
------------------------------------------------------------------------------
(* The indices as the queue sees them                                      *)

\* A requester between its two writes, a resolver between its two writes.
Storing  == \E r \in Requesters : pc[r] = "advanceTail"
Fetching == \E t \in Resolvers : pc[t] = "advanceHead"

\* A thread that is not between two writes, and does not come there.
LEMMA IndicesStay ==
    ASSUME TypeOK, NEW t \in Threads, NEW to, Goto(t, to), UNCHANGED <<head, tail>>,
           pc[t] \notin {"advanceTail", "advanceHead"},
           to \notin {"advanceTail", "advanceHead"}
    PROVE  EffectiveHead' = EffectiveHead /\ EffectiveTail' = EffectiveTail
<1>1. Storing' = Storing /\ Fetching' = Fetching
  BY ThreadSets DEF Goto, TypeOK, Storing, Fetching
<1> QED BY <1>1 DEF EffectiveHead, EffectiveTail, Storing, Fetching

\* The queue depends on the array and on these indices.
LEMMA QueueStays ==
    ASSUME QueueShaped, array' = array, EffectiveHead' = EffectiveHead,
           EffectiveTail' = EffectiveTail
    PROVE  QueueShaped' /\ TheQueue' = TheQueue
BY DEF QueueShaped, TheQueue, WellFormed, ContentsOf, LengthOf

\* Whoever is at the array is there alone: the others are not between two writes.
LEMMA AloneAtArray ==
    ASSUME IInv, NEW t \in AtArray, pc[t] \notin {"advanceTail", "advanceHead"}
    PROVE  EffectiveHead = head /\ EffectiveTail = tail
<1>1. \A u \in AtArray : u = t
  BY ExclusionFromLocks DEF Exclusion
<1>2. ~Storing /\ ~Fetching
  BY <1>1, ThreadSets DEF Storing, Fetching, AtArray
<1> QED BY <1>2 DEF EffectiveHead, EffectiveTail, Storing, Fetching

LEMMA AddItemStep ==
    ASSUME QInv, NEW r \in Requesters, AddItem(r)
    PROVE  QueueShaped' /\ IF TEST_FULL THEN Stays ELSE Puts(hostname[r])
<1>1. /\ r \in Threads /\ pc[r] = "storeItem" /\ r \in AtArray /\ TypeOK /\ IInv
      /\ WellFormed(array, EffectiveHead, EffectiveTail)
  BY ThreadSets DEF AddItem, At, AtArray, QInv, IInv, QueueShaped
<1>2. EffectiveHead = head /\ EffectiveTail = tail
  BY <1>1, AloneAtArray
<1>3. CASE TEST_FULL
  BY <1>1, <1>3, IndicesStay, QueueStays DEF AddItem, Stays, QInv
<1>4. CASE ~TEST_FULL
  <2>1. hostname[r] \in Names
    BY <1>1 DEF QInv, Carrying, TypeOK
  <2>2. /\ array' = [array EXCEPT ![tail] = hostname[r]]
        /\ head' = head /\ tail' = tail /\ Goto(r, "advanceTail")
    BY <1>4 DEF AddItem, StoreItem
  <2>3. EffectiveTail' = Successor(tail)
    BY <1>1, <2>2 DEF EffectiveTail, Goto, TypeOK, Successor
  <2>4. EffectiveHead' = head
    <3>1. Fetching' = Fetching /\ ~Fetching
      BY <1>1, <2>2, ThreadSets, ExclusionFromLocks
         DEF Goto, TypeOK, Fetching, Exclusion, AtArray
    <3> QED BY <2>2, <3>1 DEF EffectiveHead, Fetching
  <2>5. WellFormed(array, head, tail)
    BY <1>1, <1>2
  <2>6. LengthOf(array, head, tail) # MaxSize
    BY <1>4, <2>5, SizeAssumption DEF TEST_FULL, LengthOf, Slots, WellFormed
  <2>7. LengthOf(array, head, tail) < MaxSize
    BY <2>5, <2>6, LengthRange, SizeAssumption DEF WellFormed
  <2>8. /\ WellFormed([array EXCEPT ![tail] = hostname[r]], head, Successor(tail))
        /\ ContentsOf([array EXCEPT ![tail] = hostname[r]], head, Successor(tail))
              = Longer(ContentsOf(array, head, tail), hostname[r])
    BY <2>1, <2>5, <2>6, PutAtEnd
  <2>9. /\ WellFormed(array', EffectiveHead', EffectiveTail')
        /\ ContentsOf(array', EffectiveHead', EffectiveTail')
              = Longer(ContentsOf(array, head, tail), hostname[r])
    BY <2>2, <2>3, <2>4, <2>8, Zenon
  <2> QED BY <1>2, <1>4, <2>1, <2>7, <2>9 DEF QueueShaped, Puts, TheQueue
<1> QED BY <1>3, <1>4

LEMMA RemoveItemStep ==
    ASSUME QInv, NEW t \in Resolvers, RemoveItem(t)
    PROVE  QueueShaped' /\ (Takes \/ Stays)
<1>1. /\ t \in Threads /\ pc[t] = "fetchItem" /\ t \in AtArray /\ TypeOK /\ IInv
      /\ WellFormed(array, EffectiveHead, EffectiveTail)
  BY ThreadSets DEF RemoveItem, At, AtArray, QInv, IInv, QueueShaped
<1>2. EffectiveHead = head /\ EffectiveTail = tail
  BY <1>1, AloneAtArray
<1>3. CASE TEST_EMPTY
  BY <1>1, <1>3, IndicesStay, QueueStays DEF RemoveItem, Stays, QInv
<1>4. CASE ~TEST_EMPTY
  <2>1. /\ array' = [array EXCEPT ![head] = NULL]
        /\ head' = head /\ tail' = tail /\ Goto(t, "advanceHead")
    BY <1>4 DEF RemoveItem, FetchItem
  <2>2. EffectiveHead' = Successor(head)
    BY <1>1, <2>1 DEF EffectiveHead, Goto, TypeOK, Successor
  <2>3. EffectiveTail' = tail
    <3>1. Storing' = Storing /\ ~Storing
      BY <1>1, <2>1, ThreadSets, ExclusionFromLocks
         DEF Goto, TypeOK, Storing, Exclusion, AtArray
    <3> QED BY <2>1, <3>1 DEF EffectiveTail, Storing
  <2>4. WellFormed(array, head, tail)
    BY <1>1, <1>2
  <2>5. LengthOf(array, head, tail) # 0
    BY <1>4, <2>4, SizeAssumption DEF TEST_EMPTY, LengthOf, Slots, WellFormed
  <2>6. /\ WellFormed([array EXCEPT ![head] = NULL], Successor(head), tail)
        /\ ContentsOf([array EXCEPT ![head] = NULL], Successor(head), tail)
              = Tail(ContentsOf(array, head, tail))
    BY <2>4, <2>5, TakeOldest
  <2>7. /\ WellFormed(array', EffectiveHead', EffectiveTail')
        /\ ContentsOf(array', EffectiveHead', EffectiveTail')
              = Tail(ContentsOf(array, head, tail))
    BY <2>1, <2>2, <2>3, <2>6, Zenon
  <2> QED BY <1>2, <2>5, <2>7 DEF QueueShaped, Takes, TheQueue
<1> QED BY <1>3, <1>4

\* The second write of a call only catches up with the first.
LEMMA MoveTailStep ==
    ASSUME QInv, NEW r \in Requesters, MoveTail(r)
    PROVE  QueueShaped' /\ Stays
<1>1. /\ r \in Threads /\ pc[r] = "advanceTail" /\ r \in AtArray /\ TypeOK /\ IInv
      /\ head' = head /\ tail' = Successor(tail) /\ array' = array /\ Goto(r, "unlock")
  BY ThreadSets DEF MoveTail, At, AtArray, QInv, IInv, AdvanceTail
<1>2. \A u \in AtArray : u = r
  BY <1>1, ExclusionFromLocks DEF Exclusion
<1>3. ~Storing' /\ ~Fetching /\ ~Fetching' /\ Storing
  BY <1>1, <1>2, ThreadSets DEF Storing, Fetching, AtArray, Goto, TypeOK
<1>4. EffectiveHead' = EffectiveHead
  BY <1>1, <1>3 DEF EffectiveHead, Fetching
<1>5. EffectiveTail' = EffectiveTail
  BY <1>1, <1>3 DEF EffectiveTail, Storing
<1> QED BY <1>1, <1>4, <1>5, QueueStays DEF QInv, Stays

LEMMA MoveHeadStep ==
    ASSUME QInv, NEW t \in Resolvers, MoveHead(t)
    PROVE  QueueShaped' /\ Stays
<1>1. /\ t \in Threads /\ pc[t] = "advanceHead" /\ t \in AtArray /\ TypeOK /\ IInv
      /\ tail' = tail /\ head' = Successor(head) /\ array' = array
      /\ Goto(t, "unlockArray")
  BY ThreadSets DEF MoveHead, At, AtArray, QInv, IInv, AdvanceHead
<1>2. \A u \in AtArray : u = t
  BY <1>1, ExclusionFromLocks DEF Exclusion
<1>3. ~Fetching' /\ ~Storing /\ ~Storing' /\ Fetching
  BY <1>1, <1>2, ThreadSets DEF Storing, Fetching, AtArray, Goto, TypeOK
<1>4. EffectiveHead' = EffectiveHead
  BY <1>1, <1>3 DEF EffectiveHead, Fetching
<1>5. EffectiveTail' = EffectiveTail
  BY <1>1, <1>3 DEF EffectiveTail, Storing
<1> QED BY <1>1, <1>4, <1>5, QueueStays DEF QInv, Stays
------------------------------------------------------------------------------
(* Every step                                                              *)

\* The steps that do not touch the array.
LEMMA QuietStep ==
    ASSUME QInv, NEW t \in Threads, NEW to, Goto(t, to), UNCHANGED ringVars,
           pc[t] \notin {"advanceTail", "advanceHead"},
           to \notin {"advanceTail", "advanceHead"}
    PROVE  QueueShaped' /\ Stays
<1>1. TypeOK
  BY DEF QInv, IInv
<1> QED BY <1>1, IndicesStay, QueueStays DEF QInv, Stays

LEMMA RequesterQueue ==
    ASSUME QInv, NEW r \in Requesters, Requester(r)
    PROVE  JoinedEnded' /\ QueueShaped' /\ (AddItem(r) \/ Stays)
<1>0. r \in Threads /\ TypeOK /\ JoinedEnded
  BY ThreadSets DEF QInv, IInv
<1>1. JoinedEnded'
  <2>1. joined' = joined /\ pc[r] # "done" /\ ((\E to : Goto(r, to)) \/ pc' = pc)
    BY DEF Requester, RequesterLocksLog, Report, ReadName, CloseFile,
        FinishRequester, RequesterLocksRead, RequesterLocksWrite, TestFull,
        AddItem, MoveTail, RequesterUnlocks, LockStep, At
  <2> QED BY <1>0, <2>1, ThreadEnded
<1> SUFFICES QueueShaped' /\ (AddItem(r) \/ Stays)
  BY <1>1
<1>2. CASE RequesterLocksLog(r) \/ RequesterLocksRead(r) \/ RequesterLocksWrite(r)
  BY <1>0, <1>2, QuietStep
     DEF RequesterLocksLog, RequesterLocksRead, RequesterLocksWrite, LockStep, At
<1>3. CASE Report(r) \/ ReadName(r) \/ FinishRequester(r)
  BY <1>0, <1>3, QuietStep DEF Report, ReadName, FinishRequester, At
<1>4. CASE TestFull(r) \/ RequesterUnlocks(r)
  BY <1>0, <1>4, QuietStep DEF TestFull, RequesterUnlocks, At
<1>5. CASE CloseFile(r)
  <2>1. EffectiveHead' = EffectiveHead /\ EffectiveTail' = EffectiveTail
    BY <1>5 DEF CloseFile, EffectiveHead, EffectiveTail, Successor
  <2> QED BY <1>5, <2>1, QueueStays DEF CloseFile, QInv, Stays
<1> QED BY <1>2, <1>3, <1>4, <1>5, AddItemStep, MoveTailStep DEF Requester

LEMMA ResolverQueue ==
    ASSUME QInv, NEW t \in Resolvers, Resolver(t)
    PROVE  JoinedEnded' /\ QueueShaped' /\ (Takes \/ Stays)
<1>0. t \in Threads /\ TypeOK /\ JoinedEnded
  BY ThreadSets DEF QInv, IInv
<1>1. JoinedEnded'
  <2>1. joined' = joined /\ pc[t] # "done" /\ \E to : Goto(t, to)
    BY DEF Resolver, Check, ResolverLocksRead, ResolverLocksMutex, CountReader,
        ResolverLocksWrite, Admit, ResolverLocksArray, TestEmpty, RemoveItem,
        MoveHead, ResolverUnlocksArray, ResolverLeaves, UncountReader,
        ResolverLocksError, Lookup, LockStep, At
  <2> QED BY <1>0, <2>1, ThreadEnded
<1> SUFFICES QueueShaped' /\ (Takes \/ Stays)
  BY <1>1
<1>2. CASE \/ ResolverLocksRead(t) \/ ResolverLocksMutex(t) \/ ResolverLocksWrite(t)
           \/ ResolverLocksArray(t) \/ ResolverLeaves(t) \/ ResolverLocksError(t)
  BY <1>0, <1>2, QuietStep
     DEF ResolverLocksRead, ResolverLocksMutex, ResolverLocksWrite,
         ResolverLocksArray, ResolverLeaves, ResolverLocksError, LockStep, At
<1>3. CASE Check(t) \/ CountReader(t) \/ Admit(t)
  BY <1>0, <1>3, QuietStep DEF Check, CountReader, Admit, At
<1>4. CASE TestEmpty(t) \/ ResolverUnlocksArray(t)
  BY <1>0, <1>4, QuietStep DEF TestEmpty, ResolverUnlocksArray, At
<1>5. CASE UncountReader(t) \/ Lookup(t)
  BY <1>0, <1>5, QuietStep DEF UncountReader, Lookup, At
<1> QED
  BY <1>2, <1>3, <1>4, <1>5, RemoveItemStep, MoveHeadStep DEF Resolver

\* main throws the array away when every thread has ended, so that the index main
\* reads is the index the queue has.
LEMMA FinishStep ==
    ASSUME QInv, Finish
    PROVE  QueueShaped' /\ TheQueue' = << >>
<1>1. /\ joined = NumThreads /\ pc' = pc /\ TypeOK
      /\ array' = [i \in Slots |-> NULL] /\ head' = tail /\ tail' = tail
      /\ tail \in Slots
  BY DEF Finish, SHARED_ARRAY_CLEAR, QInv, IInv, TypeOK, RingTypeOK
<1>2. \A t \in Threads : pc[t] = "done"
  BY <1>1, PoolAssumption DEF QInv, JoinedEnded, Threads, NumThreads
<1>3. EffectiveHead' = tail /\ EffectiveTail' = tail
  BY <1>1, <1>2, ThreadSets DEF EffectiveHead, EffectiveTail
<1>4. WellFormed(array', tail, tail) /\ ContentsOf(array', tail, tail) = << >>
  BY <1>1, Cleared
<1> QED BY <1>3, <1>4 DEF QueueShaped, TheQueue

LEMMA MainQueue ==
    ASSUME QInv, Main
    PROVE  JoinedEnded' /\ QueueShaped' /\ IF Finish THEN TheQueue' = << >> ELSE Stays
<1>1. JoinedEnded'
  <2>1. joined \in Nat
    BY PoolAssumption DEF QInv, IInv, TypeOK, NumThreads
  <2>2. pc' = pc /\ (joined' = joined \/ (joined' = joined + 1 /\ pc[joined + 1] = "done"))
    BY DEF Main, CreateThread, CreateFails, JoinRequester, SetDone, JoinResolver,
           Finish
  <2> QED BY <2>1, <2>2, PoolAssumption DEF QInv, JoinedEnded, Threads, NumThreads
<1>2. CASE Finish
  BY <1>1, <1>2, FinishStep
<1>3. CASE ~Finish
  <2>1. UNCHANGED ringVars /\ pc' = pc
    BY <1>3 DEF Main, CreateThread, CreateFails, JoinRequester, SetDone, JoinResolver
  <2>2. EffectiveHead' = EffectiveHead /\ EffectiveTail' = EffectiveTail
    BY <2>1 DEF EffectiveHead, EffectiveTail, Successor
  <2> QED BY <1>1, <1>3, <2>1, <2>2, QueueStays DEF QInv, Stays
<1> QED BY <1>2, <1>3

LEMMA QueueNext == QInv /\ [Next]_vars => QInv' /\ QueueStep
<1> SUFFICES ASSUME QInv, [Next]_vars PROVE QInv' /\ QueueStep
  OBVIOUS
<1>1. IInv' /\ TypeOK
  BY Inductive DEF QInv, IInv
<1>2. ASSUME NEW r \in Requesters, Requester(r) PROVE QInv' /\ QueueStep
  <2>1. QInv'
    BY <1>1, <1>2, RequesterCarrying, RequesterQueue DEF QInv
  <2>2. AddItem(r) \/ Stays
    BY <1>2, RequesterQueue
  <2>3. AddItem(r) => Stays \/ (hostname[r] \in Names /\ Puts(hostname[r]))
    BY AddItemStep DEF Puts
  <2> QED BY <2>1, <2>2, <2>3 DEF QueueStep
<1>3. ASSUME NEW t \in Resolvers, Resolver(t) PROVE QInv' /\ QueueStep
  BY <1>1, <1>3, ResolverCarrying, ResolverQueue DEF QInv, QueueStep
<1>4. CASE Main
  <2>1. pc' = pc /\ hostname' = hostname /\ completed' = completed
    BY <1>4 DEF Main, CreateThread, CreateFails, JoinRequester, SetDone,
                JoinResolver, Finish
  <2>2. Carrying'
    BY <2>1, CarryingFrame DEF QInv
  <2> QED BY <1>1, <1>4, <2>2, MainQueue DEF QInv, QueueStep
<1>5. CASE UNCHANGED vars \/ Strays \/ LacksResource
  <2>1. UNCHANGED <<array, head, tail, pc, joined, hostname, completed>>
    BY <1>5, LostStep DEF vars
  <2>2. EffectiveHead' = EffectiveHead /\ EffectiveTail' = EffectiveTail
    BY <2>1 DEF EffectiveHead, EffectiveTail, Successor
  <2>3. Carrying' /\ JoinedEnded'
    BY <2>1 DEF QInv, Carrying, JoinedEnded
  <2> QED BY <1>1, <2>1, <2>2, <2>3, QueueStays DEF QInv, QueueStep, Stays
<1> QED BY <1>2, <1>3, <1>4, <1>5 DEF Next, Terminated

LEMMA QueueInit == Init => QInv /\ TheQueue = << >>
<1> SUFFICES ASSUME Init PROVE QInv /\ TheQueue = << >>
  OBVIOUS
<1>1. IInv /\ Carrying /\ JoinedEnded
  BY CarryingInit, TypeInit, LockInit DEF IInv
<1>2. EffectiveHead = 0 /\ EffectiveTail = 0
  BY ThreadSets DEF Init, SHARED_ARRAY_INIT, EffectiveHead, EffectiveTail
<1>3. 0 \in Slots
  BY SlotFacts
<1> QED
  BY <1>1, <1>2, <1>3, Cleared
     DEF QInv, QueueShaped, TheQueue, Init, SHARED_ARRAY_INIT
------------------------------------------------------------------------------
(* The theorems                                                            *)

\* What SharedQueue calls its queue is the contents the lemmas speak of.
LEMMA SameContents ==
    /\ QueueShaped => Contents(EffectiveHead, EffectiveTail) = TheQueue
    /\ QueueShaped' => Contents(EffectiveHead, EffectiveTail)' = TheQueue'
<1>1. ASSUME NEW arr, NEW h, NEW t, WellFormed(arr, h, t)
      PROVE  LengthOf(arr, h, t) = CASE h = t -> IF arr[h] = NULL THEN 0 ELSE MaxSize
                                     [] h < t -> t - h
                                     [] h > t -> t - h + MaxSize
  BY <1>1, SizeAssumption DEF WellFormed, Slots, LengthOf
<1>2. ASSUME QueueShaped
      PROVE  Contents(EffectiveHead, EffectiveTail) = TheQueue
  BY <1>1, <1>2 DEF QueueShaped, TheQueue, Contents, ContentsOf, Length
<1>3. ASSUME QueueShaped'
      PROVE  Contents(EffectiveHead, EffectiveTail)' = TheQueue'
  BY <1>1, <1>3 DEF QueueShaped, TheQueue, Contents, ContentsOf, Length
<1> QED BY <1>2, <1>3

\* The array the threads share is well formed at every step: between the two writes
\* of a call too, no slot of the queue is empty and no other slot holds a name.
THEOREM QueueInvariance == Spec => []QInv
BY QueueInit, QueueNext, PTL DEF Spec

\* The threads of multi-lookup.c, each making its writes one at a time, use the
\* array as a bounded first-in first-out queue.
THEOREM ThreadsShareQueue == Spec => SharedIsQueue
<1>1. Init => SharedQueue!Init
  BY QueueInit, SameContents DEF QInv, SharedQueue!Init
<1>2. QInv /\ QInv' /\ [Next]_vars
         => [SharedQueue!Next]_(Contents(EffectiveHead, EffectiveTail))
  <2> SUFFICES ASSUME QInv, QInv', [Next]_vars
               PROVE  [SharedQueue!Next]_(Contents(EffectiveHead, EffectiveTail))
    OBVIOUS
  <2>1. /\ Contents(EffectiveHead, EffectiveTail) = TheQueue
        /\ Contents(EffectiveHead, EffectiveTail)' = TheQueue'
    BY SameContents DEF QInv
  <2>2. Len(TheQueue) = LengthOf(array, EffectiveHead, EffectiveTail)
    BY ContentsType DEF QInv, QueueShaped, TheQueue
  <2>3. CASE \E x \in Names : Puts(x)
    BY <2>1, <2>2, <2>3 DEF Puts, Longer, SharedQueue!Next, SharedQueue!Put
  <2>4. CASE Takes
    <3>1. TheQueue # << >>
      BY <2>2, <2>4 DEF Takes
    <3> QED BY <2>1, <2>4, <3>1 DEF Takes, SharedQueue!Next, SharedQueue!Take
  <2>5. CASE TheQueue' = << >>
    BY <2>1, <2>5 DEF SharedQueue!Next, SharedQueue!Discard
  <2>6. CASE Stays
    BY <2>1, <2>6 DEF Stays
  <2> QED BY <2>3, <2>4, <2>5, <2>6, QueueNext DEF QueueStep
<1> QED
  BY <1>1, <1>2, QueueInvariance, PTL DEF Spec, SharedIsQueue, SharedQueue!Spec
------------------------------------------------------------------------------
(*                             THE NAMES                                   *)

(* Counting names                                                          *)

\* The image of a finite set under a function.
LEMMA ImageFinite ==
    ASSUME NEW S, IsFiniteSet(S), NEW f, DOMAIN f = S
    PROVE  IsFiniteSet({f[x] : x \in S})
<1> DEFINE T == {f[x] : x \in S}
           g == [x \in S |-> f[x]]
<1>1. g \in Surjection(S, T)
  BY DEF Surjection
<1> QED BY <1>1, FS_Surjection

\* What a list of files is made of.
LEMMA ListOfFiles ==
    ASSUME NEW fs \in Seq(File)
    PROVE  /\ DOMAIN fs = 1 .. Len(fs) /\ Len(fs) \in Nat
           /\ \A i \in DOMAIN fs : /\ fs[i] \in File /\ fs[i].names \in Seq(Names)
                                   /\ DOMAIN fs[i].names = 1 .. Len(fs[i].names)
                                   /\ Len(fs[i].names) \in Nat
<1>1. DOMAIN fs = 1 .. Len(fs) /\ Len(fs) \in Nat /\ \A i \in DOMAIN fs : fs[i] \in File
  OBVIOUS
<1>2. \A x \in File : x.names \in Seq(Names)
  BY DEF File
<1>3. \A i \in DOMAIN fs : fs[i].names \in Seq(Names)
  BY <1>1, <1>2
<1> QED BY <1>1, <1>3

\* What it means to be a place of a name.
LEMMA OccurringMeans ==
    ASSUME NEW F \in [Requesters -> Seq(File)], NEW N, NEW p
    PROVE  p \in Occurring(F, N) <=>
              /\ p \in Requesters \X Nat \X Nat
              /\ p[2] \in DOMAIN F[p[1]]
              /\ p[3] \in DOMAIN F[p[1]][p[2]].names
              /\ F[p[1]][p[2]].names[p[3]] \in N
<1>1. \A r \in Requesters : F[r] \in Seq(File)
  OBVIOUS
<1>2. \A r \in Requesters : \A i \in DOMAIN F[r] : \A k \in DOMAIN F[r][i].names :
          i \in Nat /\ k \in Nat
  BY <1>1, ListOfFiles
<1>3. p \in Occurring(F, N) <=>
         \E r \in Requesters : \E i \in DOMAIN F[r] : \E k \in DOMAIN F[r][i].names :
             F[r][i].names[k] \in N /\ p = <<r, i, k>>
  BY DEF Occurring, InList, InFile
<1>4. ASSUME p \in Occurring(F, N)
      PROVE  /\ p \in Requesters \X Nat \X Nat
             /\ p[2] \in DOMAIN F[p[1]]
             /\ p[3] \in DOMAIN F[p[1]][p[2]].names
             /\ F[p[1]][p[2]].names[p[3]] \in N
  BY <1>2, <1>3, <1>4
<1>5. ASSUME p \in Requesters \X Nat \X Nat,
             p[2] \in DOMAIN F[p[1]],
             p[3] \in DOMAIN F[p[1]][p[2]].names,
             F[p[1]][p[2]].names[p[3]] \in N
      PROVE  p \in Occurring(F, N)
  <2>1. p = <<p[1], p[2], p[3]>> /\ p[1] \in Requesters
    BY <1>5
  <2> QED BY <1>3, <1>5, <2>1
<1> QED BY <1>4, <1>5

LEMMA OccurringFinite ==
    ASSUME NEW F \in [Requesters -> Seq(File)], NEW N
    PROVE  IsFiniteSet(Occurring(F, N))
<1>1. ASSUME NEW r \in Requesters, NEW i \in DOMAIN F[r]
      PROVE  IsFiniteSet(InFile(F, N, r, i))
  <2> DEFINE K == {m \in DOMAIN F[r][i].names : F[r][i].names[m] \in N}
             f == [k \in K |-> <<r, i, k>>]
  <2>1. F[r][i].names \in Seq(Names)
    BY ListOfFiles
  <2>2. IsFiniteSet(1 .. Len(F[r][i].names)) /\ K \in SUBSET (1 .. Len(F[r][i].names))
    BY <2>1, FS_Interval
  <2>3. IsFiniteSet(K)
    BY <2>2, FS_Subset
  <2>4. IsFiniteSet({f[k] : k \in K})
    <3> HIDE DEF K
    <3> QED BY <2>3, ImageFinite
  <2>5. {f[k] : k \in K} = InFile(F, N, r, i)
    BY DEF InFile
  <2> QED BY <2>4, <2>5
<1>2. ASSUME NEW r \in Requesters PROVE IsFiniteSet(InList(F, N, r))
  <2> DEFINE g == [i \in DOMAIN F[r] |-> InFile(F, N, r, i)]
  <2>1. IsFiniteSet(DOMAIN F[r])
    BY FS_Interval
  <2>2. IsFiniteSet({g[i] : i \in DOMAIN F[r]})
    BY <2>1, ImageFinite
  <2>3. \A T \in {g[i] : i \in DOMAIN F[r]} : IsFiniteSet(T)
    BY <1>1
  <2>4. {g[i] : i \in DOMAIN F[r]} = {InFile(F, N, r, i) : i \in DOMAIN F[r]}
    OBVIOUS
  <2> QED BY <2>2, <2>3, <2>4, FS_UNION DEF InList
<1> DEFINE h == [r \in Requesters |-> InList(F, N, r)]
<1>3. IsFiniteSet(Requesters)
  BY PoolAssumption, FS_Interval DEF Requesters
<1>4. IsFiniteSet({h[r] : r \in Requesters})
  BY <1>3, ImageFinite
<1>5. \A T \in {h[r] : r \in Requesters} : IsFiniteSet(T)
  BY <1>2
<1>6. {h[r] : r \in Requesters} = {InList(F, N, r) : r \in Requesters}
  OBVIOUS
<1> QED BY <1>4, <1>5, <1>6, FS_UNION DEF Occurring

LEMMA SameSize ==
    ASSUME NEW S, NEW T, IsFiniteSet(S), NEW f \in [S -> T],
           \A x, y \in S : f[x] = f[y] => x = y,
           \A y \in T : \E x \in S : f[x] = y
    PROVE  IsFiniteSet(T) /\ Cardinality(T) = Cardinality(S)
<1>1. f \in Bijection(S, T)
  BY DEF Bijection, Injection, Surjection, IsInjective
<1> QED BY <1>1, FS_Bijection DEF ExistsBijection

\* Reading the first name of a file takes one place away, and moves the others of the
\* file down by one.
LEMMA ScanCount ==
    ASSUME NEW F \in [Requesters -> Seq(File)], NEW r \in Requesters, NEW N,
           F[r] # << >>, F[r][1].names # << >>
    PROVE  LET G == [F EXCEPT ![r] = AfterScan(@)]
           IN  Cardinality(Occurring(F, N)) =
                  Cardinality(Occurring(G, N))
                  + (IF Head(F[r][1].names) \in N THEN 1 ELSE 0)
<1> DEFINE G == [F EXCEPT ![r] = AfterScan(@)]
           first == <<r, 1, 1>>
           S == Occurring(G, N)
           T == Occurring(F, N) \ {first}
           f == [p \in S |-> IF p[1] = r /\ p[2] = 1 THEN <<r, 1, p[3] + 1>> ELSE p]
<1>1. /\ F[r] \in Seq(File) /\ 1 \in DOMAIN F[r]
      /\ F[r][1] \in File /\ F[r][1].names \in Seq(Names)
      /\ Len(F[r][1].names) \in Nat \ {0}
  <2>1. F[r] \in Seq(File) /\ 1 \in DOMAIN F[r]
    OBVIOUS
  <2>2. F[r][1] \in File /\ F[r][1].names \in Seq(Names)
    BY <2>1, ListOfFiles
  <2> QED BY <2>1, <2>2
<1>2. AfterScan(F[r]) \in Seq(File) /\ G \in [Requesters -> Seq(File)]
  BY <1>1, RestOfFiles
<1>3. /\ DOMAIN G[r] = DOMAIN F[r]
      /\ DOMAIN G[r][1].names = 1 .. Len(F[r][1].names) - 1
      /\ \A k \in 1 .. Len(F[r][1].names) - 1 : G[r][1].names[k] = F[r][1].names[k + 1]
      /\ \A i \in DOMAIN F[r] : i # 1 => G[r][i] = F[r][i]
      /\ \A q \in Requesters : q # r => G[q] = F[q]
  BY <1>1 DEF AfterScan
<1> HIDE DEF G
<1>4. \A p \in S : /\ p \in Requesters \X Nat \X Nat
                   /\ p[2] \in DOMAIN G[p[1]]
                   /\ p[3] \in DOMAIN G[p[1]][p[2]].names
                   /\ G[p[1]][p[2]].names[p[3]] \in N
  BY <1>2, OccurringMeans
<1>5. \A p \in Occurring(F, N) :
                   /\ p \in Requesters \X Nat \X Nat
                   /\ p[2] \in DOMAIN F[p[1]]
                   /\ p[3] \in DOMAIN F[p[1]][p[2]].names
                   /\ F[p[1]][p[2]].names[p[3]] \in N
  BY OccurringMeans
<1>6. ASSUME NEW p \in S PROVE f[p] \in T
  <2>1. CASE p[1] = r /\ p[2] = 1
    <3>1. p[3] \in 1 .. Len(F[r][1].names) - 1 /\ p[3] + 1 \in Nat /\ p[3] + 1 # 1
      BY <1>1, <1>3, <1>4, <2>1
    <3>2. p[3] + 1 \in DOMAIN F[r][1].names
      BY <1>1, <3>1
    <3>3. F[r][1].names[p[3] + 1] \in N
      BY <1>3, <1>4, <2>1, <3>1
    <3>4. f[p] = <<r, 1, p[3] + 1>>
      BY <2>1
    <3>5. <<r, 1, p[3] + 1>> \in Occurring(F, N)
      BY <1>1, <3>1, <3>2, <3>3, OccurringMeans
    <3>6. <<r, 1, p[3] + 1>> # first
      BY <3>1
    <3> QED BY <3>4, <3>5, <3>6
  <2>2. CASE ~(p[1] = r /\ p[2] = 1)
    <3>1. f[p] = p /\ p # first
      BY <2>2
    <3>2. p[2] \in DOMAIN F[p[1]] /\ G[p[1]][p[2]] = F[p[1]][p[2]]
      BY <1>3, <1>4, <2>2
    <3>3. p \in Occurring(F, N)
      BY <1>4, <3>2, OccurringMeans
    <3> QED BY <3>1, <3>3
  <2> QED BY <2>1, <2>2
<1>7. \A p, q \in S : f[p] = f[q] => p = q
  <2> SUFFICES ASSUME NEW p \in S, NEW q \in S, f[p] = f[q] PROVE p = q
    OBVIOUS
  <2>1. /\ p = <<p[1], p[2], p[3]>> /\ p[3] \in Nat
        /\ q = <<q[1], q[2], q[3]>> /\ q[3] \in Nat
    BY <1>4
  <2>2. f[p][1] = p[1] /\ f[p][2] = p[2] /\ f[q][1] = q[1] /\ f[q][2] = q[2]
    BY <2>1
  <2>3. p[1] = q[1] /\ p[2] = q[2]
    BY <2>2
  <2>4. p[3] = q[3]
    BY <2>1, <2>3
  <2> QED BY <2>1, <2>3, <2>4
<1>8. \A q \in T : \E p \in S : f[p] = q
  <2> SUFFICES ASSUME NEW q \in T PROVE \E p \in S : f[p] = q
    OBVIOUS
  <2>0. q \in Requesters \X Nat \X Nat /\ q = <<q[1], q[2], q[3]>>
    BY <1>5
  <2>1. CASE q[1] = r /\ q[2] = 1
    <3> DEFINE p == <<r, 1, q[3] - 1>>
    <3>1. q[3] \in 1 .. Len(F[r][1].names) /\ q[3] # 1
      BY <1>1, <1>5, <2>0, <2>1
    <3>2. /\ q[3] - 1 \in DOMAIN G[r][1].names /\ q[3] - 1 \in Nat
          /\ G[r][1].names[q[3] - 1] = F[r][1].names[q[3]]
      BY <1>1, <1>3, <3>1
    <3>3. F[r][1].names[q[3]] \in N
      BY <1>5, <2>1
    <3>4. p \in S
      BY <1>1, <1>2, <1>3, <3>2, <3>3, OccurringMeans
    <3>5. f[p] = <<r, 1, q[3] - 1 + 1>>
      BY <3>4
    <3>6. q[3] - 1 + 1 = q[3]
      BY <3>1
    <3>7. f[p] = <<r, 1, q[3]>>
      BY <3>5, <3>6
    <3>8. f[p] = q
      <4> HIDE DEF f, p
      <4> QED BY <2>0, <2>1, <3>7
    <3> QED BY <3>4, <3>8
  <2>2. CASE ~(q[1] = r /\ q[2] = 1)
    <3>1. q[2] \in DOMAIN G[q[1]] /\ G[q[1]][q[2]] = F[q[1]][q[2]]
      BY <1>3, <1>5, <2>2
    <3>2. q \in S
      BY <1>2, <1>5, <3>1, OccurringMeans
    <3>3. f[q] = q
      BY <2>2, <3>2
    <3> QED BY <3>2, <3>3
  <2> QED BY <2>1, <2>2
<1>9. IsFiniteSet(S) /\ IsFiniteSet(Occurring(F, N))
  BY <1>2, OccurringFinite
<1>10. f \in [S -> T]
  BY <1>6
<1>11. Cardinality(T) = Cardinality(S)
  <2> HIDE DEF S, T, f
  <2> QED BY <1>7, <1>8, <1>9, <1>10, SameSize
<1>12. first \in Occurring(F, N) <=> Head(F[r][1].names) \in N
  <2>1. 1 \in DOMAIN F[r][1].names /\ Head(F[r][1].names) = F[r][1].names[1]
    BY <1>1
  <2>2. first[1] = r /\ first[2] = 1 /\ first[3] = 1 /\ first \in Requesters \X Nat \X Nat
    OBVIOUS
  <2> QED BY <1>1, <2>1, <2>2, OccurringMeans
<1>13. Cardinality(T) = IF first \in Occurring(F, N) THEN Cardinality(Occurring(F, N)) - 1
                        ELSE Cardinality(Occurring(F, N))
  <2> HIDE DEF first
  <2> QED BY <1>9, FS_RemoveElement
<1>14. Cardinality(Occurring(F, N)) \in Nat /\ Cardinality(S) \in Nat
  BY <1>9, FS_CardinalityType
<1>15. Cardinality(Occurring(F, N))
          = Cardinality(S) + (IF Head(F[r][1].names) \in N THEN 1 ELSE 0)
  <2> HIDE DEF S, T, first
  <2> QED BY <1>11, <1>12, <1>13, <1>14
<1> QED BY <1>15 DEF G

\* Closing a file that is read to its end moves the places of the files behind it.
LEMMA CloseCount ==
    ASSUME NEW F \in [Requesters -> Seq(File)], NEW r \in Requesters, NEW N,
           F[r] # << >>, F[r][1].names = << >>
    PROVE  Cardinality(Occurring([F EXCEPT ![r] = Tail(@)], N)) = Cardinality(Occurring(F, N))
<1> DEFINE G == [F EXCEPT ![r] = Tail(@)]
           S == Occurring(G, N)
           T == Occurring(F, N)
           f == [p \in S |-> IF p[1] = r THEN <<r, p[2] + 1, p[3]>> ELSE p]
<1>1. F[r] \in Seq(File) /\ Len(F[r]) \in Nat \ {0}
  OBVIOUS
<1>2. Tail(F[r]) \in Seq(File) /\ G \in [Requesters -> Seq(File)]
  BY <1>1
<1>3. /\ DOMAIN G[r] = 1 .. Len(F[r]) - 1
      /\ \A i \in 1 .. Len(F[r]) - 1 : G[r][i] = F[r][i + 1]
      /\ \A q \in Requesters : q # r => G[q] = F[q]
  BY <1>1
<1> HIDE DEF G
<1>4. \A p \in S : /\ p \in Requesters \X Nat \X Nat
                   /\ p[2] \in DOMAIN G[p[1]]
                   /\ p[3] \in DOMAIN G[p[1]][p[2]].names
                   /\ G[p[1]][p[2]].names[p[3]] \in N
  BY <1>2, OccurringMeans
<1>5. \A p \in T : /\ p \in Requesters \X Nat \X Nat
                   /\ p[2] \in DOMAIN F[p[1]]
                   /\ p[3] \in DOMAIN F[p[1]][p[2]].names
                   /\ F[p[1]][p[2]].names[p[3]] \in N
  BY OccurringMeans
<1>6. ASSUME NEW p \in S PROVE f[p] \in T
  <2>1. CASE p[1] = r
    <3>0. p[2] \in 1 .. Len(F[r]) - 1 /\ p[3] \in Nat
      BY <1>3, <1>4, <2>1
    <3>1. /\ p[2] + 1 \in DOMAIN F[r] /\ p[2] + 1 \in Nat
          /\ G[r][p[2]] = F[r][p[2] + 1]
      BY <1>1, <1>3, <3>0
    <3>2. f[p] = <<r, p[2] + 1, p[3]>>
      BY <2>1
    <3>3. p[3] \in DOMAIN F[r][p[2] + 1].names /\ F[r][p[2] + 1].names[p[3]] \in N
      BY <1>4, <2>1, <3>1
    <3>4. <<r, p[2] + 1, p[3]>> \in T
      BY <3>0, <3>1, <3>3, OccurringMeans
    <3> QED BY <3>2, <3>4
  <2>2. CASE p[1] # r
    BY <1>3, <1>4, <2>2, OccurringMeans
  <2> QED BY <2>1, <2>2
<1>7. \A p, q \in S : f[p] = f[q] => p = q
  <2> SUFFICES ASSUME NEW p \in S, NEW q \in S, f[p] = f[q] PROVE p = q
    OBVIOUS
  <2>1. /\ p = <<p[1], p[2], p[3]>> /\ p[2] \in Nat
        /\ q = <<q[1], q[2], q[3]>> /\ q[2] \in Nat
    BY <1>4
  <2>2. f[p][1] = p[1] /\ f[p][3] = p[3] /\ f[q][1] = q[1] /\ f[q][3] = q[3]
    BY <2>1
  <2>3. p[1] = q[1] /\ p[3] = q[3]
    BY <2>2
  <2>4. p[2] = q[2]
    BY <2>1, <2>3
  <2> QED BY <2>1, <2>3, <2>4
<1>8. \A q \in T : \E p \in S : f[p] = q
  <2> SUFFICES ASSUME NEW q \in T PROVE \E p \in S : f[p] = q
    OBVIOUS
  <2>0. q \in Requesters \X Nat \X Nat /\ q = <<q[1], q[2], q[3]>>
    BY <1>5
  <2>1. CASE q[1] = r
    <3> DEFINE p == <<r, q[2] - 1, q[3]>>
    <3>1. q[2] \in 1 .. Len(F[r]) /\ q[2] # 1
      BY <1>1, <1>5, <2>0, <2>1
    <3>2. /\ q[2] - 1 \in DOMAIN G[r] /\ q[2] - 1 \in Nat
          /\ G[r][q[2] - 1] = F[r][q[2]]
      BY <1>1, <1>3, <3>1
    <3>3. q[3] \in DOMAIN F[r][q[2]].names /\ F[r][q[2]].names[q[3]] \in N
      BY <1>5, <2>1
    <3>4. p \in S
      BY <1>2, <2>0, <3>2, <3>3, OccurringMeans
    <3>5. f[p] = <<r, q[2] - 1 + 1, q[3]>>
      BY <3>4
    <3>6. q[2] - 1 + 1 = q[2]
      BY <3>1
    <3>7. f[p] = <<r, q[2], q[3]>>
      BY <3>5, <3>6
    <3>8. f[p] = q
      <4> HIDE DEF f, p
      <4> QED BY <2>0, <2>1, <3>7
    <3> QED BY <3>4, <3>8
  <2>2. CASE q[1] # r
    <3>1. q \in S
      BY <1>2, <1>3, <1>5, <2>0, <2>2, OccurringMeans
    <3>2. f[q] = q
      BY <2>2, <3>1
    <3> QED BY <3>1, <3>2
  <2> QED BY <2>1, <2>2
<1>9. IsFiniteSet(S)
  BY <1>2, OccurringFinite
<1>10. f \in [S -> T]
  BY <1>6
<1>11. Cardinality(T) = Cardinality(S)
  <2> HIDE DEF S, T, f
  <2> QED BY <1>7, <1>8, <1>9, <1>10, SameSize
<1> QED BY <1>11 DEF G
------------------------------------------------------------------------------
(* What each step does to the names                                        *)

One(x, N) == IF x \in N THEN 1 ELSE 0

\* One place of a function changes.
LEMMA ChangeCount ==
    ASSUME NEW D, IsFiniteSet(D), NEW g, DOMAIN g = D, NEW d \in D, NEW x, NEW N
    PROVE  Cardinality({e \in D : [g EXCEPT ![d] = x][e] \in N}) + One(g[d], N)
              = Cardinality({e \in D : g[e] \in N}) + One(x, N)
<1> DEFINE M == {e \in D : g[e] \in N}
           M2 == {e \in D : [g EXCEPT ![d] = x][e] \in N}
<1>1. IsFiniteSet(M) /\ IsFiniteSet(M2)
  BY FS_Subset
<1>2. Cardinality(M) \in Nat /\ Cardinality(M2) \in Nat
  BY <1>1, FS_CardinalityType
<1>3. /\ IsFiniteSet(M \ {d})
      /\ Cardinality(M \ {d}) = IF d \in M THEN Cardinality(M) - 1 ELSE Cardinality(M)
  BY <1>1, FS_RemoveElement
<1>4. /\ d \in M <=> g[d] \in N
      /\ d \in M2 <=> x \in N
      /\ M2 = IF x \in N THEN (M \ {d}) \cup {d} ELSE M \ {d}
  OBVIOUS
<1>5. Cardinality((M \ {d}) \cup {d}) = Cardinality(M \ {d}) + 1
  BY <1>3, FS_AddElement
<1>6. Cardinality(M2) + One(g[d], N) = Cardinality(M) + One(x, N)
  <2> HIDE DEF M, M2
  <2> QED BY <1>2, <1>3, <1>4, <1>5 DEF One
<1> QED BY <1>6

\* The names, from the values of the variables they are in.
HandsOf(h, N)     == {t \in Threads : h[t] \in N}
StoredIn(arr, N)  == {i \in Slots : arr[i] \in N}
PrintedIn(res, N) == {i \in DOMAIN res : res[i][1] \in N /\ res[i][2] = Answer(res[i][1])}

Balance(F, h, arr, res, N) ==
    Cardinality(Occurring(F, N)) + Cardinality(HandsOf(h, N))
        + Cardinality(StoredIn(arr, N)) + Cardinality(PrintedIn(res, N))

Conserved ==
    status \in {"running", "aborted"} =>
        \A N \in SUBSET Names : Balance(files, hostname, array, results, N)
                                    = Cardinality(Occurring(Input, N))

\* A thread carries a name only from where it gets it to where it gives it away.
EmptyHanded ==
    /\ \A r \in Requesters :
          /\ pc[r] \in {"lockLog", "report", "scan", "advanceTail", "done"}
                => hostname[r] = NULL
          /\ pc[r] \in {"lockRead", "lockWrite", "testFull", "storeItem"} => ~completed[r]
          /\ pc[r] = "unlock" /\ completed[r] => hostname[r] = NULL
    /\ \A t \in Resolvers :
          pc[t] \in {"check", "enterRead", "enterMutex", "count", "enterWrite", "admit",
                     "lockArray", "testEmpty", "fetchItem", "done"} => hostname[t] = NULL

\* What a requester has seen of the array holds until it stores.
RoomAhead == \A r \in Requesters : pc[r] = "storeItem" => ~TEST_FULL

FlowInv == QInv /\ EmptyHanded /\ RoomAhead /\ Conserved /\ LossBounded

LEMMA FlowFinite ==
    ASSUME TypeOK, NEW N
    PROVE  /\ IsFiniteSet(Threads) /\ IsFiniteSet(Slots) /\ Cardinality(Slots) = MaxSize
           /\ Cardinality(Occurring(files, N)) \in Nat
           /\ Cardinality(HandsOf(hostname, N)) \in Nat
           /\ Cardinality(StoredIn(array, N)) \in Nat
           /\ IsFiniteSet(PrintedIn(results, N))
           /\ Cardinality(PrintedIn(results, N)) \in Nat
<1>1. IsFiniteSet(Threads)
  BY PoolAssumption, FS_Interval DEF Threads, NumThreads
<1>2. IsFiniteSet(Slots) /\ Cardinality(Slots) = MaxSize
  BY SizeAssumption, FS_Interval DEF Slots
<1>3. IsFiniteSet(DOMAIN results)
  BY FS_Interval DEF TypeOK
<1>4. IsFiniteSet(Occurring(files, N))
  BY OccurringFinite DEF TypeOK
<1>5. /\ IsFiniteSet(HandsOf(hostname, N)) /\ IsFiniteSet(StoredIn(array, N))
      /\ IsFiniteSet(PrintedIn(results, N))
  BY <1>1, <1>2, <1>3, FS_Subset DEF HandsOf, StoredIn, PrintedIn
<1> QED BY <1>1, <1>2, <1>4, <1>5, FS_CardinalityType

\* The threads that are not where Carriers looks carry nothing.
LEMMA AllHands ==
    ASSUME TypeOK, EmptyHanded, NEW N \in SUBSET Names
    PROVE  Held(N) = HandsOf(hostname, N)
<1>1. \A t \in Threads : pc[t] \in {"scan", "done"} => hostname[t] = NULL
  BY ThreadSets DEF EmptyHanded, TypeOK, ResolverLabels, RequesterLabels
<1> QED BY <1>1, NullAssumption DEF Held, Carriers, HandsOf

LEMMA ConservedMeans == ASSUME TypeOK, EmptyHanded, Conserved PROVE NameConservation
<1>1. ASSUME NEW N \in SUBSET Names
      PROVE  /\ Held(N) = HandsOf(hostname, N)
             /\ Stored(N) = StoredIn(array, N)
             /\ Printed(N) = PrintedIn(results, N)
  BY AllHands DEF Stored, StoredIn, Printed, PrintedIn
<1> QED BY <1>1, Zenon DEF NameConservation, Conserved, Balance
------------------------------------------------------------------------------
LEMMA FlowInit == Init => EmptyHanded /\ RoomAhead /\ Conserved /\ LossBounded
<1> SUFFICES ASSUME Init PROVE EmptyHanded /\ RoomAhead /\ Conserved /\ LossBounded
  OBVIOUS
<1>1. EmptyHanded /\ RoomAhead
  BY ThreadSets DEF Init, EmptyHanded, RoomAhead
<1>2. LossBounded
  BY DEF Init, LossBounded
<1>3. ASSUME NEW N \in SUBSET Names
      PROVE  Balance(files, hostname, array, results, N) = Cardinality(Occurring(Input, N))
  <2>1. /\ HandsOf(hostname, N) = {} /\ StoredIn(array, N) = {}
        /\ PrintedIn(results, N) = {} /\ files = Input
    BY NullAssumption DEF Init, SHARED_ARRAY_INIT, HandsOf, StoredIn, PrintedIn
  <2>2. Cardinality(Occurring(Input, N)) \in Nat
    BY InputAssumption, OccurringFinite, FS_CardinalityType
  <2>3. Cardinality({}) = 0
    BY FS_EmptySet
  <2> QED BY <2>1, <2>2, <2>3 DEF Balance
<1> QED BY <1>1, <1>2, <1>3 DEF Conserved

LEMMA RequesterHands ==
    ASSUME TypeOK, EmptyHanded, NEW r \in Requesters, Requester(r)
    PROVE  EmptyHanded'
<1>0. /\ r \in Threads /\ Requesters \subseteq Threads /\ Resolvers \subseteq Threads
      /\ r \notin Resolvers
      /\ pc \in [Threads -> RequesterLabels \cup ResolverLabels]
      /\ hostname \in [Threads -> Names \cup {NULL}]
      /\ completed \in [Requesters -> BOOLEAN]
  BY ThreadSets DEF TypeOK
<1> USE <1>0 DEF At, Goto
<1>1. CASE \/ RequesterLocksLog(r) \/ RequesterLocksRead(r) \/ RequesterLocksWrite(r)
  BY <1>1 DEF RequesterLocksLog, RequesterLocksRead, RequesterLocksWrite, LockStep,
              EmptyHanded
<1>2. CASE Report(r) \/ FinishRequester(r) \/ CloseFile(r)
  BY <1>2 DEF Report, FinishRequester, CloseFile, EmptyHanded
<1>3. CASE ReadName(r)
  BY <1>3 DEF ReadName, EmptyHanded
<1>4. CASE TestFull(r)
  BY <1>4 DEF TestFull, EmptyHanded
<1>5. CASE AddItem(r)
  BY <1>5 DEF AddItem, EmptyHanded
<1>6. CASE MoveTail(r)
  BY <1>6 DEF MoveTail, EmptyHanded
<1>7. CASE RequesterUnlocks(r)
  BY <1>7 DEF RequesterUnlocks, EmptyHanded
<1> QED BY <1>1, <1>2, <1>3, <1>4, <1>5, <1>6, <1>7 DEF Requester

LEMMA ResolverHands ==
    ASSUME TypeOK, EmptyHanded, NEW t \in Resolvers, Resolver(t)
    PROVE  EmptyHanded'
<1>0. /\ t \in Threads /\ Requesters \subseteq Threads /\ Resolvers \subseteq Threads
      /\ t \notin Requesters
      /\ pc \in [Threads -> RequesterLabels \cup ResolverLabels]
      /\ hostname \in [Threads -> Names \cup {NULL}]
  BY ThreadSets DEF TypeOK
<1> USE <1>0 DEF At, Goto
<1>1. CASE \/ ResolverLocksRead(t) \/ ResolverLocksMutex(t) \/ ResolverLocksWrite(t)
           \/ ResolverLocksArray(t) \/ ResolverLeaves(t) \/ ResolverLocksError(t)
  BY <1>1 DEF ResolverLocksRead, ResolverLocksMutex, ResolverLocksWrite,
         ResolverLocksArray, ResolverLeaves, ResolverLocksError, LockStep, EmptyHanded
<1>2. CASE Check(t) \/ CountReader(t) \/ Admit(t)
  BY <1>2 DEF Check, CountReader, Admit, EmptyHanded
<1>3. CASE TestEmpty(t)
  BY <1>3 DEF TestEmpty, EmptyHanded
<1>4. CASE RemoveItem(t)
  BY <1>4 DEF RemoveItem, EmptyHanded
<1>5. CASE MoveHead(t) \/ ResolverUnlocksArray(t)
  BY <1>5 DEF MoveHead, ResolverUnlocksArray, EmptyHanded
<1>6. CASE UncountReader(t)
  BY <1>6 DEF UncountReader, EmptyHanded
<1>7. CASE Lookup(t)
  BY <1>7 DEF Lookup, EmptyHanded
<1> QED BY <1>1, <1>2, <1>3, <1>4, <1>5, <1>6, <1>7 DEF Resolver

\* Nobody changes the array while a requester is about to store.
LEMMA RoomStays ==
    ASSUME TypeOK, Exclusion, RoomAhead, NEW t \in Threads, NEW to, Goto(t, to),
           to = "storeItem" => ~TEST_FULL',
           UNCHANGED ringVars \/ (t \in AtArray /\ to # "storeItem")
    PROVE  RoomAhead'
<1> SUFFICES ASSUME NEW r \in Requesters, pc'[r] = "storeItem" PROVE ~TEST_FULL'
  BY DEF RoomAhead
<1>0. r \in Threads /\ pc'[r] = IF r = t THEN to ELSE pc[r]
  BY ThreadSets DEF Goto, TypeOK
<1>1. CASE r = t
  BY <1>0, <1>1
<1>2. CASE r # t
  <2>1. pc[r] = "storeItem" /\ r \in AtArray
    BY <1>0, <1>2 DEF AtArray
  <2>2. t \notin AtArray
    BY <1>2, <2>1 DEF Exclusion
  <2> QED BY <2>1, <2>2 DEF RoomAhead, TEST_FULL
<1> QED BY <1>1, <1>2

LEMMA RequesterRoom ==
    ASSUME IInv, RoomAhead, NEW r \in Requesters, Requester(r)
    PROVE  RoomAhead'
<1>0. r \in Threads /\ TypeOK /\ Exclusion
  BY ThreadSets, ExclusionFromLocks DEF IInv
<1>1. CASE RequesterLocksLog(r) \/ RequesterLocksRead(r) \/ RequesterLocksWrite(r)
  BY <1>0, <1>1, RoomStays
     DEF RequesterLocksLog, RequesterLocksRead, RequesterLocksWrite, LockStep
<1>2. CASE Report(r) \/ ReadName(r) \/ FinishRequester(r) \/ RequesterUnlocks(r)
  BY <1>0, <1>2, RoomStays DEF Report, ReadName, FinishRequester, RequesterUnlocks
<1>3. CASE CloseFile(r)
  BY <1>3 DEF CloseFile, RoomAhead, TEST_FULL
<1>4. CASE TestFull(r)
  <2>1. TEST_FULL' = TEST_FULL
    BY <1>4 DEF TestFull, TEST_FULL
  <2> QED BY <1>0, <1>4, <2>1, RoomStays DEF TestFull
<1>5. CASE AddItem(r) \/ MoveTail(r)
  <2>1. r \in AtArray
    BY <1>0, <1>5 DEF AddItem, MoveTail, At, AtArray
  <2> QED BY <1>0, <1>5, <2>1, RoomStays DEF AddItem, MoveTail
<1> QED BY <1>1, <1>2, <1>3, <1>4, <1>5 DEF Requester

LEMMA ResolverRoom ==
    ASSUME IInv, RoomAhead, NEW t \in Resolvers, Resolver(t)
    PROVE  RoomAhead'
<1>0. t \in Threads /\ TypeOK /\ Exclusion
  BY ThreadSets, ExclusionFromLocks DEF IInv
<1>1. CASE \/ ResolverLocksRead(t) \/ ResolverLocksMutex(t) \/ ResolverLocksWrite(t)
           \/ ResolverLocksArray(t) \/ ResolverLeaves(t) \/ ResolverLocksError(t)
  BY <1>0, <1>1, RoomStays
     DEF ResolverLocksRead, ResolverLocksMutex, ResolverLocksWrite,
         ResolverLocksArray, ResolverLeaves, ResolverLocksError, LockStep
<1>2. CASE Check(t) \/ CountReader(t) \/ Admit(t) \/ TestEmpty(t)
  BY <1>0, <1>2, RoomStays DEF Check, CountReader, Admit, TestEmpty
<1>3. CASE ResolverUnlocksArray(t) \/ UncountReader(t) \/ Lookup(t)
  BY <1>0, <1>3, RoomStays DEF ResolverUnlocksArray, UncountReader, Lookup
<1>4. CASE RemoveItem(t) \/ MoveHead(t)
  <2>1. t \in AtArray
    BY <1>0, <1>4 DEF RemoveItem, MoveHead, At, AtArray
  <2> QED BY <1>0, <1>4, <2>1, RoomStays DEF RemoveItem, MoveHead
<1> QED BY <1>1, <1>2, <1>3, <1>4 DEF Resolver
------------------------------------------------------------------------------
(* Where the names go in the steps that move them                          *)

\* One line more in the output file.
LEMMA AppendCount ==
    ASSUME NEW X, NEW res \in Seq(X), NEW n, NEW N
    PROVE  Cardinality(PrintedIn(Append(res, <<n, Answer(n)>>), N))
              = Cardinality(PrintedIn(res, N)) + One(n, N)
<1> DEFINE line == <<n, Answer(n)>>
           res2 == Append(res, line)
           last == Len(res) + 1
           M == PrintedIn(res, N)
           M2 == PrintedIn(res2, N)
<1>1. /\ DOMAIN res = 1 .. Len(res) /\ Len(res) \in Nat
      /\ DOMAIN res2 = 1 .. last
      /\ \A i \in 1 .. Len(res) : res2[i] = res[i]
      /\ res2[last] = line
  OBVIOUS
<1>2. IsFiniteSet(DOMAIN res) /\ M \subseteq DOMAIN res
  BY <1>1, FS_Interval DEF PrintedIn
<1>3. IsFiniteSet(M) /\ Cardinality(M) \in Nat
  BY <1>2, FS_Subset, FS_CardinalityType
<1>4. last \notin M /\ (n \in N => M2 = M \cup {last}) /\ (n \notin N => M2 = M)
  <2>1. line[1] = n /\ line[2] = Answer(n)
    OBVIOUS
  <2>2. last \notin 1 .. Len(res) /\ 1 .. last = (1 .. Len(res)) \cup {last}
    BY <1>1
  <2> HIDE DEF line, res2, last
  <2> QED BY <1>1, <2>1, <2>2 DEF PrintedIn
<1>5. Cardinality(M \cup {last}) = Cardinality(M) + 1
  <2> HIDE DEF M, last
  <2> QED BY <1>3, <1>4, FS_AddElement
<1>6. Cardinality(M2) = Cardinality(M) + One(n, N)
  <2> HIDE DEF M, M2, last
  <2>1. CASE n \in N
    <3>1. Cardinality(M2) = Cardinality(M) + 1
      BY <1>4, <1>5, <2>1
    <3> QED BY <2>1, <3>1 DEF One
  <2>2. CASE n \notin N
    <3>1. Cardinality(M2) = Cardinality(M)
      BY <1>4, <2>2
    <3> QED BY <1>3, <2>2, <3>1 DEF One
  <2> QED BY <2>1, <2>2
<1> QED BY <1>6

\* A step that moves no name.
LEMMA NoneMoves ==
    ASSUME Conserved, status' = status, UNCHANGED <<files, hostname, array, results>>
    PROVE  Conserved'
BY DEF Conserved

\* A step of a thread, which runs while the program does.
LEMMA MovesKeep ==
    ASSUME Conserved, status = "running",
           \A N \in SUBSET Names : Balance(files', hostname', array', results', N)
                                      = Balance(files, hostname, array, results, N)
    PROVE  Conserved'
BY DEF Conserved

LEMMA ReadNameFlow ==
    ASSUME QInv, EmptyHanded, Conserved, NEW r \in Requesters, ReadName(r)
    PROVE  Conserved'
<1> DEFINE fs == files[r]
           n == Head(fs[1].names)
           h2 == [hostname EXCEPT ![r] = n]
<1>1. /\ TypeOK /\ r \in Threads /\ status = "running" /\ pc[r] = "scan"
      /\ files[r] # << >> /\ files[r][1].names # << >>
      /\ files' = [files EXCEPT ![r] = AfterScan(@)] /\ hostname' = h2
      /\ array' = array /\ results' = results
  BY ThreadSets DEF ReadName, At, QInv, IInv
<1>2. hostname[r] = NULL /\ files \in [Requesters -> Seq(File)] /\ DOMAIN hostname = Threads
  BY <1>1 DEF EmptyHanded, TypeOK
<1>3. n \in Names
  <2>1. fs \in Seq(File) /\ 1 \in DOMAIN fs
    BY <1>1, <1>2
  <2>2. fs[1].names \in Seq(Names)
    BY <2>1, ListOfFiles
  <2> QED BY <1>1, <2>2
<1>4. ASSUME NEW N \in SUBSET Names
      PROVE  Balance(files', hostname', array', results', N)
                = Balance(files, hostname, array, results, N)
  <2>1. Cardinality(Occurring(files, N))
           = Cardinality(Occurring(files', N)) + One(n, N)
    BY <1>1, <1>2, ScanCount DEF One
  <2>2. Cardinality(HandsOf(h2, N)) + One(hostname[r], N)
           = Cardinality(HandsOf(hostname, N)) + One(n, N)
    <3>1. IsFiniteSet(Threads)
      BY <1>1, FlowFinite
    <3> HIDE DEF n
    <3> QED BY <1>1, <1>2, <3>1, ChangeCount DEF HandsOf
  <2>3. One(hostname[r], N) = 0 /\ One(n, N) \in Nat
    BY <1>2, NullAssumption DEF One
  <2>4. files' \in [Requesters -> Seq(File)] /\ hostname' \in [Threads -> Names \cup {NULL}]
    <3>1. AfterScan(files[r]) \in Seq(File)
      BY <1>1, <1>2, RestOfFiles
    <3> QED BY <1>1, <1>2, <1>3, <3>1 DEF TypeOK
  <2>5. Cardinality(Occurring(files', N)) \in Nat
    BY <2>4, OccurringFinite, FS_CardinalityType
  <2>6. Cardinality(HandsOf(h2, N)) \in Nat
    <3>1. IsFiniteSet(HandsOf(h2, N))
      BY <1>1, FlowFinite, FS_Subset DEF HandsOf
    <3> QED BY <3>1, FS_CardinalityType
  <2>7. /\ Cardinality(Occurring(files, N)) \in Nat
        /\ Cardinality(HandsOf(hostname, N)) \in Nat
        /\ Cardinality(StoredIn(array, N)) \in Nat
        /\ Cardinality(PrintedIn(results, N)) \in Nat
    BY <1>1, FlowFinite
  <2> HIDE DEF n, h2
  <2> QED BY <1>1, <2>1, <2>2, <2>3, <2>5, <2>6, <2>7 DEF Balance
<1> QED BY <1>1, <1>4, MovesKeep

LEMMA CloseFileFlow ==
    ASSUME TypeOK, Conserved, NEW r \in Requesters, CloseFile(r)
    PROVE  Conserved'
<1>1. /\ files[r] # << >> /\ files[r][1].names = << >>
      /\ files' = [files EXCEPT ![r] = Tail(@)] /\ status = "running"
      /\ UNCHANGED <<hostname, array, results>>
      /\ files \in [Requesters -> Seq(File)]
  BY DEF CloseFile, At, TypeOK
<1>2. ASSUME NEW N PROVE Cardinality(Occurring(files', N)) = Cardinality(Occurring(files, N))
  BY <1>1, CloseCount
<1> QED BY <1>1, <1>2, MovesKeep DEF Balance

LEMMA AddItemFlow ==
    ASSUME QInv, RoomAhead, Conserved, NEW r \in Requesters, AddItem(r)
    PROVE  Conserved'
<1> DEFINE n == hostname[r]
           h2 == [hostname EXCEPT ![r] = NULL]
           a2 == [array EXCEPT ![tail] = n]
<1>1. /\ TypeOK /\ IInv /\ r \in Threads /\ status = "running" /\ pc[r] = "storeItem"
      /\ r \in AtArray /\ ~TEST_FULL /\ Carrying
  BY ThreadSets DEF AddItem, At, AtArray, QInv, IInv, RoomAhead
<1>2. /\ hostname' = h2 /\ array' = a2 /\ files' = files /\ results' = results
      /\ DOMAIN hostname = Threads /\ DOMAIN array = Slots /\ tail \in Slots
  BY <1>1 DEF AddItem, StoreItem, TypeOK, RingTypeOK
<1>3. n \in Names
  BY <1>1 DEF Carrying, TypeOK
<1>4. array[tail] = NULL
  <2>1. WellFormed(array, head, tail)
    BY <1>1, AloneAtArray DEF QInv, QueueShaped
  <2>2. LengthOf(array, head, tail) # MaxSize
    BY <1>1, <2>1, SizeAssumption DEF TEST_FULL, LengthOf, Slots, WellFormed
  <2> QED BY <2>1, <2>2, EndPlace, LengthRange, SizeAssumption DEF WellFormed, Slots
<1>5. ASSUME NEW N \in SUBSET Names
      PROVE  Balance(files', hostname', array', results', N)
                = Balance(files, hostname, array, results, N)
  <2>1. Cardinality(HandsOf(h2, N)) + One(n, N) = Cardinality(HandsOf(hostname, N)) + One(NULL, N)
    <3>1. IsFiniteSet(Threads)
      BY <1>1, FlowFinite
    <3> QED BY <1>1, <1>2, <3>1, ChangeCount DEF HandsOf
  <2>2. Cardinality(StoredIn(a2, N)) + One(array[tail], N) = Cardinality(StoredIn(array, N)) + One(n, N)
    <3> HIDE DEF n
    <3> QED BY <1>1, <1>2, FlowFinite, ChangeCount DEF StoredIn
  <2>3. One(NULL, N) = 0 /\ One(n, N) \in Nat
    BY NullAssumption DEF One
  <2>4. IsFiniteSet(HandsOf(h2, N)) /\ IsFiniteSet(StoredIn(a2, N))
    BY <1>1, FlowFinite, FS_Subset DEF HandsOf, StoredIn
  <2>5. Cardinality(HandsOf(h2, N)) \in Nat /\ Cardinality(StoredIn(a2, N)) \in Nat
    BY <2>4, FS_CardinalityType
  <2>6. /\ Cardinality(Occurring(files, N)) \in Nat
        /\ Cardinality(HandsOf(hostname, N)) \in Nat
        /\ Cardinality(StoredIn(array, N)) \in Nat
        /\ Cardinality(PrintedIn(results, N)) \in Nat
    BY <1>1, FlowFinite
  <2> HIDE DEF n, h2, a2
  <2> QED BY <1>2, <1>4, <2>1, <2>2, <2>3, <2>5, <2>6 DEF Balance
<1> QED BY <1>1, <1>5, MovesKeep

\* What a thread has in its hand changes.
LEMMA HandChanges ==
    ASSUME TypeOK, NEW t \in Threads, NEW x, NEW N
    PROVE  Cardinality(HandsOf([hostname EXCEPT ![t] = x], N)) + One(hostname[t], N)
              = Cardinality(HandsOf(hostname, N)) + One(x, N)
<1>1. IsFiniteSet(Threads) /\ DOMAIN hostname = Threads
  BY FlowFinite DEF TypeOK
<1> QED BY <1>1, ChangeCount DEF HandsOf

LEMMA RemoveItemFlow ==
    ASSUME QInv, EmptyHanded, Conserved, NEW t \in Resolvers, RemoveItem(t)
    PROVE  Conserved'
<1> DEFINE n == array[head]
           h2 == [hostname EXCEPT ![t] = n]
           a2 == [array EXCEPT ![head] = NULL]
<1>1. /\ TypeOK /\ t \in Threads /\ status = "running" /\ pc[t] = "fetchItem"
      /\ DOMAIN hostname = Threads /\ DOMAIN array = Slots /\ head \in Slots
      /\ hostname[t] = NULL
  BY ThreadSets DEF RemoveItem, At, QInv, IInv, TypeOK, RingTypeOK, EmptyHanded
<1>2. CASE TEST_EMPTY
  BY <1>2, NoneMoves DEF RemoveItem
<1>3. CASE ~TEST_EMPTY
  <2>1. hostname' = h2 /\ array' = a2 /\ files' = files /\ results' = results
    BY <1>3 DEF RemoveItem, FetchItem
  <2>2. ASSUME NEW N \in SUBSET Names
        PROVE  Balance(files', hostname', array', results', N)
                  = Balance(files, hostname, array, results, N)
    <3>1. Cardinality(HandsOf(h2, N)) + One(hostname[t], N)
             = Cardinality(HandsOf(hostname, N)) + One(n, N)
      <4>1. TypeOK /\ t \in Threads
        BY <1>1
      <4>2. \A x : Cardinality(HandsOf([hostname EXCEPT ![t] = x], N)) + One(hostname[t], N)
                      = Cardinality(HandsOf(hostname, N)) + One(x, N)
        BY <4>1, HandChanges
      <4> QED BY <4>2
    <3>2. Cardinality(StoredIn(a2, N)) + One(n, N)
             = Cardinality(StoredIn(array, N)) + One(NULL, N)
      BY <1>1, FlowFinite, ChangeCount DEF StoredIn
    <3>3. One(NULL, N) = 0 /\ One(n, N) \in Nat
      BY NullAssumption DEF One
    <3>4. IsFiniteSet(HandsOf(h2, N)) /\ IsFiniteSet(StoredIn(a2, N))
      BY <1>1, FlowFinite, FS_Subset DEF HandsOf, StoredIn
    <3>5. Cardinality(HandsOf(h2, N)) \in Nat /\ Cardinality(StoredIn(a2, N)) \in Nat
      BY <3>4, FS_CardinalityType
    <3>6. /\ Cardinality(Occurring(files, N)) \in Nat
          /\ Cardinality(HandsOf(hostname, N)) \in Nat
          /\ Cardinality(StoredIn(array, N)) \in Nat
          /\ Cardinality(PrintedIn(results, N)) \in Nat
      BY <1>1, FlowFinite
    <3> HIDE DEF n, h2, a2
    <3> QED BY <1>1, <2>1, <3>1, <3>2, <3>3, <3>5, <3>6 DEF Balance
  <2> QED BY <1>1, <2>2, MovesKeep
<1> QED BY <1>2, <1>3

LEMMA LookupFlow ==
    ASSUME QInv, Conserved, NEW t \in Resolvers, Lookup(t)
    PROVE  Conserved'
<1> DEFINE n == hostname[t]
           h2 == [hostname EXCEPT ![t] = NULL]
           res2 == Append(results, <<n, Answer(n)>>)
<1>1. /\ TypeOK /\ Named /\ t \in Threads /\ status = "running" /\ pc[t] = "lookup"
      /\ DOMAIN hostname = Threads
  BY ThreadSets DEF Lookup, At, QInv, IInv, TypeOK
<1>2. hostname' = h2 /\ results' = res2 /\ files' = files /\ array' = array
  BY DEF Lookup, Answer
<1>3. n \in Names
  BY <1>1 DEF Named, TypeOK
<1>4. ASSUME NEW N \in SUBSET Names
      PROVE  Balance(files', hostname', array', results', N)
                = Balance(files, hostname, array, results, N)
  <2>1. Cardinality(HandsOf(h2, N)) + One(n, N)
           = Cardinality(HandsOf(hostname, N)) + One(NULL, N)
    BY <1>1, FlowFinite, ChangeCount DEF HandsOf
  <2>2. Cardinality(PrintedIn(res2, N)) = Cardinality(PrintedIn(results, N)) + One(n, N)
    BY <1>1, AppendCount DEF TypeOK
  <2>3. One(NULL, N) = 0 /\ One(n, N) \in Nat
    BY NullAssumption DEF One
  <2>4. IsFiniteSet(HandsOf(h2, N))
    BY <1>1, FlowFinite, FS_Subset DEF HandsOf
  <2>5. Cardinality(HandsOf(h2, N)) \in Nat
    BY <2>4, FS_CardinalityType
  <2>6. /\ Cardinality(Occurring(files, N)) \in Nat
        /\ Cardinality(HandsOf(hostname, N)) \in Nat
        /\ Cardinality(StoredIn(array, N)) \in Nat
        /\ Cardinality(PrintedIn(results, N)) \in Nat
    BY <1>1, FlowFinite
  <2> HIDE DEF n, h2, res2
  <2> QED BY <1>2, <2>1, <2>2, <2>3, <2>5, <2>6 DEF Balance
<1> QED BY <1>1, <1>4, MovesKeep

LEMMA RequesterFlow ==
    ASSUME FlowInv, NEW r \in Requesters, Requester(r)
    PROVE  EmptyHanded' /\ RoomAhead' /\ Conserved' /\ LossBounded'
<1>0. QInv /\ IInv /\ TypeOK /\ EmptyHanded /\ RoomAhead /\ Conserved
  BY DEF FlowInv, QInv, IInv
<1>1. EmptyHanded' /\ RoomAhead'
  BY <1>0, RequesterHands, RequesterRoom
<1>2. LossBounded'
  BY DEF LossBounded, Requester, RequesterLocksLog, Report, ReadName, CloseFile,
         FinishRequester, RequesterLocksRead, RequesterLocksWrite, TestFull, AddItem,
         MoveTail, RequesterUnlocks, LockStep, At
<1>3. CASE ReadName(r) \/ CloseFile(r) \/ AddItem(r)
  BY <1>0, <1>1, <1>2, <1>3, ReadNameFlow, CloseFileFlow, AddItemFlow
<1>4. CASE ~(ReadName(r) \/ CloseFile(r) \/ AddItem(r))
  <2>1. UNCHANGED <<status, files, hostname, array, results>>
    BY <1>4 DEF Requester, RequesterLocksLog, Report, FinishRequester,
         RequesterLocksRead, RequesterLocksWrite, TestFull, MoveTail,
         RequesterUnlocks, LockStep
  <2> QED BY <1>0, <1>1, <1>2, <2>1, NoneMoves
<1> QED BY <1>3, <1>4

LEMMA ResolverFlow ==
    ASSUME FlowInv, NEW t \in Resolvers, Resolver(t)
    PROVE  EmptyHanded' /\ RoomAhead' /\ Conserved' /\ LossBounded'
<1>0. QInv /\ IInv /\ TypeOK /\ EmptyHanded /\ RoomAhead /\ Conserved
  BY DEF FlowInv, QInv, IInv
<1>1. EmptyHanded' /\ RoomAhead'
  BY <1>0, ResolverHands, ResolverRoom
<1>2. LossBounded'
  BY DEF LossBounded, Resolver, Check, ResolverLocksRead, ResolverLocksMutex,
         CountReader, ResolverLocksWrite, Admit, ResolverLocksArray, TestEmpty,
         RemoveItem, MoveHead, ResolverUnlocksArray, ResolverLeaves, UncountReader,
         ResolverLocksError, Lookup, LockStep, At
<1>3. CASE RemoveItem(t) \/ Lookup(t)
  BY <1>0, <1>1, <1>2, <1>3, RemoveItemFlow, LookupFlow
<1>4. CASE ~(RemoveItem(t) \/ Lookup(t))
  <2>1. UNCHANGED <<status, files, hostname, array, results>>
    BY <1>4 DEF Resolver, Check, ResolverLocksRead, ResolverLocksMutex, CountReader,
         ResolverLocksWrite, Admit, ResolverLocksArray, TestEmpty, MoveHead,
         ResolverUnlocksArray, ResolverLeaves, UncountReader, ResolverLocksError,
         LockStep
  <2> QED BY <1>0, <1>1, <1>2, <2>1, NoneMoves
<1> QED BY <1>3, <1>4

\* When every thread has ended, no name is in a thread's hands, and the array that
\* main throws away holds MaxSize names at most.
LEMMA FinishFlow ==
    ASSUME FlowInv, Finish
    PROVE  LossBounded'
<1>0. /\ QInv /\ TypeOK /\ EmptyHanded /\ Conserved /\ JoinedEnded
      /\ joined = NumThreads /\ status = "running"
      /\ UNCHANGED <<pc, hostname, files, results>>
  BY DEF FlowInv, QInv, IInv, Finish
<1>1. \A t \in Threads : pc[t] = "done"
  BY <1>0, PoolAssumption DEF JoinedEnded, Threads, NumThreads
<1>2. Held(Names)' = {} /\ Held(Names) = {}
  BY <1>0, <1>1 DEF Held, Carriers
<1>3. HandsOf(hostname, Names) = {} /\ Cardinality({}) = 0
  BY <1>0, <1>2, AllHands, FS_EmptySet
<1>4. Cardinality(StoredIn(array, Names)) <= MaxSize
  BY <1>0, FlowFinite, FS_Subset DEF StoredIn
<1>5. Balance(files, hostname, array, results, Names) = Cardinality(Occurring(Input, Names))
  BY <1>0 DEF Conserved
<1>6. /\ Cardinality(Occurring(files, Names)) \in Nat
      /\ Cardinality(StoredIn(array, Names)) \in Nat
      /\ Cardinality(PrintedIn(results, Names)) \in Nat
  BY <1>0, FlowFinite
<1>7. Cardinality(Occurring(Input, Names))
         <= Cardinality(Occurring(files, Names)) + Cardinality(PrintedIn(results, Names)) + MaxSize
  BY <1>3, <1>4, <1>5, <1>6, SizeAssumption DEF Balance
<1>8. Occurring(files, Names)' = Occurring(files, Names) /\ Printed(Names)' = PrintedIn(results, Names)
  BY <1>0 DEF Printed, PrintedIn, Answer
<1> QED BY <1>2, <1>7, <1>8, Zenon DEF LossBounded

LEMMA MainFlow ==
    ASSUME FlowInv, Main
    PROVE  EmptyHanded' /\ RoomAhead' /\ Conserved' /\ LossBounded'
<1>0. QInv /\ IInv /\ TypeOK /\ EmptyHanded /\ RoomAhead /\ Conserved /\ JoinedEnded
  BY DEF FlowInv, QInv, IInv
<1>1. UNCHANGED <<pc, hostname, completed, files, results>> /\ status = "running"
  BY DEF Main, CreateThread, CreateFails, JoinRequester, SetDone, JoinResolver, Finish
<1>2. EmptyHanded'
  BY <1>0, <1>1 DEF EmptyHanded
<1>3. CASE Finish
  <2>1. \A r \in Requesters : pc'[r] = "done"
    BY <1>0, <1>1, <1>3, ThreadSets, PoolAssumption
       DEF Finish, JoinedEnded, Threads, NumThreads
  <2>2. RoomAhead'
    BY <2>1 DEF RoomAhead
  <2>3. Conserved'
    BY <1>3 DEF Finish, Conserved
  <2> QED BY <1>2, <1>3, <2>2, <2>3, FinishFlow
<1>4. CASE ~Finish
  <2>1. UNCHANGED ringVars /\ (status' = status \/ status' = "aborted")
    BY <1>4 DEF Main, CreateThread, CreateFails, JoinRequester, SetDone, JoinResolver
  <2>2. RoomAhead'
    BY <1>0, <1>1, <2>1 DEF RoomAhead, TEST_FULL
  <2>3. Conserved' /\ LossBounded'
    BY <1>0, <1>1, <2>1 DEF Conserved, LossBounded
  <2> QED BY <1>2, <2>2, <2>3
<1> QED BY <1>3, <1>4

LEMMA FlowNext == FlowInv /\ [Next]_vars => FlowInv'
<1> SUFFICES ASSUME FlowInv, [Next]_vars PROVE FlowInv'
  OBVIOUS
<1>1. QInv'
  BY QueueNext DEF FlowInv
<1>2. ASSUME NEW r \in Requesters, Requester(r) PROVE FlowInv'
  BY <1>1, <1>2, RequesterFlow DEF FlowInv
<1>3. ASSUME NEW t \in Resolvers, Resolver(t) PROVE FlowInv'
  BY <1>1, <1>3, ResolverFlow DEF FlowInv
<1>4. CASE Main
  BY <1>1, <1>4, MainFlow DEF FlowInv
<1>6. CASE Strays \/ LacksResource
  <2>1. EmptyHanded' /\ RoomAhead'
    BY <1>6, LostStep DEF FlowInv, EmptyHanded, RoomAhead, TEST_FULL
  <2>2. Conserved' /\ LossBounded'
    BY <1>6, LostStep DEF Conserved, LossBounded
  <2> QED BY <1>1, <2>1, <2>2 DEF FlowInv
<1>5. CASE UNCHANGED vars
  <2>1. EmptyHanded' /\ RoomAhead' /\ Conserved'
    BY <1>5 DEF vars, FlowInv, EmptyHanded, RoomAhead, TEST_FULL, Conserved
  <2>2. LossBounded'
    BY <1>5 DEF vars, FlowInv, LossBounded, Held, Carriers, Printed, Answer
  <2> QED BY <1>1, <2>1, <2>2 DEF FlowInv
<1> QED BY <1>2, <1>3, <1>4, <1>5, <1>6 DEF Next, Terminated

\* Where every name is, for any pools, files and size of the array.
THEOREM FlowInvariance == Spec => []FlowInv
<1>1. Init => FlowInv
  BY QueueInit, FlowInit DEF FlowInv
<1> QED BY <1>1, FlowNext, PTL DEF Spec

\* No interleaving of any number of threads drops a name or hands it to two resolvers:
\* until main returns, and where an exit has stopped it, each is unread, carried, in
\* the array, or answered, and once.
THEOREM NamesConserved == Spec => []NameConservation
<1>1. FlowInv => NameConservation
  BY ConservedMeans DEF FlowInv, QInv, IInv
<1> QED BY <1>1, FlowInvariance, PTL

\* What the program loses when it returns is at most one array full, whatever the
\* pools and the files; the rest is answered or was never read.
THEOREM LossLimited == Spec => []LossBounded
<1>1. FlowInv => LossBounded
  BY DEF FlowInv
<1> QED BY <1>1, FlowInvariance, PTL
------------------------------------------------------------------------------
(*                             THEIR ORDER                                 *)

(* FlattenSeq, by induction over the sequences it joins                    *)

\* The least element of a set of numbers, and with it induction over the positive
\* numbers, with a set for the predicate.
LEMMA LeastNumber ==
    ASSUME NEW T, T \subseteq Nat, T # {}
    PROVE  \E x \in T : \A y \in T : x <= y
<1> DEFINE R == OpToRel(<, Nat)
<1>1. IsWellFoundedOn(R, Nat)
  BY NatLessThanWellFounded
<1>2. \A x, y \in Nat : <<y, x>> \in R <=> y < x
  BY DEF OpToRel
<1>3. \E x \in T : \A y \in T : ~ (<<y, x>> \in R)
  <2> HIDE DEF R
  <2> QED BY <1>1, WFMin
<1> HIDE DEF R
<1>4. PICK x \in T : \A y \in T : ~ (<<y, x>> \in R)
  BY <1>3
<1>5. \A y \in T : ~ (y < x)
  BY <1>2, <1>4, Zenon
<1> QED BY <1>5

LEMMA CountUp ==
    ASSUME NEW T, T \subseteq Nat, 1 \in T, \A n \in T : n + 1 \in T
    PROVE  \A n \in Nat \ {0} : n \in T
<1> SUFFICES ASSUME (Nat \ {0}) \ T # {} PROVE FALSE
  OBVIOUS
<1>1. PICK x \in (Nat \ {0}) \ T : \A y \in (Nat \ {0}) \ T : x <= y
  BY LeastNumber
<1>2. x # 1 /\ x - 1 \in Nat \ {0}
  BY <1>1
<1>3. x - 1 \in T
  BY <1>1, <1>2
<1> QED BY <1>2, <1>3

\* Concatenation by another name, which the provers do not unfold.
Joined(s, t) == s \o t

\* f[i] joins the first i sequences of s, of n in all.
Joins(s, n, f) == /\ f[1] = s[1]
                  /\ \A i \in 2 .. n : f[i] = Joined(f[i - 1], s[i])

\* The recursive function inside FlattenSeq is determined by its equations.
LEMMA FlatIs ==
    ASSUME NEW s, NEW n \in Nat \ {0}, n = Len(s), NEW f, Joins(s, n, f)
    PROVE  FlattenSeq(s) = f[n]
<1> DEFINE Is(h) == h = [i \in 1 .. n |-> IF i = 1 THEN s[i] ELSE Joined(h[i - 1], s[i])]
           g == CHOOSE h : Is(h)
           k == [i \in 1 .. n |-> f[i]]
<1>1. FlattenSeq(s) = g[n]
  BY DEF FlattenSeq, Joined
<1>2. Is(k)
  <2>1. ASSUME NEW i \in 1 .. n PROVE k[i] = IF i = 1 THEN s[i] ELSE Joined(k[i - 1], s[i])
    <3>1. CASE i = 1
      BY <3>1 DEF Joins
    <3>2. CASE i # 1
      <4>1. i \in 2 .. n /\ i - 1 \in 1 .. n
        BY <3>2
      <4>2. f[i] = Joined(f[i - 1], s[i])
        BY <4>1 DEF Joins
      <4>3. k[i] = f[i] /\ k[i - 1] = f[i - 1]
        BY <4>1
      <4> HIDE DEF k
      <4> QED BY <3>2, <4>2, <4>3
    <3> QED BY <3>1, <3>2
  <2> QED BY <2>1
<1>3. Is(g)
  <2> HIDE DEF k, Is
  <2> QED BY <1>2
<1> HIDE DEF g
<1> DEFINE T == {i \in Nat : i \in 1 .. n => g[i] = f[i]}
<1>4. 1 \in T
  BY <1>3 DEF Joins
<1>5. ASSUME NEW i \in T PROVE i + 1 \in T
  <2> SUFFICES ASSUME i + 1 \in 1 .. n, i + 1 # 1 PROVE g[i + 1] = f[i + 1]
    BY <1>4
  <2>1. i \in 1 .. n /\ g[i] = f[i] /\ i + 1 \in 2 .. n /\ i + 1 - 1 = i
    OBVIOUS
  <2>2. g[i + 1] = Joined(g[i + 1 - 1], s[i + 1])
    BY <1>3
  <2>3. f[i + 1] = Joined(f[i + 1 - 1], s[i + 1])
    BY <2>1 DEF Joins
  <2> QED BY <2>1, <2>2, <2>3
<1>6. n \in T
  <2> HIDE DEF T
  <2>1. T \subseteq Nat
    BY DEF T
  <2> QED BY <1>4, <1>5, <2>1, CountUp
<1> QED BY <1>1, <1>6

LEMMA JoinedType ==
    ASSUME NEW A, NEW s \in Seq(A), NEW t \in Seq(A) PROVE Joined(s, t) \in Seq(A)
BY ConcatProperties DEF Joined

LEMMA JoinedEmpty ==
    ASSUME NEW A, NEW s \in Seq(A)
    PROVE  Joined(s, << >>) = s /\ Joined(<< >>, s) = s
BY ConcatEmptySeq DEF Joined

LEMMA JoinedThrice ==
    ASSUME NEW A, NEW s \in Seq(A), NEW t \in Seq(A), NEW u \in Seq(A)
    PROVE  Joined(Joined(s, t), u) = Joined(s, Joined(t, u))
BY ConcatAssociative DEF Joined

LEMMA FlatStarts ==
    /\ FlattenSeq(<< >>) = << >>
    /\ \A x : FlattenSeq(<<x>>) = x
<1>1. FlattenSeq(<< >>) = << >>
  BY DEF FlattenSeq
<1>2. ASSUME NEW x PROVE FlattenSeq(<<x>>) = x
  <2> DEFINE s == <<x>>
  <2>1. Len(s) = 1 /\ Joins(s, 1, s) /\ s[1] = x
    BY DEF Joins
  <2> HIDE DEF s
  <2>2. ASSUME NEW n \in Nat \ {0}, n = 1 PROVE FlattenSeq(s) = s[n]
    BY <2>1, <2>2, FlatIs
  <2> QED BY <2>1, <2>2 DEF s
<1> QED BY <1>1, <1>2

\* There is such a function for every sequence of sequences.
LEMMA FlatJoins ==
    ASSUME NEW A, NEW s \in Seq(Seq(A)), NEW n \in Nat \ {0}, n = Len(s)
    PROVE  \E f \in [1 .. n -> Seq(A)] : Joins(s, n, f)
<1> DEFINE T == {m \in Nat : m \in 1 .. n => \E f \in [1 .. m -> Seq(A)] : Joins(s, m, f)}
<1>1. \A i \in 1 .. n : s[i] \in Seq(A)
  OBVIOUS
<1>2. 1 \in T
  <2>1. [i \in 1 .. 1 |-> s[1]] \in [1 .. 1 -> Seq(A)] /\ Joins(s, 1, [i \in 1 .. 1 |-> s[1]])
    BY <1>1 DEF Joins
  <2> QED BY <2>1
<1>3. ASSUME NEW m \in T PROVE m + 1 \in T
  <2>0. CASE m + 1 = 1
    BY <1>2, <2>0, Zenon
  <2> SUFFICES ASSUME m + 1 \in 1 .. n, m + 1 # 1
               PROVE  \E f \in [1 .. m + 1 -> Seq(A)] : Joins(s, m + 1, f)
    BY <2>0
  <2>1. m \in 1 .. n
    OBVIOUS
  <2>2. PICK f \in [1 .. m -> Seq(A)] : Joins(s, m, f)
    BY <2>1
  <2> DEFINE g == [i \in 1 .. m + 1 |-> IF i <= m THEN f[i] ELSE Joined(f[m], s[i])]
  <2>3. Joined(f[m], s[m + 1]) \in Seq(A)
    BY <1>1, <2>1, JoinedType
  <2>4. g \in [1 .. m + 1 -> Seq(A)]
    BY <2>1, <2>3
  <2>5. ASSUME NEW i \in 2 .. m + 1 PROVE g[i] = Joined(g[i - 1], s[i])
    <3>1. g[i - 1] = f[i - 1]
      BY <2>1
    <3>2. CASE i <= m
      <4>1. f[i] = Joined(f[i - 1], s[i])
        BY <2>2, <3>2 DEF Joins
      <4>2. g[i] = f[i]
        BY <3>2
      <4> HIDE DEF g
      <4> QED BY <3>1, <4>1, <4>2
    <3>3. CASE i = m + 1
      <4>1. g[i] = Joined(f[m], s[i]) /\ i - 1 = m
        BY <2>1, <3>3
      <4> HIDE DEF g
      <4> QED BY <3>1, <4>1
    <3> QED BY <3>2, <3>3
  <2>6. g[1] = s[1]
    BY <2>1, <2>2 DEF Joins
  <2> HIDE DEF g
  <2> QED BY <2>4, <2>5, <2>6 DEF Joins
<1>4. n \in T
  <2> HIDE DEF T
  <2>1. T \subseteq Nat
    BY DEF T
  <2> QED BY <1>2, <1>3, <2>1, CountUp
<1> QED BY <1>4

LEMMA FlatType ==
    ASSUME NEW A, NEW s \in Seq(Seq(A)) PROVE FlattenSeq(s) \in Seq(A)
<1>1. CASE s = << >>
  <2>1. << >> \in Seq(A)
    BY EmptySeq
  <2> QED BY <1>1, <2>1, FlatStarts, Zenon
<1>2. CASE s # << >>
  <2> DEFINE n == Len(s)
  <2>1. n \in Nat \ {0}
    BY <1>2
  <2> HIDE DEF n
  <2>2. PICK f \in [1 .. n -> Seq(A)] : Joins(s, n, f)
    BY <2>1, FlatJoins DEF n
  <2>3. FlattenSeq(s) = f[n]
    BY <2>1, <2>2, FlatIs DEF n
  <2> QED BY <2>1, <2>3
<1> QED BY <1>1, <1>2

\* One sequence more at the end, and the first one taken apart.
LEMMA FlatAppend ==
    ASSUME NEW A, NEW s \in Seq(Seq(A)), NEW x \in Seq(A)
    PROVE  FlattenSeq(Append(s, x)) = Joined(FlattenSeq(s), x)
<1>1. CASE s = << >>
  <2>1. Append(s, x) = <<x>> 
    BY <1>1
  <2>2. FlattenSeq(s) = << >> /\ FlattenSeq(<<x>>) = x
    BY <1>1, FlatStarts, Zenon
  <2> QED BY <2>1, <2>2, JoinedEmpty
<1>2. CASE s # << >>
  <2> DEFINE n == Len(s)
             a == Append(s, x)
  <2>1. n \in Nat \ {0} /\ Len(a) = n + 1 /\ a[n + 1] = x /\ \A i \in 1 .. n : a[i] = s[i]
    BY <1>2, AppendProperties
  <2> HIDE DEF a, n
  <2>2. PICK f \in [1 .. n -> Seq(A)] : Joins(s, n, f)
    BY <2>1, FlatJoins DEF n
  <2> DEFINE g == [i \in 1 .. n + 1 |-> IF i <= n THEN f[i] ELSE Joined(f[n], x)]
  <2>3. ASSUME NEW i \in 2 .. n + 1 PROVE g[i] = Joined(g[i - 1], a[i])
    <3>1. g[i - 1] = f[i - 1]
      BY <2>1
    <3>2. CASE i <= n
      <4>1. f[i] = Joined(f[i - 1], s[i]) /\ a[i] = s[i]
        BY <2>1, <2>2, <3>2 DEF Joins
      <4>2. g[i] = f[i]
        BY <2>1, <3>2
      <4> HIDE DEF g
      <4> QED BY <3>1, <4>1, <4>2
    <3>3. CASE i = n + 1
      <4>1. g[i] = Joined(f[n], x) /\ i - 1 = n /\ a[i] = x
        BY <2>1, <3>3
      <4> HIDE DEF g
      <4> QED BY <3>1, <4>1
    <3> QED BY <2>1, <3>2, <3>3
  <2>4. g[1] = f[1] /\ f[1] = s[1] /\ s[1] = a[1] /\ g[n + 1] = Joined(f[n], x)
    BY <2>1, <2>2 DEF Joins
  <2> HIDE DEF g
  <2>5. Joins(a, n + 1, g)
    BY <2>3, <2>4 DEF Joins
  <2>6. FlattenSeq(a) = g[n + 1]
    BY <2>1, <2>5, FlatIs
  <2>7. FlattenSeq(s) = f[n]
    BY <2>1, <2>2, FlatIs DEF n
  <2> QED BY <2>4, <2>6, <2>7 DEF a
<1> QED BY <1>1, <1>2

LEMMA FlatTail ==
    ASSUME NEW A, NEW s \in Seq(Seq(A)), s # << >>
    PROVE  FlattenSeq(s) = Joined(Head(s), FlattenSeq(Tail(s)))
<1> DEFINE n == Len(s)
           t == Tail(s)
           x == Head(s)
<1>1. /\ n \in Nat \ {0} /\ x \in Seq(A) /\ t \in Seq(Seq(A)) /\ Len(t) = n - 1 /\ s[1] = x
      /\ \A i \in 1 .. n - 1 : t[i] = s[i + 1] /\ t[i] \in Seq(A)
  BY HeadTailProperties
<1>2. CASE n = 1
  <2>0. /\ Len(t) = 0 /\ s \in Seq(Seq(A)) /\ Len(s) = 1 /\ <<x>> \in Seq(Seq(A))
        /\ Len(<<x>>) = 1 /\ <<x>>[1] = s[1]
    BY <1>1, <1>2
  <2> HIDE DEF x, t
  <2>1. s = <<x>> /\ t = << >>
    <3>1. s = <<x>>
      BY <2>0, SeqEqual
    <3>2. t = << >>
      BY <1>1, <2>0, EmptySeq
    <3> QED BY <3>1, <3>2
  <2>2. FlattenSeq(s) = x /\ FlattenSeq(t) = << >>
    BY <2>1, FlatStarts, Zenon
  <2> QED BY <1>1, <2>2, JoinedEmpty DEF x, t
<1>3. CASE n # 1
  <2> DEFINE m == n - 1
  <2> HIDE DEF n, t, x
  <2>1. m \in Nat \ {0} /\ n = m + 1 /\ Len(t) = m
    BY <1>1, <1>3
  <2> HIDE DEF m
  <2>2. PICK f \in [1 .. m -> Seq(A)] : Joins(t, m, f)
    BY <1>1, <2>1, FlatJoins
  <2> DEFINE g == [i \in 1 .. n |-> IF i = 1 THEN x ELSE Joined(x, f[i - 1])]
  <2>3. ASSUME NEW i \in 2 .. n PROVE g[i] = Joined(g[i - 1], s[i])
    <3>1. CASE i = 2
      <4>1. i - 1 = 1 /\ g[i] = Joined(x, f[1]) /\ g[1] = x
        BY <2>1, <3>1
      <4>2. f[1] = t[1] /\ t[1] = s[i]
        BY <1>1, <2>1, <2>2, <3>1 DEF Joins, m
      <4> HIDE DEF g
      <4> QED BY <4>1, <4>2
    <3>2. CASE i # 2
      <4>1. i - 1 \in 2 .. m /\ i - 1 \in 1 .. m /\ i - 1 - 1 \in 1 .. m /\ i - 1 # 1 /\ i - 1 \in 1 .. n
        BY <2>1, <3>2
      <4>2. g[i] = Joined(x, f[i - 1]) /\ g[i - 1] = Joined(x, f[i - 1 - 1])
        BY <2>1, <4>1
      <4>3. f[i - 1] = Joined(f[i - 1 - 1], t[i - 1])
        BY <2>2, <4>1 DEF Joins
      <4>4. t[i - 1] = s[i] /\ s[i] \in Seq(A) /\ f[i - 1 - 1] \in Seq(A)
        <5>1. i - 1 + 1 = i
          OBVIOUS
        <5>2. t[i - 1] = s[i - 1 + 1] /\ t[i - 1] \in Seq(A)
          BY <1>1, <2>1, <4>1 DEF m
        <5>3. f[i - 1 - 1] \in Seq(A)
          BY <2>2, <4>1
        <5> QED BY <5>1, <5>2, <5>3
      <4> HIDE DEF g
      <4>5. Joined(Joined(x, f[i - 1 - 1]), s[i]) = Joined(x, Joined(f[i - 1 - 1], s[i]))
        BY <1>1, <4>4, JoinedThrice
      <4> QED BY <4>2, <4>3, <4>4, <4>5
    <3> QED BY <3>1, <3>2
  <2>4. g[1] = s[1] /\ g[n] = Joined(x, f[m])
    BY <1>1, <2>1
  <2> HIDE DEF g
  <2>5. Joins(s, n, g)
    BY <2>3, <2>4 DEF Joins
  <2>6. FlattenSeq(s) = g[n]
    BY <1>1, <2>5, FlatIs DEF n
  <2>7. FlattenSeq(t) = f[m]
    BY <2>1, <2>2, FlatIs
  <2> QED BY <2>4, <2>6, <2>7 DEF t, x
<1> QED BY <1>2, <1>3
------------------------------------------------------------------------------
(* The line of a requester                                                 *)

LEMMA NamesType == ASSUME NEW fs \in Seq(File) PROVE NamesOf(fs) \in Seq(Names)
<1> DEFINE s == [i \in DOMAIN fs |-> fs[i].names]
<1>1. s \in Seq(Seq(Names))
  BY ListOfFiles
<1> HIDE DEF s
<1>2. FlattenSeq(s) \in Seq(Names)
  BY <1>1, FlatType
<1> QED BY <1>2 DEF NamesOf, s

\* The names of the first file come first.
LEMMA NamesRest ==
    ASSUME NEW fs \in Seq(File), fs # << >>
    PROVE  NamesOf(fs) = Joined(fs[1].names, NamesOf(Tail(fs)))
<1> DEFINE s == [i \in DOMAIN fs |-> fs[i].names]
           t == [i \in DOMAIN Tail(fs) |-> Tail(fs)[i].names]
<1>0. Tail(fs) \in Seq(File) /\ Len(fs) \in Nat \ {0} /\ Len(Tail(fs)) = Len(fs) - 1
      /\ \A i \in 1 .. Len(Tail(fs)) : Tail(fs)[i] = fs[i + 1]
  BY HeadTailProperties
<1>1. s \in Seq(Seq(Names)) /\ Len(s) = Len(fs) /\ s[1] = fs[1].names
  BY <1>0, ListOfFiles
<1>2. t \in Seq(Seq(Names)) /\ Len(t) = Len(fs) - 1
  BY <1>0, ListOfFiles
<1>3. ASSUME NEW i \in 1 .. Len(fs) - 1 PROVE t[i] = s[i + 1]
  BY <1>0
<1> HIDE DEF s, t
<1>4. s # << >> /\ Head(s) = s[1]
  BY <1>0, <1>1
<1>5. Tail(s) = t
  <2>1. Tail(s) \in Seq(Seq(Names)) /\ Len(Tail(s)) = Len(fs) - 1
        /\ \A i \in 1 .. Len(fs) - 1 : Tail(s)[i] = s[i + 1]
    BY <1>0, <1>1, <1>4, HeadTailProperties
  <2> QED BY <1>2, <1>3, <2>1, SeqEqual
<1>6. FlattenSeq(s) = Joined(Head(s), FlattenSeq(Tail(s)))
  BY <1>1, <1>4, FlatTail
<1> QED BY <1>1, <1>4, <1>5, <1>6 DEF NamesOf, s, t

\* One name of a sequence, if it is chosen.
Pick(x, S)  == IF x \in S THEN <<x>> ELSE << >>
Picks(q, S) == [i \in DOMAIN q |-> Pick(q[i], S)]

LEMMA PicksType ==
    ASSUME NEW q \in Seq(Names), NEW S
    PROVE  Picks(q, S) \in Seq(Seq(Names)) /\ Len(Picks(q, S)) = Len(q)
<1>1. \A i \in DOMAIN q : Pick(q[i], S) \in Seq(Names)
  BY DEF Pick
<1>2. DOMAIN q = 1 .. Len(q) /\ Len(q) \in Nat
  OBVIOUS
<1> QED BY <1>1, <1>2 DEF Picks

LEMMA ChosenType ==
    ASSUME NEW q \in Seq(Names), NEW S
    PROVE  Chosen(q, S) \in Seq(Names) /\ Chosen(q, S) = FlattenSeq(Picks(q, S))
<1>1. Chosen(q, S) = FlattenSeq(Picks(q, S))
  BY DEF Chosen, Picks, Pick
<1> QED BY <1>1, PicksType, FlatType

LEMMA ChosenPut ==
    ASSUME NEW q \in Seq(Names), NEW x \in Names, NEW S
    PROVE  Chosen(Longer(q, x), S) = Joined(Chosen(q, S), Pick(x, S))
<1> DEFINE n == Len(q)
           a == Longer(q, x)
           p == Picks(q, S)
           b == Picks(a, S)
           c == Append(p, Pick(x, S))
<1>1. /\ n \in Nat /\ a \in Seq(Names) /\ Len(a) = n + 1 /\ a[n + 1] = x
      /\ \A i \in 1 .. n : a[i] = q[i]
  BY AppendProperties DEF Longer
<1>2. p \in Seq(Seq(Names)) /\ Len(p) = n /\ Pick(x, S) \in Seq(Names)
  BY PicksType DEF Pick
<1>3. /\ c \in Seq(Seq(Names)) /\ Len(c) = n + 1 /\ c[n + 1] = Pick(x, S)
      /\ \A i \in 1 .. n : c[i] = p[i]
  <2> HIDE DEF p
  <2> QED BY <1>2, AppendProperties
<1>4. b \in Seq(Seq(Names)) /\ Len(b) = n + 1
  <2> HIDE DEF a
  <2> QED BY <1>1, PicksType
<1>5. ASSUME NEW i \in 1 .. n + 1 PROVE b[i] = c[i]
  <2>1. b[i] = Pick(a[i], S)
    <3>1. DOMAIN a = 1 .. n + 1
      <4> HIDE DEF a
      <4> QED BY <1>1
    <3> HIDE DEF a
    <3> QED BY <3>1 DEF Picks
  <2>2. CASE i = n + 1
    <3> HIDE DEF a, b, c
    <3> QED BY <1>1, <1>3, <2>1, <2>2
  <2>3. CASE i # n + 1
    <3>1. i \in 1 .. n
      BY <1>1, <2>3
    <3>2. p[i] = Pick(q[i], S)
      BY <3>1 DEF Picks
    <3> HIDE DEF a, b, c, p
    <3> QED BY <1>1, <1>3, <2>1, <3>1, <3>2
  <2> QED BY <2>2, <2>3
<1>6. b = c
  <2> HIDE DEF b, c
  <2> QED BY <1>3, <1>4, <1>5, SeqEqual
<1>7. FlattenSeq(c) = Joined(FlattenSeq(p), Pick(x, S))
  <2> HIDE DEF p
  <2> QED BY <1>2, FlatAppend
<1>8. Chosen(a, S) = FlattenSeq(b) /\ Chosen(q, S) = FlattenSeq(p)
  <2> HIDE DEF a
  <2> QED BY <1>1, ChosenType
<1> QED BY <1>6, <1>7, <1>8

LEMMA ChosenTake ==
    ASSUME NEW q \in Seq(Names), q # << >>, NEW S
    PROVE  Chosen(q, S) = Joined(Pick(Head(q), S), Chosen(Tail(q), S))
<1> DEFINE n == Len(q)
           t == Tail(q)
           p == Picks(q, S)
           b == Picks(t, S)
<1>1. /\ n \in Nat \ {0} /\ t \in Seq(Names) /\ Len(t) = n - 1 /\ Head(q) = q[1]
      /\ \A i \in 1 .. n - 1 : t[i] = q[i + 1]
  BY HeadTailProperties
<1>2. p \in Seq(Seq(Names)) /\ Len(p) = n /\ p[1] = Pick(q[1], S)
  <2>1. 1 \in DOMAIN q
    BY <1>1
  <2>2. p[1] = Pick(q[1], S)
    BY <2>1 DEF Picks
  <2> QED BY <2>2, PicksType
<1>3. b \in Seq(Seq(Names)) /\ Len(b) = n - 1
  <2> HIDE DEF t
  <2> QED BY <1>1, PicksType
<1>4. p # << >> /\ Head(p) = p[1]
  <2> HIDE DEF p
  <2> QED BY <1>1, <1>2
<1>5. Tail(p) = b
  <2>1. /\ Tail(p) \in Seq(Seq(Names)) /\ Len(Tail(p)) = n - 1
        /\ \A i \in 1 .. n - 1 : Tail(p)[i] = p[i + 1]
    <3> HIDE DEF p
    <3> QED BY <1>1, <1>2, <1>4, HeadTailProperties
  <2>2. ASSUME NEW i \in 1 .. n - 1 PROVE b[i] = p[i + 1]
    <3>1. i + 1 \in DOMAIN q /\ p[i + 1] = Pick(q[i + 1], S)
      BY <1>1 DEF Picks
    <3>2. DOMAIN t = 1 .. n - 1
      <4> HIDE DEF t
      <4> QED BY <1>1
    <3>3. b[i] = Pick(t[i], S)
      <4> HIDE DEF t
      <4> QED BY <3>2 DEF Picks
    <3> HIDE DEF b, p, t
    <3> QED BY <1>1, <3>1, <3>3
  <2> HIDE DEF b, p
  <2> QED BY <1>3, <2>1, <2>2, SeqEqual
<1>6. FlattenSeq(p) = Joined(Head(p), FlattenSeq(Tail(p)))
  <2> HIDE DEF p
  <2> QED BY <1>2, <1>4, FlatTail
<1>7. Chosen(q, S) = FlattenSeq(p) /\ Chosen(t, S) = FlattenSeq(b)
  <2> HIDE DEF t
  <2> QED BY <1>1, ChosenType
<1> QED BY <1>1, <1>2, <1>4, <1>5, <1>6, <1>7

\* What is unread when a name is read, and when a file is closed.
LEMMA ScanNames ==
    ASSUME NEW fs \in Seq(File), fs # << >>, fs[1].names # << >>
    PROVE  NamesOf(fs) = Joined(<<Head(fs[1].names)>>, NamesOf(AfterScan(fs)))
<1> DEFINE ns == fs[1].names
           as == AfterScan(fs)
<1>1. ns \in Seq(Names) /\ Tail(fs) \in Seq(File) /\ Len(fs) \in Nat \ {0}
  BY ListOfFiles, HeadTailProperties
<1>2. Head(ns) \in Names /\ Tail(ns) \in Seq(Names) /\ ns = Joined(<<Head(ns)>>, Tail(ns))
  <2> HIDE DEF ns
  <2>1. Head(ns) \in Names /\ Tail(ns) \in Seq(Names)
    BY <1>1, HeadTailProperties DEF ns
  <2>2. ns = <<Head(ns)>> \o Tail(ns)
    <3>1. ns # << >>
      BY DEF ns
    <3> QED BY <1>1, <3>1, HeadTailProperties
  <2> QED BY <2>1, <2>2 DEF Joined
<1>3. /\ as \in Seq(File) /\ as # << >> /\ as[1].names = Tail(ns) /\ Len(as) = Len(fs)
      /\ \A i \in 2 .. Len(fs) : as[i] = fs[i]
  <2>1. as \in Seq(File)
    BY RestOfFiles
  <2>2. 1 \in DOMAIN fs /\ DOMAIN fs = 1 .. Len(fs)
    BY <1>1
  <2> QED BY <2>1, <2>2 DEF AfterScan
<1>4. Tail(as) = Tail(fs)
  <2> HIDE DEF as
  <2>1. /\ Tail(as) \in Seq(File) /\ Len(Tail(as)) = Len(fs) - 1
        /\ \A i \in 1 .. Len(fs) - 1 : Tail(as)[i] = as[i + 1]
    BY <1>1, <1>3, HeadTailProperties
  <2>2. Len(Tail(fs)) = Len(fs) - 1 /\ \A i \in 1 .. Len(fs) - 1 : Tail(fs)[i] = fs[i + 1]
    BY <1>1, HeadTailProperties
  <2>3. ASSUME NEW i \in 1 .. Len(fs) - 1 PROVE Tail(as)[i] = Tail(fs)[i]
    <3>1. i + 1 \in 2 .. Len(fs)
      BY <1>1
    <3> QED BY <1>3, <2>1, <2>2, <3>1
  <2> QED BY <1>1, <2>1, <2>2, <2>3, SeqEqual
<1>5. NamesOf(fs) = Joined(ns, NamesOf(Tail(fs)))
  BY NamesRest
<1>6. NamesOf(as) = Joined(Tail(ns), NamesOf(Tail(fs)))
  <2> HIDE DEF as, ns
  <2> QED BY <1>3, <1>4, NamesRest
<1>7. NamesOf(Tail(fs)) \in Seq(Names) /\ <<Head(ns)>> \in Seq(Names)
  <2> HIDE DEF ns
  <2>1. NamesOf(Tail(fs)) \in Seq(Names)
    BY <1>1, NamesType
  <2> QED BY <1>2, <2>1
<1>8. Joined(Joined(<<Head(ns)>>, Tail(ns)), NamesOf(Tail(fs)))
         = Joined(<<Head(ns)>>, Joined(Tail(ns), NamesOf(Tail(fs))))
  <2> DEFINE h == <<Head(ns)>>
             t == Tail(ns)
             u == NamesOf(Tail(fs))
  <2>1. h \in Seq(Names) /\ t \in Seq(Names) /\ u \in Seq(Names)
    BY <1>2, <1>7
  <2> HIDE DEF h, t, u
  <2>2. Joined(Joined(h, t), u) = Joined(h, Joined(t, u))
    BY <2>1, JoinedThrice
  <2> QED BY <2>2 DEF h, t, u
<1> HIDE DEF ns, as
<1>9. NamesOf(fs) = Joined(<<Head(ns)>>, NamesOf(as))
  BY <1>2, <1>5, <1>6, <1>8
<1> QED BY <1>9 DEF ns, as

LEMMA CloseNames ==
    ASSUME NEW fs \in Seq(File), fs # << >>, fs[1].names = << >>
    PROVE  NamesOf(fs) = NamesOf(Tail(fs))
<1>1. Tail(fs) \in Seq(File)
  BY HeadTailProperties
<1>2. NamesOf(Tail(fs)) \in Seq(Names)
  BY <1>1, NamesType
<1> QED BY <1>2, NamesRest, JoinedEmpty

LEMMA JoinedSet ==
    ASSUME NEW A, NEW s \in Seq(A), NEW t \in Seq(A)
    PROVE  ToSet(Joined(s, t)) = ToSet(s) \cup ToSet(t)
<1> DEFINE j == Joined(s, t)
           m == Len(s)
           n == Len(t)
<1>1. /\ m \in Nat /\ n \in Nat /\ DOMAIN s = 1 .. m /\ DOMAIN t = 1 .. n
      /\ Len(j) = m + n /\ j \in Seq(A)
      /\ \A i \in 1 .. m + n : j[i] = IF i <= m THEN s[i] ELSE t[i - m]
  BY ConcatProperties DEF Joined
<1>2. DOMAIN j = 1 .. m + n
  BY <1>1
<1> HIDE DEF j, m, n
<1>3. ASSUME NEW i \in 1 .. m PROVE \E k \in 1 .. m + n : j[k] = s[i]
  BY <1>1
<1>4. ASSUME NEW i \in 1 .. n PROVE \E k \in 1 .. m + n : j[k] = t[i]
  <2>1. m + i \in 1 .. m + n /\ ~(m + i <= m) /\ (m + i) - m = i
    BY <1>1
  <2>2. j[m + i] = t[(m + i) - m]
    BY <1>1, <2>1, Zenon
  <2> QED BY <2>1, <2>2
<1>5. ASSUME NEW k \in 1 .. m + n
      PROVE  (\E i \in 1 .. m : j[k] = s[i]) \/ (\E i \in 1 .. n : j[k] = t[i])
  BY <1>1
<1>6. ToSet(j) = ToSet(s) \cup ToSet(t)
  <2>1. /\ ToSet(j) = {j[k] : k \in 1 .. m + n} /\ ToSet(s) = {s[i] : i \in 1 .. m}
        /\ ToSet(t) = {t[i] : i \in 1 .. n}
    BY <1>1, <1>2 DEF ToSet
  <2>2. \A x \in ToSet(s) \cup ToSet(t) : x \in ToSet(j)
    BY <1>3, <1>4, <2>1, Zenon
  <2>3. \A x \in ToSet(j) : x \in ToSet(s) \cup ToSet(t)
    BY <1>5, <2>1, Zenon
  <2> QED BY <2>2, <2>3
<1> QED BY <1>6 DEF j
------------------------------------------------------------------------------
(* What is not taken is the end of what was given                          *)

Ends(t, s) == \E u \in Seq(Names) : s = Joined(u, t)

\* IsSuffix compares the reversed sequences.
LEMMA EndsSuffix ==
    ASSUME NEW t \in Seq(Names), NEW s, Ends(t, s)
    PROVE  IsSuffix(t, s)
<1>1. PICK u \in Seq(Names) : s = Joined(u, t)
  BY DEF Ends
<1> DEFINE k == Len(u)
           n == Len(t)
<1>2. /\ k \in Nat /\ n \in Nat /\ Len(s) = k + n /\ s \in Seq(Names)
      /\ \A i \in 1 .. k + n : s[i] = IF i <= k THEN u[i] ELSE t[i - k]
  BY <1>1, ConcatProperties DEF Joined
<1> HIDE DEF k, n
<1>3. ASSUME NEW i \in 1 .. n PROVE s[(Len(s) - i) + 1] = t[(n - i) + 1]
  <2>1. /\ (k + n - i) + 1 \in 1 .. k + n /\ ~((k + n - i) + 1 <= k)
        /\ (k + n - i) + 1 - k = (n - i) + 1
    BY <1>2
  <2> QED BY <1>2, <2>1
<1>4. Len(Reverse(t)) = n /\ Len(Reverse(s)) = k + n
  BY <1>2 DEF Reverse, n
<1>5. \A i \in 1 .. n : Reverse(t)[i] = Reverse(s)[i]
  BY <1>2, <1>3 DEF Reverse, n
<1>6. SubSeq(Reverse(t), 1, n) = SubSeq(Reverse(s), 1, n)
  <2>1. SubSeq(Reverse(t), 1, n) = [i \in 1 .. n |-> Reverse(t)[i]]
    BY <1>2
  <2>2. SubSeq(Reverse(s), 1, n) = [i \in 1 .. n |-> Reverse(s)[i]]
    BY <1>2
  <2> QED BY <1>5, <2>1, <2>2
<1>7. n <= k + n
  BY <1>2
<1> QED BY <1>4, <1>6, <1>7 DEF IsSuffix, IsPrefix

LEMMA EndsTrans ==
    ASSUME NEW t \in Seq(Names), NEW x \in Seq(Names), NEW s, Ends(Joined(x, t), s)
    PROVE  Ends(t, s)
<1>1. PICK u \in Seq(Names) : s = Joined(u, Joined(x, t))
  BY DEF Ends
<1>2. s = Joined(Joined(u, x), t) /\ Joined(u, x) \in Seq(Names)
  BY <1>1, JoinedThrice, JoinedType
<1> QED BY <1>2 DEF Ends

\* What a hand holds, as a sequence.
Rest(h) == IF h # NULL THEN <<h>> ELSE << >>

\* InLine, as a function of the queue, of what the requester holds, and of its files.
Line(q, h, fs, S) == Joined(Chosen(q, S), Joined(Rest(h), NamesOf(fs)))

\* What a requester holds or has still to read is its own.
OwnHands ==
    \A r \in Requesters : hostname[r] \in Own(r) \cup {NULL} /\ ToSet(NamesOf(files[r])) \subseteq Own(r)

InOrder ==
    status \in {"running", "aborted"} =>
        \A r \in Requesters :
            OwnNames(r) => Ends(Line(TheQueue, hostname[r], files[r], Own(r)), NamesOf(Input[r]))

OrderInv == OwnHands /\ InOrder

LEMMA LineParts ==
    ASSUME NEW q \in Seq(Names), NEW h \in Names \cup {NULL}, NEW fs \in Seq(File), NEW S
    PROVE  /\ Chosen(q, S) \in Seq(Names) /\ Rest(h) \in Seq(Names)
           /\ NamesOf(fs) \in Seq(Names) /\ Joined(Rest(h), NamesOf(fs)) \in Seq(Names)
           /\ Line(q, h, fs, S) \in Seq(Names)
<1>1. Chosen(q, S) \in Seq(Names) /\ Rest(h) \in Seq(Names) /\ NamesOf(fs) \in Seq(Names)
  <2>1. Rest(h) \in Seq(Names)
    BY DEF Rest
  <2> QED BY <2>1, ChosenType, NamesType
<1> QED BY <1>1, JoinedType DEF Line

\* A name is read into an empty hand.
LEMMA LineReads ==
    ASSUME NEW q, NEW fs \in Seq(File), fs # << >>, fs[1].names # << >>, NEW S
    PROVE  Line(q, Head(fs[1].names), AfterScan(fs), S) = Line(q, NULL, fs, S)
<1> DEFINE n == Head(fs[1].names)
           as == AfterScan(fs)
<1>1. n \in Names /\ NamesOf(fs) \in Seq(Names)
  <2>1. fs[1].names \in Seq(Names)
    BY ListOfFiles
  <2> QED BY <2>1, NamesType, HeadTailProperties
<1>2. NamesOf(fs) = Joined(<<n>>, NamesOf(as))
  BY ScanNames
<1> HIDE DEF n, as
<1>3. Rest(n) = <<n>> /\ Rest(NULL) = << >>
  BY <1>1, NullAssumption DEF Rest
<1>4. Joined(<< >>, NamesOf(fs)) = NamesOf(fs)
  BY <1>1, JoinedEmpty
<1>5. Line(q, n, as, S) = Line(q, NULL, fs, S)
  BY <1>2, <1>3, <1>4 DEF Line
<1> QED BY <1>5 DEF n, as

\* The name in the hand goes to the end of the queue.
LEMMA LinePuts ==
    ASSUME NEW q \in Seq(Names), NEW h \in Names, NEW fs \in Seq(File), NEW S, h \in S
    PROVE  Line(Longer(q, h), NULL, fs, S) = Line(q, h, fs, S)
<1>1. Rest(h) = <<h>> /\ Rest(NULL) = << >> /\ Pick(h, S) = <<h>>
  BY NullAssumption DEF Rest, Pick
<1>2. Chosen(Longer(q, h), S) = Joined(Chosen(q, S), Rest(h))
  BY <1>1, ChosenPut
<1>3. Chosen(q, S) \in Seq(Names) /\ Rest(h) \in Seq(Names) /\ NamesOf(fs) \in Seq(Names)
  BY LineParts
<1>4. Joined(Rest(NULL), NamesOf(fs)) = NamesOf(fs)
  BY <1>1, <1>3, JoinedEmpty
<1>5. Joined(Joined(Chosen(q, S), Rest(h)), NamesOf(fs))
         = Joined(Chosen(q, S), Joined(Rest(h), NamesOf(fs)))
  BY <1>3, JoinedThrice
<1> QED BY <1>2, <1>4, <1>5 DEF Line

\* A name of another requester does not stand in the line.
LEMMA LineSkips ==
    ASSUME NEW q \in Seq(Names), NEW x \in Names, NEW h, NEW fs, NEW S, x \notin S
    PROVE  Line(Longer(q, x), h, fs, S) = Line(q, h, fs, S)
<1>1. Chosen(Longer(q, x), S) = Joined(Chosen(q, S), << >>)
  BY ChosenPut DEF Pick
<1>2. Chosen(q, S) \in Seq(Names)
  BY ChosenType
<1> QED BY <1>1, <1>2, JoinedEmpty DEF Line

\* The oldest name of the queue is first in line, or not in it.
LEMMA LineTakes ==
    ASSUME NEW q \in Seq(Names), q # << >>, NEW h \in Names \cup {NULL}, NEW fs \in Seq(File),
           NEW S, NEW s, Ends(Line(q, h, fs, S), s)
    PROVE  Ends(Line(Tail(q), h, fs, S), s)
<1> DEFINE x == Pick(Head(q), S)
           c == Chosen(Tail(q), S)
           e == Joined(Rest(h), NamesOf(fs))
<1>1. Chosen(q, S) = Joined(x, c)
  BY ChosenTake
<1>2. x \in Seq(Names) /\ c \in Seq(Names) /\ e \in Seq(Names)
  <2>1. Head(q) \in Names /\ Tail(q) \in Seq(Names)
    BY HeadTailProperties
  <2>2. x \in Seq(Names)
    BY <2>1 DEF Pick
  <2> QED BY <2>1, <2>2, ChosenType, LineParts
<1> HIDE DEF x, c, e
<1>3. Joined(Joined(x, c), e) = Joined(x, Joined(c, e)) /\ Joined(c, e) \in Seq(Names)
  BY <1>2, JoinedThrice, JoinedType
<1>4. Line(q, h, fs, S) = Joined(x, Joined(c, e)) /\ Line(Tail(q), h, fs, S) = Joined(c, e)
  BY <1>1, <1>3 DEF Line, c, e
<1> QED BY <1>2, <1>3, <1>4, EndsTrans
------------------------------------------------------------------------------
(* Every step                                                              *)

LEMMA QueueType ==
    ASSUME QInv
    PROVE  /\ TheQueue \in Seq(Names)
           /\ Takes => TheQueue # << >>
<1>1. /\ TheQueue \in Seq(Names) /\ Len(TheQueue) = LengthOf(array, EffectiveHead, EffectiveTail)
  BY ContentsType DEF QInv, QueueShaped, TheQueue
<1> QED BY <1>1 DEF Takes

LEMMA OrderInit == Init => OrderInv
<1> SUFFICES ASSUME Init PROVE OrderInv
  OBVIOUS
<1>1. /\ TheQueue = << >> /\ files = Input /\ \A r \in Requesters : hostname[r] = NULL
  BY QueueInit, ThreadSets DEF Init
<1>2. OwnHands
  BY <1>1 DEF OwnHands, Own
<1>3. ASSUME NEW r \in Requesters
      PROVE  Ends(Line(TheQueue, hostname[r], files[r], Own(r)), NamesOf(Input[r]))
  <2> DEFINE s == NamesOf(Input[r])
             S == Own(r)
  <2>1. s \in Seq(Names)
    BY InputAssumption, NamesType
  <2>2. Chosen(<< >>, S) = << >>
    <3>1. Picks(<< >>, S) = << >>
      BY DEF Picks
    <3>2. << >> \in Seq(Names)
      BY EmptySeq
    <3> QED BY <3>1, <3>2, ChosenType, FlatStarts
  <2>3. Rest(NULL) = << >>
    BY DEF Rest
  <2> HIDE DEF s, S
  <2>4. Line(<< >>, NULL, Input[r], S) = Joined(<< >>, Joined(<< >>, s))
    BY <2>2, <2>3 DEF Line, s
  <2>5. Joined(<< >>, Joined(<< >>, s)) = s /\ Joined(<< >>, s) = s
    BY <2>1, JoinedEmpty
  <2>6. << >> \in Seq(Names)
    BY EmptySeq
  <2>7. Ends(s, s)
    BY <2>5, <2>6 DEF Ends
  <2> QED BY <1>1, <2>4, <2>5, <2>7 DEF s, S
<1> QED BY <1>2, <1>3 DEF OrderInv, InOrder

\* A step that leaves the queue, the files and the hands of the requesters alone.
LEMMA OrderStays ==
    ASSUME OrderInv, Stays, files' = files, status' = status \/ status = "running",
           \A r \in Requesters : hostname'[r] = hostname[r]
    PROVE  OrderInv'
<1>1. \A r \in Requesters : OwnNames(r)' = OwnNames(r) /\ Own(r)' = Own(r)
  BY DEF OwnNames, Own
<1>2. OwnHands'
  BY <1>1 DEF OrderInv, OwnHands
<1>3. ASSUME status \in {"running", "aborted"}, NEW r \in Requesters, OwnNames(r)
      PROVE  Ends(Line(TheQueue', hostname'[r], files'[r], Own(r)), NamesOf(Input[r]))
  BY <1>3 DEF OrderInv, InOrder, Stays
<1>4. InOrder'
  BY <1>1, <1>3 DEF InOrder
<1> QED BY <1>2, <1>4 DEF OrderInv

LEMMA ReadNameOrder ==
    ASSUME FlowInv, OrderInv, NEW r \in Requesters, ReadName(r)
    PROVE  OrderInv'
<1> DEFINE fs == files[r]
           n == Head(fs[1].names)
           as == AfterScan(fs)
<1>0. /\ QInv /\ TypeOK /\ EmptyHanded /\ r \in Threads /\ Requesters \subseteq Threads
      /\ OwnHands /\ InOrder
  BY ThreadSets DEF FlowInv, QInv, IInv, OrderInv
<1>1. /\ status' = status /\ status = "running" /\ pc[r] = "scan"
      /\ fs # << >> /\ fs[1].names # << >>
      /\ files' = [files EXCEPT ![r] = as] /\ hostname' = [hostname EXCEPT ![r] = n]
  BY DEF ReadName, At
<1>2. Stays
  <2>1. ~AddItem(r)
    BY <1>1 DEF AddItem, At
  <2> QED BY <1>0, <2>1, RequesterQueue DEF Requester
<1>3. /\ files \in [Requesters -> Seq(File)] /\ hostname \in [Threads -> Names \cup {NULL}]
      /\ fs \in Seq(File) /\ as \in Seq(File)
  BY <1>0, <1>1, RestOfFiles DEF TypeOK
<1>4. hostname[r] = NULL
  BY <1>0, <1>1 DEF EmptyHanded
<1>5. n \in Own(r) /\ ToSet(NamesOf(as)) \subseteq Own(r)
  <2>1. NamesOf(fs) = Joined(<<n>>, NamesOf(as))
    BY <1>1, <1>3, ScanNames
  <2>2. n \in Names /\ NamesOf(as) \in Seq(Names)
    <3>1. fs[1].names \in Seq(Names)
      BY <1>1, <1>3, ListOfFiles
    <3> QED BY <1>1, <1>3, <3>1, NamesType, HeadTailProperties
  <2> DEFINE h == <<n>>
  <2> HIDE DEF n, as, fs
  <2>3. h \in Seq(Names) /\ n \in ToSet(h)
    BY <2>2 DEF ToSet
  <2>4. NamesOf(fs) = Joined(h, NamesOf(as))
    BY <2>1
  <2> HIDE DEF h
  <2>5. ToSet(Joined(h, NamesOf(as))) = ToSet(h) \cup ToSet(NamesOf(as))
    BY <2>2, <2>3, JoinedSet
  <2>6. ToSet(NamesOf(fs)) \subseteq Own(r)
    BY <1>0 DEF OwnHands, fs
  <2> QED BY <2>3, <2>4, <2>5, <2>6
<1>6. \A q \in Requesters : /\ files'[q] = IF q = r THEN as ELSE files[q]
                            /\ hostname'[q] = IF q = r THEN n ELSE hostname[q]
  <2> HIDE DEF as, n
  <2> QED BY <1>0, <1>1, <1>3
<1>7. \A q \in Requesters : OwnNames(q)' = OwnNames(q) /\ Own(q)' = Own(q)
  BY DEF OwnNames, Own
<1>8. Line(TheQueue, n, as, Own(r)) = Line(TheQueue, hostname[r], fs, Own(r))
  BY <1>1, <1>3, <1>4, LineReads
<1> HIDE DEF n, as
<1>9. OwnHands'
  BY <1>0, <1>5, <1>6, <1>7 DEF OwnHands
<1>10. ASSUME NEW q \in Requesters, OwnNames(q)
       PROVE  Ends(Line(TheQueue', hostname'[q], files'[q], Own(q)), NamesOf(Input[q]))
  <2>1. Ends(Line(TheQueue, hostname[q], files[q], Own(q)), NamesOf(Input[q]))
    BY <1>0, <1>1, <1>10 DEF InOrder
  <2>2. CASE q = r
    BY <1>2, <1>6, <1>8, <2>1, <2>2 DEF Stays
  <2>3. CASE q # r
    BY <1>2, <1>6, <2>1, <2>3 DEF Stays
  <2> QED BY <2>2, <2>3
<1>11. InOrder'
  BY <1>7, <1>10 DEF InOrder
<1> QED BY <1>9, <1>11 DEF OrderInv

LEMMA CloseFileOrder ==
    ASSUME FlowInv, OrderInv, NEW r \in Requesters, CloseFile(r)
    PROVE  OrderInv'
<1>0. QInv /\ TypeOK /\ OwnHands /\ InOrder
  BY DEF FlowInv, QInv, IInv, OrderInv
<1>1. /\ status' = status /\ status = "running" /\ pc[r] = "scan"
      /\ files[r] # << >> /\ files[r][1].names = << >>
      /\ files' = [files EXCEPT ![r] = Tail(@)] /\ hostname' = hostname
  BY DEF CloseFile, At
<1>2. Stays
  <2>1. ~AddItem(r)
    BY <1>1 DEF AddItem, At
  <2> QED BY <1>0, <2>1, RequesterQueue DEF Requester
<1>3. files \in [Requesters -> Seq(File)]
  BY <1>0 DEF TypeOK
<1>4. \A q \in Requesters : NamesOf(files'[q]) = NamesOf(files[q])
  <2>1. NamesOf(Tail(files[r])) = NamesOf(files[r])
    BY <1>1, <1>3, CloseNames
  <2> QED BY <1>1, <1>3, <2>1
<1>5. \A q \in Requesters : OwnNames(q)' = OwnNames(q) /\ Own(q)' = Own(q)
  BY DEF OwnNames, Own
<1>6. OwnHands'
  BY <1>0, <1>1, <1>4, <1>5 DEF OwnHands
<1>7. ASSUME NEW q \in Requesters, OwnNames(q)
      PROVE  Ends(Line(TheQueue', hostname'[q], files'[q], Own(q)), NamesOf(Input[q]))
  <2>1. Ends(Line(TheQueue, hostname[q], files[q], Own(q)), NamesOf(Input[q]))
    BY <1>0, <1>1, <1>7 DEF InOrder
  <2>2. Line(TheQueue', hostname'[q], files'[q], Own(q)) = Line(TheQueue, hostname[q], files[q], Own(q))
    BY <1>1, <1>2, <1>4 DEF Line, Stays
  <2> QED BY <2>1, <2>2
<1>8. InOrder'
  BY <1>5, <1>7 DEF InOrder
<1> QED BY <1>6, <1>8 DEF OrderInv

LEMMA AddItemOrder ==
    ASSUME FlowInv, OrderInv, NEW r \in Requesters, AddItem(r)
    PROVE  OrderInv'
<1> DEFINE x == hostname[r]
<1>0. QInv /\ TypeOK /\ Carrying /\ OwnHands /\ InOrder /\ RoomAhead /\ r \in Threads
      /\ Requesters \subseteq Threads
  BY ThreadSets DEF FlowInv, QInv, IInv, OrderInv
<1>1. /\ status' = status /\ status = "running" /\ pc[r] = "storeItem" /\ files' = files
      /\ hostname' = [hostname EXCEPT ![r] = NULL]
  BY DEF AddItem, At
<1>2. Puts(x)
  BY <1>0, <1>1, AddItemStep DEF RoomAhead
<1>3. /\ files \in [Requesters -> Seq(File)] /\ hostname \in [Threads -> Names \cup {NULL}]
      /\ TheQueue \in Seq(Names) /\ TheQueue' = Longer(TheQueue, x) /\ x \in Names
  BY <1>0, <1>2, QueueType DEF TypeOK, Puts
<1>4. x \in Own(r)
  BY <1>0, <1>3, NullAssumption DEF OwnHands
<1>5. \A q \in Requesters : /\ hostname'[q] = IF q = r THEN NULL ELSE hostname[q]
  BY <1>0, <1>1, <1>3
<1>6. \A q \in Requesters : OwnNames(q)' = OwnNames(q) /\ Own(q)' = Own(q)
  BY DEF OwnNames, Own
<1> HIDE DEF x
<1>7. OwnHands'
  BY <1>0, <1>1, <1>5, <1>6 DEF OwnHands
<1>8. ASSUME NEW q \in Requesters, OwnNames(q)
      PROVE  Ends(Line(TheQueue', hostname'[q], files'[q], Own(q)), NamesOf(Input[q]))
  <2>1. Ends(Line(TheQueue, hostname[q], files[q], Own(q)), NamesOf(Input[q]))
    BY <1>0, <1>1, <1>8 DEF InOrder
  <2>2. CASE q = r
    <3>1. Line(Longer(TheQueue, x), NULL, files[r], Own(r)) = Line(TheQueue, x, files[r], Own(r))
      BY <1>3, <1>4, LinePuts
    <3> QED BY <1>1, <1>3, <1>5, <2>1, <2>2, <3>1 DEF x
  <2>3. CASE q # r
    <3>1. x \notin Own(q)
      BY <1>4, <1>8, <2>3 DEF OwnNames
    <3>2. Line(Longer(TheQueue, x), hostname[q], files[q], Own(q))
             = Line(TheQueue, hostname[q], files[q], Own(q))
      BY <1>3, <3>1, LineSkips
    <3> QED BY <1>1, <1>3, <1>5, <2>1, <2>3, <3>2
  <2> QED BY <2>2, <2>3
<1>9. InOrder'
  BY <1>6, <1>8 DEF InOrder
<1> QED BY <1>7, <1>9 DEF OrderInv

LEMMA TakesOrder ==
    ASSUME FlowInv, OrderInv, Takes, files' = files, status' = status,
           \A r \in Requesters : hostname'[r] = hostname[r]
    PROVE  OrderInv'
<1>0. /\ QInv /\ TypeOK /\ OwnHands /\ InOrder
      /\ TheQueue \in Seq(Names) /\ TheQueue # << >> /\ TheQueue' = Tail(TheQueue)
  BY QueueType DEF FlowInv, QInv, IInv, OrderInv, Takes
<1>1. \A r \in Requesters : OwnNames(r)' = OwnNames(r) /\ Own(r)' = Own(r)
  BY DEF OwnNames, Own
<1>2. OwnHands'
  BY <1>0, <1>1 DEF OwnHands
<1>3. ASSUME status \in {"running", "aborted"}, NEW r \in Requesters, OwnNames(r)
      PROVE  Ends(Line(TheQueue', hostname'[r], files'[r], Own(r)), NamesOf(Input[r]))
  <2>1. Ends(Line(TheQueue, hostname[r], files[r], Own(r)), NamesOf(Input[r]))
    BY <1>0, <1>3 DEF InOrder
  <2>2. hostname[r] \in Names \cup {NULL} /\ files[r] \in Seq(File)
    BY <1>0, ThreadSets DEF TypeOK
  <2>3. Ends(Line(Tail(TheQueue), hostname[r], files[r], Own(r)), NamesOf(Input[r]))
    BY <1>0, <2>1, <2>2, LineTakes
  <2> QED BY <1>0, <2>3
<1>4. InOrder'
  BY <1>1, <1>3 DEF InOrder
<1> QED BY <1>2, <1>4 DEF OrderInv

LEMMA RequesterOrder ==
    ASSUME FlowInv, OrderInv, NEW r \in Requesters, Requester(r)
    PROVE  OrderInv'
<1>1. CASE ReadName(r) \/ CloseFile(r) \/ AddItem(r)
  BY <1>1, ReadNameOrder, CloseFileOrder, AddItemOrder
<1>2. CASE ~(ReadName(r) \/ CloseFile(r) \/ AddItem(r))
  <2>1. UNCHANGED <<status, files, hostname>>
    BY <1>2 DEF Requester, RequesterLocksLog, Report, FinishRequester,
         RequesterLocksRead, RequesterLocksWrite, TestFull, MoveTail,
         RequesterUnlocks, LockStep
  <2>2. Stays
    BY <1>2, RequesterQueue DEF FlowInv
  <2> QED BY <2>1, <2>2, OrderStays
<1> QED BY <1>1, <1>2

LEMMA ResolverOrder ==
    ASSUME FlowInv, OrderInv, NEW t \in Resolvers, Resolver(t)
    PROVE  OrderInv'
<1>1. /\ UNCHANGED <<status, files>>
      /\ hostname' = hostname \/ \E x : hostname' = [hostname EXCEPT ![t] = x]
  BY DEF Resolver, Check, ResolverLocksRead, ResolverLocksMutex, CountReader,
         ResolverLocksWrite, Admit, ResolverLocksArray, TestEmpty, RemoveItem, MoveHead,
         ResolverUnlocksArray, ResolverLeaves, UncountReader, ResolverLocksError,
         Lookup, LockStep
<1>2. \A r \in Requesters : hostname'[r] = hostname[r]
  BY <1>1, ThreadSets DEF FlowInv, QInv, IInv, TypeOK
<1>3. Takes \/ Stays
  BY ResolverQueue DEF FlowInv
<1> QED BY <1>1, <1>2, <1>3, TakesOrder, OrderStays

LEMMA MainOrder ==
    ASSUME FlowInv, OrderInv, Main
    PROVE  OrderInv'
<1>1. UNCHANGED <<hostname, files>>
  BY DEF Main, CreateThread, CreateFails, JoinRequester, SetDone, JoinResolver, Finish
<1>2. OwnHands'
  BY <1>1 DEF OrderInv, OwnHands, Own
<1>3. CASE status' \in {"running", "aborted"}
  <2>1. ~Finish /\ (status' = status \/ status = "running")
    BY <1>3 DEF Main, CreateThread, CreateFails, JoinRequester, SetDone, JoinResolver, Finish
  <2>2. Stays
    BY <2>1, MainQueue DEF FlowInv
  <2> QED BY <1>1, <2>1, <2>2, OrderStays
<1>4. CASE status' \notin {"running", "aborted"}
  BY <1>2, <1>4 DEF OrderInv, InOrder
<1> QED BY <1>3, <1>4

LEMMA OrderNext == FlowInv /\ OrderInv /\ [Next]_vars => OrderInv'
<1> SUFFICES ASSUME FlowInv, OrderInv, [Next]_vars PROVE OrderInv'
  OBVIOUS
<1>1. CASE UNCHANGED vars
  <2>1. UNCHANGED <<ringVars, pc, hostname, files, status>>
    BY <1>1 DEF vars, mainVars, localVars, ioVars
  <2>2. EffectiveHead' = EffectiveHead /\ EffectiveTail' = EffectiveTail
    BY <2>1 DEF EffectiveHead, EffectiveTail, Successor, ringVars
  <2>3. Stays
    BY <2>1, <2>2, QueueStays DEF FlowInv, QInv, Stays, ringVars
  <2> QED BY <2>1, <2>3, OrderStays
<1>2. CASE Strays \/ LacksResource
  <2>1. OwnHands'
    BY <1>2, LostStep DEF OrderInv, OwnHands, Own
  <2>2. InOrder'
    BY <1>2, LostStep DEF InOrder
  <2> QED BY <2>1, <2>2 DEF OrderInv
<1> QED BY <1>1, <1>2, RequesterOrder, ResolverOrder, MainOrder DEF Next, Terminated

LEMMA OrderMeans == FlowInv /\ OrderInv => FileOrder
<1> SUFFICES ASSUME FlowInv, OrderInv, status \in {"running", "aborted"}, NEW r \in Requesters, OwnNames(r)
             PROVE  IsSuffix(InLine(r), NamesOf(Input[r]))
  BY DEF FileOrder
<1>1. QInv /\ TypeOK /\ EmptyHanded /\ r \in Threads
  BY ThreadSets DEF FlowInv, QInv, IInv
<1>2. Contents(EffectiveHead, EffectiveTail) = TheQueue
  BY <1>1, SameContents DEF QInv
<1>3. Hand(r) = Rest(hostname[r])
  BY <1>1 DEF Hand, Rest, Carriers, EmptyHanded
<1>4. /\ hostname[r] \in Names \cup {NULL} /\ files[r] \in Seq(File)
      /\ TheQueue \in Seq(Names)
  BY <1>1, QueueType DEF TypeOK
<1> DEFINE c == Chosen(TheQueue, Own(r))
           h == Rest(hostname[r])
           s == NamesOf(files[r])
<1>5. c \in Seq(Names) /\ h \in Seq(Names) /\ s \in Seq(Names)
  BY <1>4, LineParts
<1>6. InLine(r) = Joined(Joined(c, h), s)
  BY <1>2, <1>3 DEF InLine, Joined
<1> HIDE DEF c, h, s
<1>7. Joined(Joined(c, h), s) = Joined(c, Joined(h, s))
  BY <1>5, JoinedThrice
<1>8. InLine(r) = Line(TheQueue, hostname[r], files[r], Own(r)) /\ InLine(r) \in Seq(Names)
  <2>1. Line(TheQueue, hostname[r], files[r], Own(r)) \in Seq(Names)
    BY <1>4, LineParts
  <2> QED BY <1>6, <1>7, <2>1 DEF Line, c, h, s
<1>9. Ends(InLine(r), NamesOf(Input[r]))
  BY <1>8 DEF OrderInv, InOrder
<1> QED BY <1>8, <1>9, EndsSuffix

\* What a requester has read and put into the array, however often it found it full and
\* whoever put names between, keeps the order of its files; so does what is unread.
THEOREM OrderInvariance == Spec => []OrderInv
BY OrderInit, OrderNext, FlowInvariance, PTL DEF Spec

\* The names of a requester are taken out of the array in the order of its files, for
\* any pools, any size of the array and any files: what is not taken is their end.
THEOREM FilesInOrder == Spec => []FileOrder
BY OrderMeans, OrderInvariance, FlowInvariance, PTL
------------------------------------------------------------------------------
(*                          NO DEADLOCK                                    *)

\* The mutex a thread asks for at a label, and the threads that get none now.
Wanted == [l \in {"lockLog", "lockRead", "lockWrite", "enterRead", "enterMutex",
                  "enterWrite", "lockArray", "leaveMutex", "lockError"} |->
              CASE l = "lockLog"                    -> "write2"
                [] l \in {"lockRead", "enterRead"}   -> "read_mutex"
                [] l \in {"lockWrite", "enterWrite"} -> "write1"
                [] l \in {"enterMutex", "leaveMutex"} -> "mutex"
                [] l = "lockArray"                  -> "shared_array_mutex"
                [] l = "lockError"                  -> "error_report"]

Blocked(t) == pc[t] \in DOMAIN Wanted /\ lock[Wanted[pc[t]]] # NoThread

\* The threads that exist and have not ended, and what main can do without them.
Alive     == {t \in Threads : t <= created /\ pc[t] # "done"}
MainMoves == \/ created < NumThreads
             \/ joined < NumThreads /\ pc[joined + 1] = "done" /\ (joined < NumReq \/ req_th_done)
             \/ joined = NumReq /\ ~req_th_done
             \/ joined = NumThreads /\ req_th_done

\* Of the threads that are left there is always one that gets the mutex it asks for, or
\* asks for none; and when none is left main goes on to its end.
NoDeadlock ==
    status = "running" => IF Alive = {} THEN MainMoves ELSE \E t \in Alive : ~Blocked(t)

\* A thread that is not created yet has not begun, and main joins resolvers only after
\* it has raised the flag.
NotBegun ==
    /\ \A t \in Threads : t > created => pc[t] \in {"lockLog", "check"}
    /\ joined > NumReq => req_th_done

Begun == {t \in Threads : pc[t] \notin {"lockLog", "check", "done"}}

LEMMA OwnersBegun ==
    ASSUME IInv, NEW m \in Mutexes \ {"write1"}, lock[m] # NoThread
    PROVE  lock[m] \in Begun /\ pc[lock[m]] \in Section[m]
<1>1. lock[m] \in Threads
  BY DEF IInv, TypeOK
<1>2. pc[lock[m]] \in Section[m]
  BY <1>1 DEF IInv, LockInv, PlainLocks
<1> QED BY <1>1, <1>2 DEF Begun, Section, Mutexes

\* The mutexes whose sections acquire no other.
LEMMA InnerEnds ==
    ASSUME IInv, NEW m \in {"write2", "error_report", "shared_array_mutex"},
           lock[m] # NoThread
    PROVE  \E u \in Begun : ~Blocked(u)
<1>1. lock[m] \in Begun /\ pc[lock[m]] \in Section[m]
  BY OwnersBegun DEF Mutexes
<1>2. pc[lock[m]] \notin DOMAIN Wanted
  BY <1>1 DEF Section, Mutexes, Wanted
<1> QED BY <1>1, <1>2 DEF Blocked

\* A resolver that waits for mutex on its way out finds there no resolver that waits for
\* write1: such a one would be alone.
LEMMA WriteEnds ==
    ASSUME IInv, lock["write1"] # NoThread
    PROVE  \E u \in Begun : ~Blocked(u)
<1>0. /\ lock["write1"] \in Requesters \cup Resolvers
      /\ Requesters \subseteq Threads /\ Resolvers \subseteq Threads
  BY ThreadSets DEF IInv, TypeOK, Mutexes
<1>1. CASE lock["write1"] \in Requesters
  <2>1. pc[lock["write1"]] \in Section["write1"]
    BY <1>1 DEF IInv, LockInv, WriteLock
  <2>2. lock["write1"] \in Begun /\ pc[lock["write1"]] \notin DOMAIN Wanted
    BY <1>0, <1>1, <2>1 DEF Section, Mutexes, Begun, Wanted
  <2> QED BY <2>2 DEF Blocked
<1>2. CASE lock["write1"] \in Resolvers
  <2>1. PICK u \in Admitted : TRUE
    BY <1>2 DEF IInv, LockInv, WriteLock
  <2>2. u \in Begun
    BY <1>0 DEF Admitted, Begun
  <2>3. CASE pc[u] \notin {"lockArray", "leaveMutex"}
    BY <2>2, <2>3 DEF Admitted, Blocked, Wanted
  <2>4. CASE pc[u] = "lockArray"
    <3>1. Blocked(u) => lock["shared_array_mutex"] # NoThread
      BY <2>4 DEF Blocked, Wanted
    <3> QED BY <2>2, <3>1, InnerEnds
  <2>5. CASE pc[u] = "leaveMutex"
    <3>1. CASE ~Blocked(u)
      BY <2>2, <3>1
    <3>2. CASE Blocked(u)
      <4>1. lock["mutex"] # NoThread
        BY <2>5, <3>2 DEF Blocked, Wanted
      <4>2. lock["mutex"] \in Begun /\ pc[lock["mutex"]] \in Section["mutex"]
        BY <4>1, OwnersBegun DEF Mutexes
      <4>3. pc[lock["mutex"]] # "enterWrite"
        <5>1. ASSUME lock["mutex"] \in Entering PROVE FALSE
          <6>1. u \in Readers /\ Readers = {lock["mutex"]}
            BY <5>1 DEF IInv, ReaderInv, Readers
          <6> QED BY <2>5, <5>1, <6>1 DEF Entering
        <5>2. lock["mutex"] \in Threads /\ (pc[lock["mutex"]] = "enterWrite" => lock["mutex"] \in Resolvers)
          BY <4>2, ThreadSets DEF Begun, IInv, TypeOK, RequesterLabels
        <5> QED BY <5>1, <5>2 DEF Entering
      <4>4. pc[lock["mutex"]] \notin DOMAIN Wanted
        BY <4>2, <4>3 DEF Section, Mutexes, Wanted
      <4> QED BY <4>2, <4>4 DEF Blocked
    <3> QED BY <3>1, <3>2
  <2> QED BY <2>3, <2>4, <2>5
<1> QED BY <1>0, <1>1, <1>2

LEMMA MutexEnds ==
    ASSUME IInv, lock["mutex"] # NoThread
    PROVE  \E u \in Begun : ~Blocked(u)
<1>1. lock["mutex"] \in Begun /\ pc[lock["mutex"]] \in Section["mutex"]
  BY OwnersBegun DEF Mutexes
<1>2. CASE ~Blocked(lock["mutex"])
  BY <1>1, <1>2
<1>3. CASE Blocked(lock["mutex"])
  <2>1. lock["write1"] # NoThread
    BY <1>1, <1>3 DEF Section, Mutexes, Blocked, Wanted
  <2> QED BY <2>1, WriteEnds
<1> QED BY <1>2, <1>3

LEMMA ReadEnds ==
    ASSUME IInv, lock["read_mutex"] # NoThread
    PROVE  \E u \in Begun : ~Blocked(u)
<1>1. lock["read_mutex"] \in Begun /\ pc[lock["read_mutex"]] \in Section["read_mutex"]
  BY OwnersBegun DEF Mutexes
<1>2. CASE ~Blocked(lock["read_mutex"])
  BY <1>1, <1>2
<1>3. CASE Blocked(lock["read_mutex"])
  <2>1. lock["write1"] # NoThread \/ lock["mutex"] # NoThread
    BY <1>1, <1>3 DEF Section, Mutexes, Blocked, Wanted
  <2> QED BY <2>1, WriteEnds, MutexEnds
<1> QED BY <1>2, <1>3

LEMMA OneUnblocked ==
    ASSUME IInv, NotBegun, NEW t \in Alive
    PROVE  \E u \in Alive : ~Blocked(u)
<1>1. Begun \subseteq Alive
  BY PoolAssumption DEF NotBegun, Begun, Alive, IInv, TypeOK, Threads, NumThreads
<1>2. CASE ~Blocked(t)
  BY <1>2
<1>3. CASE Blocked(t)
  <2>1. \E m \in Mutexes : lock[m] # NoThread
    <3>1. pc[t] \in DOMAIN Wanted /\ lock[Wanted[pc[t]]] # NoThread
      BY <1>3 DEF Blocked
    <3>2. \A l \in DOMAIN Wanted : Wanted[l] \in Mutexes
      BY DEF Wanted, Mutexes
    <3> QED BY <3>1, <3>2
  <2>2. PICK m \in Mutexes : lock[m] # NoThread
    BY <2>1
  <2>3. \E u \in Begun : ~Blocked(u)
    BY <2>2, InnerEnds, WriteEnds, MutexEnds, ReadEnds DEF Mutexes
  <2> QED BY <1>1, <2>3
<1> QED BY <1>2, <1>3

LEMMA NotBegunNext == IInv /\ NotBegun /\ [Next]_vars => NotBegun'
<1> SUFFICES ASSUME IInv, NotBegun, [Next]_vars PROVE NotBegun'
  OBVIOUS
<1>0. /\ Requesters \subseteq Threads /\ Resolvers \subseteq Threads /\ Threads \subseteq Nat
      /\ created \in Nat /\ joined \in Nat /\ NumThreads \in Nat /\ NumReq \in Nat
      /\ pc \in [Threads -> RequesterLabels \cup ResolverLabels]
  BY ThreadSets, PoolAssumption DEF Threads, NumThreads, IInv, TypeOK
<1>1. ASSUME NEW r \in Requesters, Requester(r) PROVE NotBegun'
  <2>1. UNCHANGED <<created, joined, req_th_done>> /\ r <= created
        /\ ((\E to : Goto(r, to)) \/ pc' = pc)
    BY <1>1 DEF Requester, RequesterLocksLog, Report, ReadName, CloseFile,
        FinishRequester, RequesterLocksRead, RequesterLocksWrite, TestFull,
        AddItem, MoveTail, RequesterUnlocks, LockStep, At
  <2> QED BY <1>0, <2>1 DEF NotBegun, Goto
<1>2. ASSUME NEW t \in Resolvers, Resolver(t) PROVE NotBegun'
  <2>1. UNCHANGED <<created, joined, req_th_done>> /\ t <= created /\ \E to : Goto(t, to)
    BY <1>2 DEF Resolver, Check, ResolverLocksRead, ResolverLocksMutex, CountReader,
        ResolverLocksWrite, Admit, ResolverLocksArray, TestEmpty, RemoveItem,
        MoveHead, ResolverUnlocksArray, ResolverLeaves, UncountReader,
        ResolverLocksError, Lookup, LockStep, At
  <2> QED BY <1>0, <2>1 DEF NotBegun, Goto
<1>3. CASE Main
  <2>1. pc' = pc /\ created' \in {created, created + 1}
    BY <1>3 DEF Main, CreateThread, CreateFails, JoinRequester, SetDone, JoinResolver, Finish
  <2>2. joined' > NumReq => req_th_done'
    BY <1>0, <1>3 DEF Main, CreateThread, CreateFails, JoinRequester, SetDone, JoinResolver,
                      Finish, NotBegun
  <2> QED BY <1>0, <2>1, <2>2 DEF NotBegun
<1>4. CASE UNCHANGED vars \/ Strays \/ LacksResource
  BY <1>4, LostStep DEF vars, NotBegun
<1> QED BY <1>1, <1>2, <1>3, <1>4 DEF Next, Terminated

\* The threads of the program never lock each other out: for any pools and any files,
\* whichever mutexes are held, one of the threads left can go on, and main at the end.
THEOREM DeadlockFree == Spec => []NoDeadlock
<1>1. Init => NotBegun
  BY PoolAssumption DEF Init, NotBegun, Threads, NumThreads
<1>2. IInv /\ NotBegun => NoDeadlock
  <2> SUFFICES ASSUME IInv, NotBegun PROVE NoDeadlock
    OBVIOUS
  <2>1. CASE Alive # {}
    BY <2>1, OneUnblocked DEF NoDeadlock
  <2>2. CASE Alive = {}
    <3>1. created = NumThreads => \A t \in Threads : pc[t] = "done"
      BY <2>2, PoolAssumption DEF Alive, Threads, NumThreads
    <3>2. created \in 0 .. NumThreads /\ joined \in 0 .. NumThreads
      BY DEF IInv, TypeOK
    <3>3. joined < NumThreads => joined + 1 \in Threads
      BY <3>2, PoolAssumption DEF Threads, NumThreads
    <3>4. MainMoves
      BY <3>1, <3>2, <3>3, PoolAssumption DEF MainMoves, NotBegun, NumThreads
    <3> QED BY <2>2, <3>4 DEF NoDeadlock
  <2> QED BY <2>1, <2>2
<1> QED BY <1>1, <1>2, NotBegunNext, Invariance, PTL DEF Spec
==============================================================================

------------------------- MODULE PagerPredictProofs -------------------------
(***************************************************************************)
(* pager-predict.c, for any programs and any number of jobs, processors,   *)
(* pages and frames: it is one of the pagers the simulator is proved right *)
(* for; its table counts what was seen, whichever entries of a row change  *)
(* places; it never throws out the page a process is on; and what it       *)
(* fetches in vain leaves a frame for each process that waits for one.     *)
(***************************************************************************)
EXTENDS PagerPredict, SimulatorProofs, WellFoundedInduction

USE DEF procVars, pageVars
------------------------------------------------------------------------------
(* Induction over the natural numbers, with a set for the predicate.        *)

LEMMA LeastNatural ==
    ASSUME NEW T, T \subseteq Nat, T # {}
    PROVE  \E x \in T : \A y \in T : x <= y
<1> DEFINE R == OpToRel(<, Nat)
<1>1. IsWellFoundedOn(R, Nat)
  BY NatLessThanWellFounded
<1>2. R = {ss \in Nat \X Nat : ss[1] < ss[2]}
  BY DEF OpToRel
<1>3. \E x \in T : \A y \in T : ~ (<<y, x>> \in R)
  <2> HIDE DEF R
  <2> QED BY <1>1, WFMin
<1>4. \A x, y \in Nat : <<y, x>> \in R <=> y < x
  BY <1>2
<1> HIDE DEF R
<1>5. PICK x \in T : \A y \in T : ~ (<<y, x>> \in R)
  BY <1>3
<1>6. \A y \in T : ~ (y < x)
  BY <1>4, <1>5, Zenon
<1>7. \A y \in T : x <= y
  BY <1>6
<1> QED BY <1>7

LEMMA Induction ==
    ASSUME NEW T, T \subseteq Nat, 0 \in T, \A n \in T : n + 1 \in T
    PROVE  T = Nat
<1> SUFFICES ASSUME Nat \ T # {} PROVE FALSE
  OBVIOUS
<1>1. PICK x \in Nat \ T : \A y \in Nat \ T : x <= y
  BY LeastNatural
<1>2. x # 0 /\ x - 1 \in Nat
  BY <1>1
<1>3. x - 1 \in T
  BY <1>1, <1>2
<1> QED BY <1>2, <1>3
------------------------------------------------------------------------------
(* The rows of the table                                                    *)

Entry == [PG_NUM : PageNos, FREQ : Nat]

\* A row has one entry for each page that was seen, and it says how often.
RowRight(row, cnt) ==
    /\ row \in Seq(Entry)
    /\ \A n \in DOMAIN row : /\ cnt[row[n].PG_NUM] > 0
                             /\ row[n].FREQ = cnt[row[n].PG_NUM]
    /\ \A n, m \in DOMAIN row : row[n].PG_NUM = row[m].PG_NUM => n = m
    /\ \A q \in PageNos : cnt[q] > 0 => \E n \in DOMAIN row : row[n].PG_NUM = q

LEMMA CountedRight ==
    ASSUME NEW cnt \in [PageNos -> Nat], NEW page \in PageNos, NEW row, RowRight(row, cnt)
    PROVE  RowRight(Counted(row, page), [cnt EXCEPT ![page] = @ + 1])
<1> DEFINE c2 == [cnt EXCEPT ![page] = @ + 1]
<1>1. /\ row \in Seq(Entry) /\ DOMAIN row = 1 .. Len(row) /\ Len(row) \in Nat
      /\ \A n \in DOMAIN row : /\ row[n] \in Entry /\ row[n].PG_NUM \in PageNos
                               /\ row[n].FREQ \in Nat
  <2>1. row \in Seq(Entry) /\ DOMAIN row = 1 .. Len(row) /\ Len(row) \in Nat
    BY DEF RowRight
  <2>2. \A n \in DOMAIN row : row[n] \in Entry
    BY <2>1
  <2>3. \A x \in Entry : x.PG_NUM \in PageNos /\ x.FREQ \in Nat
    BY DEF Entry
  <2> QED BY <2>1, <2>2, <2>3
<1>2. \A q \in PageNos : c2[q] = IF q = page THEN cnt[q] + 1 ELSE cnt[q]
  OBVIOUS
<1>3. CASE \E n \in DOMAIN row : row[n].PG_NUM = page
  <2> DEFINE r2 == [n \in DOMAIN row |-> IF row[n].PG_NUM = page
                                         THEN [row[n] EXCEPT !.FREQ = @ + 1] ELSE row[n]]
  <2>1. Counted(row, page) = r2
    BY <1>3 DEF Counted
  <2>2. \A n \in DOMAIN row :
           /\ r2[n] \in Entry /\ r2[n].PG_NUM = row[n].PG_NUM
           /\ r2[n].FREQ = IF row[n].PG_NUM = page THEN row[n].FREQ + 1 ELSE row[n].FREQ
    <3>1. \A x \in Entry : /\ [x EXCEPT !.FREQ = @ + 1] \in Entry
                           /\ [x EXCEPT !.FREQ = @ + 1].PG_NUM = x.PG_NUM
                           /\ [x EXCEPT !.FREQ = @ + 1].FREQ = x.FREQ + 1
      BY DEF Entry
    <3> QED BY <1>1, <3>1
  <2>3. DOMAIN r2 = DOMAIN row /\ r2 \in Seq(Entry)
    BY <1>1, <2>2
  <2> HIDE DEF r2, c2
  <2>4. \A n \in DOMAIN r2 : c2[r2[n].PG_NUM] > 0 /\ r2[n].FREQ = c2[r2[n].PG_NUM]
    BY <1>1, <1>2, <2>2, <2>3 DEF RowRight
  <2>5. \A n, m \in DOMAIN r2 : r2[n].PG_NUM = r2[m].PG_NUM => n = m
    BY <2>2, <2>3 DEF RowRight
  <2>6. \A q \in PageNos : c2[q] > 0 => \E n \in DOMAIN r2 : r2[n].PG_NUM = q
    BY <1>2, <1>3, <2>2, <2>3 DEF RowRight
  <2>7. RowRight(r2, c2)
    BY <2>3, <2>4, <2>5, <2>6 DEF RowRight
  <2> QED BY <2>1, <2>7 DEF c2
<1>4. CASE ~ \E n \in DOMAIN row : row[n].PG_NUM = page
  <2> DEFINE new == [PG_NUM |-> page, FREQ |-> 1]
             r2 == Append(row, new)
             last == Len(row) + 1
  <2>1. Counted(row, page) = r2
    BY <1>4 DEF Counted
  <2>2. new \in Entry /\ new.PG_NUM = page /\ new.FREQ = 1
    BY DEF Entry
  <2>3. /\ r2 \in Seq(Entry) /\ DOMAIN r2 = 1 .. last /\ r2[last] = new
        /\ \A n \in 1 .. Len(row) : r2[n] = row[n]
    BY <1>1, <2>2
  <2>4. cnt[page] = 0
    BY <1>4 DEF RowRight
  <2>5. last \in DOMAIN r2 /\ \A n \in DOMAIN r2 : n \in DOMAIN row \/ n = last
    BY <1>1, <2>3
  <2>6. \A n \in DOMAIN row : n \in DOMAIN r2
    BY <1>1, <2>3
  <2> HIDE DEF r2, c2, new, last
  <2>7. \A n \in DOMAIN r2 : c2[r2[n].PG_NUM] > 0 /\ r2[n].FREQ = c2[r2[n].PG_NUM]
    BY <1>1, <1>2, <1>4, <2>2, <2>3, <2>4, <2>5 DEF RowRight
  <2>8. \A n, m \in DOMAIN r2 : r2[n].PG_NUM = r2[m].PG_NUM => n = m
    BY <1>1, <1>4, <2>2, <2>3, <2>5 DEF RowRight
  <2>9. \A q \in PageNos : c2[q] > 0 => \E n \in DOMAIN r2 : r2[n].PG_NUM = q
    BY <1>1, <1>2, <2>2, <2>3, <2>5, <2>6 DEF RowRight
  <2>10. RowRight(r2, c2)
    BY <2>3, <2>7, <2>8, <2>9 DEF RowRight
  <2> QED BY <2>1, <2>10 DEF c2
<1> QED BY <1>3, <1>4

LEMMA SwappedRight ==
    ASSUME NEW cnt, NEW row, RowRight(row, cnt), NEW n \in 1 .. Len(row) - 1
    PROVE  RowRight(Swapped(row, n), cnt) /\ Len(Swapped(row, n)) = Len(row)
<1> DEFINE r2 == Swapped(row, n)
           Other(k) == IF k = n THEN n + 1 ELSE IF k = n + 1 THEN n ELSE k
<1>1. /\ row \in Seq(Entry) /\ DOMAIN row = 1 .. Len(row) /\ Len(row) \in Nat
      /\ n \in DOMAIN row /\ n + 1 \in DOMAIN row /\ n # n + 1
  BY DEF RowRight
<1>2. /\ r2 \in Seq(Entry) /\ DOMAIN r2 = DOMAIN row /\ Len(r2) = Len(row)
  BY <1>1 DEF Swapped
<1>3. \A k \in DOMAIN row : /\ Other(k) \in DOMAIN row /\ r2[k] = row[Other(k)]
                            /\ Other(Other(k)) = k
  BY <1>1 DEF Swapped
<1> HIDE DEF r2, Other
<1>4. \A k \in DOMAIN r2 : cnt[r2[k].PG_NUM] > 0 /\ r2[k].FREQ = cnt[r2[k].PG_NUM]
  BY <1>2, <1>3 DEF RowRight
<1>5. \A k, m \in DOMAIN r2 : r2[k].PG_NUM = r2[m].PG_NUM => k = m
  <2> SUFFICES ASSUME NEW k \in DOMAIN r2, NEW m \in DOMAIN r2,
                      r2[k].PG_NUM = r2[m].PG_NUM
               PROVE  k = m
    OBVIOUS
  <2>1. Other(k) = Other(m)
    BY <1>2, <1>3 DEF RowRight
  <2> QED BY <1>2, <1>3, <2>1
<1>6. \A q \in PageNos : cnt[q] > 0 => \E k \in DOMAIN r2 : r2[k].PG_NUM = q
  <2> SUFFICES ASSUME NEW q \in PageNos, cnt[q] > 0
               PROVE  \E k \in DOMAIN r2 : r2[k].PG_NUM = q
    OBVIOUS
  <2>1. PICK k \in DOMAIN row : row[k].PG_NUM = q
    BY DEF RowRight
  <2> QED BY <1>2, <1>3, <2>1
<1>7. RowRight(r2, cnt)
  BY <1>2, <1>4, <1>5, <1>6 DEF RowRight
<1> QED BY <1>2, <1>7 DEF r2

\* What the recursive function of Exchanged is.
Rounds(row, order, pairs, n, g) ==
    g = [m \in 0 .. n |->
            IF m = 0 THEN [row |-> row, order |-> order]
            ELSE CompareExchange(g[m - 1], ((m - 1) % pairs) + 1)]

LEMMA RoundsExist ==
    ASSUME NEW row, NEW order, NEW pairs, NEW n \in Nat
    PROVE  \E g : Rounds(row, order, pairs, n, g)
<1> DEFINE T == {k \in Nat : \E g : Rounds(row, order, pairs, k, g)}
           first == [row |-> row, order |-> order]
           f(g, m) == CompareExchange(g[m - 1], ((m - 1) % pairs) + 1)
<1>1. 0 \in T
  <2> DEFINE g == [m \in 0 .. 0 |-> first]
  <2>1. g = [m \in 0 .. 0 |-> IF m = 0 THEN first ELSE f(g, m)]
    <3> HIDE DEF f, first
    <3> QED OBVIOUS
  <2> QED BY <2>1 DEF Rounds
<1>2. ASSUME NEW k \in T PROVE k + 1 \in T
  <2>1. PICK g : Rounds(row, order, pairs, k, g)
    BY <1>2
  <2>2. g = [m \in 0 .. k |-> IF m = 0 THEN first ELSE f(g, m)]
    BY <2>1 DEF Rounds
  <2> DEFINE h == [m \in 0 .. k + 1 |-> IF m = k + 1 THEN f(g, m) ELSE g[m]]
  <2>3. \A m \in 0 .. k + 1 : m # 0 => m - 1 \in 0 .. k /\ h[m - 1] = g[m - 1]
    BY <1>2
  <2>4. \A m \in 0 .. k + 1 : m # 0 => f(h, m) = f(g, m)
    BY <2>3
  <2>5. \A m \in 0 .. k + 1 : h[m] = IF m = 0 THEN first ELSE f(h, m)
    <3> HIDE DEF f, first
    <3>1. \A m \in 0 .. k + 1 : m # k + 1 => m \in 0 .. k
      BY <1>2
    <3>2. k + 1 # 0
      BY <1>2
    <3> QED BY <2>2, <2>4, <3>1, <3>2
  <2>6. h = [m \in 0 .. k + 1 |-> IF m = 0 THEN first ELSE f(h, m)]
    <3> HIDE DEF f, first
    <3> QED BY <2>5
  <2>7. Rounds(row, order, pairs, k + 1, h)
    BY <2>6 DEF Rounds
  <2> QED BY <1>2, <2>7
<1>3. T = Nat
  <2> HIDE DEF T
  <2>1. T \subseteq Nat
    BY DEF T
  <2> QED BY <1>1, <1>2, <2>1, Induction
<1> QED BY <1>3

\* The exchanges neither lose an entry nor change a count, in however many rounds and
\* whatever the stamps are.
LEMMA ExchangedRight ==
    ASSUME NEW cnt, NEW row, NEW order, RowRight(row, cnt)
    PROVE  RowRight(Exchanged(row, order).row, cnt)
<1> DEFINE pairs == Len(row) - 1
           K == MAXPROCPAGES * pairs
           first == [row |-> row, order |-> order]
<1>1. row \in Seq(Entry) /\ Len(row) \in Nat
  BY DEF RowRight
<1>2. CASE ~(pairs > 0)
  BY <1>2 DEF Exchanged
<1>3. CASE pairs > 0
  <2>1. K \in Nat /\ pairs \in Nat
    BY <1>1, <1>3, Sizes
  <2> DEFINE g == CHOOSE h : Rounds(row, order, pairs, K, h)
  <2>2. Exchanged(row, order) = g[K]
    BY <1>3 DEF Exchanged, Rounds
  <2>3. Rounds(row, order, pairs, K, g)
    <3> HIDE DEF K, pairs
    <3> QED BY <2>1, RoundsExist
  <2> HIDE DEF g, K
  <2> DEFINE Right(t) == RowRight(t.row, cnt) /\ Len(t.row) = Len(row)
             T == {m \in Nat : m <= K => Right(g[m])}
  <2>4. 0 \in T
    <3>1. g[0] = first
      BY <2>1, <2>3 DEF Rounds
    <3> QED BY <3>1
  <2>5. ASSUME NEW m \in T PROVE m + 1 \in T
    <3> SUFFICES ASSUME m + 1 <= K PROVE Right(g[m + 1])
      OBVIOUS
    <3> DEFINE n == (m % pairs) + 1
    <3>1. Right(g[m])
      BY <2>1, <2>5
    <3>2. g[m + 1] = CompareExchange(g[m], n)
      <4>1. m + 1 \in 0 .. K /\ m + 1 # 0 /\ (m + 1) - 1 = m
        BY <2>1, <2>5
      <4> QED BY <2>3, <4>1 DEF Rounds
    <3>3. n \in 1 .. pairs
      BY <1>3, <2>1, <2>5
    <3>4. n \in 1 .. Len(g[m].row) - 1
      <4> HIDE DEF n
      <4> QED BY <3>1, <3>3
    <3>5. RowRight(Swapped(g[m].row, n), cnt) /\ Len(Swapped(g[m].row, n)) = Len(g[m].row)
      <4> HIDE DEF n
      <4> QED BY <3>1, <3>4, SwappedRight
    <3>6. \/ CompareExchange(g[m], n) = g[m]
          \/ CompareExchange(g[m], n).row = Swapped(g[m].row, n)
      <4> HIDE DEF n
      <4> QED BY DEF CompareExchange
    <3> HIDE DEF n
    <3> QED BY <3>1, <3>2, <3>5, <3>6
  <2>6. T = Nat
    <3> HIDE DEF T
    <3>1. T \subseteq Nat
      BY DEF T
    <3> QED BY <2>4, <2>5, <3>1, Induction
  <2> QED BY <2>1, <2>2, <2>6
<1> QED BY <1>2, <1>3
------------------------------------------------------------------------------
(* Where the pager is in its loops, and the types of its tables             *)

TableTypes ==
    /\ minusOne \in BOOLEAN
    /\ LAST_PC \in [Slots -> PageNos]
    /\ CTRL_FLOW \in [Slots -> [PageNos -> Seq(Entry)]]
    /\ seen \in [Slots -> [PageNos -> [PageNos -> Nat]]]

LoopTypes ==
    /\ loop \in {"learn", "bring", "fetch"} /\ proc \in Slots /\ entry \in Nat
    /\ phase # "call" => loop = "learn" /\ proc = 1
    /\ entry > 0 => phase = "call" /\ loop = "fetch" /\ Running(proc)

PredictTypes == TableTypes /\ LoopTypes

TablesRight == \A i \in Slots, p \in PageNos : RowRight(CTRL_FLOW[i][p], seen[i][p])

PredictInv == SimInv /\ PredictTypes /\ TablesRight

LEMMA ProcMoves ==
    ASSUME proc \in Slots, NEW next, NextProc(next)
    PROVE  /\ entry' = 0 /\ proc' \in Slots
           /\ \/ proc' = proc + 1 /\ UNCHANGED <<loop, phase, turn>>
              \/ proc' = 1 /\ loop' = next /\ next # "learn" /\ UNCHANGED <<phase, turn>>
              \/ proc' = 1 /\ loop' = next /\ next = "learn" /\ PagerReturns
BY Sizes DEF NextProc, Slots

\* The page a process is on, and the page ahead of it.
LEMMA PagesAhead ==
    ASSUME SimTypeOK, NEW i \in Slots, Running(i)
    PROVE  Needed(processes[i]) \in PageNos /\ Ahead(processes[i]) \in PageNos
<1> DEFINE j == processes[i]
<1>1. j \in Jobs /\ Needed(j) \in PageNos
  BY RunningJob, NeededPage
<1>2. path[j] \in Paths /\ path[j] \in Seq(PageNos) /\ pc[j] \in DOMAIN path[j]
  BY <1>1, PathsAssumption DEF SimTypeOK
<1>3. At(j) = "late" => Needed(j) + 1 \in PageNos
  BY <1>2, PlacesAssumption DEF At, Needed
<1> QED BY <1>1, <1>3 DEF Ahead

LEMMA FetchedPage ==
    ASSUME SimTypeOK, PredictTypes, FetchesPredicted
    PROVE  Running(proc) /\ RowAhead[entry].PG_NUM \in PageNos
<1>1. Running(proc) /\ proc \in Slots
  BY DEF FetchesPredicted, PredictTypes, LoopTypes
<1>2. RowAhead \in Seq(Entry)
  BY <1>1, PagesAhead DEF RowAhead, PredictTypes, TableTypes
<1>3. RowAhead[entry] \in Entry
  BY <1>2 DEF FetchesPredicted, PredictTypes, LoopTypes
<1> QED BY <1>1, <1>3 DEF Entry

\* The pager calls the simulator as any pager may.
LEMMA PredictCall ==
    ASSUME SimInv, PredictTypes, pageit
    PROVE  AnyCall \/ UNCHANGED simVars
<1>1. /\ SimTypeOK /\ proc \in Slots /\ turn \in Slots
      /\ \A i \in Slots : LAST_PC[i] \in PageNos
  BY DEF SimInv, SimTypeOK, PredictTypes, TableTypes, LoopTypes
<1>2. \A next : NextProc(next) =>
         PagerReturns \/ (UNCHANGED phase /\ turn' \in {turn, turn + 1} \cap Slots)
  BY <1>1, ProcMoves
<1>3. CASE LearnsNothing \/ ExchangesEntries
  BY <1>3 DEF LearnsNothing, ExchangesEntries
<1>4. CASE Learns
  <2>1. \E i \in Slots, p \in PageNos : pagein(i, p) \/ pageout(i, p)
    BY <1>1, <1>4, IdleCall DEF Learns
  <2> QED BY <1>2, <1>4, <2>1 DEF Learns, AnyCall
<1>5. CASE BringsNeeded
  <2>1. Needed(processes[proc]) \in PageNos
    BY <1>1, <1>5, PagesAhead DEF BringsNeeded
  <2> QED BY <1>1, <1>2, <1>5, <2>1 DEF BringsNeeded, AnyCall
<1>6. CASE FetchesPredicted
  <2>1. RowAhead[entry].PG_NUM \in PageNos
    BY <1>1, <1>6, FetchedPage
  <2> QED BY <1>1, <1>6, <2>1 DEF FetchesPredicted, AnyCall
<1>7. CASE RowFetched \/ SkipsInactive
  BY <1>2, <1>7, IdleCall DEF RowFetched, SkipsInactive, AnyCall
<1> QED BY <1>3, <1>4, <1>5, <1>6, <1>7 DEF pageit

LEMMA PredictAny ==
    SimInv /\ PredictTypes /\ [PredictNext]_predVars => [AnyNext]_simVars
BY PredictCall DEF PredictNext, AnyNext, predVars

\* The steps between two calls of the pager leave it at the start of its loops.
LEMMA OutsideCalls ==
    ASSUME SimInv, PredictInv, Step \/ allage \/ Ended, UNCHANGED <<tables, loop, proc, entry>>
    PROVE  PredictTypes' /\ TablesRight'
<1>1. phase # "call"
  BY DEF Step, StepBlocked, StepComputes, StepExits, StepVacant, allage, Ended
<1>2. loop = "learn" /\ proc = 1 /\ entry = 0
  BY <1>1 DEF PredictInv, PredictTypes, TableTypes, LoopTypes
<1> QED BY <1>2 DEF PredictInv, PredictTypes, TableTypes, LoopTypes, TablesRight, tables

LEMMA CountGrows ==
    ASSUME NEW f \in [Slots -> [PageNos -> [PageNos -> Nat]]],
           NEW i \in Slots, NEW p \in PageNos, NEW q \in PageNos
    PROVE  [f EXCEPT ![i][p][q] = @ + 1] \in [Slots -> [PageNos -> [PageNos -> Nat]]]
<1>1. f[i] \in [PageNos -> [PageNos -> Nat]] /\ f[i][p] \in [PageNos -> Nat]
  OBVIOUS
<1> DEFINE row == [f[i][p] EXCEPT ![q] = @ + 1]
           table == [f[i] EXCEPT ![p] = row]
<1>2. row \in [PageNos -> Nat]
  BY <1>1
<1>3. [f EXCEPT ![i][p][q] = @ + 1] = [f EXCEPT ![i] = table]
  OBVIOUS
<1> HIDE DEF row
<1>4. table \in [PageNos -> [PageNos -> Nat]]
  BY <1>1, <1>2
<1> HIDE DEF table
<1>5. [f EXCEPT ![i] = table] \in [Slots -> [PageNos -> [PageNos -> Nat]]]
  BY <1>4
<1> QED BY <1>3, <1>5

LEMMA CallKeepsTypes == ASSUME PredictInv, pageit PROVE PredictTypes'
<1>1. /\ SimInv /\ SimTypeOK /\ PredictTypes /\ TablesRight
      /\ proc \in Slots /\ phase = "call"
      /\ UNCHANGED <<minusOne, processes, active>>
  BY DEF PredictInv, SimInv, PredictTypes, TableTypes, LoopTypes, pageit, LearnsNothing, Learns, BringsNeeded,
         ExchangesEntries, FetchesPredicted, RowFetched, SkipsInactive, tables, simVars
<1>2. 1 \in Slots
  BY Sizes DEF Slots
<1>3. LoopTypes'
  <2>1. ASSUME NEW next \in {"learn", "bring", "fetch"}, NextProc(next)
        PROVE  LoopTypes'
    BY <1>1, <1>2, <2>1, ProcMoves DEF PagerReturns, PredictTypes, LoopTypes
  <2>2. CASE LearnsNothing
    BY <1>1, <1>2, <2>2 DEF LearnsNothing, simVars, PredictTypes, TableTypes, LoopTypes
  <2>3. CASE Learns \/ BringsNeeded \/ RowFetched
    BY <2>1, <2>3 DEF Learns, BringsNeeded, RowFetched
  <2>4. CASE SkipsInactive
    BY <2>1, <2>4 DEF SkipsInactive
  <2>5. CASE ExchangesEntries
    BY <1>1, <2>5 DEF ExchangesEntries, simVars, Running, PredictTypes, LoopTypes
  <2>6. CASE FetchesPredicted
    BY <1>1, <2>6 DEF FetchesPredicted, PredictTypes, TableTypes, LoopTypes, Running
  <2> QED BY <2>2, <2>3, <2>4, <2>5, <2>6 DEF pageit
<1>4. TableTypes'
  <2>1. CASE Learns
    <3> DEFINE last == LAST_PC[proc]
               curr == Needed(processes[proc])
    <3>1. last \in PageNos /\ curr \in PageNos
      BY <1>1, <2>1, PagesAhead DEF Learns, PredictTypes, TableTypes, LoopTypes
    <3>2. LAST_PC' \in [Slots -> PageNos]
      BY <1>1, <2>1, <3>1 DEF Learns, PredictTypes, TableTypes, LoopTypes
    <3>3. CASE curr = last
      BY <1>1, <2>1, <3>2, <3>3 DEF Learns, PredictTypes, TableTypes, LoopTypes
    <3>4. CASE curr # last
      <4>1. RowRight(Counted(CTRL_FLOW[proc][last], curr),
                     [seen[proc][last] EXCEPT ![curr] = @ + 1])
        BY <1>1, <3>1, CountedRight DEF PredictTypes, TableTypes, LoopTypes, TablesRight
      <4>2. Counted(CTRL_FLOW[proc][last], curr) \in Seq(Entry)
        BY <4>1 DEF RowRight
      <4>3. CTRL_FLOW' = [CTRL_FLOW EXCEPT ![proc][last] = Counted(@, curr)]
        BY <2>1, <3>4 DEF Learns
      <4>4. CTRL_FLOW' \in [Slots -> [PageNos -> Seq(Entry)]]
        <5> HIDE DEF last, curr
        <5> QED BY <1>1, <3>1, <4>2, <4>3 DEF PredictTypes, TableTypes, LoopTypes
      <4>5. seen' = [seen EXCEPT ![proc][last][curr] = @ + 1]
        BY <2>1, <3>4 DEF Learns
      <4>6. seen' \in [Slots -> [PageNos -> [PageNos -> Nat]]]
        <5>1. seen \in [Slots -> [PageNos -> [PageNos -> Nat]]]
          BY <1>1 DEF PredictTypes, TableTypes
        <5> HIDE DEF last, curr
        <5> QED BY <1>1, <3>1, <4>5, <5>1, CountGrows
      <4> QED BY <1>1, <3>2, <4>4, <4>6 DEF PredictTypes, TableTypes
    <3> QED BY <3>3, <3>4
  <2>2. CASE ExchangesEntries
    <3> DEFINE row == Ahead(processes[proc])
               changed == Exchanged(CTRL_FLOW[proc][row], TMSTMP[proc]).row
    <3>1. row \in PageNos
      BY <1>1, <2>2, PagesAhead DEF ExchangesEntries
    <3>2. RowRight(changed, seen[proc][row])
      BY <1>1, <3>1, ExchangedRight DEF TablesRight
    <3>3. changed \in Seq(Entry)
      BY <3>2 DEF RowRight
    <3>4. /\ CTRL_FLOW' = [CTRL_FLOW EXCEPT ![proc][row] = changed]
          /\ UNCHANGED <<LAST_PC, seen>>
      BY <2>2 DEF ExchangesEntries
    <3> HIDE DEF row, changed
    <3> QED BY <1>1, <3>1, <3>3, <3>4 DEF PredictTypes, TableTypes, LoopTypes
  <2>3. CASE ~Learns /\ ~ExchangesEntries
    <3>1. UNCHANGED <<LAST_PC, CTRL_FLOW, seen>>
      BY <2>3 DEF pageit, LearnsNothing, BringsNeeded, FetchesPredicted, RowFetched,
                  SkipsInactive, tables
    <3> QED BY <1>1, <3>1 DEF PredictTypes, TableTypes, LoopTypes
  <2> QED BY <2>1, <2>2, <2>3
<1> QED BY <1>1, <1>3, <1>4 DEF PredictTypes, TableTypes, LoopTypes

LEMMA CallKeepsTables == ASSUME PredictInv, pageit PROVE TablesRight'
<1>1. SimTypeOK /\ PredictTypes /\ TablesRight /\ proc \in Slots
  BY DEF PredictInv, SimInv, PredictTypes, TableTypes, LoopTypes
<1>2. CASE Learns
  <2> DEFINE last == LAST_PC[proc]
             curr == Needed(processes[proc])
  <2>1. last \in PageNos /\ curr \in PageNos
    BY <1>1, <1>2, PagesAhead DEF Learns, PredictTypes, TableTypes, LoopTypes
  <2>2. CASE curr = last
    BY <1>1, <1>2, <2>2 DEF Learns, TablesRight
  <2>3. CASE curr # last
    <3>1. RowRight(Counted(CTRL_FLOW[proc][last], curr),
                   [seen[proc][last] EXCEPT ![curr] = @ + 1])
      BY <1>1, <2>1, CountedRight DEF PredictTypes, TableTypes, LoopTypes, TablesRight
    <3>2. CTRL_FLOW' = [CTRL_FLOW EXCEPT ![proc][last] = Counted(@, curr)]
      BY <1>2, <2>3 DEF Learns
    <3>3. seen' = [seen EXCEPT ![proc][last][curr] = @ + 1]
      BY <1>2, <2>3 DEF Learns
    <3> HIDE DEF last, curr
    <3>4. \A i \in Slots, p \in PageNos :
             /\ CTRL_FLOW'[i][p] = IF i = proc /\ p = last
                                   THEN Counted(CTRL_FLOW[proc][last], curr)
                                   ELSE CTRL_FLOW[i][p]
             /\ seen'[i][p] = IF i = proc /\ p = last
                              THEN [seen[proc][last] EXCEPT ![curr] = @ + 1]
                              ELSE seen[i][p]
      BY <1>1, <2>1, <3>2, <3>3 DEF PredictTypes, TableTypes, LoopTypes
    <3> QED BY <1>1, <3>1, <3>4 DEF TablesRight
  <2> QED BY <2>2, <2>3
<1>3. CASE ExchangesEntries
  <2> DEFINE row == Ahead(processes[proc])
             changed == Exchanged(CTRL_FLOW[proc][row], TMSTMP[proc]).row
  <2>1. row \in PageNos
    BY <1>1, <1>3, PagesAhead DEF ExchangesEntries
  <2>2. RowRight(changed, seen[proc][row])
    BY <1>1, <2>1, ExchangedRight DEF TablesRight
  <2>3. /\ CTRL_FLOW' = [CTRL_FLOW EXCEPT ![proc][row] = changed]
        /\ seen' = seen
    BY <1>3 DEF ExchangesEntries
  <2> HIDE DEF row, changed
  <2>4. \A i \in Slots, p \in PageNos :
           CTRL_FLOW'[i][p] = IF i = proc /\ p = row THEN changed ELSE CTRL_FLOW[i][p]
    BY <1>1, <2>1, <2>3 DEF PredictTypes, TableTypes, LoopTypes
  <2> QED BY <1>1, <2>2, <2>3, <2>4 DEF TablesRight
<1>4. CASE ~Learns /\ ~ExchangesEntries
  <2>1. UNCHANGED <<CTRL_FLOW, seen>>
    BY <1>4 DEF pageit, LearnsNothing, BringsNeeded, FetchesPredicted, RowFetched,
                SkipsInactive, tables
  <2> QED BY <1>1, <2>1 DEF TablesRight
<1> QED BY <1>2, <1>3, <1>4

LEMMA PredictStarts == PredictInit => PredictInv
<1> SUFFICES ASSUME PredictInit PROVE PredictInv
  OBVIOUS
<1>1. SimInv /\ phase = "step"
  BY SimInit DEF PredictInit, Init
<1>2. 1 \in Slots /\ 0 \in PageNos
  BY Sizes, SizesAssumption DEF Slots, PageNos
<1>3. << >> \in Seq(Entry)
  OBVIOUS
<1>4. PredictTypes
  BY <1>1, <1>2, <1>3 DEF PredictInit, PredictTypes, TableTypes, LoopTypes
<1>5. \A i \in Slots, p \in PageNos : /\ CTRL_FLOW[i][p] = << >>
                                      /\ \A q \in PageNos : seen[i][p][q] = 0
  BY DEF PredictInit
<1>6. TablesRight
  <2>1. ASSUME NEW i \in Slots, NEW p \in PageNos
        PROVE  RowRight(<< >>, seen[i][p])
    <3>1. \A q \in PageNos : ~ (seen[i][p][q] > 0)
      BY <1>5
    <3>2. DOMAIN << >> = {}
      OBVIOUS
    <3> QED BY <1>3, <3>1, <3>2 DEF RowRight
  <2> QED BY <1>5, <2>1 DEF TablesRight
<1> QED BY <1>1, <1>4, <1>6 DEF PredictInv

LEMMA PredictKeeps == PredictInv /\ [PredictNext]_predVars => PredictInv'
<1> SUFFICES ASSUME PredictInv, [PredictNext]_predVars PROVE PredictInv'
  OBVIOUS
<1>1. SimInv'
  BY PredictAny, SimNext DEF PredictInv
<1>2. CASE pageit
  BY <1>1, <1>2, CallKeepsTypes, CallKeepsTables DEF PredictInv
<1>3. CASE (Step \/ allage \/ Ended) /\ UNCHANGED <<tables, loop, proc, entry>>
  BY <1>1, <1>3, OutsideCalls DEF PredictInv
<1>4. CASE UNCHANGED predVars
  BY <1>1, <1>4 DEF predVars, simVars, tables, PredictInv, PredictTypes, TableTypes, LoopTypes, TablesRight,
                    Running
<1> QED BY <1>2, <1>3, <1>4 DEF PredictNext

\* The loops and tables of the pager keep their types, and each row of the table is
\* right for what was seen.
THEOREM PredictInvariance == PredictSpec => []PredictInv
BY PredictStarts, PredictKeeps, PTL DEF PredictSpec

\* The predictive pager is one of the pagers the simulator is right with: all that is
\* proved of AnySpec (frames, queue, page protocol, every job run) holds with it.
THEOREM PredictIsAnyPager == PredictSpec => AnySpec
<1>1. PredictInit => Init
  BY DEF PredictInit
<1>2. PredictInv /\ [PredictNext]_predVars => [AnyNext]_simVars
  BY PredictAny DEF PredictInv
<1> QED BY <1>1, <1>2, PredictInvariance, PTL DEF PredictSpec, AnySpec
------------------------------------------------------------------------------
(* What the table says                                                      *)

\* A row that is right is the set of the pages seen, each with its count.
LEMMA RowCounts ==
    ASSUME NEW cnt \in [PageNos -> Nat], NEW row, RowRight(row, cnt)
    PROVE  /\ ToSet(row) = {[PG_NUM |-> q, FREQ |-> cnt[q]] : q \in {x \in PageNos : cnt[x] > 0}}
           /\ Len(row) = Cardinality(ToSet(row))
<1>1. /\ row \in Seq(Entry) /\ DOMAIN row = 1 .. Len(row) /\ Len(row) \in Nat
      /\ \A n \in DOMAIN row : row[n] \in Entry
  <2>1. row \in Seq(Entry)
    BY DEF RowRight
  <2> QED BY <2>1
<1>2. ToSet(row) = {row[n] : n \in DOMAIN row}
  BY DEF ToSet
<1>3. \A x \in Entry : x.PG_NUM \in PageNos /\ x = [PG_NUM |-> x.PG_NUM, FREQ |-> x.FREQ]
  BY DEF Entry
<1> DEFINE R == {[PG_NUM |-> q, FREQ |-> cnt[q]] : q \in {x \in PageNos : cnt[x] > 0}}
<1>4. ASSUME NEW n \in DOMAIN row PROVE row[n] \in R
  <2>1. /\ row[n].PG_NUM \in PageNos /\ cnt[row[n].PG_NUM] > 0
        /\ row[n].FREQ = cnt[row[n].PG_NUM]
    BY <1>1, <1>3 DEF RowRight
  <2>2. row[n] = [PG_NUM |-> row[n].PG_NUM, FREQ |-> cnt[row[n].PG_NUM]]
    BY <1>1, <1>3, <2>1
  <2> QED BY <2>1, <2>2
<1>5. ASSUME NEW q \in PageNos, cnt[q] > 0
      PROVE  \E n \in DOMAIN row : row[n] = [PG_NUM |-> q, FREQ |-> cnt[q]]
  <2>1. PICK n \in DOMAIN row : row[n].PG_NUM = q
    BY <1>5 DEF RowRight
  <2>2. row[n].FREQ = cnt[q]
    BY <2>1 DEF RowRight
  <2> QED BY <1>1, <1>3, <2>1, <2>2
<1>6. ToSet(row) = R
  BY <1>2, <1>4, <1>5
<1>7. Len(row) = Cardinality(ToSet(row))
  <2> DEFINE g == [n \in 1 .. Len(row) |-> row[n]]
  <2>1. \A n, m \in 1 .. Len(row) : row[n] = row[m] => n = m
    BY <1>1 DEF RowRight
  <2>2. g \in Bijection(1 .. Len(row), ToSet(row))
    BY <1>1, <1>2, <2>1 DEF Bijection, Injection, Surjection, IsInjective
  <2>3. IsFiniteSet(1 .. Len(row)) /\ Cardinality(1 .. Len(row)) = Len(row)
    <3>1. \A m \in Nat : IsFiniteSet(1 .. m) /\ Cardinality(1 .. m) = m
      BY FS_Interval
    <3> QED BY <1>1, <3>1
  <2> QED BY <2>2, <2>3, FS_Bijection DEF ExistsBijection
<1> QED BY <1>6, <1>7

\* The table counts exactly the changes of page that were noticed, however the
\* entries changed places and whichever processes used the processor before.
THEOREM CountsKept == PredictSpec => []CountsRight
<1>1. PredictInv => CountsRight
  <2> SUFFICES ASSUME PredictInv, NEW i \in Slots, NEW p \in PageNos
               PROVE  /\ ToSet(CTRL_FLOW[i][p]) =
                            {[PG_NUM |-> q, FREQ |-> seen[i][p][q]] :
                                q \in {x \in PageNos : seen[i][p][x] > 0}}
                      /\ Len(CTRL_FLOW[i][p]) = Cardinality(ToSet(CTRL_FLOW[i][p]))
    BY DEF CountsRight
  <2>1. seen[i][p] \in [PageNos -> Nat] /\ RowRight(CTRL_FLOW[i][p], seen[i][p])
    BY DEF PredictInv, PredictTypes, TableTypes, TablesRight
  <2> QED BY <2>1, RowCounts
<1> QED BY <1>1, PredictInvariance, PTL
------------------------------------------------------------------------------
(* What a call of the pager does not touch                                  *)

\* A pagein takes no page away.
LEMMA PageinKeeps ==
    ASSUME SimInv, NEW i \in Slots, NEW p \in PageNos, pagein(i, p),
           NEW j \in Jobs, NEW q \in PageNos, pages[j][q] >= 0
    PROVE  pages'[j][q] >= 0
<1>1. pages \in [Jobs -> [PageNos -> Out .. PAGEWAIT]]
  BY DEF SimInv, SimTypeOK
<1>2. Running(i) => processes[i] \in Jobs
  BY RunningJob DEF SimInv
<1>3. CASE UNCHANGED pages
  BY <1>3
<1>4. CASE ~ UNCHANGED pages
  <2>1. /\ Running(i) /\ pages' = [pages EXCEPT ![processes[i]][p] = PAGEWAIT]
    BY <1>4, PageinEffect
  <2>2. pages'[j][q] = IF j = processes[i] /\ q = p THEN PAGEWAIT ELSE pages[j][q]
    BY <1>1, <1>2, <2>1
  <2> QED BY <2>2, Sizes
<1> QED BY <1>3, <1>4

\* Two processors run two jobs.
LEMMA OneEach ==
    ASSUME QueueInv, NEW i \in Slots, NEW k \in Slots, Running(i),
           processes[i] = processes[k]
    PROVE  i = k
BY DEF QueueInv, Running

\* LAST_PC may be the pc of another process, or an old one: still no step of the pager
\* throws out the page a process is on, neither its own nor that of another processor.
LEMMA NeededKept ==
    ASSUME PredictInv, [PredictNext]_predVars, phase = "call",
           NEW i \in Slots, Running(i), pages[processes[i]][Needed(processes[i])] >= 0
    PROVE  pages'[processes[i]][Needed(processes[i])] >= 0
<1> DEFINE j == processes[i]
           q == Needed(j)
<1>1. /\ SimInv /\ SimTypeOK /\ QueueInv /\ proc \in Slots
      /\ j \in Jobs /\ q \in PageNos
      /\ pages \in [Jobs -> [PageNos -> Out .. PAGEWAIT]]
  BY RunningJob, NeededPage DEF PredictInv, SimInv, SimTypeOK, PredictTypes, LoopTypes
<1>2. CASE UNCHANGED pages
  BY <1>2
<1>3. CASE Learns /\ ~ UNCHANGED pages
  <2> DEFINE last == LAST_PC[proc]
  <2>1. last # Needed(processes[proc]) /\ last \in PageNos /\ pageout(proc, last)
    BY <1>1, <1>3 DEF Learns, PredictInv, PredictTypes, TableTypes
  <2>2. /\ Running(proc) /\ processes[proc] \in Jobs
        /\ pages' = [pages EXCEPT ![processes[proc]][last] = -1]
    BY <1>1, <1>3, <2>1, PageoutEffect, RunningJob
  <2>3. processes[proc] = j => last # q
    BY <1>1, <2>1, OneEach
  <2> HIDE DEF last, q, j
  <2>4. pages'[j][q] = pages[j][q]
    BY <1>1, <2>1, <2>2, <2>3
  <2> QED BY <2>4 DEF j, q
<1>4. CASE BringsNeeded
  <2>1. Needed(processes[proc]) \in PageNos /\ pagein(proc, Needed(processes[proc]))
    BY <1>1, <1>4, RunningJob, NeededPage DEF BringsNeeded
  <2> QED BY <1>1, <2>1, PageinKeeps
<1>5. CASE FetchesPredicted
  <2>1. RowAhead[entry].PG_NUM \in PageNos /\ pagein(proc, RowAhead[entry].PG_NUM)
    BY <1>1, <1>5, FetchedPage DEF FetchesPredicted, PredictInv
  <2> QED BY <1>1, <2>1, PageinKeeps
<1>6. CASE ~(Learns \/ BringsNeeded \/ FetchesPredicted)
  BY <1>6 DEF PredictNext, pageit, LearnsNothing, ExchangesEntries, RowFetched, SkipsInactive,
              Step, StepBlocked, StepComputes, StepExits, StepVacant, allage, Ended,
              predVars, simVars
<1> QED BY <1>2, <1>3, <1>4, <1>5, <1>6

\* The pager never throws out the page a process is on.
THEOREM NeededStaysIn == PredictSpec => NeededStays
<1>1. PredictInv /\ [PredictNext]_predVars =>
         [phase = "call" =>
             \A i \in Slots : Running(i) =>
                 LET j == processes[i]
                 IN  pages[j][Needed(j)] >= 0 => pages'[j][Needed(j)] >= 0]_predVars
  BY NeededKept
<1> QED BY <1>1, PredictInvariance, PTL DEF PredictSpec, NeededStays
------------------------------------------------------------------------------
(* A frame for each process that waits for one                              *)

\* LAST_PC of a process is the page it is on: for those the first loop has come by in
\* this call, and until they take a step that leaves the page.
LearnsToLast ==
    /\ phase = "step" => \A i \in Slots :
          (i >= turn /\ Running(i) /\ PageAt(i, Needed(processes[i])) = 0)
             => LAST_PC[i] = Needed(processes[i])
    /\ phase = "call" => \A i \in Slots :
          (Running(i) /\ (loop = "learn" => i < proc)) => LAST_PC[i] = Needed(processes[i])

\* While there are frames left, the second loop has brought in, or found on the way in
\* or out, the page of each process it has come by.
Served ==
    phase = "call" /\ pagesavail # 0 => \A i \in Slots :
       (Running(i) /\ (loop = "fetch" \/ (loop = "bring" /\ i < proc)))
          => PageAt(i, Needed(processes[i])) >= -PAGEWAIT

Enough == pagesavail + Cardinality(Going) + Cardinality(Left) >= Cardinality(Waiting)

FrameForEach == ~minusOne => LearnsToLast /\ Served /\ Enough

LEMMA SlotSets ==
    /\ \A S \in SUBSET Slots : IsFiniteSet(S) /\ Cardinality(S) \in Nat
    /\ \A S, T \in SUBSET Slots : S \subseteq T => Cardinality(S) <= Cardinality(T)
    /\ \A S \in SUBSET Slots, x \in Slots :
          Cardinality(S \cup {x}) = IF x \in S THEN Cardinality(S) ELSE Cardinality(S) + 1
<1>1. IsFiniteSet(Slots)
  BY Sizes, FS_Interval DEF Slots
<1>2. \A S \in SUBSET Slots : IsFiniteSet(S) /\ Cardinality(S) \in Nat
  BY <1>1, FS_Subset, FS_CardinalityType
<1>3. ASSUME NEW S \in SUBSET Slots, NEW T \in SUBSET Slots, S \subseteq T
      PROVE  Cardinality(S) <= Cardinality(T)
  BY <1>2, <1>3, FS_Subset
<1>4. ASSUME NEW S \in SUBSET Slots, NEW x \in Slots
      PROVE  Cardinality(S \cup {x}) = IF x \in S THEN Cardinality(S) ELSE Cardinality(S) + 1
  BY <1>2, FS_AddElement
<1> QED BY <1>2, <1>3, <1>4

LEMMA OneMore ==
    ASSUME NEW S \in SUBSET Slots, NEW T \in SUBSET Slots, NEW x \in Slots, x \notin S
    PROVE  /\ T \subseteq S \cup {x} => Cardinality(T) <= Cardinality(S) + 1
           /\ S \cup {x} \subseteq T => Cardinality(S) + 1 <= Cardinality(T)
<1>1. S \cup {x} \in SUBSET Slots /\ Cardinality(S \cup {x}) = Cardinality(S) + 1
  BY SlotSets
<1> QED BY <1>1, SlotSets

LEMMA SetsOfSlots == /\ Waiting \in SUBSET Slots /\ Left \in SUBSET Slots
                     /\ Going \in SUBSET (Jobs \X PageNos)
BY DEF Waiting, Left, Going, Occupied

LEMMA SetsOfSlotsNext == /\ Waiting' \in SUBSET Slots /\ Left' \in SUBSET Slots
                         /\ Going' \in SUBSET (Jobs \X PageNos)
BY DEF Waiting, Left, Going, Occupied

LEMMA SlotCounts ==
    /\ Cardinality(Waiting) \in Nat /\ Cardinality(Left) \in Nat
    /\ Cardinality(Waiting') \in Nat /\ Cardinality(Left') \in Nat
    /\ Cardinality(Going) \in Nat /\ Cardinality(Going') \in Nat
BY SetsOfSlots, SetsOfSlotsNext, SlotSets, OccupiedFinite

\* Nothing changes for the running processes.
LEMMA SameSets ==
    ASSUME \A i \in Slots : /\ Running(i)' <=> Running(i)
                            /\ Running(i) => /\ processes'[i] = processes[i]
                                             /\ Needed(processes[i])' = Needed(processes[i]),
           UNCHANGED <<pages, LAST_PC>>
    PROVE  Waiting' = Waiting /\ Going' = Going /\ Left' = Left
<1>1. Waiting' = Waiting
  BY DEF Waiting, PageAt
<1>2. Left' = Left
  BY DEF Left, PageAt
<1>3. Going' = Going
  BY DEF Going, Occupied
<1> QED BY <1>1, <1>2, <1>3

LEMMA SameProcesses ==
    ASSUME UNCHANGED procVars
    PROVE  \A i \in Slots : /\ Running(i)' <=> Running(i)
                            /\ processes'[i] = processes[i]
                            /\ Needed(processes[i])' = Needed(processes[i])
BY DEF Running, Needed

\* A step of one processor leaves the others as they are.
LEMMA StepLearns ==
    ASSUME LearnsToLast, turn \in Slots, phase = "step", StepsNext, UNCHANGED LAST_PC,
           \A i \in Slots \ {turn} :
              /\ Running(i)' <=> Running(i)
              /\ Running(i) => /\ Needed(processes[i])' = Needed(processes[i])
                               /\ PageAt(i, Needed(processes[i]))' = PageAt(i, Needed(processes[i]))
    PROVE  LearnsToLast' /\ Served'
<1>1. CASE turn = Procs
  BY <1>1 DEF StepsNext, LearnsToLast, Served
<1>2. CASE turn # Procs
  <2>1. phase' = "step" /\ turn' = turn + 1
    BY <1>2 DEF StepsNext
  <2>2. \A i \in Slots : i >= turn + 1 => i >= turn /\ i # turn
    BY DEF Slots
  <2>3. ASSUME NEW i \in Slots, i >= turn', Running(i)',
               PageAt(i, Needed(processes[i]))' = 0
        PROVE  LAST_PC'[i] = Needed(processes[i])'
    <3>1. i >= turn /\ i # turn
      BY <2>1, <2>2, <2>3
    <3> QED BY <2>3, <3>1 DEF LearnsToLast
  <2> QED BY <2>1, <2>3 DEF LearnsToLast, Served
<1> QED BY <1>1, <1>2

LEMMA FrameBlocked ==
    ASSUME SimInv, FrameForEach, ~minusOne, StepBlocked, UNCHANGED LAST_PC
    PROVE  LearnsToLast' /\ Served' /\ Enough'
<1>1. /\ LearnsToLast /\ Enough /\ turn \in Slots /\ phase = "step" /\ StepsNext
      /\ UNCHANGED procVars /\ UNCHANGED <<pages, pagesavail>>
  BY DEF FrameForEach, StepBlocked, SimInv, SimTypeOK
<1>2. LearnsToLast' /\ Served'
  BY <1>1, SameProcesses, StepLearns DEF PageAt
<1>3. Waiting' = Waiting /\ Going' = Going /\ Left' = Left
  BY <1>1, SameProcesses, SameSets
<1> QED BY <1>1, <1>2, <1>3 DEF Enough

\* A vacant processor stays so: the queue is empty.
LEMMA FrameVacant ==
    ASSUME SimInv, FrameForEach, ~minusOne, StepVacant, UNCHANGED LAST_PC
    PROVE  LearnsToLast' /\ Served' /\ Enough'
<1>1. /\ LearnsToLast /\ Enough /\ turn \in Slots /\ phase = "step" /\ StepsNext
      /\ UNCHANGED <<path, active, pc, pages, pagesavail>> /\ ~Running(turn)
  BY DEF FrameForEach, StepVacant, SimInv, SimTypeOK
<1>2. queueend = QUEUESIZE /\ QUEUESIZE \in Nat
  BY <1>1, Sizes DEF SimInv, ActiveUntilEmpty
<1>3. processes' = [processes EXCEPT ![turn] = None]
  BY <1>2 DEF StepVacant, Reload
<1>4. \A i \in Slots : processes'[i] = IF i = turn THEN None ELSE processes[i]
  BY <1>3 DEF SimInv, SimTypeOK
<1>5. \A i \in Slots : /\ Running(i)' <=> Running(i)
                       /\ Running(i) => /\ processes'[i] = processes[i]
                                        /\ Needed(processes[i])' = Needed(processes[i])
  BY <1>1, <1>4 DEF Running, Needed
<1>6. LearnsToLast' /\ Served'
  <2>1. \A i \in Slots \ {turn} : Running(i) =>
           PageAt(i, Needed(processes[i]))' = PageAt(i, Needed(processes[i]))
    BY <1>1, <1>5 DEF PageAt
  <2> QED BY <1>1, <1>5, <2>1, StepLearns
<1>7. Waiting' = Waiting /\ Going' = Going /\ Left' = Left
  BY <1>1, <1>5, SameSets
<1> QED BY <1>1, <1>6, <1>7 DEF Enough

\* One process more waits for its page: the page it left is one the pager will notice.
LEMMA FrameComputes ==
    ASSUME SimInv, LAST_PC \in [Slots -> PageNos],
           FrameForEach, ~minusOne, StepComputes, UNCHANGED LAST_PC,
           NEW n \in Slots, n = turn, NEW j \in Jobs, j = processes[n]
    PROVE  LearnsToLast' /\ Served' /\ Enough'
<1>1. /\ LearnsToLast /\ Enough /\ turn \in Slots /\ phase = "step" /\ StepsNext
      /\ UNCHANGED <<path, processes, active, pages, pagesavail>> /\ Running(n)
      /\ PageAt(n, Needed(j)) = 0
      /\ pc' = [pc EXCEPT ![j] = @ + 1] /\ pc \in [Jobs -> Nat]
      /\ pagesavail \in Nat
  BY Sizes DEF FrameForEach, StepComputes, SimInv, SimTypeOK, PageAt
<1>2. \A i \in Slots \ {n} : Running(i) => processes[i] # j /\ processes[i] \in Jobs
  BY <1>1, OneEach, RunningJob DEF SimInv
<1>3. \A i \in Slots : Running(i)' <=> Running(i)
  BY <1>1 DEF Running
<1>4. \A i \in Slots \ {n} : Running(i) =>
         /\ Needed(processes[i])' = Needed(processes[i])
         /\ PageAt(i, Needed(processes[i]))' = PageAt(i, Needed(processes[i]))
  BY <1>1, <1>2 DEF Needed, PageAt
<1>5. LearnsToLast' /\ Served'
  BY <1>1, <1>3, <1>4, StepLearns
<1>6. LAST_PC[n] = Needed(j)
  <2>1. n >= turn
    BY <1>1 DEF Slots
  <2> QED BY <1>1, <2>1 DEF LearnsToLast
<1>7. Going' = Going
  BY <1>1 DEF Going, Occupied
<1>8. n \notin Waiting /\ n \notin Left
  BY <1>1, <1>6 DEF Waiting, Left
<1>9. Waiting' \ {n} \subseteq Waiting /\ Left \subseteq Left'
  <2>1. Waiting' \ {n} \subseteq Waiting
    BY <1>3, <1>4 DEF Waiting
  <2>2. \A i \in Left : i # n /\ i \in Slots /\ Running(i)
    BY <1>8 DEF Left
  <2>3. Left \subseteq Left'
    BY <1>1, <1>3, <1>4, <2>2 DEF Left, PageAt
  <2> QED BY <2>1, <2>3
<1>10. n \in Waiting' => n \in Left'
  <2> SUFFICES ASSUME n \in Waiting' PROVE n \in Left'
    OBVIOUS
  <2>1. PageAt(n, Needed(j))' < 0
    BY <1>1 DEF Waiting
  <2>2. PageAt(n, LAST_PC[n]) = 0 /\ PageAt(n, LAST_PC[n])' = 0
    BY <1>1, <1>6 DEF PageAt
  <2>3. LAST_PC'[n] # Needed(j)'
    BY <1>1, <2>1, <2>2 DEF PageAt
  <2> QED BY <1>1, <1>3, <2>2, <2>3 DEF Left
<1>11. CASE n \in Waiting'
  <2>1. Waiting' \subseteq Waiting \cup {n} /\ Left \cup {n} \subseteq Left'
    BY <1>9, <1>10, <1>11
  <2>2. Cardinality(Waiting') <= Cardinality(Waiting) + 1
    BY <1>1, <1>8, <2>1, SetsOfSlots, SetsOfSlotsNext, OneMore
  <2>3. Cardinality(Left) + 1 <= Cardinality(Left')
    BY <1>1, <1>8, <2>1, SetsOfSlots, SetsOfSlotsNext, OneMore
  <2> QED BY <1>1, <1>5, <1>7, <2>2, <2>3, SlotCounts DEF Enough
<1>12. CASE n \notin Waiting'
  <2>1. Waiting' \subseteq Waiting
    BY <1>9, <1>12
  <2>2. Cardinality(Waiting') <= Cardinality(Waiting) /\ Cardinality(Left) <= Cardinality(Left')
    BY <1>9, <2>1, SetsOfSlots, SetsOfSlotsNext, SlotSets
  <2> QED BY <1>1, <1>5, <1>7, <2>2, SlotCounts DEF Enough
<1> QED BY <1>11, <1>12

\* The frame of the page the exit statement was on is one more than the frames of the
\* pages that were going: enough for the job that takes the processor.
LEMMA FrameExits ==
    ASSUME SimInv, LAST_PC \in [Slots -> PageNos],
           FrameForEach, ~minusOne, StepExits, UNCHANGED LAST_PC,
           NEW n \in Slots, n = turn, NEW j \in Jobs, j = processes[n]
    PROVE  LearnsToLast' /\ Served' /\ Enough'
<1> DEFINE page == Needed(j)
           gone == {k \in Going : k[1] = j}
           held == {k \in Occupied : k[1] = j}
<1>1. /\ LearnsToLast /\ Enough /\ turn \in Slots /\ phase = "step" /\ StepsNext
      /\ UNCHANGED <<path, pc>> /\ Running(n) /\ Reload(n)
      /\ PageAt(n, page) = 0 /\ pages[j][page] = 0
      /\ active' = [active EXCEPT ![j] = FALSE] /\ active \in [Jobs -> BOOLEAN]
      /\ pages' = [pages EXCEPT ![j] = [p \in PageNos |-> Out]]
      /\ pages \in [Jobs -> [PageNos -> Out .. PAGEWAIT]]
      /\ pagesavail' = pagesavail + Cardinality(FramesOf(j)) /\ pagesavail \in Nat
  BY Sizes DEF FrameForEach, StepExits, SimInv, SimTypeOK, PageAt
<1>2. \A i \in Slots \ {n} : /\ Running(i) => processes[i] # j /\ processes[i] \in Jobs
                             /\ processes'[i] = processes[i]
  BY <1>1, OneEach, RunningJob, ReloadFacts DEF SimInv
<1>3. \A i \in Slots \ {n} : Running(i)' <=> Running(i)
  <2>1. \A k \in Slots \ {n} : processes[k] # j
    BY <1>1, OneEach DEF SimInv
  <2>2. \A k \in Slots \ {n} : processes[k] # None => processes[k] \in Jobs
    BY DEF SimInv, SimTypeOK
  <2>3. \A k \in Slots \ {n} : processes[k] # None =>
           active'[processes[k]] = active[processes[k]]
    BY <1>1, <2>1, <2>2
  <2> QED BY <1>2, <2>3 DEF Running
<1>4. \A i \in Slots \ {n} : Running(i) =>
         /\ Needed(processes[i])' = Needed(processes[i])
         /\ \A p \in PageNos : PageAt(i, p)' = PageAt(i, p)
         /\ Needed(processes[i]) \in PageNos
  BY <1>1, <1>2, NeededPage DEF Needed, PageAt, SimInv
<1>5. LearnsToLast' /\ Served'
  <2>1. \A i \in Slots \ {n} : Running(i) =>
           PageAt(i, Needed(processes[i]))' = PageAt(i, Needed(processes[i]))
    BY <1>2, <1>4 DEF PageAt
  <2> QED BY <1>1, <1>3, <1>4, <2>1, StepLearns
<1>6. LAST_PC[n] = page
  <2>1. n >= turn
    BY <1>1 DEF Slots
  <2> QED BY <1>1, <2>1 DEF LearnsToLast
<1>7. n \notin Waiting /\ n \notin Left
  BY <1>1, <1>6 DEF Waiting, Left
<1>8. Waiting' \subseteq Waiting \cup {n} /\ Left \subseteq Left'
  <2>1. Waiting' \ {n} \subseteq Waiting
    BY <1>2, <1>3, <1>4 DEF Waiting, PageAt
  <2>2. \A i \in Left : i \in Slots \ {n} /\ Running(i)
    BY <1>7 DEF Left
  <2>3. Left \subseteq Left'
    BY <1>3, <1>4, <2>2 DEF Left
  <2> QED BY <2>1, <2>3
<1>9. Cardinality(Waiting') <= Cardinality(Waiting) + 1 /\ Cardinality(Left) <= Cardinality(Left')
  BY <1>7, <1>8, SetsOfSlots, SetsOfSlotsNext, OneMore, SlotSets
<1>10. Going' = Going \ gone
  <2>1. \A i \in Jobs, p \in PageNos :
           pages'[i][p] = IF i = j THEN Out ELSE pages[i][p]
    BY <1>1
  <2>2. ~ (Out >= -PAGEWAIT)
    BY Sizes DEF Out
  <2> QED BY <2>1, <2>2 DEF Going, Occupied
<1>11. Cardinality(Going') = Cardinality(Going) - Cardinality(gone)
  <2>1. IsFiniteSet(Going) /\ Going \cap gone = gone
    BY SetsOfSlots, OccupiedFinite
  <2>2. Cardinality(Going \ gone) = Cardinality(Going) - Cardinality(Going \cap gone)
    BY <2>1, FS_Difference
  <2> QED BY <1>10, <2>1, <2>2
<1>12. Cardinality(gone) + 1 <= Cardinality(FramesOf(j)) /\ Cardinality(gone) \in Nat
  <2>1. page \in PageNos
    BY NeededPage DEF SimInv
  <2>2. <<j, page>> \in held /\ <<j, page>> \notin gone /\ gone \subseteq held
    BY <1>1, <2>1, Sizes DEF Going, Occupied
  <2>3. gone \cup {<<j, page>>} \in SUBSET held
    BY <2>2
  <2>4. IsFiniteSet(gone) /\ IsFiniteSet(held) /\ Cardinality(gone) \in Nat
    BY OccupiedFinite DEF Going, Occupied
  <2>5. Cardinality(gone \cup {<<j, page>>}) = Cardinality(gone) + 1
    BY <2>2, <2>4, FS_AddElement
  <2>6. Cardinality(gone \cup {<<j, page>>}) <= Cardinality(held)
    BY <2>3, <2>4, FS_Subset
  <2>7. Cardinality(held) = Cardinality(FramesOf(j))
    BY FramesOfJob
  <2> QED BY <2>4, <2>5, <2>6, <2>7
<1>13. Cardinality(FramesOf(j)) \in Nat
  BY FramesOfJob
<1> HIDE DEF gone, page
<1> QED BY <1>1, <1>5, <1>9, <1>11, <1>12, <1>13, SlotCounts DEF Enough

\* The frames that pages have gone out of are free.
LEMMA FrameAges ==
    ASSUME SimInv, FrameForEach, ~minusOne, LoopTypes, allage, UNCHANGED <<LAST_PC, loop, proc>>,
           LAST_PC \in [Slots -> PageNos]
    PROVE  LearnsToLast' /\ Served' /\ Enough'
<1>1. /\ Enough /\ phase = "age" /\ phase' = "call" /\ loop = "learn" /\ proc = 1
      /\ UNCHANGED procVars
      /\ pagesavail' = pagesavail + Cardinality(Leaving) /\ pagesavail \in Nat
      /\ pages \in [Jobs -> [PageNos -> Out .. PAGEWAIT]]
      /\ pages' = [j \in Jobs |-> IF j \in Loaded
                                  THEN [p \in PageNos |-> Aged(pages[j][p])] ELSE pages[j]]
  BY Sizes DEF FrameForEach, allage, SimInv, SimTypeOK, LoopTypes
<1>2. \A i \in Slots : ~ (i < 1)
  BY DEF Slots
<1>3. LearnsToLast' /\ Served'
  BY <1>1, <1>2 DEF LearnsToLast, Served
<1>4. \A v \in Out .. PAGEWAIT :
         /\ Aged(v) < 0 <=> v < 0
         /\ v = 0 => Aged(v) = 0
         /\ Aged(v) >= -PAGEWAIT /\ Aged(v) < 0
               <=> v >= -PAGEWAIT /\ v < 0 /\ v # -PAGEWAIT
  BY Sizes DEF Aged, Out
<1>5. \A i \in Slots : Running(i) =>
         /\ processes[i] \in Loaded /\ processes[i] \in Jobs
         /\ Needed(processes[i]) \in PageNos
         /\ \A p \in PageNos : /\ PageAt(i, p) \in Out .. PAGEWAIT
                               /\ PageAt(i, p)' = Aged(PageAt(i, p))
  <2> SUFFICES ASSUME NEW i \in Slots, Running(i)
               PROVE  /\ processes[i] \in Loaded /\ processes[i] \in Jobs
                      /\ Needed(processes[i]) \in PageNos
                      /\ \A p \in PageNos : /\ PageAt(i, p) \in Out .. PAGEWAIT
                                            /\ PageAt(i, p)' = Aged(PageAt(i, p))
    OBVIOUS
  <2>1. processes[i] \in Loaded /\ processes[i] \in Jobs
    BY RunningJob DEF Loaded, SimInv
  <2>2. Needed(processes[i]) \in PageNos
    BY <2>1, NeededPage DEF SimInv
  <2> QED BY <1>1, <2>1, <2>2 DEF PageAt
<1>6. Waiting' = Waiting
  <2>1. \A i \in Slots : Running(i) =>
           (PageAt(i, Needed(processes[i]))' < 0 <=> PageAt(i, Needed(processes[i])) < 0)
    <3> SUFFICES ASSUME NEW i \in Slots, Running(i)
                 PROVE  PageAt(i, Needed(processes[i]))' < 0
                           <=> PageAt(i, Needed(processes[i])) < 0
      OBVIOUS
    <3>1. PageAt(i, Needed(processes[i]))' = Aged(PageAt(i, Needed(processes[i])))
      BY <1>1, <1>5, SameProcesses DEF PageAt
    <3> QED BY <1>4, <1>5, <3>1
  <2> QED BY <1>1, <2>1, SameProcesses DEF Waiting
<1>7. Left \subseteq Left'
  <2> SUFFICES ASSUME NEW i \in Left PROVE i \in Left'
    OBVIOUS
  <2>1. /\ i \in Slots /\ Running(i) /\ LAST_PC[i] # Needed(processes[i])
        /\ PageAt(i, LAST_PC[i]) = 0 /\ LAST_PC[i] \in PageNos
    BY DEF Left
  <2>2. PageAt(i, LAST_PC[i])' = 0
    BY <1>4, <1>5, <2>1 DEF PageAt
  <2> QED BY <1>1, <2>1, <2>2, SameProcesses DEF Left
<1>8. Leaving \subseteq Going
  <2>1. Loaded \subseteq Jobs
    BY RunningJob DEF Loaded, SimInv
  <2> QED BY <2>1, Sizes DEF Leaving, Going, Occupied
<1>9. Going' = Going \ Leaving
  <2> SUFFICES ASSUME NEW j \in Jobs, NEW p \in PageNos
               PROVE  pages'[j][p] >= -PAGEWAIT /\ pages'[j][p] < 0
                         <=> /\ pages[j][p] >= -PAGEWAIT /\ pages[j][p] < 0
                             /\ <<j, p>> \notin Leaving
    BY DEF Going, Occupied
  <2>1. CASE j \in Loaded
    <3>1. <<j, p>> \in Leaving <=> pages[j][p] = -PAGEWAIT
      BY <2>1 DEF Leaving
    <3>2. pages'[j][p] = Aged(pages[j][p]) /\ pages[j][p] \in Out .. PAGEWAIT
      BY <1>1, <2>1
    <3> QED BY <1>4, <3>1, <3>2
  <2>2. CASE j \notin Loaded
    BY <1>1, <2>2 DEF Leaving
  <2> QED BY <2>1, <2>2
<1>10. Cardinality(Going') = Cardinality(Going) - Cardinality(Leaving)
  <2>1. IsFiniteSet(Going) /\ Going \cap Leaving = Leaving
    BY <1>8, SetsOfSlots, OccupiedFinite
  <2>2. Cardinality(Going \ Leaving) = Cardinality(Going) - Cardinality(Going \cap Leaving)
    BY <2>1, FS_Difference
  <2> QED BY <1>9, <2>1, <2>2
<1>11. Cardinality(Leaving) \in Nat
  BY <1>8, SetsOfSlots, OccupiedFinite
<1>12. Cardinality(Left) <= Cardinality(Left')
  BY <1>7, SetsOfSlots, SetsOfSlotsNext, SlotSets
<1> QED BY <1>1, <1>3, <1>6, <1>10, <1>11, <1>12, SlotCounts DEF Enough
------------------------------------------------------------------------------
(* The calls of the pager and the frames                                    *)

\* Where the loops go on, for the processors that were come by.
LEMMA LoopMoves ==
    ASSUME proc \in Slots, NEW next, NextProc(next)
    PROVE  \/ /\ UNCHANGED <<loop, phase, turn>>
              /\ \A i \in Slots : i < proc' => i < proc \/ i = proc
           \/ /\ loop' = next /\ proc' = 1
              /\ next # "learn" => UNCHANGED <<phase, turn>>
              /\ next = "learn" => phase' # "call" /\ turn' = 1
              /\ \A i \in Slots : /\ i < proc \/ i = proc
                                  /\ ~(i < proc')
BY Sizes DEF NextProc, Slots, PagerReturns

LEMMA PredictFacts ==
    ASSUME PredictInv
    PROVE  /\ SimInv /\ SimTypeOK /\ PredictTypes /\ pagesavail \in Nat
           /\ pages \in [Jobs -> [PageNos -> Out .. PAGEWAIT]]
           /\ LAST_PC \in [Slots -> PageNos] /\ proc \in Slots
<1>1. SimTypeOK /\ PredictTypes
  BY DEF PredictInv, SimInv
<1>2. pagesavail \in Nat /\ pages \in [Jobs -> [PageNos -> Out .. PAGEWAIT]]
  BY <1>1, Sizes DEF SimTypeOK
<1>3. LAST_PC \in [Slots -> PageNos] /\ proc \in Slots
  BY <1>1 DEF PredictTypes, TableTypes, LoopTypes
<1> QED BY <1>1, <1>2, <1>3 DEF PredictInv

\* A pagein takes a free frame for a page that was out.
LEMMA PageinSets ==
    ASSUME SimInv, LAST_PC \in [Slots -> PageNos], NEW n \in Slots, NEW p \in PageNos, pagein(n, p), Running(n),
           UNCHANGED procVars, UNCHANGED LAST_PC
    PROVE  /\ Going' = Going /\ Left' = Left /\ Waiting' \subseteq Waiting
           /\ \A i \in Slots, q \in PageNos : Running(i) /\ PageAt(i, q) >= -PAGEWAIT =>
                 PageAt(i, q)' >= -PAGEWAIT
           /\ pagesavail' \in Nat
           /\ \/ pagesavail' = pagesavail
              \/ /\ pagesavail # 0 /\ pagesavail' = pagesavail - 1
                 /\ p = Needed(processes[n]) => n \in Waiting /\ n \notin Waiting'
           /\ pagesavail' # 0 => pagesavail # 0 /\ PageAt(n, p)' >= -PAGEWAIT
<1> DEFINE j == processes[n]
<1>1. /\ pages \in [Jobs -> [PageNos -> Out .. PAGEWAIT]] /\ pagesavail \in Nat
      /\ j \in Jobs /\ UNCHANGED <<path, processes, active, pc>>
  BY RunningJob, Sizes DEF SimInv, SimTypeOK
<1>2. \A i \in Slots : Running(i) => processes[i] \in Jobs /\ Needed(processes[i]) \in PageNos
  BY RunningJob, NeededPage DEF SimInv
<1>3. CASE ~PageinStarts(n, p)
  <2>1. UNCHANGED <<pages, pagesavail>>
    BY <1>3 DEF pagein
  <2>2. Going' = Going /\ Left' = Left /\ Waiting' = Waiting
    BY <1>1, <2>1, SameProcesses, SameSets
  <2>3. pagesavail # 0 => PageAt(n, p) >= -PAGEWAIT
    <3>1. PageAt(n, p) \in Out .. PAGEWAIT
      BY <1>1 DEF PageAt
    <3> QED BY <1>3, <3>1, Sizes DEF PageinStarts, Valid, Out
  <2> QED BY <1>1, <2>1, <2>2, <2>3 DEF PageAt
<1>4. CASE PageinStarts(n, p)
  <2>1. /\ pages' = [pages EXCEPT ![j][p] = PAGEWAIT] /\ pages[j][p] < -PAGEWAIT
        /\ pagesavail # 0 /\ pagesavail' = pagesavail - 1
    BY <1>4 DEF pagein, PageinStarts, PageAt
  <2>2. \A i \in Jobs, q \in PageNos :
           pages'[i][q] = IF i = j /\ q = p THEN PAGEWAIT ELSE pages[i][q]
    BY <1>1, <2>1
  <2>3. \A i \in Jobs, q \in PageNos :
           /\ pages[i][q] >= -PAGEWAIT => pages'[i][q] = pages[i][q]
           /\ pages'[i][q] < 0 => pages'[i][q] = pages[i][q]
           /\ pages'[i][q] = 0 => pages'[i][q] = pages[i][q]
    <3>1. \A v \in Out .. PAGEWAIT : v >= -PAGEWAIT => ~(v < -PAGEWAIT)
      BY Sizes DEF Out
    <3>2. ~(PAGEWAIT < 0) /\ PAGEWAIT # 0
      BY Sizes
    <3>3. \A i \in Jobs, q \in PageNos : pages[i][q] \in Out .. PAGEWAIT
      BY <1>1
    <3> QED BY <2>1, <2>2, <3>1, <3>2, <3>3
  <2>4. Going' = Going
    BY <1>1, <2>1, <2>2, <2>3, Sizes DEF Going, Occupied
  <2>5. Waiting' \subseteq Waiting
    BY <1>1, <1>2, <2>3, SameProcesses DEF Waiting, PageAt
  <2>6. Left' = Left
    <3>1. \A i \in Slots : LAST_PC[i] \in PageNos
      OBVIOUS
    <3>2. \A i \in Jobs, q \in PageNos : pages'[i][q] = 0 <=> pages[i][q] = 0
      BY <1>1, <2>1, <2>2, Sizes
    <3> QED BY <1>1, <1>2, <3>1, <3>2, SameProcesses DEF Left, PageAt
  <2>7. p = Needed(j) => n \in Waiting /\ n \notin Waiting'
    <3>1. PageAt(n, p) < 0 /\ ~(PageAt(n, p)' < 0)
      BY <1>1, <2>1, <2>2, Sizes DEF PageAt
    <3> QED BY <1>1, <3>1, SameProcesses DEF Waiting, PageAt
  <2>8. \A i \in Slots, q \in PageNos : Running(i) /\ PageAt(i, q) >= -PAGEWAIT =>
           PageAt(i, q)' >= -PAGEWAIT
    BY <1>1, <1>2, <2>3 DEF PageAt
  <2>9. PageAt(n, p)' >= -PAGEWAIT
    BY <1>1, <2>2, Sizes DEF PageAt
  <2> QED BY <1>1, <2>1, <2>4, <2>5, <2>6, <2>7, <2>8, <2>9
<1> QED BY <1>3, <1>4

\* The first loop sees the page that was left, throws it out, and so has its frame.
LEMMA FrameLearns ==
    ASSUME PredictInv, FrameForEach, ~minusOne, Learns,
           NEW n \in Slots, n = proc, NEW j \in Jobs, j = processes[n]
    PROVE  LearnsToLast' /\ Served' /\ Enough'
<1> DEFINE curr == Needed(j)
<1>1. /\ LearnsToLast /\ Enough /\ SimInv /\ phase = "call" /\ loop = "learn" /\ Running(n)
      /\ proc \in Slots /\ NextProc("bring") /\ UNCHANGED procVars
      /\ pages \in [Jobs -> [PageNos -> Out .. PAGEWAIT]] /\ pagesavail \in Nat
      /\ LAST_PC \in [Slots -> PageNos] /\ curr \in PageNos
      /\ LAST_PC' = [LAST_PC EXCEPT ![n] = curr]
  <2>1. /\ SimInv /\ SimTypeOK /\ pagesavail \in Nat
        /\ pages \in [Jobs -> [PageNos -> Out .. PAGEWAIT]]
        /\ LAST_PC \in [Slots -> PageNos] /\ proc \in Slots
    BY PredictFacts
  <2>2. LearnsToLast /\ Enough
    BY DEF FrameForEach
  <2>3. curr \in PageNos
    BY <2>1, NeededPage
  <2> QED BY <2>1, <2>2, <2>3 DEF Learns
<1>2. \A i \in Slots : LAST_PC'[i] = IF i = n THEN curr ELSE LAST_PC[i]
  BY <1>1
<1>3. LearnsToLast' /\ Served'
  <2>1. \A i \in Slots : Running(i) /\ (i < proc \/ i = proc) =>
           LAST_PC'[i] = Needed(processes[i])'
    BY <1>1, <1>2, SameProcesses DEF LearnsToLast
  <2>2. \/ /\ UNCHANGED <<loop, phase, turn>>
           /\ \A i \in Slots : i < proc' => i < proc \/ i = proc
        \/ /\ loop' = "bring" /\ UNCHANGED <<phase, turn>>
           /\ \A i \in Slots : /\ i < proc \/ i = proc
                               /\ ~(i < proc')
    BY <1>1, LoopMoves
  <2>3. \A i \in Slots : Running(i)' <=> Running(i)
    BY <1>1, SameProcesses
  <2>4. LearnsToLast'
    BY <1>1, <2>1, <2>2, <2>3 DEF LearnsToLast
  <2>5. Served'
    BY <1>1, <2>2 DEF Served
  <2> QED BY <2>4, <2>5
<1>4. CASE LAST_PC[n] = curr
  <2>1. LAST_PC' = LAST_PC /\ UNCHANGED <<pages, pagesavail>>
    BY <1>1, <1>4 DEF Learns
  <2>2. Waiting' = Waiting /\ Going' = Going /\ Left' = Left
    BY <1>1, <2>1, SameProcesses, SameSets
  <2> QED BY <1>1, <1>3, <2>1, <2>2 DEF Enough
<1>5. CASE LAST_PC[n] # curr /\ pages[j][LAST_PC[n]] = 0
  <2> DEFINE last == LAST_PC[n]
  <2>1. /\ pages' = [pages EXCEPT ![j][last] = -1] /\ pagesavail' = pagesavail
        /\ last \in PageNos
    BY <1>1, <1>5 DEF Learns, pageout, PageoutStarts, Valid, PageAt
  <2>2. \A i \in Jobs, q \in PageNos :
           pages'[i][q] = IF i = j /\ q = last THEN -1 ELSE pages[i][q]
    BY <1>1, <2>1
  <2>3. \A i \in Slots : Running(i) => /\ processes[i] \in Jobs /\ Needed(processes[i]) \in PageNos
                                       /\ processes[i] = j => i = n
    BY <1>1, OneEach, RunningJob, NeededPage DEF SimInv
  <2>4. Waiting' = Waiting
    <3>1. \A i \in Slots : Running(i) =>
             PageAt(i, Needed(processes[i]))' = PageAt(i, Needed(processes[i]))
      <4> SUFFICES ASSUME NEW i \in Slots, Running(i)
                   PROVE  PageAt(i, Needed(processes[i]))' = PageAt(i, Needed(processes[i]))
        OBVIOUS
      <4>1. ~(processes[i] = j /\ Needed(processes[i]) = last)
        BY <1>5
      <4>2. processes[i] \in Jobs /\ Needed(processes[i]) \in PageNos
        BY <2>3
      <4> HIDE DEF last
      <4>3. pages'[processes[i]][Needed(processes[i])] = pages[processes[i]][Needed(processes[i])]
        BY <2>2, <4>1, <4>2
      <4> QED BY <1>1, <4>3, SameProcesses DEF PageAt
    <3> QED BY <1>1, <3>1, SameProcesses DEF Waiting
  <2>5. Going' = Going \cup {<<j, last>>} /\ <<j, last>> \notin Going
    <3>1. -1 >= -PAGEWAIT
      BY Sizes
    <3>2. <<j, last>> \notin Going
      BY <1>5 DEF Going
    <3> QED BY <1>5, <2>1, <2>2, <3>1, <3>2 DEF Going, Occupied
  <2>6. Cardinality(Going') = Cardinality(Going) + 1
    BY <2>5, SetsOfSlots, OccupiedFinite, FS_AddElement
  <2>7. Left \ {n} \subseteq Left'
    <3>1. \A i \in Slots \ {n} : Running(i) =>
             PageAt(i, LAST_PC[i])' = PageAt(i, LAST_PC[i])
      <4> SUFFICES ASSUME NEW i \in Slots \ {n}, Running(i)
                   PROVE  PageAt(i, LAST_PC[i])' = PageAt(i, LAST_PC[i])
        OBVIOUS
      <4>1. processes[i] # j /\ processes[i] \in Jobs
        BY <2>3
      <4>2. LAST_PC[i] \in PageNos
        BY <1>1
      <4>3. pages'[processes[i]][LAST_PC[i]] = pages[processes[i]][LAST_PC[i]]
        BY <2>2, <4>1, <4>2
      <4> QED BY <1>1, <1>2, <4>3, SameProcesses DEF PageAt
    <3> QED BY <1>1, <1>2, <3>1, SameProcesses DEF Left, PageAt
  <2>8. Cardinality(Left) <= Cardinality(Left') + 1
    <3>1. Left \subseteq Left' \cup {n}
      BY <2>7
    <3>2. n \notin Left'
      BY <1>1, <1>2, SameProcesses DEF Left
    <3> QED BY <3>1, <3>2, SetsOfSlots, SetsOfSlotsNext, OneMore
  <2> QED BY <1>1, <1>3, <2>1, <2>4, <2>6, <2>8, SlotCounts DEF Enough
<1>6. CASE LAST_PC[n] # curr /\ pages[j][LAST_PC[n]] # 0
  <2>1. UNCHANGED <<pages, pagesavail>>
    BY <1>1, <1>6 DEF Learns, pageout, PageoutStarts, Valid, PageAt
  <2>2. Waiting' = Waiting
    BY <1>1, <2>1, SameProcesses DEF Waiting, PageAt
  <2>3. Going' = Going
    BY <2>1 DEF Going, Occupied
  <2>4. Left \subseteq Left'
    <3>1. n \notin Left
      BY <1>6 DEF Left, PageAt
    <3> QED BY <1>1, <1>2, <2>1, <3>1, SameProcesses DEF Left, PageAt
  <2>5. Cardinality(Left) <= Cardinality(Left')
    BY <2>4, SetsOfSlots, SetsOfSlotsNext, SlotSets
  <2> QED BY <1>1, <1>3, <2>1, <2>2, <2>3, <2>5, SlotCounts DEF Enough
<1> QED BY <1>4, <1>5, <1>6

\* The second loop gives a frame to the process it comes by, while there are any.
LEMMA FrameBrings ==
    ASSUME PredictInv, FrameForEach, ~minusOne, BringsNeeded,
           NEW n \in Slots, n = proc, NEW p \in PageNos, p = Needed(processes[n])
    PROVE  LearnsToLast' /\ Served' /\ Enough'
<1>1. /\ LearnsToLast /\ Served /\ Enough /\ SimInv
      /\ phase = "call" /\ loop = "bring" /\ Running(n)
      /\ proc \in Slots /\ NextProc("fetch") /\ UNCHANGED procVars
      /\ LAST_PC \in [Slots -> PageNos] /\ UNCHANGED LAST_PC /\ pagein(n, p)
      /\ pagesavail \in Nat
  <2>1. /\ SimInv /\ pagesavail \in Nat
        /\ LAST_PC \in [Slots -> PageNos] /\ proc \in Slots
    BY PredictFacts
  <2>2. LearnsToLast /\ Served /\ Enough
    BY DEF FrameForEach
  <2> QED BY <2>1, <2>2 DEF BringsNeeded, tables
<1>2. \/ /\ UNCHANGED <<loop, phase, turn>>
         /\ \A i \in Slots : i < proc' => i < proc \/ i = proc
      \/ /\ loop' = "fetch" /\ UNCHANGED <<phase, turn>>
         /\ \A i \in Slots : i < proc \/ i = proc
  BY <1>1, LoopMoves
<1>3. LearnsToLast'
  BY <1>1, <1>2, SameProcesses DEF LearnsToLast
<1>4. /\ Going' = Going /\ Left' = Left /\ Waiting' \subseteq Waiting
      /\ \A i \in Slots, q \in PageNos :
            Running(i) /\ PageAt(i, q) >= -PAGEWAIT => PageAt(i, q)' >= -PAGEWAIT
      /\ pagesavail' \in Nat
      /\ \/ pagesavail' = pagesavail
         \/ /\ pagesavail # 0 /\ pagesavail' = pagesavail - 1
            /\ n \in Waiting /\ n \notin Waiting'
      /\ pagesavail' # 0 => pagesavail # 0 /\ PageAt(n, p)' >= -PAGEWAIT
  BY <1>1, PageinSets
<1>5. Served'
  <2> SUFFICES ASSUME pagesavail' # 0, NEW i \in Slots, Running(i)',
                      loop' = "fetch" \/ (loop' = "bring" /\ i < proc')
               PROVE  PageAt(i, Needed(processes[i]))' >= -PAGEWAIT
    BY DEF Served
  <2>1. Running(i) /\ (i < proc \/ i = n)
    BY <1>1, <1>2, SameProcesses
  <2>2. Needed(processes[i]) \in PageNos
    BY <1>1, <2>1, RunningJob, NeededPage DEF SimInv
  <2>3. CASE i = n
    BY <1>1, <1>4, <2>3, SameProcesses DEF PageAt
  <2>4. CASE i < proc
    <3>1. PageAt(i, Needed(processes[i])) >= -PAGEWAIT
      BY <1>1, <1>4, <2>1, <2>4 DEF Served
    <3> QED BY <1>1, <1>4, <2>1, <2>2, <3>1, SameProcesses DEF PageAt
  <2> QED BY <2>1, <2>3, <2>4
<1>6. Enough'
  <2>1. CASE pagesavail' = pagesavail
    <3>1. Cardinality(Waiting') <= Cardinality(Waiting)
      BY <1>4, SetsOfSlots, SetsOfSlotsNext, SlotSets
    <3> QED BY <1>1, <1>4, <2>1, <3>1, SlotCounts DEF Enough
  <2>2. CASE pagesavail' = pagesavail - 1 /\ n \in Waiting /\ n \notin Waiting'
    <3>1. Waiting' \cup {n} \subseteq Waiting
      BY <1>4, <2>2
    <3>2. Cardinality(Waiting') + 1 <= Cardinality(Waiting)
      BY <2>2, <3>1, SetsOfSlots, SetsOfSlotsNext, OneMore
    <3> QED BY <1>1, <1>4, <2>2, <3>2, SlotCounts DEF Enough
  <2> QED BY <1>4, <2>1, <2>2
<1> QED BY <1>3, <1>5, <1>6

\* While there is a frame left, those that still wait have a page on its way out.
LEMMA ServedGoing ==
    ASSUME SimInv, Served, phase = "call", loop = "fetch", pagesavail # 0
    PROVE  Cardinality(Waiting) <= Cardinality(Going)
<1> DEFINE f == [i \in Waiting |-> <<processes[i], Needed(processes[i])>>]
<1>1. ASSUME NEW i \in Waiting
      PROVE  <<processes[i], Needed(processes[i])>> \in Going
  <2>1. i \in Slots /\ Running(i) /\ PageAt(i, Needed(processes[i])) < 0
    BY DEF Waiting
  <2>2. processes[i] \in Jobs /\ Needed(processes[i]) \in PageNos
    BY <2>1, RunningJob, NeededPage DEF SimInv
  <2>3. PageAt(i, Needed(processes[i])) >= -PAGEWAIT
    BY <2>1 DEF Served
  <2> QED BY <2>1, <2>2, <2>3 DEF Going, Occupied, PageAt
<1>2. \A i, k \in Waiting : processes[i] = processes[k] => i = k
  BY OneEach DEF Waiting, SimInv
<1>3. f \in Injection(Waiting, Going)
  BY <1>1, <1>2 DEF Injection, IsInjective
<1> HIDE DEF f
<1> QED BY <1>3, SetsOfSlots, OccupiedFinite, FS_Injection

\* What is fetched in vain takes no frame from a process that waits.
LEMMA FrameFetches ==
    ASSUME PredictInv, FrameForEach, ~minusOne, FetchesPredicted,
           NEW n \in Slots, n = proc
    PROVE  LearnsToLast' /\ Served' /\ Enough'
<1> DEFINE p == RowAhead[entry].PG_NUM
<1>1. /\ LearnsToLast /\ Served /\ Enough /\ SimInv
      /\ phase = "call" /\ loop = "fetch" /\ Running(n) /\ p \in PageNos
      /\ UNCHANGED <<phase, turn, loop, proc>> /\ UNCHANGED procVars
      /\ LAST_PC \in [Slots -> PageNos] /\ UNCHANGED LAST_PC /\ pagein(n, p)
      /\ pagesavail \in Nat
  <2>1. /\ SimInv /\ SimTypeOK /\ PredictTypes /\ pagesavail \in Nat
        /\ LAST_PC \in [Slots -> PageNos]
    BY PredictFacts
  <2>2. LearnsToLast /\ Served /\ Enough
    BY DEF FrameForEach
  <2>3. Running(proc) /\ p \in PageNos
    BY <2>1, FetchedPage
  <2> HIDE DEF RowAhead
  <2> QED BY <2>1, <2>2, <2>3 DEF FetchesPredicted, tables
<1> HIDE DEF p
<1>2. LearnsToLast'
  BY <1>1, SameProcesses DEF LearnsToLast
<1>3. /\ Going' = Going /\ Left' = Left /\ Waiting' \subseteq Waiting
      /\ \A i \in Slots, q \in PageNos :
            Running(i) /\ PageAt(i, q) >= -PAGEWAIT => PageAt(i, q)' >= -PAGEWAIT
      /\ pagesavail' \in Nat
      /\ pagesavail' = pagesavail \/ pagesavail # 0
      /\ pagesavail' # 0 => pagesavail # 0
  BY <1>1, PageinSets
<1>4. Served'
  <2> SUFFICES ASSUME pagesavail' # 0, NEW i \in Slots, Running(i)'
               PROVE  PageAt(i, Needed(processes[i]))' >= -PAGEWAIT
    BY DEF Served
  <2>1. Running(i) /\ PageAt(i, Needed(processes[i])) >= -PAGEWAIT
    BY <1>1, <1>3, SameProcesses DEF Served
  <2>2. Needed(processes[i]) \in PageNos
    BY <1>1, <2>1, RunningJob, NeededPage DEF SimInv
  <2> QED BY <1>1, <1>3, <2>1, <2>2, SameProcesses DEF PageAt
<1>5. Cardinality(Waiting') <= Cardinality(Waiting)
  BY <1>3, SetsOfSlots, SetsOfSlotsNext, SlotSets
<1>6. CASE pagesavail' = pagesavail
  BY <1>1, <1>2, <1>3, <1>4, <1>5, <1>6, SlotCounts DEF Enough
<1>7. CASE pagesavail # 0
  <2>1. Cardinality(Waiting) <= Cardinality(Going)
    BY <1>1, <1>7, ServedGoing
  <2> QED BY <1>2, <1>3, <1>4, <1>5, <2>1, SlotCounts DEF Enough
<1> QED BY <1>3, <1>6, <1>7

\* The other steps of the loops change no page.
LEMMA FrameLoops ==
    ASSUME PredictInv, FrameForEach, ~minusOne,
           LearnsNothing \/ ExchangesEntries \/ RowFetched \/ SkipsInactive
    PROVE  LearnsToLast' /\ Served' /\ Enough'
<1>1. /\ LearnsToLast /\ Served /\ Enough /\ proc \in Slots /\ phase = "call"
      /\ loop \in {"learn", "bring", "fetch"}
      /\ UNCHANGED procVars /\ UNCHANGED <<pages, pagesavail, LAST_PC>>
  BY DEF FrameForEach, PredictInv, PredictTypes, LoopTypes, LearnsNothing, ExchangesEntries, RowFetched,
         SkipsInactive, tables, simVars
<1>2. Enough'
  <2>1. Waiting' = Waiting /\ Going' = Going /\ Left' = Left
    BY <1>1, SameProcesses, SameSets
  <2> QED BY <1>1, <2>1 DEF Enough
<1>3. \A i \in Slots : PageAt(i, Needed(processes[i]))' = PageAt(i, Needed(processes[i]))
  BY <1>1, SameProcesses DEF PageAt
<1>4. CASE LearnsNothing
  BY <1>4 DEF LearnsNothing
<1>5. CASE ExchangesEntries
  <2>1. UNCHANGED <<phase, turn, loop, proc>>
    BY <1>5 DEF ExchangesEntries, simVars
  <2> QED BY <1>1, <1>2, <1>3, <2>1, SameProcesses DEF LearnsToLast, Served
<1>6. CASE RowFetched
  <2>1. loop = "fetch" /\ NextProc("learn")
    BY <1>6 DEF RowFetched
  <2>2. \/ UNCHANGED <<loop, phase, turn>>
        \/ loop' = "learn" /\ phase' # "call"
    BY <1>1, <2>1, LoopMoves
  <2> QED BY <1>1, <1>2, <1>3, <2>1, <2>2, SameProcesses DEF LearnsToLast, Served
<1>7. CASE SkipsInactive
  <2> DEFINE next == CASE loop = "learn" -> "bring" [] loop = "bring" -> "fetch"
                       [] OTHER -> "learn"
  <2>1. NextProc(next) /\ ~Running(proc)
    BY <1>7 DEF SkipsInactive
  <2>2. /\ loop = "learn" => next = "bring"
        /\ loop = "bring" => next = "fetch"
        /\ loop = "fetch" => next = "learn"
    OBVIOUS
  <2> HIDE DEF next
  <2>3. \/ /\ UNCHANGED <<loop, phase, turn>>
           /\ \A i \in Slots : i < proc' => i < proc \/ i = proc
        \/ /\ loop' = next /\ proc' = 1
           /\ next # "learn" => UNCHANGED <<phase, turn>>
           /\ next = "learn" => phase' # "call" /\ turn' = 1
           /\ \A i \in Slots : /\ i < proc \/ i = proc
                               /\ ~(i < proc')
    BY <1>1, <2>1, LoopMoves
  <2>4. LearnsToLast'
    BY <1>1, <1>3, <2>1, <2>2, <2>3, SameProcesses DEF LearnsToLast
  <2>5. Served'
    BY <1>1, <1>3, <2>1, <2>2, <2>3, SameProcesses DEF Served
  <2> QED BY <1>2, <2>4, <2>5
<1> QED BY <1>4, <1>5, <1>6, <1>7

LEMMA FrameStarts ==
    ASSUME PHYSICALPAGES >= Procs, PredictInit
    PROVE  FrameForEach
<1>1. /\ phase = "step" /\ pagesavail = PHYSICALPAGES /\ PHYSICALPAGES \in Nat /\ Procs \in Nat
      /\ \A j \in Jobs, p \in PageNos : pages[j][p] = Out
  BY Sizes DEF PredictInit, Init
<1>2. SimInv
  BY PredictStarts DEF PredictInv
<1>3. \A i \in Slots : Running(i) => PageAt(i, Needed(processes[i])) # 0
  <2> SUFFICES ASSUME NEW i \in Slots, Running(i)
               PROVE  PageAt(i, Needed(processes[i])) = Out /\ Out # 0
    OBVIOUS
  <2>1. processes[i] \in Jobs /\ Needed(processes[i]) \in PageNos
    BY <1>2, RunningJob, NeededPage DEF SimInv
  <2> QED BY <1>1, <2>1, Sizes DEF PageAt, Out
<1>4. LearnsToLast /\ Served
  BY <1>1, <1>3 DEF LearnsToLast, Served
<1>5. Cardinality(Waiting) <= Procs
  <2>1. IsFiniteSet(Slots) /\ Cardinality(Slots) = Procs
    <3>1. \A m \in Nat : IsFiniteSet(1 .. m) /\ Cardinality(1 .. m) = m
      BY FS_Interval
    <3> QED BY <1>1, <3>1 DEF Slots
  <2> QED BY <2>1, SetsOfSlots, FS_Subset
<1>6. Enough
  BY <1>1, <1>5, SlotCounts DEF Enough
<1> QED BY <1>4, <1>6 DEF FrameForEach

LEMMA FrameKeeps ==
    ASSUME PredictInv, FrameForEach, [PredictNext]_predVars
    PROVE  FrameForEach'
<1> SUFFICES ASSUME ~minusOne' PROVE LearnsToLast' /\ Served' /\ Enough'
  BY DEF FrameForEach
<1>1. /\ SimInv /\ SimTypeOK /\ LoopTypes /\ proc \in Slots /\ turn \in Slots
      /\ LAST_PC \in [Slots -> PageNos]
  BY DEF PredictInv, SimInv, SimTypeOK, PredictTypes, TableTypes, LoopTypes
<1>2. ~minusOne
  BY DEF PredictNext, predVars, tables, pageit, LearnsNothing, Learns, BringsNeeded, ExchangesEntries,
         FetchesPredicted, RowFetched, SkipsInactive
<1>3. CASE Step /\ UNCHANGED <<tables, loop, proc, entry>>
  <2>1. UNCHANGED LAST_PC
    BY <1>3 DEF tables
  <2>2. Running(turn) => processes[turn] \in Jobs
    BY <1>1, RunningJob
  <2>3. StepComputes \/ StepExits => Running(turn)
    BY DEF StepComputes, StepExits
  <2> QED BY <1>1, <1>2, <1>3, <2>1, <2>2, <2>3, FrameBlocked, FrameVacant, FrameComputes, FrameExits
          DEF Step
<1>4. CASE allage /\ UNCHANGED <<tables, loop, proc, entry>>
  BY <1>1, <1>2, <1>4, FrameAges DEF tables
<1>5. CASE pageit
  <2>1. Running(proc) => processes[proc] \in Jobs /\ Needed(processes[proc]) \in PageNos
    BY <1>1, RunningJob, NeededPage
  <2>2. CASE Learns
    BY <1>1, <1>2, <2>1, <2>2, FrameLearns DEF Learns
  <2>3. CASE BringsNeeded
    BY <1>1, <1>2, <2>1, <2>3, FrameBrings DEF BringsNeeded
  <2>4. CASE FetchesPredicted
    BY <1>1, <1>2, <2>4, FrameFetches
  <2> QED BY <1>2, <1>5, <2>2, <2>3, <2>4, FrameLoops DEF pageit
<1>6. CASE UNCHANGED predVars \/ (Ended /\ UNCHANGED <<tables, loop, proc, entry>>)
  <2>1. /\ UNCHANGED procVars /\ UNCHANGED <<pages, pagesavail, LAST_PC>>
        /\ UNCHANGED <<phase, turn, loop, proc>>
    BY <1>6 DEF predVars, simVars, tables, Ended
  <2>2. Waiting' = Waiting /\ Going' = Going /\ Left' = Left
    BY <2>1, SameProcesses, SameSets
  <2>3. \A i \in Slots : PageAt(i, Needed(processes[i]))' = PageAt(i, Needed(processes[i]))
    BY <2>1, SameProcesses DEF PageAt
  <2>4. LearnsToLast /\ Served /\ Enough
    BY <1>2 DEF FrameForEach
  <2>5. LearnsToLast' /\ Served'
    BY <2>1, <2>3, <2>4, SameProcesses DEF LearnsToLast, Served
  <2> QED BY <2>1, <2>2, <2>4, <2>5 DEF Enough
<1> QED BY <1>3, <1>4, <1>5, <1>6 DEF PredictNext

\* The inductive invariant: the frames that are free, those of the pages going out and
\* those the pager is going to free are no fewer than the processes that wait.
THEOREM FramesInvariance ==
    ASSUME PHYSICALPAGES >= Procs
    PROVE  PredictSpec => []FrameForEach
<1>1. PredictInit => FrameForEach
  BY FrameStarts
<1>2. PredictInv /\ FrameForEach /\ [PredictNext]_predVars => FrameForEach'
  BY FrameKeeps
<1> QED BY <1>1, <1>2, PredictInvariance, PTL DEF PredictSpec

\* With at least as many frames as processors (the code has 100 and at most 20), pages
\* fetched in vain leave a frame for each process that waits, though none is ever thrown
\* out to make room.
THEOREM FramesEnough ==
    ASSUME PHYSICALPAGES >= Procs
    PROVE  PredictSpec => []FramesSuffice
<1>1. FrameForEach => FramesSuffice
  BY DEF FrameForEach, Enough, FramesSuffice
<1> QED BY <1>1, FramesInvariance, PTL
=============================================================================

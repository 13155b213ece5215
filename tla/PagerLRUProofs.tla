--------------------------- MODULE PagerLRUProofs ---------------------------
(***************************************************************************)
(* pager-lru.c, for any programs and any number of jobs, processors and    *)
(* frames: it is one of the pagers the simulator is proved right for, and  *)
(* leaving the loop at the first page that cannot come in never takes the  *)
(* last frame from the first active process.                               *)
(***************************************************************************)
EXTENDS PagerLRU, SimulatorProofs

USE DEF procVars, pageVars
------------------------------------------------------------------------------
LEMMA LoopTurns ==
    ASSUME turn \in Slots, LoopsOn
    PROVE  \/ PagerReturns
           \/ turn < Procs /\ turn' = turn + 1 /\ UNCHANGED phase /\ turn' \in Slots
BY Sizes DEF LoopsOn, Slots

LEMMA LRUCall == SimInv /\ pageit => AnyCall
<1> SUFFICES ASSUME SimInv, pageit PROVE AnyCall
  OBVIOUS
<1>1. turn \in Slots
  BY DEF SimInv, SimTypeOK
<1>2. phase = "call" /\ UNCHANGED procVars
  BY DEF pageit, SkipsInactive, StampsPage, ThrowsOut
<1>3. PagerReturns \/ (UNCHANGED phase /\ turn' \in {turn, turn + 1} \cap Slots)
  BY <1>1, LoopTurns DEF pageit, SkipsInactive, StampsPage, ThrowsOut
<1>4. \E i \in Slots, p \in PageNos : pagein(i, p) \/ pageout(i, p)
  <2>1. CASE SkipsInactive
    BY <2>1, IdleCall DEF SkipsInactive
  <2>2. CASE StampsPage
    <3>1. Needed(processes[turn]) \in PageNos
      BY <1>1, <2>2, RunningJob, NeededPage DEF StampsPage, SimInv
    <3> QED BY <1>1, <2>2, <3>1 DEF StampsPage
  <2>3. CASE ThrowsOut
    <3>1. Oldest(turn) \subseteq PageNos
      BY DEF Oldest, Resident
    <3> QED BY <1>1, <2>3, <3>1 DEF ThrowsOut
  <2> QED BY <2>1, <2>2, <2>3 DEF pageit
<1> QED BY <1>2, <1>3, <1>4 DEF AnyCall

LEMMA LRUIsAny == SimInv /\ [LRUNext]_lruVars => [AnyNext]_simVars
BY LRUCall DEF LRUNext, AnyNext, lruVars, simVars

\* Whatever is proved of the simulator under any pager holds under this one.
THEOREM LRUIsAnyPager == LRUSpec => IsAnyPager
<1>1. LRUInit => Init
  BY DEF LRUInit
<1>2. Init /\ [][LRUNext]_lruVars => []SimInv
  BY SimInit, SimNext, LRUIsAny, PTL
<1> QED BY <1>1, <1>2, LRUIsAny, PTL DEF LRUSpec, IsAnyPager, AnySpec
------------------------------------------------------------------------------
(* The first active process is never starved                                *)

First(i) == Running(i) /\ \A k \in 1 .. i - 1 : ~Running(k)

HasFrame(i) == pagesavail > 0 \/ FramesOf(processes[i]) # {}

\* FirstHasFrame wherever main is: once the loop is past the first active process, that
\* process has a frame of its own, so the others may take all that are left.
FirstFed == \A i \in Slots : First(i) =>
               /\ HasFrame(i)
               /\ phase = "call" /\ turn > i => FramesOf(processes[i]) # {}

LoopStarts == phase = "age" => turn = 1

LRUInv == SimInv /\ FirstFed /\ LoopStarts

LEMMA FedMeansFirst == FirstFed => FirstHasFrame
BY DEF FirstFed, FirstHasFrame, First, HasFrame

\* Statements: an exit frees the frame of the page it is on, nothing else takes one.
LEMMA StepFeeds == ASSUME LRUInv, Step PROVE FirstFed'
<1>1. phase' # "call" /\ turn \in Slots
  BY DEF Step, StepBlocked, StepComputes, StepExits, StepVacant, StepsNext, LRUInv,
         SimInv, SimTypeOK
<1>2. CASE StepExits
  <2>1. /\ Running(turn) /\ pages[processes[turn]][Needed(processes[turn])] = 0
        /\ pagesavail' = pagesavail + Cardinality(FramesOf(processes[turn]))
    BY <1>2 DEF StepExits
  <2>2. processes[turn] \in Jobs /\ Needed(processes[turn]) \in PageNos
    BY <1>1, <2>1, RunningJob, NeededPage DEF LRUInv, SimInv
  <2>3. Needed(processes[turn]) \in FramesOf(processes[turn])
    BY <2>1, <2>2, Sizes DEF FramesOf
  <2>4. IsFiniteSet(FramesOf(processes[turn]))
    <3>1. IsFiniteSet(PageNos)
      BY Sizes, FS_Interval DEF PageNos
    <3> QED BY <3>1, FS_Subset DEF FramesOf
  <2>5. Cardinality(FramesOf(processes[turn])) \in Nat \ {0}
    BY <2>3, <2>4, FS_EmptySet, FS_CardinalityType
  <2>6. pagesavail' > 0
    BY <2>1, <2>5, Sizes DEF LRUInv, SimInv, SimTypeOK
  <2> QED BY <1>1, <2>6 DEF FirstFed, HasFrame
<1>3. CASE StepBlocked \/ StepComputes
  <2>1. /\ processes' = processes /\ active' = active
        /\ pages' = pages /\ pagesavail' = pagesavail
    BY <1>3 DEF StepBlocked, StepComputes
  <2> QED BY <1>1, <2>1 DEF LRUInv, FirstFed, HasFrame, First, Running, FramesOf
<1>4. CASE StepVacant
  <2>1. /\ ~Running(turn) /\ Reload(turn)
        /\ active' = active /\ pages' = pages /\ pagesavail' = pagesavail
    BY <1>4 DEF StepVacant
  <2>2. queueend = QUEUESIZE
    BY <1>1, <2>1 DEF LRUInv, SimInv, ActiveUntilEmpty
  <2>3. processes' = [processes EXCEPT ![turn] = None]
    BY <2>1, <2>2, Sizes DEF Reload
  <2>4. \A i \in Slots : Running(i)' <=> Running(i)
    BY <2>1, <2>3 DEF Running, LRUInv, SimInv, SimTypeOK
  <2>5. \A i \in Slots : Running(i) => processes'[i] = processes[i]
    BY <2>1, <2>3 DEF LRUInv, SimInv, SimTypeOK
  <2>6. \A i \in Slots : First(i)' => First(i) /\ processes'[i] = processes[i]
    <3>1. \A i \in Slots : \A k \in 1 .. i - 1 : k \in Slots
      BY Sizes DEF Slots
    <3> QED BY <2>4, <2>5, <3>1 DEF First
  <2> QED BY <1>1, <2>1, <2>6 DEF LRUInv, FirstFed, HasFrame, FramesOf
<1> QED BY <1>2, <1>3, <1>4 DEF Step

\* Time: a page that goes out leaves a free frame behind.
LEMMA AgeFeeds == ASSUME LRUInv, allage PROVE FirstFed'
<1>1. /\ processes' = processes /\ active' = active /\ turn' = turn /\ phase = "age"
      /\ pagesavail' = pagesavail + Cardinality(Leaving)
  BY DEF allage
<1>2. pagesavail \in Nat /\ pagesavail' \in Nat
  <2>1. SimInv'
    BY SimNext DEF AnyNext, LRUInv
  <2> QED BY <2>1, Sizes DEF LRUInv, SimInv, SimTypeOK
<1>3. IsFiniteSet(Leaving) /\ Cardinality(Leaving) \in Nat
  <2>1. Leaving \subseteq Jobs \X PageNos
    BY RunningJob DEF Leaving, Loaded, LRUInv, SimInv
  <2> QED BY <2>1, OccupiedFinite
<1>4. CASE Leaving # {}
  <2>1. Cardinality(Leaving) > 0
    BY <1>3, <1>4, FS_EmptySet
  <2>2. pagesavail' > 0
    BY <1>1, <1>2, <1>3, <2>1
  <2>3. ~(phase' = "call" /\ \E i \in Slots : turn' > i)
    BY <1>1, Sizes DEF LRUInv, LoopStarts, Slots
  <2> QED BY <2>2, <2>3 DEF FirstFed, HasFrame
<1>5. CASE Leaving = {}
  <2>1. pagesavail' = pagesavail
    BY <1>1, <1>2, <1>5, FS_EmptySet
  <2>2. ASSUME NEW i \in Slots, Running(i)
        PROVE  FramesOf(processes[i]) \subseteq FramesOf(processes[i])'
    <3>1. processes[i] \in Jobs /\ processes[i] \in Loaded
      BY <2>2, RunningJob DEF LRUInv, SimInv, Loaded
    <3>2. \A p \in PageNos : pages'[processes[i]][p] = Aged(pages[processes[i]][p])
      BY <3>1 DEF allage
    <3>3. \A p \in PageNos : pages[processes[i]][p] # -PAGEWAIT
      <4>1. ASSUME NEW p \in PageNos, pages[processes[i]][p] = -PAGEWAIT PROVE FALSE
        <5>1. <<processes[i], p>> \in Leaving
          BY <3>1, <4>1 DEF Leaving
        <5> QED BY <1>5, <5>1
      <4> QED BY <4>1
    <3>4. \A p \in PageNos : pages[processes[i]][p] \in Out .. PAGEWAIT
      BY <3>1 DEF LRUInv, SimInv, SimTypeOK
    <3>5. \A p \in PageNos : pages[processes[i]][p] >= -PAGEWAIT
                                => Aged(pages[processes[i]][p]) >= -PAGEWAIT
      BY <3>3, <3>4, Sizes DEF Aged, Out
    <3> QED BY <1>1, <3>2, <3>5 DEF FramesOf
  <2>3. \A i \in Slots : First(i)' => First(i)
    BY <1>1 DEF First, Running
  <2>4. ~(phase' = "call" /\ \E i \in Slots : turn' > i)
    BY <1>1, Sizes DEF LRUInv, LoopStarts, Slots
  <2> QED BY <1>1, <2>1, <2>2, <2>3, <2>4 DEF LRUInv, FirstFed, HasFrame, First
<1> QED BY <1>4, <1>5

\* The loop of the pager: what it does on one processor.
LEMMA LoopFeeds == ASSUME LRUInv, pageit PROVE FirstFed'
<1>1. /\ turn \in Slots /\ phase = "call"
      /\ processes' = processes /\ active' = active
  BY DEF pageit, SkipsInactive, StampsPage, ThrowsOut, LRUInv, SimInv, SimTypeOK
<1>2. \A i \in Slots : First(i)' => First(i)
  BY <1>1 DEF First, Running
<1>3. \A j \in Jobs, p \in PageNos : pages[j][p] \in Out .. PAGEWAIT
  BY DEF LRUInv, SimInv, SimTypeOK
<1>4. ASSUME NEW i \in Slots, First(i)
      PROVE  /\ FramesOf(processes[i]) \subseteq FramesOf(processes[i])'
             /\ \/ pagesavail' = pagesavail
                \/ /\ Running(turn) /\ turn >= i
                   /\ turn = i => FramesOf(processes[i])' # {}
             /\ Running(turn) => turn >= i
  <2>1. processes[i] \in Jobs
    BY <1>4, RunningJob DEF First, LRUInv, SimInv
  <2>2. Running(turn) => turn >= i
    BY <1>1, <1>4, Sizes DEF First, Slots
  <2>3. CASE SkipsInactive
    BY <1>1, <2>2, <2>3 DEF SkipsInactive, FramesOf
  <2>4. CASE StampsPage
    <3> DEFINE page == Needed(processes[turn])
    <3>1. Running(turn) /\ pageinResult(turn, page) /\ pagein(turn, page)
      BY <2>4 DEF StampsPage
    <3>2. processes[turn] \in Jobs /\ page \in PageNos
      BY <1>1, <3>1, RunningJob, NeededPage DEF LRUInv, SimInv
    <3> HIDE DEF page
    <3>3. CASE PageinStarts(turn, page)
      <4>1. \A j \in Jobs, p \in PageNos :
               pages'[j][p] = IF j = processes[turn] /\ p = page THEN PAGEWAIT
                              ELSE pages[j][p]
        BY <3>1, <3>2, <3>3 DEF pagein, LRUInv, SimInv, SimTypeOK
      <4>2. FramesOf(processes[i]) \subseteq FramesOf(processes[i])'
        BY <1>1, <1>3, <2>1, <4>1, Sizes DEF FramesOf
      <4>3. turn = i => page \in FramesOf(processes[i])'
        BY <1>1, <3>2, <4>1, Sizes DEF FramesOf
      <4> QED BY <2>2, <3>1, <4>2, <4>3
    <3>4. CASE ~PageinStarts(turn, page)
      <4>1. pages' = pages /\ pagesavail' = pagesavail
        BY <3>1, <3>4 DEF pagein
      <4> QED BY <1>1, <2>2, <4>1 DEF FramesOf
    <3> QED BY <3>3, <3>4
  <2>5. CASE ThrowsOut
    <3>1. PICK p \in Oldest(turn) : pageout(turn, p)
      BY <2>5 DEF ThrowsOut
    <3>2. p \in PageNos
      BY <3>1 DEF Oldest, Resident
    <3>3. CASE PageoutStarts(turn, p)
      <4>1. Running(turn) /\ processes[turn] \in Jobs /\ PageAt(turn, p) = 0
        BY <1>1, <3>3, RunningJob DEF PageoutStarts, Valid, LRUInv, SimInv
      <4>2. /\ \A j \in Jobs, q \in PageNos :
                  pages'[j][q] = IF j = processes[turn] /\ q = p THEN -1 ELSE pages[j][q]
            /\ pagesavail' = pagesavail
        BY <3>1, <3>2, <3>3, <4>1 DEF pageout, LRUInv, SimInv, SimTypeOK
      <4>3. -1 >= -PAGEWAIT
        BY Sizes
      <4>4. FramesOf(processes[i]) \subseteq FramesOf(processes[i])'
        BY <1>1, <1>3, <2>1, <4>2, <4>3 DEF FramesOf
      <4> QED BY <2>2, <4>2, <4>4
    <3>4. CASE ~PageoutStarts(turn, p)
      <4>1. pages' = pages /\ pagesavail' = pagesavail
        BY <3>1, <3>4 DEF pageout
      <4> QED BY <1>1, <2>2, <4>1 DEF FramesOf
    <3> QED BY <3>3, <3>4
  <2> QED BY <2>3, <2>4, <2>5 DEF pageit
<1>5. ASSUME NEW i \in Slots, First(i), turn = i, phase' = "call", turn' > i
      PROVE  FramesOf(processes[i])' # {}
  <2>1. ~SkipsInactive
    BY <1>5 DEF SkipsInactive, First
  <2>2. ~ThrowsOut
    BY <1>1, <1>5 DEF ThrowsOut, PagerReturns
  <2>3. StampsPage
    BY <2>1, <2>2 DEF pageit
  <2> DEFINE page == Needed(processes[turn])
  <2>4. pageinResult(turn, page) /\ pagein(turn, page) /\ Running(turn)
    BY <2>3 DEF StampsPage
  <2>5. processes[turn] \in Jobs /\ page \in PageNos
    BY <1>1, <2>4, RunningJob, NeededPage DEF LRUInv, SimInv
  <2> HIDE DEF page
  <2>6. CASE PageinStarts(turn, page)
    BY <1>1, <1>5, <2>4, <2>5, <2>6, Sizes
       DEF pagein, FramesOf, LRUInv, SimInv, SimTypeOK
  <2>7. CASE ~PageinStarts(turn, page)
    <3>1. pages' = pages /\ PageAt(turn, page) >= 0
      BY <2>4, <2>7 DEF pagein, pageinResult
    <3>2. page \in FramesOf(processes[i])'
      BY <1>1, <1>3, <1>5, <2>5, <3>1, Sizes DEF FramesOf, PageAt
    <3> QED BY <3>2
  <2> QED BY <2>6, <2>7
<1>6. ASSUME NEW i \in Slots, First(i) PROVE HasFrame(i)'
  <2>1. CASE pagesavail' = pagesavail
    BY <1>1, <1>4, <1>6, <2>1 DEF HasFrame, LRUInv, FirstFed
  <2>2. CASE turn = i /\ FramesOf(processes[i])' # {}
    BY <2>2 DEF HasFrame
  <2>3. CASE turn > i
    BY <1>1, <1>4, <1>6, <2>3 DEF HasFrame, LRUInv, FirstFed
  <2> QED BY <1>1, <1>4, <1>6, <2>1, <2>2, <2>3, Sizes DEF Slots
<1>7. ASSUME NEW i \in Slots, First(i), phase' = "call", turn' > i
      PROVE  FramesOf(processes[i])' # {}
  <2>1. turn' = turn + 1
    <3>1. ~PagerReturns
      BY <1>7 DEF PagerReturns
    <3> QED BY <1>1, <3>1, LoopTurns DEF pageit, SkipsInactive, StampsPage, ThrowsOut
  <2>2. turn = i \/ turn > i
    BY <1>1, <1>7, <2>1, Sizes DEF Slots
  <2> QED BY <1>1, <1>4, <1>5, <1>7, <2>2 DEF LRUInv, FirstFed
<1> QED BY <1>2, <1>6, <1>7 DEF FirstFed

LEMMA LRUNextKeeps == LRUInv /\ [LRUNext]_lruVars => LRUInv'
<1> SUFFICES ASSUME LRUInv, [LRUNext]_lruVars PROVE LRUInv'
  OBVIOUS
<1>1. SimInv'
  BY LRUIsAny, SimNext DEF LRUInv
<1>2. CASE Step
  <2>1. LoopStarts'
    BY <1>2 DEF Step, StepBlocked, StepComputes, StepExits, StepVacant, StepsNext,
       LoopStarts
  <2> QED BY <1>1, <1>2, <2>1, StepFeeds DEF LRUInv
<1>3. CASE allage
  <2>1. LoopStarts'
    BY <1>3 DEF allage, LoopStarts
  <2> QED BY <1>1, <1>3, <2>1, AgeFeeds DEF LRUInv
<1>4. CASE pageit
  <2>1. phase' # "age"
    BY <1>4, LoopTurns DEF pageit, SkipsInactive, StampsPage, ThrowsOut, PagerReturns,
       LRUInv, SimInv, SimTypeOK
  <2> QED BY <1>1, <1>4, <2>1, LoopFeeds DEF LRUInv, LoopStarts
<1>5. CASE Ended \/ UNCHANGED lruVars
  <2>1. UNCHANGED <<processes, active, pages, pagesavail, phase, turn>>
    BY <1>5 DEF Ended, lruVars, simVars
  <2> QED BY <1>1, <2>1
          DEF LRUInv, LoopStarts, FirstFed, First, HasFrame, Running, FramesOf
<1> QED BY <1>2, <1>3, <1>4, <1>5 DEF LRUNext

\* The first active process has a frame or finds one, whatever the programs and however
\* many processors wait behind it: leaving the loop early starves nobody.
THEOREM FirstFrameKept ==
    ASSUME PHYSICALPAGES > 0
    PROVE  LRUSpec => []FirstHasFrame
<1>1. LRUInit => LRUInv
  BY SimInit, Sizes
     DEF LRUInit, Init, LRUInv, FirstFed, HasFrame, LoopStarts
<1> QED BY <1>1, LRUNextKeeps, FedMeansFirst, PTL DEF LRUSpec, LRUInv
------------------------------------------------------------------------------
(* What is in memory has been stamped                                       *)

\* The order lists pages, each of them once.
Listed(s) == /\ s \in Seq(PageNos)
             /\ \A n, m \in 1 .. Len(s) : s[n] = s[m] => n = m

StampInv == /\ order \in [Slots -> Seq(PageNos)]
            /\ \A i \in Slots : Listed(order[i])
            /\ ResidentStamped

LEMMA Concatenated ==
    ASSUME NEW a \in Seq(PageNos), NEW b \in Seq(PageNos)
    PROVE  /\ a \o b \in Seq(PageNos) /\ Len(a \o b) = Len(a) + Len(b)
           /\ \A m \in 1 .. Len(a) + Len(b) :
                 (a \o b)[m] = IF m <= Len(a) THEN a[m] ELSE b[m - Len(a)]
OBVIOUS

LEMMA WithoutOne ==
    ASSUME NEW s, Listed(s), NEW n \in 1 .. Len(s)
    PROVE  /\ RemoveAt(s, n) \in Seq(PageNos) /\ Len(RemoveAt(s, n)) = Len(s) - 1
           /\ \A m \in 1 .. Len(s) - 1 :
                 RemoveAt(s, n)[m] = IF m < n THEN s[m] ELSE s[m + 1]
<1> DEFINE before == SubSeq(s, 1, n - 1)
           after  == SubSeq(s, n + 1, Len(s))
<1>1. s \in Seq(PageNos) /\ Len(s) \in Nat /\ n \in Nat /\ n >= 1 /\ n <= Len(s)
  BY DEF Listed
<1>2. /\ before \in Seq(PageNos) /\ Len(before) = n - 1
      /\ \A m \in 1 .. n - 1 : before[m] = s[m]
  BY <1>1
<1>3. /\ after \in Seq(PageNos) /\ Len(after) = Len(s) - n
      /\ \A m \in 1 .. Len(s) - n : after[m] = s[m + n]
  BY <1>1
<1> HIDE DEF before, after
<1>4. RemoveAt(s, n) = before \o after
  BY DEF RemoveAt, before, after
<1>5. /\ before \o after \in Seq(PageNos) /\ Len(before \o after) = Len(s) - 1
      /\ \A m \in 1 .. Len(before) + Len(after) :
            (before \o after)[m] = IF m <= Len(before) THEN before[m] ELSE after[m - Len(before)]
  <2>1. Len(before) + Len(after) = Len(s) - 1
    BY <1>1, <1>2, <1>3
  <2> QED BY <1>2, <1>3, <2>1, Concatenated
<1>6. ASSUME NEW m \in 1 .. Len(s) - 1
      PROVE  (before \o after)[m] = IF m < n THEN s[m] ELSE s[m + 1]
  <2>0. m \in 1 .. Len(before) + Len(after) /\ (m < n <=> m <= Len(before))
    BY <1>1, <1>2, <1>3
  <2>1. CASE m < n
    <3>1. m \in 1 .. n - 1
      BY <1>1, <2>1
    <3> QED BY <1>2, <1>5, <2>0, <2>1, <3>1
  <2>2. CASE ~(m < n)
    <3>1. m - (n - 1) \in 1 .. Len(s) - n /\ (m - (n - 1)) + n = m + 1
      BY <1>1, <2>2
    <3>2. after[m - (n - 1)] = s[m + 1]
      BY <1>3, <3>1
    <3> QED BY <1>2, <1>5, <2>0, <2>2, <3>2
  <2> QED BY <2>1, <2>2
<1> QED BY <1>4, <1>5, <1>6

\* The others of a sequence that lists a page.
LEMMA OthersListed ==
    ASSUME NEW s, Listed(s), NEW n \in 1 .. Len(s)
    PROVE  /\ Listed(RemoveAt(s, n))
           /\ \A m \in 1 .. Len(RemoveAt(s, n)) : RemoveAt(s, n)[m] # s[n]
           /\ \A k \in 1 .. Len(s) \ {n} : \E m \in 1 .. Len(RemoveAt(s, n)) :
                 RemoveAt(s, n)[m] = s[k]
<1> DEFINE r == RemoveAt(s, n)
           At(m) == IF m < n THEN m ELSE m + 1
<1>1. Len(s) \in Nat /\ n \in Nat /\ n >= 1 /\ n <= Len(s)
  BY DEF Listed
<1>2. r \in Seq(PageNos) /\ Len(r) = Len(s) - 1 /\ \A m \in 1 .. Len(r) : r[m] = s[At(m)]
  BY <1>1, WithoutOne
<1>3. \A m \in 1 .. Len(r) : At(m) \in 1 .. Len(s) /\ At(m) # n
  BY <1>1, <1>2
<1>4. \A k, m \in 1 .. Len(r) : At(k) = At(m) => k = m
  BY <1>1, <1>2
<1>5. \A k \in 1 .. Len(s) \ {n} : \E m \in 1 .. Len(r) : At(m) = k
  <2> SUFFICES ASSUME NEW k \in 1 .. Len(s) \ {n} PROVE \E m \in 1 .. Len(r) : At(m) = k
    OBVIOUS
  <2>1. CASE k < n
    <3>1. k \in 1 .. Len(r) /\ At(k) = k
      BY <1>1, <1>2, <2>1
    <3> QED BY <3>1
  <2>2. CASE ~(k < n)
    <3>1. k - 1 \in 1 .. Len(r) /\ At(k - 1) = k
      BY <1>1, <1>2, <2>2
    <3> QED BY <3>1
  <2> QED BY <2>1, <2>2
<1> HIDE DEF r, At
<1>6. \A k, m \in 1 .. Len(r) : r[k] = r[m] => k = m
  BY <1>2, <1>3, <1>4 DEF Listed
<1>7. \A m \in 1 .. Len(r) : r[m] # s[n]
  BY <1>2, <1>3 DEF Listed
<1>8. \A k \in 1 .. Len(s) \ {n} : \E m \in 1 .. Len(r) : r[m] = s[k]
  BY <1>2, <1>5
<1> QED BY <1>2, <1>6, <1>7, <1>8 DEF Listed, r

LEMMA OneMoreListed ==
    ASSUME NEW s, Listed(s), NEW p \in PageNos, \A m \in 1 .. Len(s) : s[m] # p
    PROVE  Listed(Append(s, p)) /\ ToSet(Append(s, p)) = ToSet(s) \cup {p}
<1>1. s \in Seq(PageNos) /\ Len(s) \in Nat /\ DOMAIN s = 1 .. Len(s)
  BY DEF Listed
<1> DEFINE t == Append(s, p)
<1>2. /\ t \in Seq(PageNos) /\ Len(t) = Len(s) + 1 /\ DOMAIN t = 1 .. Len(s) + 1
      /\ t[Len(s) + 1] = p
      /\ \A m \in 1 .. Len(s) : t[m] = s[m]
  BY <1>1
<1> HIDE DEF t
<1>3. \A m \in 1 .. Len(s) + 1 : m \in 1 .. Len(s) \/ m = Len(s) + 1
  BY <1>1
<1>4. \A m \in 1 .. Len(s) : m \in 1 .. Len(s) + 1
  BY <1>1
<1>5. Listed(t)
  BY <1>2, <1>3 DEF Listed
<1>6. ToSet(t) = ToSet(s) \cup {p}
  <2>1. Len(s) + 1 \in DOMAIN t
    BY <1>1, <1>2
  <2>2. ASSUME NEW x \in ToSet(t) PROVE x \in ToSet(s) \cup {p}
    BY <1>1, <1>2, <1>3, <2>2 DEF ToSet
  <2>3. ASSUME NEW x \in ToSet(s) \cup {p} PROVE x \in ToSet(t)
    BY <1>1, <1>2, <1>4, <2>1, <2>3 DEF ToSet
  <2> QED BY <2>2, <2>3
<1> QED BY <1>5, <1>6 DEF t

\* A page that is stamped joins those that were.
LEMMA StampJoins ==
    ASSUME StampInv, NEW i \in Slots, NEW p \in PageNos, Stamp(i, p)
    PROVE  /\ order' \in [Slots -> Seq(PageNos)]
           /\ \A k \in Slots : Listed(order'[k])
           /\ \A k \in Slots : ToSet(order'[k]) = ToSet(order[k]) \cup (IF k = i THEN {p} ELSE {})
<1> DEFINE s == order[i]
           others == IF Age(i, p) = 0 THEN s ELSE RemoveAt(s, Age(i, p))
<1>1. /\ order \in [Slots -> Seq(PageNos)] /\ Listed(s)
      /\ s \in Seq(PageNos) /\ DOMAIN s = 1 .. Len(s) /\ Len(s) \in Nat
  BY DEF StampInv, Listed
<1>2. Listed(others) /\ (\A m \in 1 .. Len(others) : others[m] # p)
         /\ ToSet(others) \cup {p} = ToSet(s) \cup {p}
  <2>1. CASE p \in ToSet(s)
    <3>1. \E n \in DOMAIN s : s[n] = p
      BY <2>1 DEF ToSet
    <3>2. Age(i, p) \in 1 .. Len(s) /\ s[Age(i, p)] = p
      BY <1>1, <2>1, <3>1 DEF Age
    <3> DEFINE n == Age(i, p)
    <3>3. others = RemoveAt(s, n) /\ n \in 1 .. Len(s) /\ s[n] = p
      BY <1>1, <3>2
    <3> HIDE DEF n, others, s
    <3>4. /\ Listed(others)
          /\ \A m \in 1 .. Len(others) : others[m] # p
          /\ \A k \in 1 .. Len(s) \ {n} : \E m \in 1 .. Len(others) : others[m] = s[k]
          /\ Len(others) = Len(s) - 1
          /\ \A m \in 1 .. Len(s) - 1 : others[m] = IF m < n THEN s[m] ELSE s[m + 1]
      <4>1. /\ Listed(RemoveAt(s, n))
            /\ \A m \in 1 .. Len(RemoveAt(s, n)) : RemoveAt(s, n)[m] # s[n]
            /\ \A k \in 1 .. Len(s) \ {n} : \E m \in 1 .. Len(RemoveAt(s, n)) :
                  RemoveAt(s, n)[m] = s[k]
        BY <1>1, <3>3, OthersListed
      <4>2. /\ Len(RemoveAt(s, n)) = Len(s) - 1
            /\ \A m \in 1 .. Len(s) - 1 :
                  RemoveAt(s, n)[m] = IF m < n THEN s[m] ELSE s[m + 1]
        BY <1>1, <3>3, WithoutOne
      <4> QED BY <3>3, <4>1, <4>2
    <3>5. DOMAIN others = 1 .. Len(others) /\ others \in Seq(PageNos)
      BY <3>4 DEF Listed
    <3>6. ASSUME NEW x \in ToSet(others) PROVE x \in ToSet(s)
      <4>1. PICK m \in 1 .. Len(others) : others[m] = x
        BY <3>5, <3>6 DEF ToSet
      <4>2. m \in 1 .. Len(s) /\ m + 1 \in 1 .. Len(s)
        BY <1>1, <3>4
      <4>3. x = s[m] \/ x = s[m + 1]
        BY <3>4, <4>1
      <4> QED BY <1>1, <4>2, <4>3 DEF ToSet
    <3>7. ASSUME NEW x \in ToSet(s), x # p PROVE x \in ToSet(others)
      <4>1. PICK k \in 1 .. Len(s) : s[k] = x
        BY <1>1, <3>7 DEF ToSet
      <4>2. k # n
        BY <3>3, <3>7, <4>1
      <4> QED BY <3>4, <3>5, <4>1, <4>2 DEF ToSet
    <3> QED BY <3>4, <3>6, <3>7
  <2>2. CASE p \notin ToSet(s)
    <3>1. others = s
      BY <2>2 DEF Age
    <3> QED BY <1>1, <2>2, <3>1 DEF ToSet
  <2> QED BY <2>1, <2>2
<1>3. order' = [order EXCEPT ![i] = Append(others, p)]
  BY DEF Stamp
<1> HIDE DEF others
<1>4. Listed(Append(others, p)) /\ ToSet(Append(others, p)) = ToSet(s) \cup {p}
  BY <1>2, OneMoreListed
<1>5. Append(others, p) \in Seq(PageNos)
  BY <1>4 DEF Listed
<1>6. order' \in [Slots -> Seq(PageNos)]
  BY <1>1, <1>3, <1>5
<1>7. \A k \in Slots : order'[k] = IF k = i THEN Append(others, p) ELSE order[k]
  BY <1>1, <1>3
<1> QED BY <1>4, <1>6, <1>7 DEF StampInv

\* A page that comes to be in memory, or on its way there, was so before or is stamped.
LEMMA StampKept ==
    ASSUME SimInv, StampInv,
           \A i \in Slots : ToSet(order[i]) \subseteq ToSet(order'[i]),
           \A i \in Slots : Running(i)' => \A p \in PageNos :
              PageAt(i, p)' \in 0 .. PAGEWAIT =>
                 (Running(i) /\ PageAt(i, p) \in 0 .. PAGEWAIT) \/ p \in ToSet(order'[i])
    PROVE  ResidentStamped'
BY DEF StampInv, ResidentStamped

\* Statements and time bring no page in; a job that takes a processor has none.
LEMMA StepStamped ==
    ASSUME SimInv, StampInv, Step, UNCHANGED order
    PROVE  ResidentStamped'
<1>1. /\ turn \in Slots /\ SimTypeOK /\ QueueInv
      /\ pages \in [Jobs -> [PageNos -> Out .. PAGEWAIT]]
      /\ processes \in [Slots -> Jobs \cup {None}]
  BY DEF SimInv, SimTypeOK
<1>2. CASE StepBlocked \/ StepComputes
  <2>1. UNCHANGED <<processes, active, pages>>
    BY <1>2 DEF StepBlocked, StepComputes
  <2> QED BY <2>1 DEF StampInv, ResidentStamped, Running, PageAt
<1>3. CASE StepVacant
  <2>1. queueend = QUEUESIZE /\ UNCHANGED <<active, pages>> /\ ~Running(turn)
    BY <1>1, <1>3 DEF StepVacant, SimInv, ActiveUntilEmpty
  <2>2. processes' = [processes EXCEPT ![turn] = None]
    BY <1>3, <2>1, Sizes DEF StepVacant, Reload
  <2>3. \A i \in Slots : Running(i)' => Running(i) /\ processes'[i] = processes[i]
    BY <1>1, <2>1, <2>2 DEF Running
  <2> QED BY <2>1, <2>3 DEF StampInv, ResidentStamped, PageAt
<1>4. ASSUME NEW n \in Slots, n = turn, StepExits
      PROVE  ResidentStamped'
  <2> DEFINE j == processes[n]
  <2>1. /\ Running(n) /\ Reload(n) /\ j \in Jobs
        /\ pages' = [pages EXCEPT ![j] = [p \in PageNos |-> Out]]
        /\ active' = [active EXCEPT ![j] = FALSE]
    BY <1>1, <1>4, RunningJob DEF StepExits
  <2>2. \A i \in Jobs, p \in PageNos : pages'[i][p] = IF i = j THEN Out ELSE pages[i][p]
    BY <1>1, <2>1
  <2>3. Out \notin 0 .. PAGEWAIT /\ \A v \in 0 .. PAGEWAIT : v >= -PAGEWAIT
    BY Sizes DEF Out
  <2>4. /\ \A k \in Slots \ {n} : processes'[k] = processes[k]
        /\ \/ processes'[n] = None
           \/ processes'[n] = queueend + 1 /\ queueend + 1 \in Jobs
    BY <1>1, <2>1, ReloadFacts
  <2>5. ASSUME NEW p \in PageNos, Running(n)' PROVE pages'[processes'[n]][p] \notin 0 .. PAGEWAIT
    <3>1. processes'[n] = queueend + 1 /\ queueend + 1 \in Jobs
      BY <2>4, <2>5 DEF Running
    <3>2. queueend \in Nat
      BY <1>1, Sizes DEF SimTypeOK
    <3>3. \A i \in Slots : processes[i] # queueend + 1
      <4>1. ~(queueend + 1 <= queueend)
        BY <3>2
      <4> QED BY <1>1, <3>1, <4>1 DEF QueueInv
    <3>4. queueend + 1 \notin Loaded
      BY <3>3 DEF Loaded
    <3>5. <<queueend + 1, p>> \notin Occupied
      BY <1>1, <3>4 DEF QueueInv
    <3>6. ~(pages[queueend + 1][p] >= -PAGEWAIT)
      BY <3>1, <3>5 DEF Occupied
    <3> QED BY <2>2, <2>3, <3>1, <3>6
  <2>6. ASSUME NEW i \in Slots \ {n}, Running(i)'
        PROVE  /\ Running(i) /\ processes'[i] = processes[i]
               /\ \A p \in PageNos : pages'[processes[i]][p] = pages[processes[i]][p]
    <3>1. processes'[i] = processes[i] /\ processes[i] \in Jobs
      BY <1>1, <2>4, <2>6 DEF Running
    <3>2. processes[i] # j
      BY <1>1, <2>1, <3>1 DEF QueueInv, Running
    <3> HIDE DEF j
    <3>3. active[processes[i]]
      BY <1>1, <2>1, <2>6, <3>1, <3>2 DEF Running, SimTypeOK
    <3> QED BY <2>2, <2>6, <3>1, <3>2, <3>3 DEF Running
  <2> QED BY <2>5, <2>6 DEF StampInv, ResidentStamped, PageAt
<1> QED BY <1>1, <1>2, <1>3, <1>4 DEF Step

LEMMA AgeStamped ==
    ASSUME SimInv, StampInv, allage, UNCHANGED order
    PROVE  ResidentStamped'
<1>1. /\ UNCHANGED <<processes, active>>
      /\ \A j \in Jobs, p \in PageNos :
            /\ pages[j][p] \in Out .. PAGEWAIT
            /\ pages'[j][p] \in {pages[j][p], Aged(pages[j][p])}
  BY DEF allage, SimInv, SimTypeOK
<1>2. \A v \in Out .. PAGEWAIT : Aged(v) \in 0 .. PAGEWAIT => v \in 0 .. PAGEWAIT
  BY Sizes DEF Aged, Out
<1>3. \A j \in Jobs, p \in PageNos :
         pages'[j][p] \in 0 .. PAGEWAIT => pages[j][p] \in 0 .. PAGEWAIT
  BY <1>1, <1>2
<1>4. \A i \in Slots : Running(i)' => Running(i) /\ processes[i] \in Jobs
  BY <1>1, RunningJob DEF Running, SimInv
<1> QED BY <1>1, <1>3, <1>4 DEF StampInv, ResidentStamped, PageAt

LEMMA CallStamps == ASSUME SimInv, StampInv, pageit PROVE StampInv'
<1>1. /\ turn \in Slots /\ UNCHANGED <<path, processes, active, pc>>
      /\ pages \in [Jobs -> [PageNos -> Out .. PAGEWAIT]]
      /\ \A i \in Slots : Running(i) => processes[i] \in Jobs
  BY RunningJob DEF SimInv, SimTypeOK, pageit, SkipsInactive, StampsPage, ThrowsOut
<1>2. CASE SkipsInactive
  BY <1>1, <1>2 DEF SkipsInactive, StampInv, Listed, ResidentStamped, Running, PageAt
<1>3. ASSUME NEW n \in Slots, n = turn, StampsPage
      PROVE  StampInv'
  <2> DEFINE p == Needed(processes[n])
  <2>1. p \in PageNos /\ Running(n) /\ pagein(n, p) /\ Stamp(n, p) /\ processes[n] \in Jobs
    BY <1>1, <1>3, NeededPage DEF StampsPage, SimInv
  <2> HIDE DEF p
  <2>2. /\ order' \in [Slots -> Seq(PageNos)]
        /\ \A k \in Slots : Listed(order'[k])
        /\ \A k \in Slots : ToSet(order'[k]) = ToSet(order[k]) \cup (IF k = n THEN {p} ELSE {})
    BY <2>1, StampJoins
  <2>3. ASSUME NEW i \in Slots, Running(i)', NEW q \in PageNos, PageAt(i, q)' \in 0 .. PAGEWAIT
        PROVE  (Running(i) /\ PageAt(i, q) \in 0 .. PAGEWAIT) \/ q \in ToSet(order'[i])
    <3>1. Running(i)
      BY <1>1, <2>3 DEF Running
    <3>2. CASE UNCHANGED pages
      BY <1>1, <2>3, <3>1, <3>2 DEF PageAt
    <3>3. CASE pages' = [pages EXCEPT ![processes[n]][p] = PAGEWAIT]
      <4>1. pages'[processes[i]][q] = IF processes[i] = processes[n] /\ q = p THEN PAGEWAIT
                                      ELSE pages[processes[i]][q]
        BY <1>1, <2>1, <3>1, <3>3
      <4>2. processes[i] = processes[n] => i = n
        BY <3>1 DEF SimInv, QueueInv, Running
      <4>3. CASE i = n /\ q = p
        BY <2>2, <4>3
      <4>4. CASE ~(i = n /\ q = p)
        <5>1. pages'[processes[i]][q] = pages[processes[i]][q]
          BY <4>1, <4>2, <4>4
        <5> QED BY <1>1, <2>3, <3>1, <5>1 DEF PageAt
      <4> QED BY <4>3, <4>4
    <3> QED BY <2>1, <3>2, <3>3, PageinEffect
  <2>4. ResidentStamped'
    BY <2>2, <2>3, StampKept
  <2> QED BY <2>2, <2>4 DEF StampInv
<1>4. CASE ThrowsOut
  <2>1. UNCHANGED order /\ \E p \in PageNos : pageout(turn, p)
    BY <1>4 DEF ThrowsOut, Oldest, Resident
  <2>2. PICK p \in PageNos : pageout(turn, p)
    BY <2>1
  <2>3. \A i \in Slots, q \in PageNos : Running(i) /\ pages'[processes[i]][q] \in 0 .. PAGEWAIT =>
           pages[processes[i]][q] \in 0 .. PAGEWAIT
    <3>1. CASE UNCHANGED pages
      BY <3>1
    <3>2. CASE Running(turn) /\ pages' = [pages EXCEPT ![processes[turn]][p] = -1]
      <4>1. \A i \in Jobs, q \in PageNos : pages'[i][q] \in {pages[i][q], -1}
        BY <1>1, <3>2
      <4>2. -1 \notin 0 .. PAGEWAIT
        OBVIOUS
      <4> QED BY <1>1, <4>1, <4>2
    <3> QED BY <1>1, <2>2, <3>1, <3>2, PageoutEffect
  <2> QED BY <1>1, <2>1, <2>3 DEF StampInv, Listed, ResidentStamped, Running, PageAt
<1> QED BY <1>1, <1>2, <1>3, <1>4 DEF pageit

LEMMA StampStarts == LRUInit => StampInv
<1> SUFFICES ASSUME LRUInit PROVE StampInv
  OBVIOUS
<1>1. order = [i \in Slots |-> << >>] /\ \A j \in Jobs, p \in PageNos : pages[j][p] = Out
  BY DEF LRUInit, Init
<1>2. SimInv
  BY SimInit DEF LRUInit
<1>3. << >> \in Seq(PageNos) /\ Len(<< >>) = 0
  OBVIOUS
<1>4. \A i \in Slots : order[i] = << >>
  BY <1>1
<1>5. Listed(<< >>)
  BY <1>3 DEF Listed
<1>6. ResidentStamped
  <2>1. Out \notin 0 .. PAGEWAIT
    BY Sizes DEF Out
  <2>2. \A i \in Slots : Running(i) => processes[i] \in Jobs
    BY <1>2, RunningJob DEF SimInv
  <2> QED BY <1>1, <2>1, <2>2 DEF ResidentStamped, PageAt
<1> QED BY <1>1, <1>3, <1>4, <1>5, <1>6 DEF StampInv

LEMMA StampNext == SimInv /\ StampInv /\ [LRUNext]_lruVars => StampInv'
<1> SUFFICES ASSUME SimInv, StampInv, [LRUNext]_lruVars PROVE StampInv'
  OBVIOUS
<1>1. CASE (Step \/ allage) /\ UNCHANGED order
  BY <1>1, StepStamped, AgeStamped DEF StampInv, Listed
<1>2. CASE pageit
  BY <1>2, CallStamps
<1>3. CASE (Ended /\ UNCHANGED order) \/ UNCHANGED lruVars
  <2>1. UNCHANGED <<order, processes, active, pages>>
    BY <1>3 DEF Ended, lruVars, simVars
  <2> QED BY <2>1 DEF StampInv, Listed, ResidentStamped, Running, PageAt
<1> QED BY <1>1, <1>2, <1>3 DEF LRUNext

\* The order lists each page of a processor once, and every page in memory or on its way
\* there: a victim has a stamp, whichever process stamped it.
THEOREM StampInvariance == LRUSpec => []StampInv
<1>1. Init /\ [][LRUNext]_lruVars => []SimInv
  BY SimInit, SimNext, LRUIsAny, PTL
<1>2. LRUInit => Init
  BY DEF LRUInit
<1> QED BY <1>1, <1>2, StampStarts, StampNext, PTL DEF LRUSpec

\* A page in memory always has a stamp, so the oldest stamp is that of a page that was
\* seen, for any programs and frames.
THEOREM ResidentsStamped == LRUSpec => []ResidentStamped
BY StampInvariance, PTL DEF StampInv
=============================================================================

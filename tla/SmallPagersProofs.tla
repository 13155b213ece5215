------------------------- MODULE SmallPagersProofs -------------------------
(***************************************************************************)
(* The pagers of pager-basic.c and api-test.c, for any programs and any    *)
(* number of jobs and processors.  Each is one of the pagers the simulator *)
(* is proved right for.  What the handout says of the basic pager is so,   *)
(* if there are frames for all pages of a job; the test pager's two flags  *)
(* tell where the page is, if no job ends on the page under test.          *)
(***************************************************************************)
EXTENDS SmallPagers, SimulatorProofs

USE DEF procVars, pageVars
------------------------------------------------------------------------------
LEMMA PageitIsCall == SimInv /\ pageit => AnyCall
<1> SUFFICES ASSUME SimInv, pageit PROVE AnyCall
  OBVIOUS
<1>1. phase = "call" /\ PagerReturns /\ UNCHANGED procVars
  BY DEF pageit
<1>2. \E i \in Slots, p \in PageNos : pagein(i, p) \/ pageout(i, p)
  <2>1. CASE UNCHANGED pageVars
    BY <2>1, IdleCall
  <2>2. ASSUME NEW i \in Slots, NEW p, pageout(i, p)
        PROVE  \E k \in Slots, q \in PageNos : pagein(k, q) \/ pageout(k, q)
    <3>1. CASE p \in PageNos
      BY <2>2, <3>1
    <3>2. CASE p \notin PageNos
      BY <2>2, <3>2, IdleCall DEF pageout, PageoutStarts, Valid
    <3> QED BY <3>1, <3>2
  <2>3. ASSUME NEW i \in Slots, Running(i), Serve(i)
        PROVE  \E k \in Slots, q \in PageNos : pagein(k, q) \/ pageout(k, q)
    <3>1. Needed(processes[i]) \in PageNos
      BY <2>3, RunningJob, NeededPage DEF SimInv
    <3> QED BY <2>1, <2>2, <2>3, <3>1 DEF Serve, SwapOut
  <2> QED BY <2>1, <2>3 DEF pageit, FirstActive
<1> QED BY <1>1, <1>2 DEF AnyCall

LEMMA BasicIsAny == SimInv /\ [Next]_simVars => [AnyNext]_simVars
BY PageitIsCall DEF Next, AnyNext

\* Whatever is proved of the simulator under any pager holds under this one.
THEOREM BasicIsAnyPager == Spec => IsAnyPager
<1>1. Init /\ [][Next]_simVars => []SimInv
  BY SimInit, SimNext, BasicIsAny, PTL
<1> QED BY <1>1, BasicIsAny, PTL DEF Spec, IsAnyPager, AnySpec
------------------------------------------------------------------------------
(* One process at a time                                                    *)

BasicInv == SimInv /\ OneAtATime /\ NeverSwapsOut

LEMMA FirstUnique ==
    ASSUME NEW i \in Slots, NEW k \in Slots, FirstActive(i), FirstActive(k)
    PROVE  i = k
BY Sizes DEF FirstActive, Slots

\* While the pages of one job are the only ones in use, another of its pages finds a
\* frame, if there are as many frames as a job has pages.
LEMMA FrameLeft ==
    ASSUME MAXPROCPAGES <= PHYSICALPAGES, SimInv, OneAtATime,
           NEW i \in Slots, FirstActive(i), NEW p \in PageNos,
           PageAt(i, p) < -PAGEWAIT
    PROVE  pagesavail # 0
<1> DEFINE j     == processes[i]
           Other == {j} \X (PageNos \ {p})
<1>1. j \in Jobs
  BY RunningJob DEF FirstActive, SimInv
<1>2. Occupied \subseteq Other
  <2> SUFFICES ASSUME NEW k \in Occupied PROVE k \in Other
    OBVIOUS
  <2>1. k[1] = j /\ k[2] \in PageNos /\ k = <<k[1], k[2]>>
    BY FirstUnique DEF OneAtATime, Occupied
  <2>2. k[2] # p
    BY <1>1, <2>1, Sizes DEF Occupied, PageAt, SimInv, SimTypeOK, Out
  <2> QED BY <2>1, <2>2
<1>3. IsFiniteSet(PageNos) /\ Cardinality(PageNos) = MAXPROCPAGES
  <2>1. 0 \in Int /\ MAXPROCPAGES - 1 \in Int /\ 0 <= MAXPROCPAGES - 1
    BY SizesAssumption
  <2>2. IsFiniteSet(0 .. MAXPROCPAGES - 1)
    BY <2>1, FS_Interval
  <2>3. Cardinality(0 .. MAXPROCPAGES - 1) = (MAXPROCPAGES - 1) - 0 + 1
    BY <2>1, FS_Interval
  <2> QED BY <2>2, <2>3, Sizes DEF PageNos
<1>4. IsFiniteSet(PageNos \ {p}) /\ Cardinality(PageNos \ {p}) = MAXPROCPAGES - 1
  BY <1>3, FS_RemoveElement
<1>5. IsFiniteSet(Other) /\ Cardinality(Other) = MAXPROCPAGES - 1
  <2>1. IsFiniteSet({j}) /\ Cardinality({j}) = 1
    BY FS_Singleton
  <2>2. IsFiniteSet(Other) /\ Cardinality(Other) = 1 * (MAXPROCPAGES - 1)
    BY <1>4, <2>1, FS_Product
  <2> QED BY <2>2, Sizes
<1>6. Cardinality(Occupied) <= MAXPROCPAGES - 1
  BY <1>2, <1>5, FS_Subset
<1>7. Cardinality(Occupied) \in Nat
  BY OccupiedFinite DEF Occupied
<1> QED BY <1>6, <1>7, Sizes DEF SimInv, SimTypeOK, FrameInv

LEMMA BasicInit == Init => BasicInv
<1> SUFFICES ASSUME Init PROVE BasicInv
  OBVIOUS
<1>1. SimInv
  BY SimInit
<1>2. \A j \in Jobs, p \in PageNos : pages[j][p] = Out /\ Out < -PAGEWAIT
  BY Sizes DEF Init, Out
<1>3. Occupied = {}
  BY <1>2, Sizes DEF Occupied, Out
<1>4. Out \in Out .. PAGEWAIT
  BY Sizes DEF Out
<1>5. StateOf(Out) = "out"
  BY <1>4, Sizes, StateValues DEF Out
<1>6. NeverSwapsOut
  BY <1>2, <1>5 DEF NeverSwapsOut
<1> QED BY <1>1, <1>3, <1>6 DEF BasicInv, OneAtATime

\* The first active process stays the first, or nobody has a page any more.
LEMMA FirstStays ==
    ASSUME SimInv, OneAtATime, Step \/ allage
    PROVE  OneAtATime'
<1>1. SimInv'
  BY SimNext DEF AnyNext
<1> SUFFICES ASSUME NEW k \in Occupied'
             PROVE  \E i \in Slots : FirstActive(i)' /\ processes'[i] = k[1]
  BY DEF OneAtATime
<1>2. k[1] \in Loaded'
  BY <1>1 DEF SimInv, QueueInv
<1>3. CASE StepBlocked \/ StepComputes \/ allage
  <2>1. processes' = processes /\ active' = active
    BY <1>3 DEF StepBlocked, StepComputes, allage
  <2>2. k \in Occupied
    <3>1. CASE StepBlocked \/ StepComputes
      <4>1. pages' = pages
        BY <3>1 DEF StepBlocked, StepComputes
      <4> QED BY <4>1 DEF Occupied
    <3>2. CASE allage
      <4>1. \A j \in Jobs, p \in PageNos :
               /\ pages[j][p] \in Out .. PAGEWAIT
               /\ pages'[j][p] \in {pages[j][p], Aged(pages[j][p])}
        BY <3>2 DEF allage, SimInv, SimTypeOK
      <4> QED BY <4>1, AgedFacts DEF Occupied
    <3> QED BY <1>3, <3>1, <3>2
  <2> QED BY <2>1, <2>2 DEF OneAtATime, FirstActive, Running
<1>4. CASE StepVacant
  <2>0. turn \in Slots
    BY DEF SimInv, SimTypeOK
  <2>1. /\ turn \in Slots /\ ~Running(turn) /\ Reload(turn)
        /\ active' = active /\ pages' = pages
    BY <1>4, <2>0 DEF StepVacant
  <2>2. queueend = QUEUESIZE
    BY <2>1 DEF SimInv, ActiveUntilEmpty
  <2>3. processes' = [processes EXCEPT ![turn] = None]
    BY <2>1, <2>2, Sizes DEF Reload
  <2>4. \A i \in Slots : Running(i)' <=> Running(i)
    BY <2>1, <2>3 DEF Running, SimInv, SimTypeOK
  <2>5. PICK i \in Slots : FirstActive(i) /\ processes[i] = k[1]
    BY <2>1 DEF OneAtATime, Occupied
  <2>6. FirstActive(i)'
    <3>1. \A n \in 1 .. i - 1 : n \in Slots
      BY Sizes DEF Slots
    <3> QED BY <2>4, <2>5, <3>1 DEF FirstActive
  <2>7. processes'[i] = processes[i]
    BY <2>1, <2>3, <2>5 DEF FirstActive, SimInv, SimTypeOK
  <2> QED BY <2>5, <2>6, <2>7
<1>5. CASE StepExits
  <2>1. /\ turn \in Slots /\ Running(turn) /\ Reload(turn)
        /\ active' = [active EXCEPT ![processes[turn]] = FALSE]
        /\ pages' = [pages EXCEPT ![processes[turn]] = [p \in PageNos |-> Out]]
        /\ pages[processes[turn]][Needed(processes[turn])] = 0
    BY <1>5 DEF StepExits, SimInv, SimTypeOK
  <2>2. processes[turn] \in Jobs /\ Needed(processes[turn]) \in PageNos
    BY <2>1, RunningJob, NeededPage DEF SimInv
  <2>3. <<processes[turn], Needed(processes[turn])>> \in Occupied
    BY <2>1, <2>2, Sizes DEF Occupied
  <2>4. PICK i \in Slots : FirstActive(i) /\ processes[i] = processes[turn]
    BY <2>3 DEF OneAtATime
  <2>5. k[1] # processes[turn] /\ k \in Occupied
    BY <2>1, <2>2, Sizes DEF Occupied, SimInv, SimTypeOK, Out
  <2>6. k[1] = processes[i]
    BY <2>4, <2>5, FirstUnique DEF OneAtATime
  <2> QED BY <2>4, <2>5, <2>6
<1> QED BY <1>3, <1>4, <1>5 DEF Step

\* No transit out is begun by a statement or by time.
LEMMA NoneLeaves ==
    ASSUME SimInv, NeverSwapsOut, Step \/ allage
    PROVE  NeverSwapsOut'
<1> SUFFICES ASSUME NEW j \in Jobs, NEW p \in PageNos
             PROVE  StateOf(pages'[j][p]) # "going"
  BY DEF NeverSwapsOut
<1> DEFINE v == pages[j][p]
<1>1. v \in Out .. PAGEWAIT /\ StateOf(v) # "going"
  BY DEF SimInv, SimTypeOK, NeverSwapsOut
<1>2. Out \in Out .. PAGEWAIT /\ Out < -PAGEWAIT
  BY Sizes DEF Out
<1>3. pages'[j][p] \in {v, Out, Aged(v)}
  <2>1. CASE StepBlocked \/ StepComputes \/ StepVacant
    <3>1. pages' = pages
      BY <2>1 DEF StepBlocked, StepComputes, StepVacant
    <3> QED BY <3>1
  <2>2. CASE StepExits
    BY <2>2 DEF StepExits, SimInv, SimTypeOK
  <2>3. CASE allage
    BY <2>3 DEF allage
  <2> QED BY <2>1, <2>2, <2>3 DEF Step
<1> HIDE DEF v
<1>4. Aged(v) \in Out .. PAGEWAIT /\ StateOf(Aged(v)) # "going"
  <2>1. v < -PAGEWAIT \/ v >= 0
    BY <1>1, StateValues, Sizes
  <2>2. Aged(v) \in Out .. PAGEWAIT /\ (Aged(v) < -PAGEWAIT \/ Aged(v) >= 0)
    BY <1>1, <2>1, Sizes DEF Aged, Out
  <2> QED BY <2>2, StateValues, Sizes
<1>5. StateOf(Out) # "going"
  BY <1>2, StateValues
<1> QED BY <1>1, <1>3, <1>4, <1>5

\* What a call of the pager does, when a job has no more pages than there are frames.
LEMMA OnlyFetches ==
    ASSUME MAXPROCPAGES <= PHYSICALPAGES, BasicInv, pageit
    PROVE  \/ pages' = pages
           \/ \E i \in Slots, p \in PageNos :
                 /\ FirstActive(i) /\ processes[i] \in Jobs
                 /\ pages' = [pages EXCEPT ![processes[i]][p] = PAGEWAIT]
<1> SUFFICES ASSUME NEW i \in Slots, FirstActive(i), Serve(i), pages' # pages
             PROVE  \E p \in PageNos :
                       /\ processes[i] \in Jobs
                       /\ pages' = [pages EXCEPT ![processes[i]][p] = PAGEWAIT]
  BY DEF pageit
<1> DEFINE page == Needed(processes[i])
<1>1. processes[i] \in Jobs /\ page \in PageNos /\ Running(i)
  BY RunningJob, NeededPage DEF BasicInv, SimInv, FirstActive
<1>2. pages[processes[i]][page] \in Out .. PAGEWAIT /\ StateOf(PageAt(i, page)) # "going"
  BY <1>1 DEF BasicInv, SimInv, SimTypeOK, NeverSwapsOut, PageAt
<1>3. PageAt(i, page) < -PAGEWAIT \/ PageAt(i, page) >= 0
  BY <1>2, StateValues, Sizes DEF PageAt
<1>4. pageinResult(i, page)
  <2>1. CASE PageAt(i, page) < -PAGEWAIT
    BY <1>1, <2>1, FrameLeft DEF pageinResult, PageinStarts, Valid, BasicInv
  <2>2. CASE PageAt(i, page) >= 0
    BY <1>1, <2>2 DEF pageinResult, Valid
  <2> QED BY <1>3, <2>1, <2>2
<1>5. pagein(i, page)
  BY <1>4 DEF Serve
<1> QED BY <1>1, <1>5 DEF pagein

LEMMA CallKeeps ==
    ASSUME MAXPROCPAGES <= PHYSICALPAGES, BasicInv, pageit
    PROVE  OneAtATime' /\ NeverSwapsOut'
<1>1. processes' = processes /\ active' = active
  BY DEF pageit
<1>2. \A i \in Slots : FirstActive(i)' <=> FirstActive(i)
  BY <1>1 DEF FirstActive, Running
<1>3. CASE pages' = pages
  <2>1. Occupied' = Occupied
    BY <1>3 DEF Occupied
  <2> QED BY <1>1, <1>2, <1>3, <2>1 DEF BasicInv, OneAtATime, NeverSwapsOut
<1>4. ASSUME NEW i \in Slots, NEW p \in PageNos, FirstActive(i), processes[i] \in Jobs,
             pages' = [pages EXCEPT ![processes[i]][p] = PAGEWAIT]
      PROVE  OneAtATime' /\ NeverSwapsOut'
  <2>1. \A j \in Jobs, q \in PageNos :
           pages'[j][q] = IF j = processes[i] /\ q = p THEN PAGEWAIT ELSE pages[j][q]
    BY <1>4 DEF BasicInv, SimInv, SimTypeOK
  <2>2. \A k \in Occupied' : k \in Occupied \/ k[1] = processes[i]
    BY <2>1 DEF Occupied
  <2>3. OneAtATime'
    BY <1>1, <1>2, <1>4, <2>2 DEF BasicInv, OneAtATime
  <2>4. StateOf(PAGEWAIT) = "coming"
    BY Sizes, StateValues DEF Out
  <2>5. NeverSwapsOut'
    BY <2>1, <2>4 DEF BasicInv, NeverSwapsOut
  <2> QED BY <2>3, <2>5
<1> QED BY <1>3, <1>4, OnlyFetches

LEMMA BasicNext ==
    ASSUME MAXPROCPAGES <= PHYSICALPAGES, BasicInv, [Next]_simVars
    PROVE  BasicInv'
<1>1. SimInv'
  BY BasicIsAny, SimNext DEF BasicInv
<1>2. CASE Step \/ allage
  BY <1>1, <1>2, FirstStays, NoneLeaves DEF BasicInv
<1>3. CASE pageit
  BY <1>1, <1>3, CallKeeps DEF BasicInv
<1>4. CASE Ended \/ UNCHANGED simVars
  <2>1. processes' = processes /\ active' = active /\ pages' = pages
    BY <1>4 DEF Ended, simVars
  <2>2. Occupied' = Occupied
    BY <2>1 DEF Occupied
  <2>3. OneAtATime'
    BY <2>1, <2>2 DEF BasicInv, OneAtATime, FirstActive, Running
  <2> QED BY <1>1, <2>1, <2>3 DEF BasicInv, NeverSwapsOut
<1> QED BY <1>2, <1>3, <1>4 DEF Next

\* The same in the program that is linked with this pager.
LEMMA LinkedBasic ==
    ASSUME MAXPROCPAGES <= PHYSICALPAGES
    PROVE  LinkedInit /\ [][LinkedNext]_linkedVars => [](linked = "basic" => BasicInv)
<1>1. LinkedInit => (linked = "basic" => BasicInv)
  BY BasicInit DEF LinkedInit
<1>2. (linked = "basic" => BasicInv) /\ [LinkedNext]_linkedVars
         => (linked = "basic" => BasicInv)'
  <2> SUFFICES ASSUME linked = "basic" => BasicInv, [LinkedNext]_linkedVars,
                      linked' = "basic"
               PROVE  BasicInv'
    OBVIOUS
  <2>1. linked = "basic" /\ [Next]_simVars
    BY DEF LinkedNext, linkedVars, testVars
  <2> QED BY <2>1, BasicNext
<1> QED BY <1>1, <1>2, PTL

\* "Since only one process is allocated pages at a time": whatever the programs and the
\* processors, all frames in use belong to the first active process.
THEOREM BasicServesOne ==
    ASSUME MAXPROCPAGES <= PHYSICALPAGES
    PROVE  LinkedSpec => []ServesOne
<1>1. (linked = "basic" => BasicInv) => ServesOne
  BY DEF BasicInv, ServesOne
<1> QED BY <1>1, LinkedBasic, PTL DEF LinkedSpec

\* "This implementation never actually ends up having to swap out any pages": so it is
\* as soon as there is a frame for every page of one job.
THEOREM BasicNeverSwaps ==
    ASSUME MAXPROCPAGES <= PHYSICALPAGES
    PROVE  LinkedSpec => []NeverSwaps
<1>1. (linked = "basic" => BasicInv) => NeverSwaps
  BY DEF BasicInv, NeverSwaps
<1> QED BY <1>1, LinkedBasic, PTL DEF LinkedSpec
------------------------------------------------------------------------------
(* The pager of api-test.c                                                  *)

LEMMA TestIsCall == pageitTest => AnyCall
<1> SUFFICES ASSUME pageitTest PROVE AnyCall
  OBVIOUS
<1>1. phase = "call" /\ PagerReturns /\ UNCHANGED procVars
  BY DEF pageitTest
<1>2. 1 \in Slots /\ 0 \in PageNos
  BY SizesAssumption DEF Slots, PageNos
<1>3. \E i \in Slots, p \in PageNos : pagein(i, p) \/ pageout(i, p)
  BY <1>2, IdleCall DEF pageitTest, MovesOut, MovesIn, StillGoing, Waits, testProc, testPage
<1> QED BY <1>1, <1>3 DEF AnyCall

LEMMA TestIsAny == [TestNext]_testVars => [AnyNext]_simVars
BY TestIsCall DEF TestNext, testVars, AnyNext

\* Whatever is proved of the simulator under any pager holds while the test runs.
THEOREM TestIsAnyPager == TestSpec => AnySpec
<1>1. TestInit => Init
  BY DEF TestInit
<1> QED BY <1>1, TestIsAny, PTL DEF TestSpec, AnySpec

\* The first job stays on the first processor: it cannot come to its end, since no page
\* of it but the one under test is ever asked for.
TestInv ==
    /\ SimInv /\ LeavesTestPage
    /\ outTestRun \in BOOLEAN /\ inTestRun \in BOOLEAN
    /\ processes[1] = 1 /\ active[1]
    /\ \A p \in PageNos \ {testPage} : pages[1][p] = Out
    /\ FlagsMatch

LEMMA FirstRuns ==
    ASSUME TestInv
    PROVE  /\ 1 \in Slots /\ 1 \in Jobs /\ 0 \in PageNos /\ Running(1)
           /\ \A p \in PageNos : pages[1][p] \in Out .. PAGEWAIT /\ PageAt(1, p) = pages[1][p]
           /\ \A i \in Slots : Running(i) /\ i # 1 => processes[i] \in Jobs \ {1}
<1>1. 1 \in Slots /\ 1 \in Jobs /\ 0 \in PageNos
  BY SizesAssumption DEF Slots, Jobs, PageNos
<1>2. ASSUME NEW i \in Slots, Running(i), i # 1 PROVE processes[i] \in Jobs \ {1}
  BY <1>1, <1>2, RunningJob DEF TestInv, SimInv, QueueInv, None
<1> QED BY <1>1, <1>2 DEF TestInv, SimInv, SimTypeOK, Running, PageAt, None

LEMMA TestStarts == TestInit => TestInv
<1> SUFFICES ASSUME TestInit PROVE TestInv
  OBVIOUS
<1>1. SimInv
  BY SimInit DEF TestInit
<1>2. 1 \in Slots /\ 1 \in Jobs /\ 0 \in PageNos
  BY SizesAssumption DEF Slots, Jobs, PageNos
<1>3. /\ processes[1] = 1 /\ active[1] /\ \A p \in PageNos : pages[1][p] = Out
      /\ outTestRun = FALSE /\ inTestRun = FALSE
  BY <1>2 DEF TestInit, FlagsInit, Init
<1>4. FlagsMatch
  BY <1>3 DEF FlagsMatch, Running, testProc, None
<1>5. outTestRun \in BOOLEAN /\ inTestRun \in BOOLEAN
  BY <1>3
<1> QED BY <1>1, <1>3, <1>4, <1>5 DEF TestInv, TestInit

\* The path of a job is drawn at the start.
LEMMA PathStays ==
    ASSUME LeavesTestPage, path' = path
    PROVE  LeavesTestPage'
BY DEF LeavesTestPage

\* The page under test and the flags are left alone, or the page ages.
LEMMA StillMatches ==
    ASSUME TestInv, SimInv', UNCHANGED <<flags, path>>, processes'[1] = 1, active'[1],
           \A p \in PageNos : pages'[1][p] = pages[1][p] \/ pages'[1][p] = Aged(pages[1][p])
    PROVE  TestInv'
<1>1. 0 \in PageNos /\ \A p \in PageNos : pages[1][p] \in Out .. PAGEWAIT
  BY FirstRuns
<1>2. \A p \in PageNos \ {testPage} : pages'[1][p] = Out
  BY Sizes DEF TestInv, Aged, Out
<1>3. pages'[1][0] >= 0 <=> pages[1][0] >= 0
  BY <1>1, Sizes DEF Aged, Out
<1>4. pages'[1][0] \in Out .. PAGEWAIT
  BY <1>1, FirstRuns, Sizes DEF Aged, Out
<1>5. FlagsMatch'
  BY <1>1, <1>3, <1>4, Sizes
     DEF TestInv, FlagsMatch, PageAt, Running, testProc, testPage, flags, None, Out
<1> QED BY <1>2, <1>5, PathStays DEF TestInv, flags

LEMMA StepMatches == ASSUME TestInv, Step, UNCHANGED flags PROVE TestInv'
<1>1. SimInv'
  BY SimNext DEF TestInv, AnyNext
<1>2. turn \in Slots /\ 1 \in Slots /\ 1 \in Jobs /\ SimTypeOK
  BY FirstRuns DEF TestInv, SimInv, SimTypeOK
<1>3. ASSUME NEW i \in Slots \ {1}, Reload(i) PROVE processes'[1] = 1
  BY <1>2, <1>3, ReloadFacts DEF TestInv
<1>4. CASE StepBlocked \/ StepComputes
  BY <1>1, <1>4, StillMatches DEF StepBlocked, StepComputes, TestInv
<1>5. CASE StepVacant
  <2>1. turn # 1
    BY <1>5, FirstRuns DEF StepVacant
  <2> QED BY <1>1, <1>2, <1>3, <1>5, <2>1, StillMatches DEF StepVacant, TestInv
<1>6. CASE StepExits
  <2>1. turn # 1
    <3> SUFFICES ASSUME turn = 1 PROVE FALSE
      OBVIOUS
    <3>1. pages[1][Needed(1)] = 0 /\ pc[1] = Len(path[1])
      BY <1>6 DEF StepExits, TestInv
    <3>2. Needed(1) # testPage
      BY <1>2, <3>1 DEF Needed, LeavesTestPage, TestInv
    <3>3. Needed(1) \in PageNos
      BY <1>2, NeededPage
    <3> QED BY <3>1, <3>2, <3>3, Sizes DEF TestInv, Out
  <2>2. processes[turn] \in Jobs \ {1}
    BY <1>2, <1>6, <2>1, FirstRuns DEF StepExits
  <2>3. processes'[1] = 1 /\ active'[1] /\ pages'[1] = pages[1] /\ path' = path
    BY <1>2, <1>3, <1>6, <2>1, <2>2 DEF StepExits, SimTypeOK, TestInv
  <2> QED BY <1>1, <2>3, StillMatches
<1> QED BY <1>4, <1>5, <1>6 DEF Step

LEMMA CallMatches == ASSUME TestInv, pageitTest PROVE TestInv'
<1>1. SimInv'
  BY SimNext, TestIsCall DEF TestInv, AnyNext
<1>2. /\ 1 \in Slots /\ 1 \in Jobs /\ 0 \in PageNos /\ Running(1) /\ SimTypeOK
      /\ pages[1][0] \in Out .. PAGEWAIT /\ PageAt(1, 0) = pages[1][0]
      /\ Valid(1, 0)
  BY FirstRuns DEF TestInv, SimInv, Valid
<1>3. processes'[1] = 1 /\ active'[1] /\ Running(1)' /\ path' = path /\ LeavesTestPage'
  BY <1>2, PathStays DEF pageitTest, TestInv, Running
<1>4. CASE MovesOut
  <2>1. pages' = [pages EXCEPT ![1][0] = -1]
    BY <1>2, <1>4 DEF MovesOut, SwappedIn, pageout, PageoutStarts, testProc, testPage, TestInv
  <2>2. pages'[1][0] = -1 /\ \A p \in PageNos \ {0} : pages'[1][p] = pages[1][p]
    BY <1>2, <2>1 DEF SimTypeOK
  <2>3. inTestRun' = TRUE /\ outTestRun' = FALSE
    BY <1>4 DEF MovesOut
  <2>4. FlagsMatch'
    BY <1>3, <2>2, <2>3 DEF FlagsMatch, PageAt, testProc, testPage
  <2>5. \A p \in PageNos \ {testPage} : pages'[1][p] = Out
    BY <2>2 DEF TestInv, testPage
  <2> QED BY <1>1, <1>3, <2>3, <2>4, <2>5 DEF TestInv
<1>5. CASE MovesIn
  <2>1. \/ pages' = [pages EXCEPT ![1][0] = PAGEWAIT]
        \/ pages' = pages /\ pages[1][0] >= 0
    BY <1>2, <1>5
       DEF MovesIn, pageinResult, pagein, PageinStarts, testProc, testPage, TestInv
  <2>2. pages'[1][0] >= 0 /\ \A p \in PageNos \ {0} : pages'[1][p] = pages[1][p]
    BY <1>2, <2>1, Sizes DEF SimTypeOK
  <2> QED BY <1>1, <1>3, <1>5, <2>2
          DEF MovesIn, TestInv, FlagsMatch, PageAt, testProc, testPage
<1>6. CASE StillGoing \/ Waits
  BY <1>1, <1>3, <1>6, StillMatches DEF StillGoing, Waits, flags, TestInv, FlagsMatch,
     PageAt, testProc, testPage
<1> QED BY <1>4, <1>5, <1>6 DEF pageitTest

LEMMA TestKeeps == TestInv /\ [TestNext]_testVars => TestInv'
<1> SUFFICES ASSUME TestInv, [TestNext]_testVars PROVE TestInv'
  OBVIOUS
<1>1. SimInv'
  BY TestIsAny, SimNext DEF TestInv
<1>2. CASE Step /\ UNCHANGED flags
  BY <1>2, StepMatches
<1>3. CASE allage /\ UNCHANGED flags
  <2>1. \A p \in PageNos : pages'[1][p] = pages[1][p] \/ pages'[1][p] = Aged(pages[1][p])
    BY <1>3, FirstRuns DEF allage
  <2> QED BY <1>1, <1>3, <2>1, StillMatches DEF allage, TestInv
<1>4. CASE pageitTest
  BY <1>4, CallMatches
<1>5. CASE UNCHANGED testVars
  BY <1>1, <1>5, StillMatches DEF testVars, simVars, TestInv
<1>6. CASE Ended /\ UNCHANGED flags
  BY <1>1, <1>6, StillMatches DEF Ended, simVars, TestInv
<1> QED BY <1>2, <1>3, <1>4, <1>5, <1>6 DEF TestNext

\* What the pager reads from the page map and its two flags is so for any programs, any
\* wait and any number of rounds: a page it waits for is on its way or there, and its
\* process runs until the test is over.
THEOREM FlagsKept == LinkedSpec => []FlagsTell
<1>1. LinkedInit => (linked = "test" => TestInv)
  BY TestStarts DEF LinkedInit
<1>2. (linked = "test" => TestInv) /\ [LinkedNext]_linkedVars => (linked = "test" => TestInv)'
  <2> SUFFICES ASSUME linked = "test" => TestInv, [LinkedNext]_linkedVars, linked' = "test"
               PROVE  TestInv'
    OBVIOUS
  <2>1. linked = "test" /\ [TestNext]_testVars
    BY DEF LinkedNext, linkedVars
  <2> QED BY <2>1, TestKeeps
<1>3. (linked = "test" => TestInv) => FlagsTell
  BY DEF TestInv, FlagsTell
<1> QED BY <1>1, <1>2, <1>3, PTL DEF LinkedSpec
=============================================================================

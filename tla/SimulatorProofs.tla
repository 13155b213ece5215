-------------------------- MODULE SimulatorProofs --------------------------
(***************************************************************************)
(* simulator.c under any pager at all: what a pager may rely on, and what  *)
(* no pager can break, for any number of processors, jobs and frames and   *)
(* any programs.                                                           *)
(***************************************************************************)
EXTENDS Simulator, FiniteSetTheorems, TLAPS

USE DEF procVars, pageVars

\* A job that was unloaded has come to its exit; the simulation ends only when no
\* processor runs a job.
ExitsReached == \A j \in Jobs : ~active[j] => pc[j] = Len(path[j])
ScoreDone    == phase = "score" => alldone

\* Every processor that runs nothing found the queue empty.
SimInv == /\ SimTypeOK /\ FrameInv /\ QueueInv /\ ActiveUntilEmpty
          /\ ExitsReached /\ ScoreDone
------------------------------------------------------------------------------
(* Constants and sets                                                       *)

LEMMA Sizes == /\ Procs \in Nat /\ Procs > 0 /\ QUEUESIZE \in Nat /\ QUEUESIZE > 0
               /\ MAXPROCPAGES \in Nat /\ PHYSICALPAGES \in Nat
               /\ PAGEWAIT \in Nat /\ PAGEWAIT > 0
BY SizesAssumption

LEMMA PathLength == ASSUME NEW s \in Paths PROVE Len(s) \in Nat /\ Len(s) > 0
<1>1. s \in Seq(PageNos) /\ s # << >>
  BY PathsAssumption
<1> QED BY <1>1

LEMMA OccupiedFinite ==
    /\ IsFiniteSet(Jobs \X PageNos)
    /\ \A S \in SUBSET (Jobs \X PageNos) : IsFiniteSet(S) /\ Cardinality(S) \in Nat
<1>1. IsFiniteSet(Jobs) /\ IsFiniteSet(PageNos)
  BY Sizes, FS_Interval DEF Jobs, PageNos
<1>2. IsFiniteSet(Jobs \X PageNos)
  BY <1>1, FS_Product
<1> QED BY <1>2, FS_Subset, FS_CardinalityType

\* A processor that runs something runs a job.
LEMMA RunningJob ==
    ASSUME SimTypeOK, NEW i \in Slots, Running(i)
    PROVE  processes[i] \in Jobs /\ active[processes[i]]
BY DEF SimTypeOK, Running, None

\* The frames given back when a job ends, or when pages have gone out.
LEMMA FramesReturned ==
    ASSUME FrameInv, pagesavail \in Nat,
           NEW Gone \in SUBSET Occupied, NEW n \in Nat, Cardinality(Gone) = n,
           Occupied' = Occupied \ Gone, pagesavail' = pagesavail + n
    PROVE  FrameInv' /\ pagesavail' \in 0 .. PHYSICALPAGES
<1>1. IsFiniteSet(Occupied) /\ Occupied \cap Gone = Gone
  BY OccupiedFinite DEF Occupied
<1>2. Cardinality(Occupied \ Gone) = Cardinality(Occupied) - n
  BY <1>1, FS_Difference
<1>3. Cardinality(Occupied) \in Nat /\ Cardinality(Occupied') \in Nat
  BY <1>1, FS_CardinalityType, FS_Difference
<1> QED BY <1>2, <1>3, Sizes DEF FrameInv

LEMMA SameFrames ==
    ASSUME FrameInv, pagesavail \in Nat, Occupied' = Occupied, pagesavail' = pagesavail
    PROVE  FrameInv' /\ pagesavail' \in 0 .. PHYSICALPAGES
<1>1. Cardinality(Occupied) \in Nat
  BY OccupiedFinite DEF Occupied
<1> QED BY <1>1, Sizes DEF FrameInv

LEMMA FrameTaken ==
    ASSUME FrameInv, pagesavail \in Nat, pagesavail # 0,
           NEW k \in (Jobs \X PageNos) \ Occupied, Occupied' = Occupied \cup {k},
           pagesavail' = pagesavail - 1
    PROVE  FrameInv' /\ pagesavail' \in 0 .. PHYSICALPAGES
<1>1. IsFiniteSet(Occupied) /\ Cardinality(Occupied) \in Nat
  BY OccupiedFinite DEF Occupied
<1>2. Cardinality(Occupied \cup {k}) = Cardinality(Occupied) + 1
  BY <1>1, FS_AddElement
<1> QED BY <1>1, <1>2, Sizes DEF FrameInv

\* The pages of one job that have a frame, as a set of keys.
LEMMA FramesOfJob ==
    ASSUME NEW j \in Jobs
    PROVE  /\ {k \in Occupied : k[1] = j} \in SUBSET Occupied
           /\ Cardinality(FramesOf(j)) \in Nat
           /\ Cardinality({k \in Occupied : k[1] = j}) = Cardinality(FramesOf(j))
<1> DEFINE K == {k \in Occupied : k[1] = j}
           f == [p \in FramesOf(j) |-> <<j, p>>]
<1>1. IsFiniteSet(FramesOf(j))
  <2>1. IsFiniteSet(PageNos)
    BY Sizes, FS_Interval DEF PageNos
  <2> QED BY <2>1, FS_Subset DEF FramesOf
<1>2. f \in Bijection(FramesOf(j), K)
  <2>1. f \in [FramesOf(j) -> K]
    BY DEF FramesOf, Occupied
  <2>2. \A p, q \in FramesOf(j) : f[p] = f[q] => p = q
    OBVIOUS
  <2>3. \A k \in K : k[2] \in FramesOf(j) /\ k = <<j, k[2]>>
    BY DEF FramesOf, Occupied
  <2>4. \A k \in K : \E p \in FramesOf(j) : f[p] = k
    BY <2>3
  <2> QED BY <2>1, <2>2, <2>4 DEF Bijection, Injection, Surjection, IsInjective
<1>3. ExistsBijection(FramesOf(j), K)
  BY <1>2 DEF ExistsBijection
<1> QED BY <1>1, <1>3, FS_Bijection, FS_CardinalityType
------------------------------------------------------------------------------
(* The initial state                                                        *)

LEMMA SimInit == Init => SimInv
<1> SUFFICES ASSUME Init PROVE SimInv
  OBVIOUS
<1> USE Sizes DEF Init
<1>1. SimTypeOK
  <2>1. \A j \in Jobs : path[j] \in Paths /\ pc[j] \in 1 .. Len(path[j])
    BY PathLength
  <2>2. /\ processes \in [Slots -> Jobs \cup {None}] /\ queueend \in 0 .. QUEUESIZE
        /\ turn \in Slots
    BY DEF Slots, Jobs, None
  <2>3. Out \in Int /\ Out <= PAGEWAIT
    BY DEF Out
  <2>4. pages \in [Jobs -> [PageNos -> Out .. PAGEWAIT]]
    BY <2>3
  <2> QED BY <2>1, <2>2, <2>4 DEF SimTypeOK
<1>2. Occupied = {}
  BY DEF Occupied, Out
<1>3. FrameInv
  BY <1>2, FS_EmptySet DEF FrameInv
<1>4. QueueInv
  <2>1. \A i \in Slots : processes[i] = IF i \in Jobs THEN i ELSE None
    OBVIOUS
  <2>2. \A i, k \in Slots : processes[i] # None /\ processes[i] = processes[k] => i = k
    BY <2>1 DEF Jobs, Slots, None
  <2>3. ASSUME NEW j \in Jobs
        PROVE  (\E i \in Slots : processes[i] = j) <=> j <= queueend
    <3>1. j \in Slots <=> j <= queueend
      BY DEF Jobs, Slots
    <3>2. \A i \in Slots : processes[i] = j <=> i = j
      BY <2>1 DEF Jobs, None
    <3> QED BY <3>1, <3>2
  <2>4. \A j \in Jobs : active[j] /\ pc[j] = 1
    OBVIOUS
  <2> QED BY <1>2, <2>2, <2>3, <2>4 DEF QueueInv
<1>5. ActiveUntilEmpty
  BY DEF ActiveUntilEmpty, Running, Slots, Jobs, None
<1>6. ExitsReached /\ ScoreDone
  BY DEF ExitsReached, ScoreDone
<1> QED BY <1>1, <1>3, <1>4, <1>5, <1>6 DEF SimInv
------------------------------------------------------------------------------
(* allstep                                                                  *)

LEMMA StepsTurn ==
    ASSUME turn \in Slots, StepsNext
    PROVE  turn' \in Slots /\ phase' \in {"age", "step"}
BY Sizes DEF StepsNext, Slots

LEMMA BlockedStep == ASSUME SimInv, StepBlocked PROVE SimInv'
<1>1. turn' \in Slots /\ phase' \in {"age", "step"}
  BY StepsTurn DEF StepBlocked, SimInv, SimTypeOK
<1>2. UNCHANGED <<path, processes, queueend, active, pc, pages, pagesavail>>
  BY DEF StepBlocked
<1>3. SimTypeOK'
  BY <1>1, <1>2 DEF SimInv, SimTypeOK
<1> QED BY <1>1, <1>2, <1>3
        DEF SimInv, FrameInv, QueueInv, ActiveUntilEmpty, ExitsReached, ScoreDone,
            Occupied, Loaded, Running

LEMMA ComputeStep == ASSUME SimInv, StepComputes PROVE SimInv'
<1> DEFINE j == processes[turn]
<1>1. turn' \in Slots /\ phase' \in {"age", "step"}
  BY StepsTurn DEF StepComputes, SimInv, SimTypeOK
<1>2. UNCHANGED <<path, processes, queueend, active, pages, pagesavail>>
  BY DEF StepComputes
<1>3. /\ turn \in Slots /\ Running(turn) /\ pc[j] < Len(path[j])
      /\ pc' = [pc EXCEPT ![j] = @ + 1]
  BY DEF StepComputes, SimInv, SimTypeOK
<1>4. j \in Jobs /\ active[j]
  BY <1>3, RunningJob DEF SimInv
<1> HIDE DEF j
<1>5. path[j] \in Paths /\ Len(path[j]) \in Nat /\ pc[j] \in Nat
  BY <1>4, PathLength DEF SimInv, SimTypeOK
<1>6. SimTypeOK'
  <2>1. pc' \in [Jobs -> Nat] /\ \A k \in Jobs : pc'[k] \in 1 .. Len(path[k])
    BY <1>3, <1>4, <1>5 DEF SimInv, SimTypeOK
  <2> QED BY <1>1, <1>2, <2>1 DEF SimInv, SimTypeOK
<1>7. \A k \in Jobs : k # j => pc'[k] = pc[k]
  BY <1>3 DEF SimInv, SimTypeOK
<1>8. j <= queueend
  BY <1>3, <1>4 DEF SimInv, QueueInv, j
<1>9. QueueInv'
  BY <1>2, <1>4, <1>7, <1>8, Sizes DEF SimInv, SimTypeOK, QueueInv, Occupied, Loaded,
     Running, Jobs
<1>10. ExitsReached'
  BY <1>2, <1>4, <1>7 DEF SimInv, ExitsReached
<1> QED BY <1>1, <1>2, <1>6, <1>9, <1>10
        DEF SimInv, FrameInv, ActiveUntilEmpty, ScoreDone, Occupied, Running

\* The processor gets the next job of the queue, if there is one.
LEMMA ReloadFacts ==
    ASSUME SimTypeOK, NEW i \in Slots, Reload(i)
    PROVE  /\ processes' \in [Slots -> Jobs \cup {None}]
           /\ queueend' \in 0 .. QUEUESIZE
           /\ \A k \in Slots \ {i} : processes'[k] = processes[k]
           /\ \/ processes'[i] = None /\ queueend = QUEUESIZE /\ queueend' = queueend
              \/ /\ processes'[i] = queueend + 1 /\ queueend + 1 \in Jobs
                 /\ queueend' = queueend + 1
<1>1. /\ processes \in [Slots -> Jobs \cup {None}] /\ queueend \in Nat
      /\ queueend <= QUEUESIZE /\ QUEUESIZE \in Nat
  BY Sizes DEF SimTypeOK
<1>2. CASE queueend < QUEUESIZE
  <2>1. queueend + 1 \in Jobs /\ queueend + 1 \in 0 .. QUEUESIZE
    BY <1>1, <1>2 DEF Jobs
  <2> QED BY <1>1, <1>2, <2>1 DEF Reload
<1>3. CASE ~(queueend < QUEUESIZE)
  <2>1. queueend = QUEUESIZE
    BY <1>1, <1>3
  <2> QED BY <1>1, <1>3, <2>1 DEF Reload
<1> QED BY <1>2, <1>3

\* A job leaves processor i, which reloads.
LEMMA ReloadQueue ==
    ASSUME SimTypeOK, QueueInv, ActiveUntilEmpty, NEW i \in Slots, Reload(i),
           active' \in [Jobs -> BOOLEAN], pc' = pc,
           \A j \in Jobs : active'[j] <=> active[j] /\ j # processes[i],
           \A k \in Occupied' : k \in Occupied /\ k[1] # processes[i]
    PROVE  QueueInv' /\ ActiveUntilEmpty'
<1> DEFINE old == processes[i]
           new == processes'[i]
<1>1. /\ processes' \in [Slots -> Jobs \cup {None}] /\ queueend \in Nat
      /\ \A k \in Slots \ {i} : processes'[k] = processes[k]
      /\ queueend <= QUEUESIZE /\ queueend' \in Nat
      /\ \/ new = None /\ queueend = QUEUESIZE /\ queueend' = queueend
         \/ new = queueend + 1 /\ queueend + 1 \in Jobs /\ queueend' = queueend + 1
  BY ReloadFacts, Sizes DEF SimTypeOK
<1>2. \A j \in Jobs : (\E k \in Slots : processes[k] = j) <=> (j <= queueend /\ active[j])
  BY DEF QueueInv
<1>3. \A j \in Jobs : j > queueend => active[j] /\ pc[j] = 1
  BY DEF QueueInv
<1>4. \A k, l \in Slots : processes[k] # None /\ processes[k] = processes[l] => k = l
  BY DEF QueueInv
<1>5. /\ old \in Jobs \cup {None} /\ \A j \in Jobs : j \in Nat /\ j # None
      /\ \A k \in Slots : processes[k] \in Jobs => processes[k] <= queueend
  BY <1>2, Sizes DEF SimTypeOK, Jobs, None
<1> HIDE DEF old, new
<1>6. \A k, l \in Slots : processes'[k] # None /\ processes'[k] = processes'[l] => k = l
  <2>1. \A k \in Slots \ {i} : processes'[k] # None => processes'[k] <= queueend
    BY <1>1, <1>5 DEF SimTypeOK
  <2>2. \A k \in Slots \ {i} : processes'[k] # None => processes'[k] # new
    BY <1>1, <2>1 DEF new
  <2> QED BY <1>1, <1>4, <2>2 DEF new
<1>7. ASSUME NEW j \in Jobs
      PROVE  (\E k \in Slots : processes'[k] = j) <=> (j <= queueend' /\ active'[j])
  <2>1. CASE j = new
    <3>1. j = queueend + 1 /\ queueend' = queueend + 1
      BY <1>1, <1>5, <2>1
    <3>2. active[j] /\ j # old
      BY <1>1, <1>3, <1>5, <3>1 DEF old
    <3>3. processes'[i] = j /\ j <= queueend' /\ active'[j]
      BY <1>1, <2>1, <3>1, <3>2 DEF new, old
    <3> QED BY <3>3
  <2>2. CASE j # new
    <3>1. (\E k \in Slots : processes'[k] = j)
             <=> (\E k \in Slots : processes[k] = j) /\ j # old
      BY <1>1, <1>4, <1>5, <2>2 DEF new, old
    <3>2. j <= queueend' <=> j <= queueend
      BY <1>1, <1>5, <2>2
    <3> QED BY <1>2, <3>1, <3>2 DEF old
  <2> QED BY <2>1, <2>2
<1>8. ASSUME NEW j \in Jobs, j > queueend'
      PROVE  active'[j] /\ pc'[j] = 1
  <2>1. j > queueend /\ j # old
    BY <1>1, <1>5, <1>8 DEF old
  <2> QED BY <1>3, <2>1 DEF old
<1>9. \A k \in Occupied' : k[1] \in Loaded'
  <2> SUFFICES ASSUME NEW k \in Occupied' PROVE k[1] \in Loaded'
    OBVIOUS
  <2>1. k[1] \in Loaded /\ k[1] # old
    BY DEF QueueInv, old
  <2>2. PICK l \in Slots : Running(l) /\ k[1] = processes[l]
    BY <2>1 DEF Loaded
  <2>3. k[1] \in Jobs /\ active[k[1]]
    BY <2>2, RunningJob
  <2>4. l # i /\ processes'[l] = k[1] /\ active'[k[1]]
    BY <1>1, <2>1, <2>2, <2>3 DEF old
  <2>5. Running(l)'
    BY <1>5, <2>3, <2>4 DEF Running
  <2> QED BY <2>4, <2>5 DEF Loaded
<1>10. ActiveUntilEmpty'
  <2> SUFFICES ASSUME NEW l \in Slots, ~Running(l)' PROVE queueend' = QUEUESIZE
    BY DEF ActiveUntilEmpty
  <2>1. CASE processes'[l] = None /\ l = i
    BY <1>1, <1>5, <2>1, Sizes DEF new, Jobs, None
  <2>2. CASE processes'[l] # None
    <3>1. processes'[l] \in Jobs /\ ~active'[processes'[l]]
      BY <1>1, <2>2 DEF Running
    <3> QED BY <1>7, <3>1
  <2>3. CASE processes'[l] = None /\ l # i
    <3>1. ~Running(l)
      BY <1>1, <2>3 DEF Running
    <3>2. queueend = QUEUESIZE
      BY <3>1 DEF ActiveUntilEmpty
    <3> QED BY <1>1, <3>2, Sizes DEF Jobs
  <2> QED BY <2>1, <2>2, <2>3
<1> QED BY <1>6, <1>7, <1>8, <1>9, <1>10 DEF QueueInv

\* The exit statement: the pages of the job give back their frames and are out.
LEMMA ExitStep == ASSUME SimInv, StepExits PROVE SimInv'
<1> DEFINE j == processes[turn]
<1>1. turn' \in Slots /\ phase' \in {"age", "step"}
  BY StepsTurn DEF StepExits, SimInv, SimTypeOK
<1>2. /\ turn \in Slots /\ Running(turn) /\ pc[j] = Len(path[j])
      /\ pages' = [pages EXCEPT ![j] = [p \in PageNos |-> Out]]
      /\ pagesavail' = pagesavail + Cardinality(FramesOf(j))
      /\ active' = [active EXCEPT ![j] = FALSE]
      /\ Reload(turn) /\ UNCHANGED <<path, pc>>
  BY DEF StepExits, SimInv, SimTypeOK
<1>3. j \in Jobs /\ active[j]
  BY <1>2, RunningJob DEF SimInv
<1>4. Out \in Out .. PAGEWAIT /\ ~(Out >= -PAGEWAIT)
  BY Sizes DEF Out
<1> HIDE DEF j
<1>5. Occupied' = Occupied \ {k \in Occupied : k[1] = j}
  BY <1>2, <1>3, <1>4 DEF Occupied, SimInv, SimTypeOK
<1>6. FrameInv' /\ pagesavail' \in 0 .. PHYSICALPAGES
  <2> DEFINE Gone == {k \in Occupied : k[1] = j}
  <2>1. /\ Gone \in SUBSET Occupied /\ Cardinality(FramesOf(j)) \in Nat
        /\ Cardinality(Gone) = Cardinality(FramesOf(j))
    BY <1>3, FramesOfJob
  <2>2. pagesavail \in Nat /\ FrameInv
    BY DEF SimInv, SimTypeOK
  <2>3. Occupied' = Occupied \ Gone
    BY <1>5
  <2> HIDE DEF Gone
  <2> QED BY <1>2, <2>1, <2>2, <2>3, FramesReturned
<1>7. /\ active' \in [Jobs -> BOOLEAN]
      /\ \A k \in Jobs : active'[k] <=> active[k] /\ k # j
  BY <1>2, <1>3 DEF SimInv, SimTypeOK
<1>8. QueueInv' /\ ActiveUntilEmpty'
  BY <1>2, <1>5, <1>7, ReloadQueue DEF SimInv, j
<1>9. SimTypeOK'
  <2>1. pages' \in [Jobs -> [PageNos -> Out .. PAGEWAIT]]
    BY <1>2, <1>3, <1>4 DEF SimInv, SimTypeOK
  <2>2. /\ processes' \in [Slots -> Jobs \cup {None}] /\ queueend' \in 0 .. QUEUESIZE
    BY <1>2, ReloadFacts DEF SimInv
  <2> QED BY <1>1, <1>2, <1>6, <1>7, <2>1, <2>2 DEF SimInv, SimTypeOK
<1>10. ExitsReached'
  BY <1>2, <1>7 DEF SimInv, ExitsReached
<1> QED BY <1>1, <1>6, <1>8, <1>9, <1>10 DEF SimInv, ScoreDone

LEMMA VacantStep == ASSUME SimInv, StepVacant PROVE SimInv'
<1>1. turn' \in Slots /\ phase' \in {"age", "step"}
  BY StepsTurn DEF StepVacant, SimInv, SimTypeOK
<1>2. /\ turn \in Slots /\ ~Running(turn) /\ Reload(turn)
      /\ UNCHANGED <<path, active, pc, pages, pagesavail>>
  BY DEF StepVacant, SimInv, SimTypeOK
<1>3. processes[turn] \notin Jobs
  BY <1>2 DEF SimInv, QueueInv, Running, Jobs, None
<1>4. Occupied' = Occupied /\ \A k \in Occupied : k[1] \in Jobs
  BY <1>2 DEF Occupied
<1>5. /\ active' \in [Jobs -> BOOLEAN] /\ pc' = pc
      /\ \A j \in Jobs : active'[j] <=> active[j] /\ j # processes[turn]
  BY <1>2, <1>3 DEF SimInv, SimTypeOK
<1>6. QueueInv' /\ ActiveUntilEmpty'
  BY <1>2, <1>3, <1>4, <1>5, ReloadQueue DEF SimInv
<1>7. /\ processes' \in [Slots -> Jobs \cup {None}] /\ queueend' \in 0 .. QUEUESIZE
  BY <1>2, ReloadFacts DEF SimInv
<1>8. SimTypeOK'
  BY <1>1, <1>2, <1>7 DEF SimInv, SimTypeOK
<1> QED BY <1>1, <1>2, <1>4, <1>6, <1>8 DEF SimInv, FrameInv, ExitsReached, ScoreDone
------------------------------------------------------------------------------
(* allage                                                                   *)

\* A page that ages stays in its range; it gives up its frame with the last tick of
\* its way out, and never before.
LEMMA AgedFacts ==
    ASSUME NEW v \in Out .. PAGEWAIT
    PROVE  /\ Aged(v) \in Out .. PAGEWAIT
           /\ Aged(v) >= -PAGEWAIT <=> v >= -PAGEWAIT /\ v # -PAGEWAIT
BY Sizes DEF Aged, Out

LEMMA AgeStep == ASSUME SimInv, allage PROVE SimInv'
<1>1. /\ pages' = [j \in Jobs |-> IF j \in Loaded
                                  THEN [p \in PageNos |-> Aged(pages[j][p])] ELSE pages[j]]
      /\ pagesavail' = pagesavail + Cardinality(Leaving)
      /\ phase' = "call"
      /\ UNCHANGED <<path, processes, queueend, active, pc, turn>>
  BY DEF allage
<1>2. \A j \in Jobs, p \in PageNos : pages[j][p] \in Out .. PAGEWAIT
  BY DEF SimInv, SimTypeOK
<1>3. Loaded \subseteq Jobs
  BY RunningJob DEF Loaded, SimInv
<1>4. Leaving \in SUBSET Occupied
  BY <1>3, Sizes DEF Leaving, Occupied
<1>5. Occupied' = Occupied \ Leaving
  <2> SUFFICES ASSUME NEW j \in Jobs, NEW p \in PageNos
               PROVE  pages'[j][p] >= -PAGEWAIT
                         <=> pages[j][p] >= -PAGEWAIT /\ <<j, p>> \notin Leaving
    BY DEF Occupied
  <2>1. CASE j \in Loaded
    <3>1. <<j, p>> \in Leaving <=> pages[j][p] = -PAGEWAIT
      BY <2>1 DEF Leaving
    <3> QED BY <1>1, <1>2, <2>1, <3>1, AgedFacts
  <2>2. CASE j \notin Loaded
    BY <1>1, <2>2 DEF Leaving
  <2> QED BY <2>1, <2>2
<1>6. Cardinality(Leaving) \in Nat
  BY <1>4, OccupiedFinite DEF Occupied
<1>7. FrameInv' /\ pagesavail' \in 0 .. PHYSICALPAGES
  BY <1>1, <1>4, <1>5, <1>6, FramesReturned DEF SimInv, SimTypeOK
<1>8. SimTypeOK'
  <2>1. pages' \in [Jobs -> [PageNos -> Out .. PAGEWAIT]]
    BY <1>1, <1>2, AgedFacts DEF SimInv, SimTypeOK
  <2> QED BY <1>1, <1>7, <2>1 DEF SimInv, SimTypeOK
<1>9. QueueInv'
  BY <1>1, <1>5 DEF SimInv, QueueInv, Loaded, Running
<1> QED BY <1>1, <1>7, <1>8, <1>9
        DEF SimInv, ActiveUntilEmpty, ExitsReached, ScoreDone, Running
------------------------------------------------------------------------------
(* The calls of a pager                                                     *)

\* What one call does to the page of a running process.
LEMMA PageinEffect ==
    ASSUME SimInv, NEW i \in Slots, NEW p \in PageNos, pagein(i, p)
    PROVE  \/ UNCHANGED <<pages, pagesavail>>
           \/ /\ Running(i) /\ PageAt(i, p) < -PAGEWAIT /\ pagesavail # 0
              /\ pages' = [pages EXCEPT ![processes[i]][p] = PAGEWAIT]
              /\ pagesavail' = pagesavail - 1
BY DEF pagein, PageinStarts, Valid

LEMMA PageoutEffect ==
    ASSUME SimInv, NEW i \in Slots, NEW p \in PageNos, pageout(i, p)
    PROVE  \/ UNCHANGED <<pages, pagesavail>>
           \/ /\ Running(i) /\ PageAt(i, p) = 0
              /\ pages' = [pages EXCEPT ![processes[i]][p] = -1]
              /\ pagesavail' = pagesavail
BY DEF pageout, PageoutStarts, Valid

\* A call keeps the frames and the page tables right, whatever page it is about.
LEMMA CallFrames ==
    ASSUME SimInv, NEW i \in Slots, NEW p \in PageNos, pagein(i, p) \/ pageout(i, p)
    PROVE  /\ FrameInv' /\ pagesavail' \in 0 .. PHYSICALPAGES
           /\ pages' \in [Jobs -> [PageNos -> Out .. PAGEWAIT]]
           /\ \A k \in Occupied' : k \in Occupied \/ (Running(i) /\ k[1] = processes[i])
<1> DEFINE j == processes[i]
<1>1. /\ pagesavail \in Nat /\ FrameInv /\ SimTypeOK
      /\ pages \in [Jobs -> [PageNos -> Out .. PAGEWAIT]]
  BY DEF SimInv, SimTypeOK
<1>2. -1 \in Out .. PAGEWAIT /\ PAGEWAIT \in Out .. PAGEWAIT /\ PAGEWAIT > 0
      /\ -1 >= -PAGEWAIT
  BY Sizes DEF Out
<1>3. CASE UNCHANGED <<pages, pagesavail>>
  <2>1. Occupied' = Occupied
    BY <1>3 DEF Occupied
  <2> QED BY <1>1, <1>3, <2>1, SameFrames
<1>4. CASE /\ Running(i) /\ PageAt(i, p) < -PAGEWAIT /\ pagesavail # 0
           /\ pages' = [pages EXCEPT ![j][p] = PAGEWAIT] /\ pagesavail' = pagesavail - 1
  <2>1. j \in Jobs
    BY <1>1, <1>4, RunningJob
  <2>2. pages' \in [Jobs -> [PageNos -> Out .. PAGEWAIT]]
    BY <1>1, <1>2, <1>4, <2>1
  <2>3. <<j, p>> \in (Jobs \X PageNos) \ Occupied
    BY <1>1, <1>4, <2>1, Sizes DEF Occupied, PageAt, Out
  <2>4. Occupied' = Occupied \cup {<<j, p>>}
    BY <1>1, <1>2, <1>4, <2>1, Sizes DEF Occupied
  <2>5. FrameInv' /\ pagesavail' \in 0 .. PHYSICALPAGES
    BY <1>1, <1>4, <2>3, <2>4, FrameTaken
  <2> QED BY <1>4, <2>2, <2>4, <2>5
<1>5. CASE /\ Running(i) /\ PageAt(i, p) = 0
           /\ pages' = [pages EXCEPT ![j][p] = -1] /\ pagesavail' = pagesavail
  <2>1. j \in Jobs
    BY <1>1, <1>5, RunningJob
  <2>2. pages' \in [Jobs -> [PageNos -> Out .. PAGEWAIT]]
    BY <1>1, <1>2, <1>5, <2>1
  <2>3. Occupied' = Occupied
    BY <1>1, <1>2, <1>5, <2>1, Sizes DEF Occupied, PageAt
  <2> QED BY <1>1, <1>5, <2>2, <2>3, SameFrames
<1> QED BY <1>3, <1>4, <1>5, PageinEffect, PageoutEffect

LEMMA CallStep == ASSUME SimInv, AnyCall PROVE SimInv'
<1>1. PICK i \in Slots, p \in PageNos : pagein(i, p) \/ pageout(i, p)
  BY DEF AnyCall
<1>2. /\ UNCHANGED <<path, processes, queueend, active, pc>>
      /\ turn' \in Slots /\ phase' \in {"call", "step", "score"}
      /\ phase' = "score" => alldone
  BY Sizes DEF AnyCall, PagerReturns, SimInv, SimTypeOK, Slots
<1>3. /\ FrameInv' /\ pagesavail' \in 0 .. PHYSICALPAGES
      /\ pages' \in [Jobs -> [PageNos -> Out .. PAGEWAIT]]
      /\ \A k \in Occupied' : k \in Occupied \/ (Running(i) /\ k[1] = processes[i])
  BY <1>1, CallFrames
<1>4. SimTypeOK'
  BY <1>2, <1>3 DEF SimInv, SimTypeOK
<1>5. Loaded' = Loaded
  BY <1>2 DEF Loaded, Running
<1>6. QueueInv'
  BY <1>2, <1>3, <1>5 DEF SimInv, QueueInv, Loaded
<1> QED BY <1>2, <1>3, <1>4, <1>6
        DEF SimInv, ActiveUntilEmpty, ExitsReached, ScoreDone, Running, alldone

\* The page a running job needs is one of its pages.
LEMMA NeededPage ==
    ASSUME SimTypeOK, NEW j \in Jobs
    PROVE  Needed(j) \in PageNos
<1>1. path[j] \in Seq(PageNos) /\ pc[j] \in 1 .. Len(path[j])
  BY PathsAssumption DEF SimTypeOK
<1> QED BY <1>1 DEF Needed

\* A pager may also call for nothing: one of the two calls has no effect on a page.
LEMMA IdleCall ==
    ASSUME UNCHANGED pageVars
    PROVE  \E i \in Slots, p \in PageNos : pagein(i, p) \/ pageout(i, p)
<1>1. 1 \in Slots /\ 0 \in PageNos
  BY SizesAssumption DEF Slots, PageNos
<1>2. ~(PageinStarts(1, 0) /\ PageoutStarts(1, 0))
  BY Sizes DEF PageinStarts, PageoutStarts
<1> QED BY <1>1, <1>2 DEF pagein, pageout

LEMMA SimNext == SimInv /\ [AnyNext]_simVars => SimInv'
<1> SUFFICES ASSUME SimInv, [AnyNext]_simVars PROVE SimInv'
  OBVIOUS
<1>1. CASE Step
  BY <1>1, BlockedStep, ComputeStep, ExitStep, VacantStep DEF Step
<1>2. CASE allage
  BY <1>2, AgeStep
<1>3. CASE AnyCall
  BY <1>3, CallStep
<1>4. CASE Ended \/ UNCHANGED simVars
  <2>1. UNCHANGED <<path, processes, queueend, active, pc, pages, pagesavail, phase, turn>>
    BY <1>4 DEF Ended, simVars
  <2>2. SimTypeOK' /\ FrameInv'
    BY <2>1 DEF SimInv, SimTypeOK, FrameInv, Occupied
  <2>3. QueueInv' /\ ActiveUntilEmpty'
    BY <2>1 DEF SimInv, QueueInv, ActiveUntilEmpty, Occupied, Loaded, Running
  <2>4. ExitsReached' /\ ScoreDone'
    BY <2>1 DEF SimInv, ExitsReached, ScoreDone, Running, alldone
  <2> QED BY <2>2, <2>3, <2>4 DEF SimInv
<1> QED BY <1>1, <1>2, <1>3, <1>4 DEF AnyNext

\* The inductive invariant of the simulator under any pager.
THEOREM SimInvariance == AnySpec => []SimInv
BY SimInit, SimNext, PTL DEF AnySpec

\* Types: in particular the counter of a page never leaves its range, and pagesavail is
\* never negative and never more than there are frames.
THEOREM SimTypes == AnySpec => []SimTypeOK
BY SimInvariance, PTL DEF SimInv

\* No frame is lost or given out twice, whatever the pager calls and whenever jobs end.
THEOREM FramesAccounted == AnySpec => []FrameInv
BY SimInvariance, PTL DEF SimInv

\* No job is on two processors, run again or skipped; only running jobs have pages.
THEOREM QueueKept == AnySpec => []QueueInv
BY SimInvariance, PTL DEF SimInv

\* A processor is without a job only when the queue is empty.
THEOREM ActiveKept == AnySpec => []ActiveUntilEmpty
BY SimInvariance, PTL DEF SimInv

LEMMA ScoreMeansDone == SimInv => AllRun
<1> SUFFICES ASSUME SimInv, phase = "score"
             PROVE  /\ \A j \in Jobs : ~active[j] /\ pc[j] = Len(path[j])
                    /\ pagesavail = PHYSICALPAGES
  BY DEF AllRun
<1>1. \A i \in Slots : ~Running(i)
  BY DEF SimInv, ScoreDone, alldone
<1>2. queueend = QUEUESIZE
  BY <1>1, Sizes DEF SimInv, ActiveUntilEmpty, Slots
<1>3. ASSUME NEW j \in Jobs, active[j] PROVE FALSE
  <2>1. PICK i \in Slots : processes[i] = j
    BY <1>2, <1>3 DEF SimInv, QueueInv, Jobs
  <2> QED BY <1>1, <1>3, <2>1 DEF Running, Jobs, None
<1>4. Occupied = {}
  BY <1>1 DEF SimInv, QueueInv, Loaded, Occupied
<1>5. pagesavail = PHYSICALPAGES
  BY <1>4, FS_EmptySet, Sizes DEF SimInv, FrameInv, SimTypeOK
<1> QED BY <1>3, <1>5 DEF SimInv, ExitsReached

\* When the simulation ends every job has come to its exit, and all memory is free.
THEOREM AllJobsRun == AnySpec => []AllRun
BY SimInvariance, ScoreMeansDone, PTL
------------------------------------------------------------------------------
(* The pages follow the protocol of PageStates                              *)

Keys  == Jobs \X PageNos
state == [k \in Keys |-> StateOf(pages[k[1]][k[2]])]
left  == [k \in Keys |-> LeftOf(pages[k[1]][k[2]])]

\* The counter of a page that starts to go out.
Departing == -1

LEMMA StateValues ==
    ASSUME NEW v \in Out .. PAGEWAIT
    PROVE  /\ StateOf(v) = "out"    <=> v < -PAGEWAIT
           /\ StateOf(v) = "in"     <=> v = 0
           /\ StateOf(v) = "coming" <=> v > 0
           /\ StateOf(v) = "going"  <=> v >= -PAGEWAIT /\ v < 0
           /\ StateOf(v) \in {"out", "in", "coming", "going"}
           /\ v < -PAGEWAIT => LeftOf(v) = 0
           /\ v >= 0 => LeftOf(v) = v
           /\ v >= -PAGEWAIT /\ v < 0 => LeftOf(v) = PAGEWAIT + 1 + v
BY Sizes DEF StateOf, LeftOf, Out

LEMMA PageRange ==
    ASSUME SimInv, NEW k \in Keys
    PROVE  /\ k[1] \in Jobs /\ k[2] \in PageNos /\ k = <<k[1], k[2]>>
           /\ pages[k[1]][k[2]] \in Out .. PAGEWAIT
BY DEF SimInv, SimTypeOK, Keys

LEMMA SamePages == ASSUME pages' = pages PROVE UNCHANGED <<state, left>>
BY DEF state, left

\* One page changes, to w.
PageChanges(j, p, w) == pages' = [pages EXCEPT ![j][p] = w]

LEMMA OnePage ==
    ASSUME SimInv, NEW j \in Jobs, NEW p \in PageNos, NEW w \in Out .. PAGEWAIT,
           PageChanges(j, p, w)
    PROVE  /\ state' = [state EXCEPT ![<<j, p>>] = StateOf(w)]
           /\ left' = [left EXCEPT ![<<j, p>>] = LeftOf(w)]
<1>1. \A k \in Keys : pages'[k[1]][k[2]] = IF k = <<j, p>> THEN w ELSE pages[k[1]][k[2]]
  <2> SUFFICES ASSUME NEW k \in Keys
               PROVE  pages'[k[1]][k[2]] = IF k = <<j, p>> THEN w ELSE pages[k[1]][k[2]]
    OBVIOUS
  <2>1. k[1] \in Jobs /\ k[2] \in PageNos /\ (k = <<j, p>> <=> k[1] = j /\ k[2] = p)
    BY DEF Keys
  <2>2. \A i \in Jobs, q \in PageNos :
           pages'[i][q] = IF i = j /\ q = p THEN w ELSE pages[i][q]
    BY DEF SimInv, SimTypeOK, PageChanges
  <2> QED BY <2>1, <2>2
<1>2. <<j, p>> \in Keys
  BY DEF Keys
<1>3. state' = [k \in Keys |-> IF k = <<j, p>> THEN StateOf(w)
                              ELSE StateOf(pages[k[1]][k[2]])]
  BY <1>1 DEF state
<1>4. left' = [k \in Keys |-> IF k = <<j, p>> THEN LeftOf(w)
                             ELSE LeftOf(pages[k[1]][k[2]])]
  BY <1>1 DEF left
<1> QED BY <1>2, <1>3, <1>4 DEF state, left

\* The protocol's actions, in the words of this module.
LEMMA StartMeans ==
    ASSUME NEW k \in Keys
    PROVE  /\ Protocol!StartIn(k) <=>
                 /\ state[k] = "out"
                 /\ Cardinality({x \in Keys : state[x] # "out"}) < PHYSICALPAGES
                 /\ state' = [state EXCEPT ![k] = "coming"]
                 /\ left' = [left EXCEPT ![k] = PAGEWAIT]
           /\ Protocol!StartOut(k) <=>
                 /\ state[k] = "in"
                 /\ state' = [state EXCEPT ![k] = "going"]
                 /\ left' = [left EXCEPT ![k] = PAGEWAIT]
<1>1. \A S : Protocol!Cardinality(S) = Cardinality(S)
  BY DEF Protocol!Cardinality, Cardinality
<1> QED
  BY <1>1, Zenon DEF Protocol!StartIn, Protocol!StartOut, Protocol!Keys, Keys, state, left

LEMMA PagesInit == Init => Protocol!Init
<1> SUFFICES ASSUME Init PROVE Protocol!Init
  OBVIOUS
<1>1. \A k \in Keys : pages[k[1]][k[2]] = Out
  BY DEF Init, Keys
<1>2. StateOf(Out) = "out" /\ LeftOf(Out) = 0
  BY StateValues, Sizes DEF Out
<1> QED BY <1>1, <1>2 DEF Protocol!Init, Protocol!Keys, Keys

LEMMA ExitEnds == ASSUME SimInv, StepExits PROVE \E o \in Jobs : Protocol!End(o)
<1> DEFINE j == processes[turn]
<1>1. j \in Jobs /\ pages' = [pages EXCEPT ![j] = [p \in PageNos |-> Out]]
  BY RunningJob DEF StepExits, SimInv, SimTypeOK
<1> HIDE DEF j
<1>2. \A k \in Keys : pages'[k[1]][k[2]] = IF k[1] = j THEN Out ELSE pages[k[1]][k[2]]
  BY <1>1, PageRange DEF SimInv, SimTypeOK
<1>3. StateOf(Out) = "out" /\ LeftOf(Out) = 0
  BY StateValues, Sizes DEF Out
<1> QED BY <1>1, <1>2, <1>3 DEF Protocol!End, Protocol!Keys, Keys

\* One tick takes a transit one tick nearer to its end.
LEMMA AgedStates ==
    ASSUME NEW v \in Out .. PAGEWAIT
    PROVE  /\ StateOf(Aged(v)) = IF LeftOf(v) = 1 THEN Protocol!Arrived(StateOf(v))
                                 ELSE StateOf(v)
           /\ LeftOf(Aged(v)) = IF LeftOf(v) > 0 THEN LeftOf(v) - 1 ELSE 0
<1>1. PAGEWAIT \in Nat /\ PAGEWAIT > 0 /\ Out = -PAGEWAIT - 1 /\ v \in Int
  BY Sizes DEF Out
<1>2. CASE v < -PAGEWAIT
  BY <1>1, <1>2 DEF StateOf, LeftOf, Aged, Protocol!Arrived
<1>3. CASE v = 0
  BY <1>1, <1>3 DEF StateOf, LeftOf, Aged, Protocol!Arrived
<1>4. CASE v > 0
  BY <1>1, <1>4 DEF StateOf, LeftOf, Aged, Protocol!Arrived
<1>5. CASE v >= -PAGEWAIT /\ v < 0
  BY <1>1, <1>5 DEF StateOf, LeftOf, Aged, Protocol!Arrived
<1> QED BY <1>1, <1>2, <1>3, <1>4, <1>5

\* Only pages of running jobs age, and only those are in transit.
LEMMA AgeTicks == ASSUME SimInv, allage PROVE Protocol!Tick
<1>1. \A j \in Jobs : pages'[j] = IF j \in Loaded THEN [p \in PageNos |-> Aged(pages[j][p])]
                                  ELSE pages[j]
  BY DEF allage
<1>2. ASSUME NEW k \in Keys PROVE pages'[k[1]][k[2]] = Aged(pages[k[1]][k[2]])
  <2>1. CASE k[1] \in Loaded
    BY <1>1, <2>1, PageRange
  <2>2. CASE k[1] \notin Loaded
    <3>1. k \notin Occupied
      BY <2>2 DEF SimInv, QueueInv
    <3>2. pages[k[1]][k[2]] < -PAGEWAIT
      BY <3>1, PageRange, Sizes DEF Occupied, Keys, Out
    <3> QED BY <1>1, <2>2, <3>2, PageRange DEF Aged
  <2> QED BY <2>1, <2>2
<1>3. \A k \in Keys : pages[k[1]][k[2]] \in Out .. PAGEWAIT
  BY PageRange
<1> QED BY <1>2, <1>3, AgedStates DEF Protocol!Tick, Protocol!Keys, Keys

LEMMA CallStarts ==
    ASSUME SimInv, AnyCall
    PROVE  \/ UNCHANGED <<state, left>>
           \/ \E k \in Keys : Protocol!StartIn(k) \/ Protocol!StartOut(k)
<1>1. PICK i \in Slots, p \in PageNos : pagein(i, p) \/ pageout(i, p)
  BY DEF AnyCall
<1> DEFINE j == processes[i]
<1>2. CASE UNCHANGED <<pages, pagesavail>>
  BY <1>2, SamePages
<1>3. CASE /\ Running(i) /\ PageAt(i, p) < -PAGEWAIT /\ pagesavail # 0
           /\ pages' = [pages EXCEPT ![j][p] = PAGEWAIT]
  <2>1. j \in Jobs /\ <<j, p>> \in Keys
    BY <1>3, RunningJob DEF SimInv, Keys
  <2>2. /\ PAGEWAIT \in Out .. PAGEWAIT
        /\ StateOf(PAGEWAIT) = "coming" /\ LeftOf(PAGEWAIT) = PAGEWAIT
    BY Sizes, StateValues DEF Out
  <2>3. /\ state' = [state EXCEPT ![<<j, p>>] = "coming"]
        /\ left' = [left EXCEPT ![<<j, p>>] = PAGEWAIT]
    <3>1. StateOf(PAGEWAIT) = "coming" /\ LeftOf(PAGEWAIT) = PAGEWAIT /\ PAGEWAIT \in Out .. PAGEWAIT
      BY <2>2
    <3>2. PageChanges(j, p, PAGEWAIT) /\ j \in Jobs
      BY <1>3, <2>1 DEF PageChanges
    <3> HIDE DEF j
    <3>3. /\ state' = [state EXCEPT ![<<j, p>>] = StateOf(PAGEWAIT)]
          /\ left' = [left EXCEPT ![<<j, p>>] = LeftOf(PAGEWAIT)]
      BY <3>1, <3>2, OnePage
    <3> QED BY <3>1, <3>3
  <2>4. state[<<j, p>>] = "out"
    BY <1>3, <2>1, PageRange, StateValues DEF state, PageAt
  <2>5. {x \in Keys : state[x] # "out"} = Occupied
    <3>1. \A x \in Keys : state[x] # "out" <=> pages[x[1]][x[2]] >= -PAGEWAIT
      BY PageRange, StateValues, Sizes DEF state, Out
    <3> QED BY <3>1 DEF Occupied, Keys
  <2>6. Cardinality(Occupied) < PHYSICALPAGES
    <3>1. Cardinality(Occupied) \in Nat
      BY OccupiedFinite DEF Occupied
    <3> QED BY <1>3, <3>1, Sizes DEF SimInv, SimTypeOK, FrameInv
  <2>7. Protocol!StartIn(<<j, p>>)
    BY <2>1, <2>3, <2>4, <2>5, <2>6, StartMeans
  <2> QED BY <2>1, <2>7
<1>4. CASE /\ Running(i) /\ PageAt(i, p) = 0
           /\ pages' = [pages EXCEPT ![j][p] = -1]
  <2>1. j \in Jobs /\ <<j, p>> \in Keys
    BY <1>4, RunningJob DEF SimInv, Keys
  <2>2. -1 \in Out .. PAGEWAIT /\ StateOf(-1) = "going" /\ LeftOf(-1) = PAGEWAIT
    <3>1. -1 \in Out .. PAGEWAIT /\ -1 >= -PAGEWAIT /\ -1 < 0
      BY Sizes DEF Out
    <3> QED BY <3>1, Sizes, StateValues
  <2>3. /\ state' = [state EXCEPT ![<<j, p>>] = "going"]
        /\ left' = [left EXCEPT ![<<j, p>>] = PAGEWAIT]
    <3>1. /\ StateOf(Departing) = "going" /\ LeftOf(Departing) = PAGEWAIT
          /\ Departing \in Out .. PAGEWAIT
      BY <2>2 DEF Departing
    <3>2. PageChanges(j, p, Departing) /\ j \in Jobs
      BY <1>4, <2>1 DEF PageChanges, Departing
    <3> HIDE DEF j
    <3>3. /\ state' = [state EXCEPT ![<<j, p>>] = StateOf(Departing)]
          /\ left' = [left EXCEPT ![<<j, p>>] = LeftOf(Departing)]
      BY <3>1, <3>2, OnePage
    <3> QED BY <3>1, <3>3
  <2>4. state[<<j, p>>] = "in"
    BY <1>4, <2>1, PageRange, StateValues DEF state, PageAt
  <2>5. Protocol!StartOut(<<j, p>>)
    BY <2>1, <2>3, <2>4, StartMeans
  <2> QED BY <2>1, <2>5
<1> QED BY <1>1, <1>2, <1>3, <1>4, PageinEffect, PageoutEffect

\* Every page of every job goes through the states of PageStates, each transit takes
\* exactly PAGEWAIT ticks, and none starts to come in without a free frame.
THEOREM PagesKeepProtocol == AnySpec => PagesFollowProtocol
<1>1. SimInv /\ [AnyNext]_simVars => [Protocol!Next]_<<state, left>>
  <2> SUFFICES ASSUME SimInv, [AnyNext]_simVars
               PROVE  Protocol!Next \/ UNCHANGED <<state, left>>
    OBVIOUS
  <2>1. CASE StepExits
    BY <2>1, ExitEnds DEF Protocol!Next
  <2>2. CASE StepBlocked \/ StepComputes \/ StepVacant \/ Ended \/ UNCHANGED simVars
    BY <2>2, SamePages DEF StepBlocked, StepComputes, StepVacant, Ended, simVars
  <2>3. CASE allage
    BY <2>3, AgeTicks DEF Protocol!Next
  <2>4. CASE AnyCall
    BY <2>4, CallStarts DEF Protocol!Next, Protocol!Keys, Keys
  <2> QED BY <2>1, <2>2, <2>3, <2>4 DEF AnyNext, Step
<1>2. [Protocol!Next]_<<state, left>>
         = [Protocol!Next]_<<[k \in Jobs \X PageNos |-> StateOf(pages[k[1]][k[2]])],
                             [k \in Jobs \X PageNos |-> LeftOf(pages[k[1]][k[2]])]>>
  BY DEF state, left, Keys
<1> QED
  BY <1>1, PagesInit, SimInvariance, PTL
     DEF AnySpec, PagesFollowProtocol, Protocol!Spec, state, left, Keys
=============================================================================

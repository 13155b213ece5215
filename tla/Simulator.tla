----------------------------- MODULE Simulator -----------------------------
(***************************************************************************)
(* simulator.c: a queue of jobs is run on a few processors, one statement  *)
(* per processor and tick; a statement runs only while the page it is on   *)
(* is in memory.  Once per tick the pager is called, and may ask for pages *)
(* to be brought in (pagein) or thrown out (pageout).                      *)
(*                                                                         *)
(* This module leaves the pager open: Spec lets it make any calls.  The    *)
(* modules PagerBasic and PagerLRU put the pagers of the repository in.    *)
(*                                                                         *)
(* A job follows a path, the sequence of the pages its statements are on,  *)
(* the last one the exit statement.  Which program a job runs and all its  *)
(* random choices are drawn when the queue is built (initqueue), so paths  *)
(* are chosen in Init and do not depend on paging.                         *)
(* Abstracted: what is only logged or scored (sysclock, the blocked flags, *)
(* block and compute), and the command line.                               *)
(***************************************************************************)
EXTENDS Integers, Sequences, FiniteSets

CONSTANTS Procs,          \* procs: the number of processors
          QUEUESIZE,      \* the number of jobs in the queue
          Paths,          \* the paths programs can take
          MAXPROCPAGES, PHYSICALPAGES, PAGEWAIT

Slots   == 1 .. Procs
Jobs    == 1 .. QUEUESIZE                \* in the order of the queue
PageNos == 0 .. MAXPROCPAGES - 1
None    == 0                             \* processes[i] == NULL

ASSUME SizesAssumption ==
    /\ Procs \in Nat \ {0} /\ QUEUESIZE \in Nat \ {0} /\ MAXPROCPAGES \in Nat \ {0}
    /\ PHYSICALPAGES \in Nat /\ PAGEWAIT \in Nat \ {0}
ASSUME PathsAssumption == Paths \subseteq Seq(PageNos) \ {<< >>}

VARIABLES
    path,         \* the path of each job
    processes,    \* the job on each processor, or None
    queueend,     \* jobs 1..queueend have left the queue
    active,       \* jobs that have not been unloaded
    pc,           \* the statement each job is at
    pages,        \* -PAGEWAIT-1 out, below 0 going, 0 in, above 0 coming
    pagesavail,   \* frames not in use
    phase,        \* where main is: "step", "age", "call", or "score" at the end
    turn          \* the processor allstep, or the pager's loop, is at

procVars == <<path, processes, queueend, active, pc>>
pageVars == <<pages, pagesavail>>
simVars  == <<procVars, pageVars, phase, turn>>

Out == -PAGEWAIT - 1

\* allinit: every processor gets a job while there are any.
Init == /\ path \in [Jobs -> Paths]
        /\ processes = [i \in Slots |-> IF i \in Jobs THEN i ELSE None]
        /\ queueend = IF Procs <= QUEUESIZE THEN Procs ELSE QUEUESIZE
        /\ active = [j \in Jobs |-> TRUE]
        /\ pc = [j \in Jobs |-> 1]
        /\ pages = [j \in Jobs |-> [p \in PageNos |-> Out]]
        /\ pagesavail = PHYSICALPAGES
        /\ phase = "step"
        /\ turn = 1

Running(i) == processes[i] # None /\ active[processes[i]]

\* Mutant: only the first processor is looked at.
FirstDone  == ~Running(1)

alldone    == \A i \in Slots : ~Running(i)
Needed(j)  == path[j][pc[j]]
------------------------------------------------------------------------------
(* allstep: process_step for one processor after the other.                *)

StepsNext == /\ phase' = IF turn = Procs THEN "age" ELSE "step"
             /\ turn'  = IF turn = Procs THEN 1 ELSE turn + 1

\* Mutant: the job before the end of the queue is taken, not the one at it.
ReloadLast(i) ==
    IF queueend < QUEUESIZE
    THEN /\ processes' = [processes EXCEPT ![i] = queueend]
         /\ queueend' = queueend + 1
    ELSE /\ processes' = [processes EXCEPT ![i] = None]
         /\ UNCHANGED queueend

\* processes[i] = dequeue(), or NULL when the queue is empty.
Reload(i) ==
    IF queueend < QUEUESIZE
    THEN /\ processes' = [processes EXCEPT ![i] = queueend + 1]
         /\ queueend' = queueend + 1
    ELSE /\ processes' = [processes EXCEPT ![i] = None]
         /\ UNCHANGED queueend

StepBlocked ==
    /\ phase = "step" /\ Running(turn)
    /\ LET j == processes[turn] IN pages[j][Needed(j)] # 0
    /\ StepsNext
    /\ UNCHANGED <<procVars, pageVars>>

StepComputes ==
    /\ phase = "step" /\ Running(turn)
    /\ LET j == processes[turn]
       IN  /\ pages[j][Needed(j)] = 0
           /\ pc[j] < Len(path[j])
           /\ pc' = [pc EXCEPT ![j] = @ + 1]
    /\ StepsNext
    /\ UNCHANGED <<path, processes, queueend, active, pageVars>>

FramesOf(j) == {p \in PageNos : pages[j][p] >= -PAGEWAIT}

\* Mutant: process_unload gives back only the pages that are in.
UnloadResident ==
    /\ phase = "step" /\ Running(turn)
    /\ LET j == processes[turn]
       IN  /\ pages[j][Needed(j)] = 0
           /\ pc[j] = Len(path[j])
           /\ pages' = [pages EXCEPT ![j] = [p \in PageNos |-> Out]]
           /\ pagesavail' = pagesavail + Cardinality({p \in PageNos : pages[j][p] = 0})
           /\ active' = [active EXCEPT ![j] = FALSE]
    /\ Reload(turn)
    /\ StepsNext
    /\ UNCHANGED <<path, pc>>

\* Mutant: the processor is left without a job, the queue is not looked at.
ExitWithoutReload ==
    /\ phase = "step" /\ Running(turn)
    /\ LET j == processes[turn]
       IN  /\ pages[j][Needed(j)] = 0
           /\ pc[j] = Len(path[j])
           /\ pages' = [pages EXCEPT ![j] = [p \in PageNos |-> Out]]
           /\ pagesavail' = pagesavail + Cardinality(FramesOf(j))
           /\ active' = [active EXCEPT ![j] = FALSE]
    /\ processes' = [processes EXCEPT ![turn] = None]
    /\ StepsNext
    /\ UNCHANGED <<path, queueend, pc>>

\* Mutant: the frames of a job that ends are never given back.
UnloadKeepsFrames ==
    /\ phase = "step" /\ Running(turn)
    /\ LET j == processes[turn]
       IN  /\ pages[j][Needed(j)] = 0
           /\ pc[j] = Len(path[j])
           /\ pages' = [pages EXCEPT ![j] = [p \in PageNos |-> Out]]
           /\ active' = [active EXCEPT ![j] = FALSE]
    /\ Reload(turn)
    /\ StepsNext
    /\ UNCHANGED <<path, pc, pagesavail>>

\* The exit statement: process_unload gives back every frame of the job, also of
\* the pages in transit, and the next job takes its processor.
StepExits ==
    /\ phase = "step" /\ Running(turn)
    /\ LET j == processes[turn]
       IN  /\ pages[j][Needed(j)] = 0
           /\ pc[j] = Len(path[j])
           /\ pages' = [pages EXCEPT ![j] = [p \in PageNos |-> Out]]
           /\ pagesavail' = pagesavail + Cardinality(FramesOf(j))
           /\ active' = [active EXCEPT ![j] = FALSE]
    /\ Reload(turn)
    /\ StepsNext
    /\ UNCHANGED <<path, pc>>

StepVacant ==
    /\ phase = "step" /\ ~Running(turn)
    /\ Reload(turn)
    /\ StepsNext
    /\ UNCHANGED <<path, active, pc, pageVars>>

Step == StepBlocked \/ StepComputes \/ StepExits \/ StepVacant
------------------------------------------------------------------------------
(* allage: the transits of all pages of running jobs advance by one tick.  *)

Loaded == {processes[i] : i \in {k \in Slots : Running(k)}}

\* Mutant: a page going out needs one tick less.
AgedEarly(v) == IF v = 0 \/ v < -PAGEWAIT THEN v
                ELSE IF v = -PAGEWAIT + 1 THEN Out ELSE v - 1

Aged(v) == IF v = 0 \/ v < -PAGEWAIT THEN v ELSE v - 1

\* Mutant: the frame of a page is free as soon as the page starts to go out.
LeavingAtOnce == {k \in Loaded \X PageNos : pages[k[1]][k[2]] = -1}

Leaving == {k \in Loaded \X PageNos : pages[k[1]][k[2]] = -PAGEWAIT}

allage ==
    /\ phase = "age"
    /\ pages' = [j \in Jobs |-> IF j \in Loaded
                                THEN [p \in PageNos |-> Aged(pages[j][p])]
                                ELSE pages[j]]
    /\ pagesavail' = pagesavail + Cardinality(Leaving)
    /\ phase' = "call"
    /\ UNCHANGED <<procVars, turn>>
------------------------------------------------------------------------------
(* The calls a pager makes on processor i and page p, and their results.   *)

Valid(i, p) == i \in Slots /\ Running(i) /\ p \in PageNos
PageAt(i, p) == pages[processes[i]][p]

\* Bringing in starts, or is under way, or is done.
PageinStarts(i, p) == Valid(i, p) /\ PageAt(i, p) < -PAGEWAIT /\ pagesavail # 0
pageinResult(i, p) == PageinStarts(i, p) \/ (Valid(i, p) /\ PageAt(i, p) >= 0)

pagein(i, p) ==
    IF PageinStarts(i, p)
    THEN /\ pages' = [pages EXCEPT ![processes[i]][p] = PAGEWAIT]
         /\ pagesavail' = pagesavail - 1
    ELSE UNCHANGED pageVars

PageoutStarts(i, p) == Valid(i, p) /\ PageAt(i, p) = 0
pageoutResult(i, p) == Valid(i, p) /\ PageAt(i, p) <= 0

\* The frame is free only when the page is out.
pageout(i, p) ==
    IF PageoutStarts(i, p)
    THEN /\ pages' = [pages EXCEPT ![processes[i]][p] = -1]
         /\ UNCHANGED pagesavail
    ELSE UNCHANGED pageVars

\* The pager returns, and main's loop goes on unless alldone.
PagerReturns == /\ phase' = IF alldone THEN "score" ELSE "step"
                /\ turn' = 1
------------------------------------------------------------------------------
(* The simulator under any pager at all.                                   *)

\* A piece of the pager's work: at most one call that has an effect.
AnyCall == /\ phase = "call"
           /\ \E i \in Slots, p \in PageNos : pagein(i, p) \/ pageout(i, p)
           /\ PagerReturns \/ (UNCHANGED phase /\ turn' \in {turn, turn + 1} \cap Slots)
           /\ UNCHANGED procVars

Ended == phase = "score" /\ UNCHANGED simVars

AnyNext == Step \/ allage \/ AnyCall \/ Ended

AnySpec == Init /\ [][AnyNext]_simVars
------------------------------------------------------------------------------
(* Safety, for any pager                                                   *)

SimTypeOK ==
    /\ path \in [Jobs -> Paths]
    /\ processes \in [Slots -> Jobs \cup {None}]
    /\ queueend \in 0 .. QUEUESIZE
    /\ active \in [Jobs -> BOOLEAN]
    /\ pc \in [Jobs -> Nat]
    /\ \A j \in Jobs : pc[j] \in 1 .. Len(path[j])
    /\ pages \in [Jobs -> [PageNos -> Out .. PAGEWAIT]]
    /\ pagesavail \in 0 .. PHYSICALPAGES
    /\ phase \in {"step", "age", "call", "score"}
    /\ turn \in Slots

Occupied == {k \in Jobs \X PageNos : pages[k[1]][k[2]] >= -PAGEWAIT}

\* No frame is lost or given out twice: pagesavail and the pages that are in or in
\* transit account for all of physical memory, across pagein, pageout, ageing and
\* the unloading of a job with pages in transit.
FrameInv == pagesavail + Cardinality(Occupied) = PHYSICALPAGES

\* No job is on two processors, and none is run after it was unloaded; a job that
\* has left the queue is on a processor or unloaded; pages belong to running jobs.
QueueInv ==
    /\ \A i, k \in Slots : processes[i] # None /\ processes[i] = processes[k] => i = k
    /\ \A j \in Jobs :
          /\ (\E i \in Slots : processes[i] = j) <=> (j <= queueend /\ active[j])
          /\ j > queueend => active[j] /\ pc[j] = 1
    /\ \A k \in Occupied : k[1] \in Loaded

\* "q[X].active will remain 1 until there are no programs left to run (empty run
\* queue) and processor X has completed its currently running process".
ActiveUntilEmpty ==
    \A i \in Slots : ~Running(i) => queueend = QUEUESIZE

\* The simulation ends only when every job has come to its exit statement, and
\* with all of physical memory free again.
AllRun == phase = "score" =>
             /\ \A j \in Jobs : ~active[j] /\ pc[j] = Len(path[j])
             /\ pagesavail = PHYSICALPAGES

\* The states and the timing of a page are the ones of PageStates.
StateOf(v) == CASE v < -PAGEWAIT -> "out" [] v > 0 -> "coming"
                [] v = 0 -> "in"          [] OTHER -> "going"
LeftOf(v)  == CASE v < -PAGEWAIT -> 0     [] v >= 0 -> v
                [] OTHER -> PAGEWAIT + 1 + v

Protocol == INSTANCE PageStates
    WITH Owners <- Jobs, Frames <- PHYSICALPAGES, Wait <- PAGEWAIT,
         state <- [k \in Jobs \X PageNos |-> StateOf(pages[k[1]][k[2]])],
         left  <- [k \in Jobs \X PageNos |-> LeftOf(pages[k[1]][k[2]])]

PagesFollowProtocol == Protocol!Spec
=============================================================================

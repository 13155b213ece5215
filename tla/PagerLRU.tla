------------------------------ MODULE PagerLRU ------------------------------
(***************************************************************************)
(* pager-lru.c in the simulator.  Of the time stamps only their order in   *)
(* each process is used: order[i] lists the pages of processor i that have *)
(* been stamped, the oldest stamp first.  A page without a stamp (0) is    *)
(* older than any other.                                                   *)
(***************************************************************************)
EXTENDS Simulator, SequencesExt

VARIABLE order      \* TMSTMP, as an order

lruVars == <<simVars, order>>

LRUInit == Init /\ order = [i \in Slots |-> << >>]

\* The place of a page in the order, 0 if it has no stamp.
Age(i, p) == IF p \in ToSet(order[i])
             THEN CHOOSE n \in DOMAIN order[i] : order[i][n] = p ELSE 0

\* The page gets the newest stamp, and its old one is gone.
Stamp(i, p) ==
    LET others == IF Age(i, p) = 0 THEN order[i] ELSE RemoveAt(order[i], Age(i, p))
    IN  order' = [order EXCEPT ![i] = Append(others, p)]

Resident(i) == {p \in PageNos : PageAt(i, p) = 0}

\* PAGE_OLD: the first of the pages in memory with the oldest stamp.  Without such a
\* page it is never assigned, and may be any value.
Oldest(i) ==
    IF Resident(i) = {} THEN PageNos
    ELSE {p \in Resident(i) : \A o \in Resident(i) \ {p} :
             Age(i, p) < Age(i, o) \/ (Age(i, p) = Age(i, o) /\ p < o)}

LoopsOn == IF turn = Procs THEN PagerReturns
           ELSE turn' = turn + 1 /\ UNCHANGED phase

SkipsInactive ==
    /\ phase = "call" /\ ~Running(turn)
    /\ LoopsOn
    /\ UNCHANGED <<procVars, pageVars, order>>

\* Mutant: a page is stamped only when it is in.
StampsLate ==
    /\ phase = "call" /\ Running(turn)
    /\ LET page == Needed(processes[turn])
       IN  /\ pageinResult(turn, page)
           /\ pagein(turn, page)
           /\ IF PageAt(turn, page) = 0 THEN Stamp(turn, page) ELSE UNCHANGED order
    /\ LoopsOn
    /\ UNCHANGED procVars

\* The page is in, or pagein returns TRUE: it is stamped.
StampsPage ==
    /\ phase = "call" /\ Running(turn)
    /\ LET page == Needed(processes[turn])
       IN  /\ pageinResult(turn, page)
           /\ pagein(turn, page)
           /\ Stamp(turn, page)
    /\ LoopsOn
    /\ UNCHANGED procVars

\* Mutant: no page is thrown out to make room.
ThrowsOutNothing ==
    /\ phase = "call" /\ Running(turn)
    /\ ~pageinResult(turn, Needed(processes[turn]))
    /\ PagerReturns
    /\ UNCHANGED <<procVars, pageVars, order>>

\* The page cannot come in: the oldest page of this process is thrown out, and the
\* loop is left, so that the processes behind it get neither pages nor stamps.
ThrowsOut ==
    /\ phase = "call" /\ Running(turn)
    /\ ~pageinResult(turn, Needed(processes[turn]))
    /\ \E p \in Oldest(turn) : pageout(turn, p)
    /\ PagerReturns
    /\ UNCHANGED <<procVars, order>>

pageit == SkipsInactive \/ StampsPage \/ ThrowsOut

LRUNext == \/ (Step \/ allage \/ Ended) /\ UNCHANGED order
           \/ pageit

LRUSpec == LRUInit /\ [][LRUNext]_lruVars /\ WF_lruVars(LRUNext)
------------------------------------------------------------------------------
\* A page in memory always has a stamp, so the choice of the victim is never
\* between pages that were never seen.
ResidentStamped ==
    \A i \in Slots : Running(i) =>
        \A p \in PageNos : PageAt(i, p) \in 0 .. PAGEWAIT => p \in ToSet(order[i])

\* The first active process always has a frame or finds a free one, which is why
\* leaving the loop early blocks nobody for ever.
FirstHasFrame ==
    \A i \in Slots :
        Running(i) /\ (\A k \in 1 .. i - 1 : ~Running(k)) /\ phase = "step" /\ turn = 1 =>
            pagesavail > 0 \/ FramesOf(processes[i]) # {}

AllFinish == <>(phase = "score")

\* The pager can do nothing the simulator does not allow any pager.
IsAnyPager == AnySpec
=============================================================================

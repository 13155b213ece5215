----------------------------- MODULE PagerBasic -----------------------------
(***************************************************************************)
(* pager-basic.c in the simulator: every call of pageit is spent on the    *)
(* first active process.                                                   *)
(***************************************************************************)
EXTENDS Simulator

FirstActive(i) == Running(i) /\ \A k \in 1 .. i - 1 : ~Running(k)

\* The first page, other than the needed one, for which pageout returns TRUE: that
\* may be one that is out already.
SwapOut(i, page) ==
    LET candidates == {p \in PageNos \ {page} : pageoutResult(i, p)}
    IN  IF candidates = {}
        THEN UNCHANGED pageVars
        ELSE pageout(i, CHOOSE p \in candidates : \A o \in candidates : p <= o)

\* Mutant: another page is thrown out before the needed one is asked for.
EagerServe(i) ==
    LET page == Needed(processes[i])
    IN  IF PageAt(i, page) = 0 THEN UNCHANGED pageVars
        ELSE IF \E p \in PageNos \ {page} : PageAt(i, p) = 0
        THEN pageout(i, CHOOSE p \in PageNos \ {page} : PageAt(i, p) = 0)
        ELSE pagein(i, page)

Serve(i) ==
    LET page == Needed(processes[i])
    IN  IF PageAt(i, page) = 0 THEN UNCHANGED pageVars
        ELSE IF pageinResult(i, page) THEN pagein(i, page)
        ELSE SwapOut(i, page)

\* Mutant: the loop over the processes takes the last active one.
PageitLast ==
    /\ phase = "call"
    /\ \E i \in Slots : /\ Running(i) /\ \A k \in i + 1 .. Procs : ~Running(k)
                        /\ Serve(i)
    /\ PagerReturns
    /\ UNCHANGED procVars

\* Mutant: only the first processor is ever served.
PageitFirst ==
    /\ phase = "call"
    /\ IF Running(1) THEN Serve(1) ELSE UNCHANGED pageVars
    /\ PagerReturns
    /\ UNCHANGED procVars

pageit ==
    /\ phase = "call"
    /\ IF alldone THEN UNCHANGED pageVars
                  ELSE \E i \in Slots : FirstActive(i) /\ Serve(i)
    /\ PagerReturns
    /\ UNCHANGED procVars

Next == Step \/ allage \/ pageit \/ Ended

Spec == Init /\ [][Next]_simVars /\ WF_simVars(Next)
------------------------------------------------------------------------------
\* "Since only one process is allocated pages at a time, no more than 20 pages are
\* ever in use": the pages in memory or on the way all belong to the first active
\* process.
OneAtATime ==
    \A k \in Occupied : \E i \in Slots : FirstActive(i) /\ processes[i] = k[1]

\* "This implementation never actually ends up having to swap out any pages."
NeverSwapsOut == \A j \in Jobs, p \in PageNos : StateOf(pages[j][p]) # "going"

\* Every job is run to its end: the starved processors get their turn.
AllFinish == <>(phase = "score")

\* The pager can do nothing the simulator does not allow any pager.
IsAnyPager == AnySpec
=============================================================================

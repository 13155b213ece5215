------------------------------- MODULE ApiTest -------------------------------
(***************************************************************************)
(* api-test.c in the simulator: a pager that moves one page of one process *)
(* in and out a few times, and then exits the program.  It waits for each  *)
(* transit to end by the page map alone, in which a page on its way looks  *)
(* like one that is out.                                                   *)
(***************************************************************************)
EXTENDS Simulator

CONSTANT MAXITERATIONS

ASSUME TestAssumption == MAXITERATIONS \in Nat

testProc == 1
testPage == 0

\* The exit statements of programs.c are on later pages than the one under test, where a
\* job would end while the test waits.
LeavesTestPage == \A j \in Jobs : path[j][Len(path[j])] # testPage

VARIABLES outTestRun, inTestRun, iterations,
          exited       \* exit was called

flags    == <<outTestRun, inTestRun, iterations, exited>>
testVars == <<simVars, flags>>

FlagsInit == /\ outTestRun = FALSE /\ inTestRun = FALSE /\ iterations = 0
             /\ exited = FALSE

TestInit == Init /\ LeavesTestPage /\ FlagsInit

SwappedIn == Running(testProc) /\ PageAt(testProc, testPage) = 0

\* pagein first, which has nothing to do, then pageout.
MovesOut ==
    /\ SwappedIn /\ ~inTestRun
    /\ pageoutResult(testProc, testPage)
    /\ pageout(testProc, testPage)
    /\ inTestRun' = TRUE /\ outTestRun' = FALSE
    /\ iterations' = iterations + 1

\* Mutant: the test is taken to be over when pagein was refused.
MovesInBlindly ==
    /\ ~SwappedIn /\ ~outTestRun
    /\ pagein(testProc, testPage)
    /\ outTestRun' = TRUE /\ inTestRun' = FALSE
    /\ iterations' = iterations + 1

\* pageout first, of a page that is out or going already, then pagein.
MovesIn ==
    /\ ~SwappedIn /\ ~outTestRun
    /\ pageinResult(testProc, testPage)
    /\ pagein(testProc, testPage)
    /\ outTestRun' = TRUE /\ inTestRun' = FALSE
    /\ iterations' = iterations + 1

\* "pageout in progress..."
StillGoing ==
    /\ ~SwappedIn /\ ~outTestRun
    /\ ~pageinResult(testProc, testPage)
    /\ UNCHANGED <<pageVars, outTestRun, inTestRun, iterations>>

\* The page is where it was sent, or on its way there.
Waits == /\ IF SwappedIn THEN inTestRun ELSE outTestRun
         /\ UNCHANGED <<pageVars, outTestRun, inTestRun, iterations>>

\* Mutant: one change of direction less.
pageitShort ==
    /\ phase = "call" /\ ~exited
    /\ MovesOut \/ MovesIn \/ StillGoing \/ Waits
    /\ exited' = (iterations' >= MAXITERATIONS)
    /\ PagerReturns
    /\ UNCHANGED procVars

pageitTest ==
    /\ phase = "call" /\ ~exited
    /\ MovesOut \/ MovesIn \/ StillGoing \/ Waits
    /\ exited' = (iterations' > MAXITERATIONS)
    /\ PagerReturns
    /\ UNCHANGED procVars

TestNext == \/ (Step \/ allage \/ Ended) /\ ~exited /\ UNCHANGED flags
            \/ pageitTest
            \/ exited /\ UNCHANGED testVars

TestSpec == TestInit /\ [][TestNext]_testVars /\ WF_testVars(TestNext)
------------------------------------------------------------------------------
\* The two flags, which are all the pager knows of a transit, agree with the state of
\* the page: one that was sent in is coming or in, one that was sent out is going or
\* out, and both are never under way.
FlagsMatch ==
    /\ ~(outTestRun /\ inTestRun)
    /\ Running(testProc)
    /\ outTestRun => PageAt(testProc, testPage) >= 0
    /\ inTestRun  => PageAt(testProc, testPage) < 0

\* The test ends by itself, after MAXITERATIONS + 1 changes of direction.
TestEnds == <>(exited /\ iterations = MAXITERATIONS + 1)
=============================================================================

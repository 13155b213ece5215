---------------------------- MODULE SmallPagers ----------------------------
(***************************************************************************)
(* The simulator as it is linked with one of the two pagers that look at   *)
(* one process only: the Makefile puts simulator.o and pager-basic.o into  *)
(* test-basic, simulator.o and api-test.o into test-api.                   *)
(***************************************************************************)
EXTENDS PagerBasic, ApiTest

VARIABLE linked      \* the pager in the program: "basic" or "test"

linkedVars == <<testVars, linked>>

\* pager-basic.c has none of the variables of api-test.c.
LinkedInit == \/ linked = "basic" /\ Init /\ FlagsInit
              \/ linked = "test"  /\ TestInit

LinkedNext == /\ \/ linked = "basic" /\ Next /\ UNCHANGED flags
                 \/ linked = "test"  /\ TestNext
              /\ UNCHANGED linked

LinkedSpec == LinkedInit /\ [][LinkedNext]_linkedVars /\ WF_linkedVars(LinkedNext)
------------------------------------------------------------------------------
\* With the basic pager the pages in memory or on the way are those of the first active
\* process, though jobs end in the middle of transits (pager-basic.c:30).
ServesOne == linked = "basic" => OneAtATime

\* With the basic pager no page is ever swapped out, as its comment says, although the
\* code for it is there (pager-basic.c:41).
NeverSwaps == linked = "basic" => NeverSwapsOut

\* With the basic pager every job is run to its end, though it serves one at a time and
\* its loop stops early.
BasicFinishes == linked = "basic" => AllFinish

\* The two flags of the test pager agree with the state of the page, which it cannot
\* see while the page is on its way (api-test.c:38).
FlagsTell == linked = "test" => FlagsMatch

\* The test pager comes to the end of its rounds.
TestFinishes == linked = "test" => TestEnds
=============================================================================

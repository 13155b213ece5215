--------------------------- MODULE MCPagerPredict ---------------------------
(* The paths of the jobs in the instances TLC checks, and where each of    *)
(* their statements is on its page.                                        *)
EXTENDS PagerPredict

\* There and back again, and back and forth, so that a page is needed again while it
\* goes out.  A processor that runs both sees page 1 followed by page 2 and then, more
\* often, by page 0.
ThereAndBack == <<0, 1, 2, 1>>
BackAndForth == <<0, 1, 0, 1>>

JobPaths == {ThereAndBack, BackAndForth}
JobPlaces ==
    [s \in JobPaths |-> IF s = ThereAndBack THEN <<"late", "first", "early", "early">>
                        ELSE <<"early", "early", "late", "early">>]
=============================================================================

----------------------------- MODULE MCSimulator -----------------------------
(* The paths of the jobs in the instances TLC checks.                        *)
EXTENDS Simulator

\* A program of one page, and one that goes on to a second page.
FewPaths == {<<0>>, <<0, 1>>}

\* All paths of up to three statements over two pages.
ShortPaths == UNION {[1 .. n -> 0 .. 1] : n \in 1 .. 3}

\* Paths over three pages: straight on, back and forth, and round.
LongPaths == {<<0>>, <<0, 1, 0>>, <<0, 1, 2>>, <<0, 1, 2, 0, 1>>, <<2, 1, 2, 0, 2>>}
==============================================================================

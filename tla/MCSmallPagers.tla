--------------------------- MODULE MCSmallPagers ---------------------------
(* The paths of the jobs in the instance TLC checks.                         *)
EXTENDS SmallPagers

\* All paths of up to three statements over two pages, and one that stays on page 0
\* for longer than a transit takes.
SmallPaths == UNION {[1 .. n -> 0 .. 1] : n \in 1 .. 3} \cup {<<0, 0, 0, 0, 0, 1>>}
=============================================================================

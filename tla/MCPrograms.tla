----------------------------- MODULE MCPrograms -----------------------------
(* The table of programs.c, and smaller ones of the same shape for TLC.     *)
EXTENDS Programs

Jump(from, to)           == [wherefrom |-> from, whereto |-> to, btype |-> "GOTO",
                             min |-> 0, max |-> 0]
If(from, to)             == [Jump(from, to) EXCEPT !.btype = "IF"]
For(from, to, lo, hi)    == [wherefrom |-> from, whereto |-> to, btype |-> "FOR",
                             min |-> lo, max |-> hi]
NFor(from, to, lo, hi)   == [For(from, to, lo, hi) EXCEPT !.btype = "NFOR"]
Program(size, br, exits) == [size |-> size, branches |-> br, exits |-> exits]

programs ==
    <<Program(1535, <<If(500, 1402), Jump(1401, 1533), For(1533, 0, 10, 30)>>, <<1534>>),
      Program(1131, <<For(1129, 0, 20, 50)>>, <<1130>>),
      Program(1685, <<For(1682, 1166, 10, 20), For(1683, 0, 10, 20)>>, <<1684>>),
      Program(1912, << >>, <<1911>>),
      Program(505, <<If(500, 503), Jump(501, 0), Jump(502, 503), For(503, 0, 10, 20)>>,
              <<504>>)>>

PAGESIZE == 128
MAXPC    == 20 * PAGESIZE

\* The same shapes, with short straight stretches and few rounds.
Linear4 == Program(4, << >>, <<3>>)
Shapes ==
    {Program(8, <<If(2, 5), Jump(4, 6), For(6, 0, 1, 3)>>, <<7>>),
     Program(4, <<For(2, 0, 2, 5)>>, <<3>>),
     Program(6, <<For(3, 2, 1, 4), For(4, 0, 3, 4)>>, <<5>>),
     Linear4,
     Program(7, <<If(2, 5), Jump(3, 0), Jump(4, 5), For(5, 0, 1, 3)>>, <<6>>)}

\* Not in programs.c: several exits, an NFOR, and enough of both that each search
\* goes round several times.
Wide == Program(14, <<Jump(0, 2), NFor(3, 6, 2, 2), If(4, 9), For(6, 3, 1, 1),
                      For(8, 6, 1, 2), For(10, 0, 1, 1)>>, <<1, 5, 7, 11, 12, 13>>)

AllShapes == Shapes \cup {Wide}

\* programs.c fits the pages of a process, its tables are sorted, every branch stays
\* in its program, and its loops have a range to draw from.
ASSUME TableAssumption ==
    \A i \in DOMAIN programs : LET p == programs[i] IN
        /\ p.size <= MAXPC
        /\ p.branches \in Seq(Branch(p))
        /\ Increasing([k \in DOMAIN p.branches |-> p.branches[k].wherefrom])
        /\ \A k \in DOMAIN p.branches :
              p.branches[k].btype = "FOR" => p.branches[k].min < p.branches[k].max
        /\ p.exits = <<p.size - 1>>
=============================================================================

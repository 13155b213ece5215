------------------------------ MODULE Programs ------------------------------
(***************************************************************************)
(* The branching engine of simulator.c: a program is a table of branches   *)
(* and exits, both sorted by statement; each branch has a context with the *)
(* decisions it is going to take, drawn when the program is loaded.        *)
(*                                                                         *)
(* This module runs one process with all its pages in memory; a step that  *)
(* is blocked leaves everything here alone (Simulator!StepBlocked), and    *)
(* the pages of the statements it visits are a path of Simulator.          *)
(*                                                                         *)
(* Tables and arrays are indexed from 0 as in the code.  Probabilities are *)
(* abstracted to a free choice.                                            *)
(***************************************************************************)
EXTENDS Integers, Sequences

CONSTANTS Programs,    \* records: size, branches, exits
          MAXBRINGS,   \* data points in a branch context
          MaxRun       \* bound: the longest run of equal draws of an IF

Entries == 0 .. MAXBRINGS - 1

Types == {"GOTO", "FOR", "NFOR", "IF"}

Branch(p) == [wherefrom : 0 .. p.size - 1, whereto : 0 .. p.size - 1, btype : Types,
              min : Nat, max : Nat]

Increasing(t) == \A i, j \in DOMAIN t : i < j => t[i] < t[j]

ASSUME BringsAssumption == /\ MAXBRINGS \in Nat \ {0} /\ MAXBRINGS % 2 = 0
                           /\ MaxRun \in Nat \ {0}
ASSUME ProgramsAssumption ==
    \A p \in Programs :
        /\ p.size \in Nat \ {0}
        /\ p.branches \in Seq(Branch(p))
        /\ Increasing([i \in DOMAIN p.branches |-> p.branches[i].wherefrom])
        /\ \A i \in DOMAIN p.branches :
              p.branches[i].btype \in {"FOR", "NFOR"} => p.branches[i].min > 0
        /\ p.exits \in Seq(0 .. p.size - 1) /\ p.exits # << >> /\ Increasing(p.exits)
        /\ p.size - 1 \in {p.exits[i] : i \in DOMAIN p.exits}

VARIABLES program,     \* the program of the process
          bcontexts,   \* its contexts, and the one behind them
          pc,          \* the statement it is at
          phase,       \* "load", "exits" and "branches" (the searches), "exit"
          min, max,    \* the bounds of the search; in "load", min is the loop's i
          taken        \* history: how often each branch was taken in a row

vars == <<program, bcontexts, pc, phase, min, max, taken>>

nbranches == Len(program.branches)
nexits    == Len(program.exits)
b(k)      == program.branches[k + 1]
Contexts  == 0 .. nbranches
Listed    == {b(k).wherefrom : k \in 0 .. nbranches - 1}
Exits     == {program.exits[i] : i \in 1 .. nexits}

\* The static table is zero behind its last branch.  Before the first one there
\* are unused exits of the program before it, zero too.
wherefrom(k) == IF k \in 0 .. nbranches - 1 THEN b(k).wherefrom ELSE 0
whereto(k)   == IF k \in 0 .. nbranches - 1 THEN b(k).whereto ELSE 0
------------------------------------------------------------------------------
(* Contexts: brings holds the lengths of the runs of equal decisions.       *)

bcontext_clear ==
    [btype |-> "GOTO", boffset |-> 0, bsize |-> 1, bvalue |-> TRUE, bcount |-> 0,
     brings |-> [i \in Entries |-> IF i = 0 THEN 1 ELSE 0]]

Forever == 2147483647

\* Mutant: the old version of the line.
GotoOnce == {[bcontext_clear EXCEPT !.brings = [i \in Entries |-> IF i = 0 THEN 1 ELSE 0]]}

GotoContext ==
    {[bcontext_clear EXCEPT !.brings = [i \in Entries |-> IF i = 0 THEN Forever ELSE 0]]}

\* The runs of equal draws; the first one counts from the cleared 1.
IfContext ==
    {[btype |-> "IF", boffset |-> 0, bsize |-> MAXBRINGS, bvalue |-> v, bcount |-> 0,
      brings |-> r] : v \in BOOLEAN, r \in [Entries -> 1 .. MaxRun]}

Rounds(br) == IF br.max > br.min THEN br.min .. br.max - 1 ELSE {br.min}

\* Mutant: the bound max is drawn too.
LoopContextMax(br) ==
    {[btype |-> br.btype, boffset |-> 0, bsize |-> MAXBRINGS, bvalue |-> br.btype = "FOR",
      bcount |-> 0, brings |-> r] :
        r \in {s \in [Entries -> {1} \cup (br.min .. br.max)] : \A i \in Entries :
                  IF i % 2 = 0 THEN s[i] \in br.min .. br.max ELSE s[i] = 1}}

\* FOR and NFOR: a number of rounds, then one failure to escape the loop, and again.
LoopContext(br) ==
    {[btype |-> br.btype, boffset |-> 0, bsize |-> MAXBRINGS, bvalue |-> br.btype = "FOR",
      bcount |-> 0, brings |-> r] :
        r \in {s \in [Entries -> {1} \cup Rounds(br)] : \A i \in Entries :
                  IF i % 2 = 0 THEN s[i] \in Rounds(br) ELSE s[i] = 1}}

Drawn(br) == CASE br.btype = "GOTO" -> GotoContext
               [] br.btype = "IF"   -> IfContext
               [] OTHER             -> LoopContext(br)

\* The decision is c.bvalue; this is the context after it.
bcontext_decide(c) ==
    IF c.bcount + 1 >= c.brings[c.boffset]
    THEN [c EXCEPT !.bcount = 0, !.boffset = (@ + 1) % c.bsize, !.bvalue = ~@]
    ELSE [c EXCEPT !.bcount = @ + 1]
------------------------------------------------------------------------------
(* process_clear and process_load                                          *)

Init == /\ program \in Programs
        /\ bcontexts = [k \in 0 .. Len(program.branches) |-> bcontext_clear]
        /\ pc = 0
        /\ phase = "load" /\ min = 0 /\ max = 0
        /\ taken = [k \in 0 .. Len(program.branches) |-> 0]

\* An IF writes one entry behind its array, which is where the btype of the next
\* context lies: the number of FOR.
Overrun(k, c) == IF b(k).btype = "IF"
                 THEN [bcontexts EXCEPT ![k] = c, ![k + 1].btype = "FOR"]
                 ELSE [bcontexts EXCEPT ![k] = c]

\* Mutant: the contexts are initialised from the last one down.
LoadDown ==
    /\ phase = "load" /\ min < nbranches
    /\ \E c \in Drawn(b(nbranches - 1 - min)) :
          bcontexts' = Overrun(nbranches - 1 - min, c)
    /\ min' = min + 1
    /\ UNCHANGED <<program, pc, phase, max, taken>>

bcontext_init ==
    /\ phase = "load" /\ min < nbranches
    /\ \E c \in Drawn(b(min)) : bcontexts' = Overrun(min, c)
    /\ min' = min + 1
    /\ UNCHANGED <<program, pc, phase, max, taken>>

StartStep == phase' = "exits" /\ min' = 0 /\ max' = nexits - 1

process_load ==
    /\ phase = "load" /\ min = nbranches
    /\ StartStep
    /\ UNCHANGED <<program, bcontexts, pc, taken>>
------------------------------------------------------------------------------
(* process_step: the two binary searches, then the statement itself.        *)

mid == (min + max) \div 2

\* Mutant: a key that is less than the middle one is looked for above it.
NarrowWrong(key) == /\ min + 1 < max /\ pc # key
                    /\ IF pc > key THEN max' = mid /\ UNCHANGED min
                                   ELSE min' = mid /\ UNCHANGED max

Narrow(key) == /\ min + 1 < max /\ pc # key
               /\ IF pc < key THEN max' = mid /\ UNCHANGED min
                              ELSE min' = mid /\ UNCHANGED max

\* The entry a search ends with: in the middle, or one of the last two.
FoundAt(k, key) == /\ pc = key
                   /\ IF min + 1 < max THEN k = mid ELSE k \in {min, max}

NotFound(first, last) == min + 1 >= max /\ pc # first /\ pc # last

exit(k) == program.exits[k + 1]

SearchExits == /\ phase = "exits"
               /\ Narrow(exit(mid))
               /\ UNCHANGED <<program, bcontexts, pc, phase, taken>>

\* Mutant: TRUE is returned at the exit, and the process goes on.
ExitGoesOn == /\ phase = "exits"
              /\ \E k \in 0 .. nexits - 1 : FoundAt(k, exit(k))
              /\ StartStep
              /\ UNCHANGED <<program, bcontexts, pc, taken>>

ExitFound == /\ phase = "exits"
             /\ \E k \in 0 .. nexits - 1 : FoundAt(k, exit(k))
             /\ phase' = "exit"
             /\ UNCHANGED <<program, bcontexts, pc, min, max, taken>>

NoExit == /\ phase = "exits"
          /\ NotFound(exit(min), exit(max))
          /\ phase' = "branches" /\ min' = 0 /\ max' = nbranches - 1
          /\ UNCHANGED <<program, bcontexts, pc, taken>>

SearchBranches == /\ phase = "branches"
                  /\ Narrow(wherefrom(mid))
                  /\ UNCHANGED <<program, bcontexts, pc, phase, taken>>

\* b[min] is looked at before b[max].
process_dobranch ==
    /\ phase = "branches"
    /\ \E k \in {mid, min, max} :
          /\ FoundAt(k, wherefrom(k))
          /\ min + 1 >= max /\ pc = wherefrom(min) => k = min
          /\ LET c  == bcontexts[k]
                 to == IF c.bvalue THEN whereto(k) ELSE pc + 1
             IN  /\ pc' = IF to < 0 \/ to >= program.size THEN 0 ELSE to
                 /\ taken' = [taken EXCEPT ![k] = IF c.bvalue THEN @ + 1 ELSE 0]
                 /\ bcontexts' = [bcontexts EXCEPT ![k] = bcontext_decide(c)]
    /\ StartStep
    /\ UNCHANGED program

DefaultAction ==
    /\ phase = "branches"
    /\ NotFound(wherefrom(min), wherefrom(max))
    /\ pc' = IF pc + 1 > program.size THEN 0 ELSE pc + 1
    /\ StartStep
    /\ UNCHANGED <<program, bcontexts, taken>>

Ended == phase = "exit" /\ UNCHANGED vars

Next == \/ bcontext_init \/ process_load
        \/ SearchExits \/ ExitFound \/ NoExit
        \/ SearchBranches \/ process_dobranch \/ DefaultAction
        \/ Ended

Spec == Init /\ [][Next]_vars /\ WF_vars(Next)
------------------------------------------------------------------------------
(* Properties                                                              *)

Loaded == phase # "load"

\* Every context has the shape decide relies on: the offset is in the array, the runs
\* of a context in use are not empty; the statement is in the program.
TypeOK ==
    /\ program \in Programs
    /\ pc \in 0 .. program.size - 1
    /\ phase \in {"load", "exits", "branches", "exit"}
    /\ min \in Nat /\ max \in Int
    /\ taken \in [Contexts -> Nat]
    /\ bcontexts \in [Contexts -> [btype : Types, boffset : Nat, bsize : Nat \ {0},
                                   bvalue : BOOLEAN, bcount : Nat,
                                   brings : [Entries -> Nat]]]
    /\ \A k \in Contexts : /\ bcontexts[k].bsize <= MAXBRINGS
                           /\ bcontexts[k].boffset < bcontexts[k].bsize

\* What an IF writes behind its array is gone when the process runs: contexts are
\* initialised in ascending order.
TypesKept ==
    Loaded => \A k \in 0 .. nbranches - 1 : bcontexts[k].btype = b(k).btype

\* "keep going forever": a GOTO never falls through, however often it is reached.
GotoJumps ==
    \A k \in 0 .. nbranches - 1 :
        b(k).btype = "GOTO" /\ (Loaded \/ k < min) => bcontexts[k].bvalue

\* Wrapping around brings never exchanges rounds and escapes (MAXBRINGS "must be
\* EVEN"): a FOR context that is about to branch is at a number of rounds.
LoopParity ==
    \A k \in 0 .. nbranches - 1 :
        b(k).btype = "FOR" /\ (Loaded \/ k < min) =>
            (bcontexts[k].bvalue <=> bcontexts[k].boffset % 2 = 0)

\* The searches over the sorted tables are right: a step ends the program exactly at a
\* listed exit; otherwise it changes the one context whose branch is at the statement,
\* and goes on or to its target, or, where no branch is listed, just goes on.  (A
\* program without branches is "entirely linear", but the zero entry behind its table
\* is taken for a branch at statement 0, which may be run again.)
StepFollowsTables ==
    /\ phase = "exits" /\ phase' = "exit" => pc \in Exits
    /\ phase = "exits" /\ phase' = "branches" => pc \notin Exits
    /\ phase = "branches" /\ phase' = "exits" =>
          \/ /\ pc \notin Listed
             /\ pc' = pc + 1 /\ bcontexts' = bcontexts
          \/ \E k \in 0 .. nbranches - 1 :
                /\ pc = b(k).wherefrom
                /\ pc' \in {b(k).whereto, pc + 1}
                /\ \A i \in Contexts \ {k} : bcontexts'[i] = bcontexts[i]
          \/ nbranches = 0 /\ pc = 0 /\ pc' \in {0, 1}
TablesFollowed == [][StepFollowsTables]_vars

\* "for X Y: a loop with between X and Y iterations": whenever a FOR falls through,
\* its body has been run at least X and at most Y times, the last time included.
FallsThrough(k) == /\ phase = "branches" /\ phase' = "exits"
                   /\ pc = b(k).wherefrom /\ ~bcontexts[k].bvalue
LoopLeft(k) == taken[k] + 1 \in b(k).min .. b(k).max
LoopCount ==
    [][\A k \in 0 .. nbranches - 1 :
          b(k).btype = "FOR" /\ b(k).min < b(k).max /\ FallsThrough(k) => LoopLeft(k)]_vars

\* Every program comes to its exit, whatever its branches draw.
AllEnd == <>(phase = "exit")
=============================================================================

--------------------------- MODULE ProgramsProofs ---------------------------
(***************************************************************************)
(* The branching engine, for every program table and every size of brings: *)
(* the binary searches over the tables, the contexts and their decisions.  *)
(***************************************************************************)
EXTENDS Programs, TLAPS
------------------------------------------------------------------------------
(* The tables of a program                                                  *)

LEMMA Exiting ==
    ASSUME program \in Programs
    PROVE  /\ program.size \in Nat /\ program.size > 0 /\ nexits \in Nat /\ nexits > 0
           /\ \A k \in 0 .. nexits - 1 : exit(k) \in 0 .. program.size - 1
           /\ \A k, l \in 0 .. nexits - 1 : k < l => exit(k) < exit(l)
           /\ Exits = {exit(k) : k \in 0 .. nexits - 1}
           /\ program.size - 1 \in Exits
<1> DEFINE t == program.exits
<1>1. /\ program.size \in Nat \ {0} /\ t \in Seq(0 .. program.size - 1) /\ t # << >>
      /\ Increasing(t) /\ program.size - 1 \in {t[i] : i \in DOMAIN t}
  BY ProgramsAssumption
<1>2. Len(t) \in Nat /\ Len(t) > 0 /\ DOMAIN t = 1 .. Len(t)
  BY <1>1
<1>3. \A i \in 1 .. Len(t) : t[i] \in 0 .. program.size - 1
  <2> DEFINE S == 0 .. program.size - 1
  <2>1. t \in Seq(S)
    BY <1>1
  <2> HIDE DEF S, t
  <2>2. \A i \in 1 .. Len(t) : t[i] \in S
    BY <2>1
  <2> QED BY <2>2 DEF S
<1>4. \A i, j \in 1 .. Len(t) : i < j => t[i] < t[j]
  BY <1>1, <1>2 DEF Increasing
<1>5. \A k \in 0 .. nexits - 1 : k + 1 \in 1 .. Len(t) /\ exit(k) = t[k + 1]
  BY <1>2 DEF nexits, exit
<1>6. \A i \in 1 .. Len(t) : i - 1 \in 0 .. nexits - 1 /\ exit(i - 1) = t[i]
  BY <1>2 DEF nexits, exit
<1>7. Exits = {t[i] : i \in 1 .. Len(t)}
  BY DEF Exits, nexits
<1>8. program.size - 1 \in Exits
  BY <1>1, <1>2, <1>7
<1>9. program.size \in Nat /\ program.size > 0
  BY <1>1
<1>10. nexits = Len(t)
  BY DEF nexits
<1> HIDE DEF t
<1>11. Exits = {exit(k) : k \in 0 .. nexits - 1}
  BY <1>5, <1>6, <1>7
<1>12. \A k, l \in 0 .. nexits - 1 : k < l => exit(k) < exit(l)
  <2> SUFFICES ASSUME NEW k \in 0 .. nexits - 1, NEW l \in 0 .. nexits - 1, k < l
               PROVE  exit(k) < exit(l)
    OBVIOUS
  <2>1. k + 1 < l + 1
    BY <1>2 DEF nexits
  <2> QED BY <1>4, <1>5, <2>1
<1>13. \A k \in 0 .. nexits - 1 : exit(k) \in 0 .. program.size - 1
  BY <1>3, <1>5
<1> QED BY <1>2, <1>11, <1>12, <1>13, <1>8, <1>9, <1>10

LEMMA Branching ==
    ASSUME program \in Programs
    PROVE  /\ nbranches \in Nat
           /\ \A k \in 0 .. nbranches - 1 : b(k) \in Branch(program)
           /\ \A k \in 0 .. nbranches - 1 : b(k).btype \in {"FOR", "NFOR"} => b(k).min > 0
           /\ \A k, l \in 0 .. nbranches - 1 : k < l => b(k).wherefrom < b(l).wherefrom
<1> DEFINE t == program.branches
           w == [i \in DOMAIN t |-> t[i].wherefrom]
<1>1. /\ t \in Seq(Branch(program)) /\ Increasing(w)
      /\ \A i \in DOMAIN t : t[i].btype \in {"FOR", "NFOR"} => t[i].min > 0
  BY ProgramsAssumption
<1>2. /\ Len(t) \in Nat /\ DOMAIN t = 1 .. Len(t) /\ DOMAIN w = 1 .. Len(t)
      /\ \A i \in 1 .. Len(t) : w[i] = t[i].wherefrom
  BY <1>1
<1>3. \A i \in 1 .. Len(t) : t[i] \in Branch(program)
  BY <1>1
<1>4. \A i, j \in 1 .. Len(t) : i < j => t[i].wherefrom < t[j].wherefrom
  BY <1>1, <1>2 DEF Increasing
<1>5. \A k \in 0 .. nbranches - 1 : k + 1 \in 1 .. Len(t) /\ b(k) = t[k + 1]
  BY <1>2 DEF nbranches, b
<1>6. nbranches = Len(t)
  BY DEF nbranches
<1> HIDE DEF t, w
<1>7. \A k, l \in 0 .. nbranches - 1 : k < l => b(k).wherefrom < b(l).wherefrom
  <2> SUFFICES ASSUME NEW k \in 0 .. nbranches - 1, NEW l \in 0 .. nbranches - 1, k < l
               PROVE  b(k).wherefrom < b(l).wherefrom
    OBVIOUS
  <2>1. k + 1 < l + 1
    BY <1>2, <1>6
  <2> QED BY <1>4, <1>5, <2>1
<1> QED BY <1>1, <1>2, <1>3, <1>5, <1>6, <1>7
------------------------------------------------------------------------------
(* Decisions                                                                *)

Ctx == [btype : Types, boffset : Nat, bsize : Nat \ {0}, bvalue : BOOLEAN, bcount : Nat,
        brings : [Entries -> Nat]]

Sound(c) == c \in Ctx /\ c.bsize <= MAXBRINGS /\ c.boffset < c.bsize

LEMMA SmallMod == ASSUME NEW m \in Nat \ {0}, NEW o \in Nat, o < m PROVE o % m = o
OBVIOUS

LEMMA Wraps ==
    ASSUME NEW m \in Nat \ {0}, NEW o \in Nat, o < m
    PROVE  (o + 1) % m = IF o + 1 < m THEN o + 1 ELSE 0
<1>1. CASE o + 1 < m
  BY <1>1, SmallMod
<1>2. CASE ~(o + 1 < m)
  <2>1. o + 1 = m
    BY <1>2
  <2>2. m % m = 0
    OBVIOUS
  <2> QED BY <1>2, <2>1, <2>2
<1> QED BY <1>1, <1>2

\* Deciding keeps the offset in the array.
LEMMA DecideSound ==
    ASSUME NEW c, Sound(c)
    PROVE  /\ Sound(bcontext_decide(c)) /\ bcontext_decide(c).btype = c.btype
           /\ bcontext_decide(c).bsize = c.bsize /\ bcontext_decide(c).brings = c.brings
<1> DEFINE d == bcontext_decide(c)
           wrapped == (c.boffset + 1) % c.bsize
<1>1. /\ c \in Ctx /\ c.bsize \in Nat \ {0} /\ c.boffset \in Nat /\ c.boffset < c.bsize
      /\ c.bcount \in Nat /\ c.bvalue \in BOOLEAN /\ c.bsize <= MAXBRINGS
  BY DEF Sound, Ctx
<1>2. wrapped = IF c.boffset + 1 < c.bsize THEN c.boffset + 1 ELSE 0
  BY <1>1, Wraps
<1>3. wrapped \in Nat /\ wrapped < c.bsize
  BY <1>1, <1>2
<1> HIDE DEF wrapped
<1>4. CASE c.bcount + 1 >= c.brings[c.boffset]
  <2>1. d = [c EXCEPT !.bcount = 0, !.boffset = wrapped, !.bvalue = ~@]
    BY <1>4 DEF bcontext_decide, wrapped
  <2> HIDE DEF d
  <2>2. d \in Ctx /\ d.btype = c.btype /\ d.bsize = c.bsize /\ d.brings = c.brings
        /\ d.boffset = wrapped
    BY <1>1, <1>3, <2>1 DEF Ctx
  <2> QED BY <1>1, <1>3, <2>2 DEF Sound, d
<1>5. CASE ~(c.bcount + 1 >= c.brings[c.boffset])
  <2>1. d = [c EXCEPT !.bcount = @ + 1]
    BY <1>5 DEF bcontext_decide
  <2> HIDE DEF d
  <2>2. d \in Ctx /\ d.btype = c.btype /\ d.bsize = c.bsize /\ d.brings = c.brings
        /\ d.boffset = c.boffset
    BY <1>1, <2>1 DEF Ctx
  <2> QED BY <1>1, <2>2 DEF Sound, d
<1> QED BY <1>4, <1>5

\* A FOR context that has branched n times in a row: at a number of rounds while it
\* branches, at the escape after as many.
LoopAt(c, br, n) ==
    /\ c.bsize = MAXBRINGS
    /\ \A i \in Entries : IF i % 2 = 0 THEN c.brings[i] \in Rounds(br) ELSE c.brings[i] = 1
    /\ c.bvalue <=> c.boffset % 2 = 0
    /\ IF c.bvalue THEN c.bcount = n /\ n < c.brings[c.boffset]
                   ELSE c.bcount = 0 /\ n \in Rounds(br)

\* Wrapping around an even array keeps rounds and escapes apart.
LEMMA DecideLoop ==
    ASSUME NEW c, Sound(c), NEW br, br.min \in Nat, br.min > 0, br.max \in Nat,
           NEW n \in Nat, LoopAt(c, br, n)
    PROVE  LoopAt(bcontext_decide(c), br, IF c.bvalue THEN n + 1 ELSE 0)
<1> DEFINE d == bcontext_decide(c)
           o == c.boffset
           w == (o + 1) % c.bsize
<1>1. /\ c \in Ctx /\ o \in Nat /\ o < MAXBRINGS /\ c.bsize = MAXBRINGS
      /\ c.bcount \in Nat /\ c.bvalue \in BOOLEAN
      /\ MAXBRINGS \in Nat \ {0} /\ MAXBRINGS % 2 = 0
  BY BringsAssumption DEF Sound, Ctx, LoopAt
<1>2. w = IF o + 1 < MAXBRINGS THEN o + 1 ELSE 0
  BY <1>1, Wraps
<1>3. o \in Entries /\ w \in Entries /\ (w % 2 = 0 <=> o % 2 # 0)
  BY <1>1, <1>2 DEF Entries
<1>4. Rounds(br) \subseteq Nat \ {0}
  BY DEF Rounds
<1>5. /\ c.bvalue <=> o % 2 = 0
      /\ o % 2 = 0 => c.brings[o] \in Rounds(br)
      /\ o % 2 # 0 => c.brings[o] = 1
      /\ w % 2 = 0 => c.brings[w] \in Rounds(br)
  BY <1>3 DEF LoopAt
<1> HIDE DEF w
<1>6. CASE c.bcount + 1 >= c.brings[o]
  <2>1. d = [c EXCEPT !.bcount = 0, !.boffset = w, !.bvalue = ~@]
    BY <1>6 DEF bcontext_decide, w
  <2> HIDE DEF d
  <2>2. /\ d.bsize = c.bsize /\ d.brings = c.brings /\ d.boffset = w /\ d.bcount = 0
        /\ d.bvalue = ~c.bvalue
    BY <1>1, <2>1 DEF Ctx
  <2>3. CASE c.bvalue
    <3>1. c.bcount = n /\ n < c.brings[o] /\ c.brings[o] \in Rounds(br)
      BY <1>5, <2>3 DEF LoopAt
    <3>2. n + 1 = c.brings[o]
      BY <1>4, <1>6, <3>1
    <3>3. n + 1 \in Rounds(br) /\ ~d.bvalue /\ d.boffset % 2 # 0
      BY <1>3, <1>5, <2>2, <2>3, <3>1, <3>2
    <3>4. LoopAt(d, br, n + 1)
      BY <1>1, <2>2, <3>3 DEF LoopAt
    <3> QED BY <2>3, <3>4 DEF d
  <2>4. CASE ~c.bvalue
    <3>1. d.bvalue /\ d.boffset % 2 = 0 /\ 0 < d.brings[d.boffset]
      <4>1. w % 2 = 0
        BY <1>3, <1>5, <2>4
      <4>2. c.brings[w] \in Nat \ {0}
        BY <1>4, <1>5, <4>1
      <4>3. d.bvalue
        BY <2>2, <2>4
      <4>4. 0 < d.brings[d.boffset]
        BY <2>2, <4>2
      <4> QED BY <2>2, <4>1, <4>3, <4>4
    <3>2. LoopAt(d, br, 0)
      BY <1>1, <2>2, <3>1 DEF LoopAt
    <3> QED BY <2>4, <3>2 DEF d
  <2> QED BY <2>3, <2>4
<1>7. CASE ~(c.bcount + 1 >= c.brings[o])
  <2>1. d = [c EXCEPT !.bcount = @ + 1]
    BY <1>7 DEF bcontext_decide
  <2> HIDE DEF d
  <2>2. /\ d.bsize = c.bsize /\ d.brings = c.brings /\ d.boffset = o
        /\ d.bcount = c.bcount + 1 /\ d.bvalue = c.bvalue
    BY <1>1, <2>1 DEF Ctx
  <2>3. c.bvalue
    <3>1. ~c.bvalue => c.brings[o] = 1 /\ c.bcount = 0
      BY <1>5 DEF LoopAt
    <3> QED BY <1>7, <3>1
  <2>4. c.bcount = n /\ c.brings[o] \in Nat /\ n + 1 < c.brings[o]
    <3>1. c.bcount = n /\ c.brings[o] \in Nat
      BY <1>4, <1>5, <2>3 DEF LoopAt
    <3> QED BY <1>7, <3>1
  <2>5. LoopAt(d, br, n + 1)
    BY <1>1, <2>2, <2>3, <2>4 DEF LoopAt
  <2> QED BY <2>3, <2>5 DEF d
<1> QED BY <1>6, <1>7
------------------------------------------------------------------------------
(* The inductive invariant                                                  *)

LoadState == phase = "load" => min <= nbranches /\ \A k \in Contexts : taken[k] = 0

\* What is below min is smaller than the statement, what is above max is larger.
ExitSearch == phase = "exits" =>
    /\ min <= max /\ max < nexits
    /\ \A i \in 0 .. nexits - 1 : (i < min => exit(i) < pc) /\ (i > max => pc < exit(i))

BranchSearch == phase = "branches" =>
    /\ pc \notin Exits
    /\ nbranches = 0 => min = 0 /\ max = -1
    /\ nbranches > 0 =>
          /\ min <= max /\ max < nbranches
          /\ \A i \in 0 .. nbranches - 1 : /\ i < min => b(i).wherefrom < pc
                                           /\ i > max => pc < b(i).wherefrom

TypesDone == \A k \in 0 .. nbranches - 1 :
    Loaded \/ k < min => bcontexts[k].btype = b(k).btype

LoopsDone == \A k \in 0 .. nbranches - 1 :
    b(k).btype = "FOR" /\ (Loaded \/ k < min) => LoopAt(bcontexts[k], b(k), taken[k])

Searches == ExitSearch /\ BranchSearch
Drawings == LoadState /\ TypesDone /\ LoopsDone

ProgInv == TypeOK /\ Searches /\ Drawings

LEMMA TypeMeans ==
    TypeOK <=> /\ program \in Programs
               /\ pc \in 0 .. program.size - 1
               /\ phase \in {"load", "exits", "branches", "exit"}
               /\ min \in Nat /\ max \in Int
               /\ taken \in [Contexts -> Nat]
               /\ bcontexts \in [Contexts -> Ctx]
               /\ \A k \in Contexts : Sound(bcontexts[k])
BY DEF TypeOK, Ctx, Sound

LEMMA SameProgram ==
    ASSUME program' = program
    PROVE  /\ nbranches' = nbranches /\ nexits' = nexits /\ Contexts' = Contexts
           /\ Exits' = Exits /\ Listed' = Listed
           /\ \A k : b(k)' = b(k) /\ exit(k)' = exit(k)
           /\ \A k : wherefrom(k)' = wherefrom(k)
BY DEF nbranches, nexits, Contexts, Exits, Listed, b, exit, wherefrom

LEMMA TypeNext ==
    ASSUME program \in Programs, program' = program, pc' \in 0 .. program.size - 1,
           phase' \in {"load", "exits", "branches", "exit"}, min' \in Nat, max' \in Int,
           taken' \in [Contexts -> Nat], bcontexts' \in [Contexts -> Ctx],
           \A k \in Contexts : Sound(bcontexts'[k])
    PROVE  TypeOK'
<1>1. Contexts' = Contexts
  BY SameProgram
<1> QED BY <1>1 DEF TypeOK, Ctx, Sound

LEMMA ClearSound == Sound(bcontext_clear)
BY BringsAssumption DEF Sound, Ctx, bcontext_clear, Types, Entries

LEMMA ProgInit == Init => ProgInv
<1> SUFFICES ASSUME Init PROVE ProgInv
  OBVIOUS
<1>1. program \in Programs /\ nbranches \in Nat
  BY Branching DEF Init
<1>2. TypeOK
  <2>1. bcontexts \in [Contexts -> Ctx] /\ \A k \in Contexts : Sound(bcontexts[k])
    BY ClearSound DEF Init, Contexts, nbranches, Sound
  <2>2. taken \in [Contexts -> Nat] /\ pc \in 0 .. program.size - 1
    BY <1>1, Exiting DEF Init, Contexts, nbranches
  <2> QED BY <1>1, <2>1, <2>2, TypeMeans DEF Init
<1>3. LoadState
  BY <1>1 DEF Init, LoadState, Contexts, nbranches
<1>4. Searches
  BY DEF Init, Searches, ExitSearch, BranchSearch
<1>5. TypesDone /\ LoopsDone
  BY <1>1 DEF Init, TypesDone, LoopsDone, Loaded
<1> QED BY <1>2, <1>3, <1>4, <1>5 DEF ProgInv, Drawings

\* The contexts that can be drawn for a branch.
LEMMA DrawnContexts ==
    ASSUME program \in Programs, NEW k \in 0 .. nbranches - 1, NEW c \in Drawn(b(k))
    PROVE  /\ Sound(c) /\ c.btype = b(k).btype
           /\ b(k).btype = "FOR" => LoopAt(c, b(k), 0)
<1> DEFINE br == b(k)
<1>1. /\ br.btype \in Types /\ br.min \in Nat /\ br.max \in Nat
      /\ br.btype \in {"FOR", "NFOR"} => br.min > 0
  BY Branching DEF Branch
<1>2. MAXBRINGS \in Nat \ {0} /\ MaxRun \in Nat /\ 0 \in Entries /\ Forever \in Nat
  BY BringsAssumption DEF Entries, Forever
<1>5. c \in Drawn(br)
  OBVIOUS
<1> HIDE DEF br
<1>3. CASE br.btype = "GOTO"
  <2>1. c = [bcontext_clear EXCEPT !.brings = [i \in Entries |-> IF i = 0 THEN Forever ELSE 0]]
    BY <1>3, <1>5 DEF Drawn, GotoContext
  <2>2. c \in Ctx /\ c.bsize = 1 /\ c.boffset = 0 /\ c.btype = "GOTO"
    <3> DEFINE r == [i \in Entries |-> IF i = 0 THEN Forever ELSE 0]
    <3>1. r \in [Entries -> Nat]
      BY <1>2
    <3> HIDE DEF r
    <3>2. c = [btype |-> "GOTO", boffset |-> 0, bsize |-> 1, bvalue |-> TRUE,
               bcount |-> 0, brings |-> r]
      BY <2>1 DEF bcontext_clear, r
    <3> QED BY <3>1, <3>2 DEF Ctx, Types
  <2>3. Sound(c)
    BY <1>2, <2>2 DEF Sound
  <2> QED BY <1>3, <2>2, <2>3 DEF br
<1>4. CASE br.btype = "IF"
  <2>1. c \in IfContext
    BY <1>4, <1>5 DEF Drawn
  <2>2. PICK v \in BOOLEAN, r \in [Entries -> 1 .. MaxRun] :
           c = [btype |-> "IF", boffset |-> 0, bsize |-> MAXBRINGS, bvalue |-> v,
                bcount |-> 0, brings |-> r]
    BY <2>1 DEF IfContext
  <2>3. r \in [Entries -> Nat]
    BY <1>2
  <2>4. c \in Ctx /\ c.bsize = MAXBRINGS /\ c.boffset = 0 /\ c.btype = "IF"
    BY <1>2, <2>2, <2>3 DEF Ctx, Types
  <2>5. Sound(c)
    BY <1>2, <2>4 DEF Sound
  <2> QED BY <1>4, <2>4, <2>5 DEF br
<1>6. CASE br.btype \in {"FOR", "NFOR"}
  <2>1. c \in LoopContext(br)
    BY <1>6, <1>5 DEF Drawn
  <2>2. PICK r \in [Entries -> {1} \cup Rounds(br)] :
           /\ c = [btype |-> br.btype, boffset |-> 0, bsize |-> MAXBRINGS,
                   bvalue |-> br.btype = "FOR", bcount |-> 0, brings |-> r]
           /\ \A i \in Entries : IF i % 2 = 0 THEN r[i] \in Rounds(br) ELSE r[i] = 1
    BY <2>1 DEF LoopContext
  <2>3. Rounds(br) \subseteq Nat \ {0}
    BY <1>1, <1>6 DEF Rounds
  <2>4. r \in [Entries -> Nat]
    BY <2>3
  <2>5. /\ c \in Ctx /\ c.bsize = MAXBRINGS /\ c.boffset = 0 /\ c.btype = br.btype
        /\ c.brings = r /\ c.bcount = 0 /\ c.bvalue = (br.btype = "FOR")
    BY <1>2, <1>6, <2>2, <2>4 DEF Ctx, Types
  <2>6. Sound(c)
    BY <1>2, <2>5 DEF Sound
  <2>7. ASSUME br.btype = "FOR" PROVE LoopAt(c, br, 0)
    <3>1. r[0] \in Nat \ {0}
      BY <1>2, <2>2, <2>3
    <3>2. c.bvalue /\ c.boffset % 2 = 0
      <4>1. c.bvalue
        BY <2>5, <2>7
      <4>2. c.boffset % 2 = 0
        BY <2>5
      <4> QED BY <4>1, <4>2
    <3>3. c.bvalue /\ 0 < c.brings[c.boffset]
      BY <2>5, <3>1, <3>2
    <3> QED BY <2>2, <2>5, <3>2, <3>3 DEF LoopAt
  <2> QED BY <2>5, <2>6, <2>7 DEF br
<1> QED BY <1>1, <1>3, <1>4, <1>6 DEF Types
------------------------------------------------------------------------------
(* Loading                                                                  *)

LEMMA LoadStep == ASSUME ProgInv, bcontext_init PROVE ProgInv'
<1>1. /\ phase = "load" /\ min < nbranches /\ min' = min + 1
      /\ program' = program /\ pc' = pc /\ phase' = phase /\ max' = max /\ taken' = taken
  BY DEF bcontext_init
<1>2. /\ program \in Programs /\ min \in Nat /\ nbranches \in Nat
      /\ bcontexts \in [Contexts -> Ctx] /\ \A k \in Contexts : Sound(bcontexts[k])
      /\ taken \in [Contexts -> Nat] /\ \A k \in Contexts : taken[k] = 0
  BY <1>1, TypeMeans, Branching DEF ProgInv, Drawings, LoadState
<1>3. PICK c \in Drawn(b(min)) : bcontexts' = Overrun(min, c)
  BY DEF bcontext_init
<1>4. min \in 0 .. nbranches - 1 /\ min \in Contexts /\ min + 1 \in Contexts
  BY <1>1, <1>2 DEF Contexts
<1>5. /\ Sound(c) /\ c.btype = b(min).btype
      /\ b(min).btype = "FOR" => LoopAt(c, b(min), 0)
  BY <1>2, <1>4, DrawnContexts
<1>6. /\ bcontexts' \in [Contexts -> Ctx] /\ bcontexts'[min] = c
      /\ \A k \in Contexts : Sound(bcontexts'[k])
      /\ \A k \in Contexts \ {min, min + 1} : bcontexts'[k] = bcontexts[k]
  <2>1. CASE b(min).btype = "IF"
    <3> DEFINE d == [bcontexts[min + 1] EXCEPT !.btype = "FOR"]
    <3>1. Sound(bcontexts[min + 1])
      BY <1>2, <1>4
    <3>2. Sound(d)
      BY <3>1 DEF Sound, Ctx, Types
    <3>3. bcontexts' = [bcontexts EXCEPT ![min] = c, ![min + 1].btype = "FOR"]
      BY <1>3, <2>1 DEF Overrun
    <3>4. \A k \in Contexts : bcontexts'[k] = IF k = min THEN c
                                             ELSE IF k = min + 1 THEN d ELSE bcontexts[k]
      BY <1>2, <1>4, <3>3
    <3>5. bcontexts' = [k \in Contexts |-> bcontexts'[k]]
      BY <1>2, <3>3
    <3> HIDE DEF d
    <3> QED BY <1>2, <1>4, <1>5, <3>2, <3>4, <3>5 DEF Sound
  <2>2. CASE b(min).btype # "IF"
    <3>1. bcontexts' = [bcontexts EXCEPT ![min] = c]
      BY <1>3, <2>2 DEF Overrun
    <3> QED BY <1>2, <1>4, <1>5, <3>1 DEF Sound
  <2> QED BY <2>1, <2>2
<1>7. TypeOK'
  <2>1. pc' \in 0 .. program.size - 1 /\ max' \in Int
    BY <1>1, TypeMeans DEF ProgInv
  <2> QED BY <1>1, <1>2, <1>6, <2>1, TypeNext
<1>8. /\ nbranches' = nbranches /\ Contexts' = Contexts /\ \A k : b(k)' = b(k)
  BY <1>1, SameProgram
<1>9. LoadState' /\ Searches'
  BY <1>1, <1>2, <1>8 DEF LoadState, Searches, ExitSearch, BranchSearch
<1>10. TypesDone'
  <2> SUFFICES ASSUME NEW k \in 0 .. nbranches - 1, Loaded' \/ k < min'
               PROVE  bcontexts'[k].btype = b(k).btype
    BY <1>8 DEF TypesDone
  <2>1. k = min \/ (k < min /\ k \in Contexts \ {min, min + 1})
    BY <1>1, <1>2 DEF Loaded, Contexts
  <2> QED BY <1>5, <1>6, <2>1 DEF ProgInv, Drawings, TypesDone
<1>11. LoopsDone'
  <2> SUFFICES ASSUME NEW k \in 0 .. nbranches - 1, b(k).btype = "FOR", Loaded' \/ k < min'
               PROVE  LoopAt(bcontexts'[k], b(k), taken[k])
    <3>1. \A k \in 0 .. nbranches - 1 :
             LoopAt(bcontexts[k], b(k), taken[k])' <=> LoopAt(bcontexts'[k], b(k), taken[k])
      BY <1>1, <1>8 DEF LoopAt, Rounds, Entries
    <3> QED BY <1>8, <3>1 DEF LoopsDone
  <2>1. k = min \/ (k < min /\ k \in Contexts \ {min, min + 1})
    BY <1>1, <1>2 DEF Loaded, Contexts
  <2>2. CASE k = min
    <3>1. taken[k] = 0
      BY <1>2, <1>4, <2>2
    <3> QED BY <1>5, <1>6, <2>2, <3>1
  <2>3. CASE k < min /\ k \in Contexts \ {min, min + 1}
    BY <1>6, <2>3 DEF ProgInv, Drawings, LoopsDone
  <2> QED BY <2>1, <2>2, <2>3
<1> QED BY <1>7, <1>9, <1>10, <1>11 DEF ProgInv, Drawings

LEMMA LoopSame ==
    ASSUME program' = program, NEW k, bcontexts'[k] = bcontexts[k], taken'[k] = taken[k]
    PROVE  LoopAt(bcontexts[k], b(k), taken[k])' <=> LoopAt(bcontexts[k], b(k), taken[k])
BY SameProgram DEF LoopAt, Rounds, Entries

\* A step of the searches, or one that ends them, leaves the contexts alone.
LEMMA SameDrawings ==
    ASSUME ProgInv, program' = program, bcontexts' = bcontexts, taken' = taken,
           phase' # "load", phase = "load" => min = nbranches
    PROVE  Drawings'
<1>1. nbranches' = nbranches /\ \A k : b(k)' = b(k)
  BY SameProgram
<1>2. nbranches \in Nat
  BY TypeMeans, Branching DEF ProgInv
<1>3. \A k \in 0 .. nbranches - 1 : Loaded \/ k < min
  BY <1>2 DEF Loaded
<1>4. LoadState'
  BY DEF LoadState
<1>5. TypesDone'
  BY <1>1, <1>3 DEF ProgInv, Drawings, TypesDone
<1>6. LoopsDone'
  <2>1. \A k : LoopAt(bcontexts[k], b(k), taken[k])' <=> LoopAt(bcontexts[k], b(k), taken[k])
    BY LoopSame
  <2> QED BY <1>1, <1>3, <2>1 DEF ProgInv, Drawings, LoopsDone
<1> QED BY <1>4, <1>5, <1>6 DEF Drawings
------------------------------------------------------------------------------
(* The searches                                                             *)

\* Both searches start with the whole table.
LEMMA StartSearch ==
    ASSUME program \in Programs, program' = program, StartStep
    PROVE  Searches' /\ min' \in Nat /\ max' \in Int
<1>1. nexits \in Nat /\ nexits > 0 /\ nexits' = nexits /\ \A k : exit(k)' = exit(k)
  BY Exiting, SameProgram
<1> QED BY <1>1 DEF StartStep, Searches, ExitSearch, BranchSearch

LEMMA Middle ==
    ASSUME min \in Nat, max \in Int, min + 1 < max
    PROVE  mid \in Nat /\ min < mid /\ mid < max
BY DEF mid

\* Narrowing drops only entries that are too small or too large.
LEMMA ExitsNarrow == ASSUME ProgInv, SearchExits PROVE ProgInv'
<1>1. /\ phase = "exits" /\ min + 1 < max /\ pc # exit(mid)
      /\ IF pc < exit(mid) THEN max' = mid /\ min' = min ELSE min' = mid /\ max' = max
      /\ program' = program /\ bcontexts' = bcontexts /\ pc' = pc /\ phase' = phase
      /\ taken' = taken
  BY DEF SearchExits, Narrow
<1>2. TypeOK
  BY DEF ProgInv
<1>3. /\ program \in Programs /\ pc \in 0 .. program.size - 1 /\ min \in Nat /\ max \in Int
      /\ taken \in [Contexts -> Nat] /\ bcontexts \in [Contexts -> Ctx]
      /\ \A k \in Contexts : Sound(bcontexts[k])
  BY <1>2, TypeMeans
<1>4. mid \in Nat /\ min < mid /\ mid < max
  BY <1>1, <1>3, Middle
<1>5. /\ min <= max /\ max < nexits /\ nexits \in Nat
      /\ \A i \in 0 .. nexits - 1 : (i < min => exit(i) < pc) /\ (i > max => pc < exit(i))
      /\ \A i \in 0 .. nexits - 1 : exit(i) \in Int
      /\ \A i, k \in 0 .. nexits - 1 : i < k => exit(i) < exit(k)
  BY <1>1, <1>3, Exiting DEF ProgInv, Searches, ExitSearch
<1>6. mid \in 0 .. nexits - 1 /\ pc \in Int /\ program.size \in Int
  BY <1>3, <1>4, <1>5, Exiting
<1>7. /\ min' \in Nat /\ max' \in Int /\ min' <= max' /\ max' < nexits
      /\ \A i \in 0 .. nexits - 1 : (i < min' => exit(i) < pc) /\ (i > max' => pc < exit(i))
  <2>1. CASE pc < exit(mid)
    <3>1. \A i \in 0 .. nexits - 1 : i > mid => pc < exit(i)
      BY <1>5, <1>6, <2>1
    <3> QED BY <1>1, <1>3, <1>4, <1>5, <2>1, <3>1
  <2>2. CASE ~(pc < exit(mid))
    <3>1. exit(mid) < pc
      BY <1>1, <1>5, <1>6, <2>2
    <3>2. \A i \in 0 .. nexits - 1 : i < mid => exit(i) < pc
      BY <1>5, <1>6, <3>1
    <3> QED BY <1>1, <1>3, <1>4, <1>5, <2>2, <3>2
  <2> QED BY <2>1, <2>2
<1>8. TypeOK'
  BY <1>1, <1>3, <1>7, TypeNext
<1>9. Searches'
  <2>1. nexits' = nexits /\ \A k : exit(k)' = exit(k)
    BY <1>1, SameProgram
  <2> QED BY <1>1, <1>7, <2>1 DEF Searches, ExitSearch, BranchSearch
<1> QED BY <1>1, <1>8, <1>9, SameDrawings DEF ProgInv

LEMMA BranchesNarrow == ASSUME ProgInv, SearchBranches PROVE ProgInv'
<1>1. /\ phase = "branches" /\ min + 1 < max /\ pc # wherefrom(mid)
      /\ IF pc < wherefrom(mid) THEN max' = mid /\ min' = min ELSE min' = mid /\ max' = max
      /\ program' = program /\ bcontexts' = bcontexts /\ pc' = pc /\ phase' = phase
      /\ taken' = taken
  BY DEF SearchBranches, Narrow
<1>2. TypeOK
  BY DEF ProgInv
<1>3. /\ program \in Programs /\ pc \in 0 .. program.size - 1 /\ min \in Nat /\ max \in Int
      /\ taken \in [Contexts -> Nat] /\ bcontexts \in [Contexts -> Ctx]
      /\ \A k \in Contexts : Sound(bcontexts[k])
  BY <1>2, TypeMeans
<1>4. mid \in Nat /\ min < mid /\ mid < max
  BY <1>1, <1>3, Middle
<1>5. nbranches \in Nat /\ nbranches > 0
  BY <1>1, <1>3, Branching DEF ProgInv, Searches, BranchSearch
<1>6. /\ min <= max /\ max < nbranches /\ pc \notin Exits
      /\ \A i \in 0 .. nbranches - 1 : /\ i < min => b(i).wherefrom < pc
                                       /\ i > max => pc < b(i).wherefrom
  BY <1>1, <1>5 DEF ProgInv, Searches, BranchSearch
<1>7. /\ \A i \in 0 .. nbranches - 1 : b(i).wherefrom \in Int
      /\ \A i, k \in 0 .. nbranches - 1 : i < k => b(i).wherefrom < b(k).wherefrom
      /\ program.size \in Int
  BY <1>3, Branching, Exiting DEF Branch
<1>8. mid \in 0 .. nbranches - 1 /\ pc \in Int /\ wherefrom(mid) = b(mid).wherefrom
  BY <1>3, <1>4, <1>5, <1>6, <1>7 DEF wherefrom
<1>9. /\ min' \in Nat /\ max' \in Int /\ min' <= max' /\ max' < nbranches
      /\ \A i \in 0 .. nbranches - 1 : /\ i < min' => b(i).wherefrom < pc
                                       /\ i > max' => pc < b(i).wherefrom
  <2>1. CASE pc < wherefrom(mid)
    <3>1. pc < b(mid).wherefrom
      BY <1>8, <2>1
    <3>2. \A i \in 0 .. nbranches - 1 : i > mid => pc < b(i).wherefrom
      <4> SUFFICES ASSUME NEW i \in 0 .. nbranches - 1, i > mid PROVE pc < b(i).wherefrom
        OBVIOUS
      <4>1. mid < i
        BY <1>4
      <4>2. b(mid).wherefrom < b(i).wherefrom
        BY <1>7, <1>8, <4>1
      <4> QED BY <1>7, <1>8, <3>1, <4>2
    <3> QED BY <1>1, <1>3, <1>4, <1>5, <1>6, <2>1, <3>2
  <2>2. CASE ~(pc < wherefrom(mid))
    <3>1. b(mid).wherefrom < pc
      BY <1>1, <1>7, <1>8, <2>2
    <3>2. \A i \in 0 .. nbranches - 1 : i < mid => b(i).wherefrom < pc
      BY <1>7, <1>8, <3>1
    <3> QED BY <1>1, <1>3, <1>4, <1>5, <1>6, <2>2, <3>2
  <2> QED BY <2>1, <2>2
<1>10. TypeOK'
  BY <1>1, <1>3, <1>9, TypeNext
<1>11. Searches'
  <2>1. nbranches' = nbranches /\ Exits' = Exits /\ \A k : b(k)' = b(k)
    BY <1>1, SameProgram
  <2> QED BY <1>1, <1>5, <1>6, <1>9, <2>1 DEF Searches, ExitSearch, BranchSearch
<1> QED BY <1>1, <1>10, <1>11, SameDrawings DEF ProgInv

\* A search that finds nothing is right.
LEMMA NoExitThere ==
    ASSUME ProgInv, phase = "exits", NotFound(exit(min), exit(max)) PROVE pc \notin Exits
<1>1. program \in Programs /\ min \in Nat /\ max \in Int /\ pc \in 0 .. program.size - 1
  BY TypeMeans DEF ProgInv
<1>2. /\ min <= max /\ max < nexits /\ nexits \in Nat
      /\ \A i \in 0 .. nexits - 1 : (i < min => exit(i) < pc) /\ (i > max => pc < exit(i))
      /\ \A i \in 0 .. nexits - 1 : exit(i) \in Int
      /\ Exits = {exit(k) : k \in 0 .. nexits - 1} /\ program.size \in Int
  BY <1>1, Exiting DEF ProgInv, Searches, ExitSearch
<1>3. min + 1 >= max /\ pc # exit(min) /\ pc # exit(max)
  BY DEF NotFound
<1>4. \A i \in 0 .. nexits - 1 : pc # exit(i)
  <2> SUFFICES ASSUME NEW i \in 0 .. nexits - 1 PROVE pc # exit(i)
    OBVIOUS
  <2>1. i < min \/ i = min \/ i = max \/ i > max
    BY <1>1, <1>2, <1>3
  <2> QED BY <1>1, <1>2, <1>3, <2>1
<1> QED BY <1>2, <1>4

LEMMA NoBranchThere ==
    ASSUME ProgInv, phase = "branches", nbranches > 0, NotFound(wherefrom(min), wherefrom(max))
    PROVE  pc \notin Listed
<1>1. program \in Programs /\ min \in Nat /\ max \in Int /\ pc \in 0 .. program.size - 1
  BY TypeMeans DEF ProgInv
<1>2. /\ min <= max /\ max < nbranches /\ nbranches \in Nat
      /\ \A i \in 0 .. nbranches - 1 : /\ i < min => b(i).wherefrom < pc
                                       /\ i > max => pc < b(i).wherefrom
      /\ \A i \in 0 .. nbranches - 1 : b(i).wherefrom \in Int
      /\ program.size \in Int
  BY <1>1, Branching, Exiting DEF ProgInv, Searches, BranchSearch, Branch
<1>3. min + 1 >= max /\ pc # wherefrom(min) /\ pc # wherefrom(max)
  BY DEF NotFound
<1>4. min \in 0 .. nbranches - 1 /\ max \in 0 .. nbranches - 1
  BY <1>1, <1>2
<1>5. pc # b(min).wherefrom /\ pc # b(max).wherefrom
  BY <1>3, <1>4 DEF wherefrom
<1>6. \A i \in 0 .. nbranches - 1 : pc # b(i).wherefrom
  <2> SUFFICES ASSUME NEW i \in 0 .. nbranches - 1 PROVE pc # b(i).wherefrom
    OBVIOUS
  <2>1. i < min \/ i = min \/ i = max \/ i > max
    BY <1>1, <1>2, <1>3
  <2> QED BY <1>1, <1>2, <1>5, <2>1
<1> QED BY <1>6 DEF Listed
------------------------------------------------------------------------------
(* A statement                                                              *)

LEMMA ExitSteps ==
    ASSUME ProgInv, process_load \/ ExitFound \/ NoExit
    PROVE  ProgInv'
<1>1. /\ program \in Programs /\ pc \in 0 .. program.size - 1 /\ min \in Nat /\ max \in Int
      /\ taken \in [Contexts -> Nat] /\ bcontexts \in [Contexts -> Ctx]
      /\ \A k \in Contexts : Sound(bcontexts[k])
  BY TypeMeans DEF ProgInv
<1>2. /\ program' = program /\ bcontexts' = bcontexts /\ taken' = taken /\ pc' = pc
      /\ phase' # "load" /\ (phase = "load" => min = nbranches)
  BY DEF process_load, ExitFound, NoExit, StartStep
<1>3. nbranches \in Nat /\ nbranches' = nbranches /\ Exits' = Exits /\ \A k : b(k)' = b(k)
  BY <1>1, <1>2, Branching, SameProgram
<1>4. Searches' /\ min' \in Nat /\ max' \in Int /\ phase' \in {"exits", "branches", "exit"}
  <2>1. CASE process_load
    BY <1>1, <1>2, <2>1, StartSearch DEF process_load, StartStep
  <2>2. CASE ExitFound
    BY <1>1, <2>2 DEF ExitFound, Searches, ExitSearch, BranchSearch
  <2>3. CASE NoExit
    <3>1. /\ pc \notin Exits /\ phase' = "branches" /\ min' = 0 /\ max' = nbranches - 1
      BY <2>3, NoExitThere DEF NoExit
    <3> QED BY <1>2, <1>3, <3>1 DEF Searches, ExitSearch, BranchSearch
  <2> QED BY <2>1, <2>2, <2>3
<1>5. TypeOK'
  BY <1>1, <1>2, <1>4, TypeNext
<1> QED BY <1>2, <1>4, <1>5, SameDrawings DEF ProgInv

\* A statement that is no exit is not the last one.
LEMMA NotLast ==
    ASSUME program \in Programs, pc \in 0 .. program.size - 1, pc \notin Exits
    PROVE  pc + 1 \in 0 .. program.size - 1
BY Exiting

LEMMA DefaultStep ==
    ASSUME ProgInv, DefaultAction
    PROVE  ProgInv' /\ pc' = pc + 1 /\ bcontexts' = bcontexts
<1>1. /\ program \in Programs /\ pc \in 0 .. program.size - 1
      /\ taken \in [Contexts -> Nat] /\ bcontexts \in [Contexts -> Ctx]
      /\ \A k \in Contexts : Sound(bcontexts[k])
  BY TypeMeans DEF ProgInv
<1>2. /\ phase = "branches" /\ StartStep
      /\ program' = program /\ bcontexts' = bcontexts /\ taken' = taken
      /\ pc' = IF pc + 1 > program.size THEN 0 ELSE pc + 1
  BY DEF DefaultAction
<1>3. pc + 1 \in 0 .. program.size - 1 /\ program.size \in Nat
  BY <1>1, <1>2, NotLast, Exiting DEF ProgInv, Searches, BranchSearch
<1>4. pc' = pc + 1
  BY <1>2, <1>3
<1>5. Searches' /\ min' \in Nat /\ max' \in Int /\ phase' = "exits"
  BY <1>1, <1>2, StartSearch DEF StartStep
<1>6. TypeOK'
  BY <1>1, <1>2, <1>3, <1>4, <1>5, TypeNext
<1>7. Drawings'
  BY <1>2, <1>5, SameDrawings
<1> QED BY <1>2, <1>4, <1>5, <1>6, <1>7 DEF ProgInv

\* The context of branch k decides, or the one behind the last branch.
LEMMA BranchStep ==
    ASSUME ProgInv, process_dobranch
    PROVE  /\ ProgInv'
           /\ \E k \in Contexts :
                 /\ nbranches > 0 =>
                       /\ k \in 0 .. nbranches - 1 /\ pc = b(k).wherefrom
                       /\ pc' \in {b(k).whereto, pc + 1}
                 /\ nbranches = 0 => pc = 0 /\ pc' \in {0, 1}
                 /\ \A i \in Contexts \ {k} : bcontexts'[i] = bcontexts[i]
<1>1. /\ program \in Programs /\ pc \in 0 .. program.size - 1 /\ min \in Nat /\ max \in Int
      /\ taken \in [Contexts -> Nat] /\ bcontexts \in [Contexts -> Ctx]
      /\ \A k \in Contexts : Sound(bcontexts[k])
  BY TypeMeans DEF ProgInv
<1>2. phase = "branches" /\ StartStep /\ program' = program
  BY DEF process_dobranch
<1>3. PICK k \in {mid, min, max} :
         /\ FoundAt(k, wherefrom(k))
         /\ min + 1 >= max /\ pc = wherefrom(min) => k = min
         /\ LET c  == bcontexts[k]
                to == IF c.bvalue THEN whereto(k) ELSE pc + 1
            IN  /\ pc' = IF to < 0 \/ to >= program.size THEN 0 ELSE to
                /\ taken' = [taken EXCEPT ![k] = IF c.bvalue THEN @ + 1 ELSE 0]
                /\ bcontexts' = [bcontexts EXCEPT ![k] = bcontext_decide(c)]
  BY DEF process_dobranch
<1>4. /\ nbranches \in Nat /\ program.size \in Nat /\ program.size > 0
      /\ \A i \in 0 .. nbranches - 1 : b(i).whereto \in 0 .. program.size - 1
      /\ pc \notin Exits /\ pc + 1 \in 0 .. program.size - 1
  BY <1>1, <1>2, Branching, Exiting, NotLast DEF ProgInv, Searches, BranchSearch, Branch
<1>5. /\ pc = wherefrom(k)
      /\ IF min + 1 < max THEN k = mid ELSE k \in {min, max}
  BY <1>3 DEF FoundAt
<1>6. k \in Contexts /\ (nbranches > 0 => k \in 0 .. nbranches - 1)
  <2>1. CASE nbranches = 0
    <3>1. min = 0 /\ max = -1
      BY <1>2, <2>1 DEF ProgInv, Searches, BranchSearch
    <3>2. k = 0
      <4>1. CASE k = max
        <5>1. wherefrom(k) = 0 /\ wherefrom(min) = 0
          BY <2>1, <3>1, <4>1 DEF wherefrom
        <5> QED BY <1>3, <1>5, <3>1, <5>1
      <4> QED BY <1>5, <3>1, <4>1
    <3> QED BY <2>1, <3>2 DEF Contexts
  <2>2. CASE nbranches > 0
    <3>1. min <= max /\ max < nbranches
      BY <1>2, <2>2 DEF ProgInv, Searches, BranchSearch
    <3>2. k \in Int /\ min <= k /\ k <= max
      BY <1>1, <1>5, <3>1, Middle
    <3> QED BY <1>1, <1>4, <3>1, <3>2 DEF Contexts
  <2> QED BY <1>4, <2>1, <2>2
<1> DEFINE c == bcontexts[k]
           d == bcontext_decide(c)
           n == IF c.bvalue THEN taken[k] + 1 ELSE 0
<1>7. /\ Sound(c) /\ c \in Ctx /\ c.bvalue \in BOOLEAN
      /\ Sound(d) /\ d \in Ctx /\ d.btype = c.btype
      /\ taken[k] \in Nat /\ n \in Nat
  <2>1. Sound(c) /\ c.bvalue \in BOOLEAN /\ taken[k] \in Nat
    BY <1>1, <1>6 DEF Sound, Ctx
  <2>2. Sound(d) /\ d.btype = c.btype
    BY <2>1, DecideSound
  <2> QED BY <2>1, <2>2 DEF Sound
<1>8. /\ taken' = [taken EXCEPT ![k] = n] /\ bcontexts' = [bcontexts EXCEPT ![k] = d]
  BY <1>3
<1>9. /\ pc' \in 0 .. program.size - 1
      /\ nbranches > 0 => pc' \in {b(k).whereto, pc + 1}
      /\ nbranches = 0 => pc' \in {0, pc + 1}
  <2> DEFINE to == IF c.bvalue THEN whereto(k) ELSE pc + 1
  <2>1. to \in {whereto(k), pc + 1} /\ pc' = IF to < 0 \/ to >= program.size THEN 0 ELSE to
    BY <1>3
  <2>2. /\ whereto(k) \in 0 .. program.size - 1
        /\ nbranches > 0 => whereto(k) = b(k).whereto
        /\ nbranches = 0 => whereto(k) = 0
    BY <1>4, <1>6 DEF whereto
  <2> HIDE DEF to
  <2>3. to \in 0 .. program.size - 1
    BY <1>4, <2>1, <2>2
  <2>4. pc' = to
    BY <1>4, <2>1, <2>3
  <2> QED BY <2>1, <2>2, <2>3, <2>4
<1> HIDE DEF d, n
<1>10. Searches' /\ min' \in Nat /\ max' \in Int /\ phase' = "exits"
  BY <1>1, <1>2, StartSearch DEF StartStep
<1>11. TypeOK'
  <2>1. taken' \in [Contexts -> Nat] /\ bcontexts' \in [Contexts -> Ctx]
    BY <1>1, <1>6, <1>7, <1>8
  <2>2. \A i \in Contexts : Sound(bcontexts'[i])
    BY <1>1, <1>6, <1>7, <1>8
  <2> QED BY <1>1, <1>2, <1>9, <1>10, <2>1, <2>2, TypeNext
<1>12. nbranches' = nbranches /\ \A i : b(i)' = b(i)
  BY <1>2, SameProgram
<1>13. /\ bcontexts'[k] = d /\ taken'[k] = n
       /\ \A i \in Contexts \ {k} : bcontexts'[i] = bcontexts[i] /\ taken'[i] = taken[i]
  BY <1>1, <1>6, <1>8
<1>14. \A i \in 0 .. nbranches - 1 : i \in Contexts
  BY <1>4 DEF Contexts
<1>15. TypesDone'
  <2>1. \A i \in 0 .. nbranches - 1 : bcontexts[i].btype = b(i).btype
    BY <1>2 DEF ProgInv, Drawings, TypesDone, Loaded
  <2> QED BY <1>7, <1>12, <1>13, <1>14, <2>1 DEF TypesDone
<1>16. LoopsDone'
  <2> SUFFICES ASSUME NEW i \in 0 .. nbranches - 1, b(i).btype = "FOR"
               PROVE  LoopAt(bcontexts[i], b(i), taken[i])'
    BY <1>12 DEF LoopsDone
  <2>1. LoopAt(bcontexts[i], b(i), taken[i])
    BY <1>2 DEF ProgInv, Drawings, LoopsDone, Loaded
  <2>2. CASE i # k
    <3>1. bcontexts'[i] = bcontexts[i] /\ taken'[i] = taken[i]
      BY <1>13, <1>14, <2>2
    <3> QED BY <1>2, <2>1, <3>1, LoopSame
  <2>3. CASE i = k
    <3>1. b(k).min \in Nat /\ b(k).min > 0 /\ b(k).max \in Nat
      BY <1>1, <2>3, Branching DEF Branch
    <3>2. LoopAt(d, b(k), n)
      BY <1>7, <2>1, <2>3, <3>1, DecideLoop DEF d, n
    <3>3. LoopAt(bcontexts[k], b(k), taken[k])' <=> LoopAt(d, b(k), n)
      BY <1>12, <1>13 DEF LoopAt, Rounds, Entries
    <3> QED BY <2>3, <3>2, <3>3
  <2> QED BY <2>2, <2>3
<1>17. LoadState'
  BY <1>10 DEF LoadState
<1>18. ProgInv'
  BY <1>10, <1>11, <1>15, <1>16, <1>17 DEF ProgInv, Drawings
<1>19. /\ nbranches > 0 => pc = b(k).wherefrom
       /\ nbranches = 0 => pc = 0
  BY <1>5, <1>6 DEF wherefrom
<1> QED BY <1>6, <1>9, <1>13, <1>18, <1>19
------------------------------------------------------------------------------
(* The theorems                                                             *)

LEMMA ProgNext == ProgInv /\ [Next]_vars => ProgInv'
<1> SUFFICES ASSUME ProgInv, [Next]_vars PROVE ProgInv'
  OBVIOUS
<1>1. CASE bcontext_init
  BY <1>1, LoadStep
<1>2. CASE process_load \/ ExitFound \/ NoExit
  BY <1>2, ExitSteps
<1>3. CASE SearchExits \/ SearchBranches
  BY <1>3, ExitsNarrow, BranchesNarrow
<1>4. CASE process_dobranch \/ DefaultAction
  BY <1>4, BranchStep, DefaultStep
<1>5. CASE Ended \/ UNCHANGED vars
  <2>1. /\ program' = program /\ bcontexts' = bcontexts /\ pc' = pc /\ phase' = phase
        /\ min' = min /\ max' = max /\ taken' = taken
    BY <1>5 DEF Ended, vars
  <2>2. /\ nbranches' = nbranches /\ nexits' = nexits /\ Contexts' = Contexts
        /\ Exits' = Exits /\ \A k : b(k)' = b(k) /\ exit(k)' = exit(k)
    BY <2>1, SameProgram
  <2>3. TypeOK'
    BY <2>1, TypeMeans, TypeNext DEF ProgInv
  <2>4. Searches'
    BY <2>1, <2>2 DEF ProgInv, Searches, ExitSearch, BranchSearch
  <2>5. LoadState' /\ TypesDone'
    BY <2>1, <2>2 DEF ProgInv, Drawings, LoadState, TypesDone, Loaded
  <2>6. LoopsDone'
    <3>1. \A k : LoopAt(bcontexts[k], b(k), taken[k])' <=> LoopAt(bcontexts[k], b(k), taken[k])
      BY <2>1, LoopSame
    <3> QED BY <2>1, <2>2, <3>1 DEF ProgInv, Drawings, LoopsDone, Loaded
  <2> QED BY <2>3, <2>4, <2>5, <2>6 DEF ProgInv, Drawings
<1> QED BY <1>1, <1>2, <1>3, <1>4, <1>5 DEF Next

\* The inductive invariant of the branching engine.
THEOREM ProgInvariance == Spec => []ProgInv
BY ProgInit, ProgNext, PTL DEF Spec

\* Types: a decision never reads outside its array, and no statement is left for one
\* that is not in the program.
THEOREM ProgTypes == Spec => []TypeOK
BY ProgInvariance, PTL DEF ProgInv

LEMMA TypesNow == ProgInv => TypesKept
BY DEF ProgInv, Drawings, TypesDone, TypesKept

\* What the IF case writes behind its array is overwritten before it is used, for every
\* table of branches.
THEOREM OverrunHarmless == Spec => []TypesKept
BY ProgInvariance, TypesNow, PTL

LEMMA ParityNow == ProgInv => LoopParity
BY DEF ProgInv, Drawings, LoopsDone, LoopParity, LoopAt

\* Rounds and escapes never change places, however often brings is gone through.
THEOREM ParityKept == Spec => []LoopParity
BY ProgInvariance, ParityNow, PTL

LEMMA LeftInBounds ==
    ASSUME ProgInv, NEW k \in 0 .. nbranches - 1, b(k).btype = "FOR",
           b(k).min < b(k).max, FallsThrough(k)
    PROVE  LoopLeft(k)
<1>1. program \in Programs
  BY TypeMeans DEF ProgInv
<1>2. b(k).min \in Nat /\ b(k).max \in Nat
  BY <1>1, Branching DEF Branch
<1>3. LoopAt(bcontexts[k], b(k), taken[k]) /\ ~bcontexts[k].bvalue
  BY DEF ProgInv, Drawings, LoopsDone, Loaded, FallsThrough
<1>4. taken[k] \in Rounds(b(k))
  BY <1>3 DEF LoopAt
<1> QED BY <1>2, <1>4 DEF Rounds, LoopLeft

\* A FOR X Y is left after X to Y runs of its body, every time it is left, and for any
\* bounds.
THEOREM LoopsCounted == Spec => LoopCount
<1>1. ProgInv /\ [Next]_vars =>
        [\A k \in 0 .. nbranches - 1 :
            b(k).btype = "FOR" /\ b(k).min < b(k).max /\ FallsThrough(k) => LoopLeft(k)]_vars
  BY LeftInBounds
<1> QED BY <1>1, ProgInvariance, PTL DEF Spec, LoopCount

LEMMA StepFollows ==
    ASSUME ProgInv, Next
    PROVE  StepFollowsTables
<1>1. CASE bcontext_init \/ process_load \/ SearchExits \/ SearchBranches \/ Ended
  BY <1>1 DEF bcontext_init, process_load, SearchExits, SearchBranches, Ended, vars,
     StartStep, StepFollowsTables
<1>2. CASE ExitFound
  <2>1. program \in Programs
    BY TypeMeans DEF ProgInv
  <2>2. phase = "exits" /\ phase' = "exit" /\ pc \in Exits
    BY <1>2, <2>1, Exiting DEF ExitFound, FoundAt
  <2> QED BY <2>2 DEF StepFollowsTables
<1>3. CASE NoExit
  BY <1>3, NoExitThere DEF NoExit, StepFollowsTables
<1>4. CASE process_dobranch
  <2>1. phase = "branches"
    BY <1>4 DEF process_dobranch
  <2>2. nbranches \in Nat
    BY TypeMeans, Branching DEF ProgInv
  <2> QED BY <1>4, <2>1, <2>2, BranchStep DEF StepFollowsTables
<1>5. CASE DefaultAction
  <2>1. phase = "branches" /\ NotFound(wherefrom(min), wherefrom(max))
    BY <1>5 DEF DefaultAction
  <2>2. pc \notin Listed
    <3>1. CASE nbranches = 0
      BY <3>1 DEF Listed
    <3>2. CASE nbranches > 0
      BY <2>1, <3>2, NoBranchThere
    <3> QED BY <3>1, <3>2, TypeMeans, Branching DEF ProgInv
  <2> QED BY <1>5, <2>1, <2>2, DefaultStep DEF StepFollowsTables
<1> QED BY <1>1, <1>2, <1>3, <1>4, <1>5 DEF Next

\* The two binary searches find what is in the tables and nothing else, for all sorted
\* tables: the program ends exactly at its exits and branches exactly where it says.
THEOREM SearchesRight == Spec => TablesFollowed
<1>1. ProgInv /\ [Next]_vars => [StepFollowsTables]_vars
  BY StepFollows
<1> QED BY <1>1, ProgInvariance, PTL DEF Spec, TablesFollowed
------------------------------------------------------------------------------
(* A GOTO jumps "forever": 2^31 - 1 times in a row                          *)

\* No GOTO has been taken as often as its context counts.
FewJumps == \A k \in 0 .. nbranches - 1 : b(k).btype = "GOTO" => taken[k] < Forever

\* The context of a GOTO counts its jumps and has not come to the end of its one run.
GotoAt(c, n) == /\ c.bsize = 1 /\ c.boffset = 0 /\ c.bvalue = TRUE
                /\ c.brings[0] = Forever /\ c.bcount = n

GotosCount == \A k \in 0 .. nbranches - 1 :
    b(k).btype = "GOTO" /\ (Loaded \/ k < min) => GotoAt(bcontexts[k], taken[k])

LEMMA GotoDrawn == ASSUME NEW c \in GotoContext PROVE GotoAt(c, 0)
<1>1. 0 \in Entries
  BY BringsAssumption DEF Entries
<1> DEFINE r == [i \in Entries |-> IF i = 0 THEN Forever ELSE 0]
<1>2. r[0] = Forever
  BY <1>1
<1> HIDE DEF r
<1>3. c = [bcontext_clear EXCEPT !.brings = r]
  BY DEF GotoContext, r
<1> QED BY <1>2, <1>3 DEF GotoAt, bcontext_clear

LEMMA GotoDecides ==
    ASSUME NEW c \in Ctx, NEW n \in Nat, GotoAt(c, n), n + 1 < Forever
    PROVE  GotoAt(bcontext_decide(c), n + 1)
<1>1. bcontext_decide(c) = [c EXCEPT !.bcount = c.bcount + 1]
  BY DEF bcontext_decide, GotoAt, Forever
<1> QED BY <1>1 DEF GotoAt, Ctx

LEMMA GotoLoads == ASSUME ProgInv, GotosCount, bcontext_init PROVE GotosCount'
<1>1. /\ phase = "load" /\ min < nbranches /\ min' = min + 1 /\ phase' = phase
      /\ program' = program /\ taken' = taken
  BY DEF bcontext_init
<1>2. /\ min \in Nat /\ nbranches \in Nat /\ min \in Contexts /\ min + 1 \in Contexts
      /\ bcontexts \in [Contexts -> Ctx] /\ \A k \in Contexts : taken[k] = 0
  BY <1>1, TypeMeans, Branching DEF ProgInv, Drawings, LoadState, Contexts
<1>3. PICK c \in Drawn(b(min)) : bcontexts' = Overrun(min, c)
  BY DEF bcontext_init
<1>4. /\ bcontexts'[min] = c
      /\ \A k \in Contexts : k < min => bcontexts'[k] = bcontexts[k]
  BY <1>2, <1>3 DEF Overrun, Contexts
<1>5. nbranches' = nbranches /\ \A k : b(k)' = b(k)
  BY <1>1, SameProgram
<1> SUFFICES ASSUME NEW k \in 0 .. nbranches - 1, b(k).btype = "GOTO", k < min + 1
             PROVE  GotoAt(bcontexts'[k], taken[k])
  BY <1>1, <1>5 DEF GotosCount, Loaded, GotoAt
<1>6. CASE k = min
  BY <1>2, <1>4, <1>6, GotoDrawn DEF Drawn
<1>7. CASE k < min
  BY <1>2, <1>4, <1>7 DEF GotosCount, Contexts
<1> QED BY <1>2, <1>6, <1>7

LEMMA GotoBranches ==
    ASSUME ProgInv, GotosCount, FewJumps', process_dobranch PROVE GotosCount'
<1>1. /\ nbranches \in Nat /\ bcontexts \in [Contexts -> Ctx] /\ taken \in [Contexts -> Nat]
      /\ program' = program /\ phase = "branches"
  BY TypeMeans, Branching DEF ProgInv, process_dobranch
<1>2. PICK k : /\ taken' = [taken EXCEPT ![k] = IF bcontexts[k].bvalue THEN @ + 1 ELSE 0]
               /\ bcontexts' = [bcontexts EXCEPT ![k] = bcontext_decide(bcontexts[k])]
  BY DEF process_dobranch
<1>3. nbranches' = nbranches /\ \A i : b(i)' = b(i)
  BY <1>1, SameProgram
<1> SUFFICES ASSUME NEW i \in 0 .. nbranches - 1, b(i).btype = "GOTO"
             PROVE  GotoAt(bcontexts'[i], taken'[i])
  BY <1>3 DEF GotosCount, GotoAt
<1>4. i \in Contexts /\ GotoAt(bcontexts[i], taken[i]) /\ taken'[i] < Forever
  BY <1>1, <1>3 DEF Contexts, GotosCount, Loaded, FewJumps
<1>5. CASE i # k
  BY <1>1, <1>2, <1>4, <1>5
<1>6. CASE i = k
  <2>1. taken'[i] = taken[i] + 1 /\ bcontexts'[i] = bcontext_decide(bcontexts[i])
    BY <1>1, <1>2, <1>4, <1>6 DEF GotoAt
  <2>2. bcontexts[i] \in Ctx /\ taken[i] \in Nat
    BY <1>1, <1>4
  <2> QED BY <1>4, <2>1, <2>2, GotoDecides
<1> QED BY <1>5, <1>6

\* "keep going forever": for every table, a GOTO never falls through as long as it has not
\* been taken 2^31 - 1 times in a row.  (The next time it would.)
THEOREM GotosKept == Spec /\ []FewJumps => []GotoJumps
<1>1. Init => GotosCount
  <2> SUFFICES ASSUME Init PROVE GotosCount
    OBVIOUS
  <2>1. nbranches \in Nat
    BY Branching DEF Init
  <2> QED BY <2>1 DEF Init, GotosCount, Loaded
<1>2. ProgInv /\ GotosCount /\ FewJumps' /\ [Next]_vars => GotosCount'
  <2> SUFFICES ASSUME ProgInv, GotosCount, FewJumps', [Next]_vars PROVE GotosCount'
    OBVIOUS
  <2>1. CASE bcontext_init
    BY <2>1, GotoLoads
  <2>2. CASE process_dobranch
    BY <2>2, GotoBranches
  <2>3. CASE process_load \/ ExitFound \/ NoExit \/ SearchExits \/ SearchBranches
             \/ DefaultAction \/ Ended \/ UNCHANGED vars
    <3>1. /\ program' = program /\ bcontexts' = bcontexts /\ taken' = taken
          /\ Loaded' => Loaded \/ min = nbranches
          /\ ~Loaded' => ~Loaded /\ min' = min
      BY <2>3 DEF process_load, ExitFound, NoExit, SearchExits, SearchBranches,
         DefaultAction, Ended, vars, StartStep, Loaded
    <3>2. nbranches' = nbranches /\ nbranches \in Nat /\ \A i : b(i)' = b(i)
      BY <3>1, SameProgram, TypeMeans, Branching DEF ProgInv
    <3>3. \A k \in 0 .. nbranches - 1 : Loaded' \/ k < min' => Loaded \/ k < min
      BY <3>1, <3>2
    <3> QED BY <3>1, <3>2, <3>3 DEF GotosCount, GotoAt
  <2> QED BY <2>1, <2>2, <2>3 DEF Next
<1>3. GotosCount => GotoJumps
  BY DEF GotosCount, GotoAt, GotoJumps
<1> QED BY <1>1, <1>2, <1>3, ProgInvariance, PTL DEF Spec
=============================================================================

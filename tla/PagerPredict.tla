---------------------------- MODULE PagerPredict ----------------------------
(***************************************************************************)
(* pager-predict.c in the simulator.  For each page of a process the pager *)
(* counts which pages came next, and brings those in ahead of time.        *)
(*                                                                         *)
(* The pager looks at the statement before the pc (its stamp) and at the   *)
(* one 101 behind it (its prediction), so a place says, for each statement *)
(* of a path, if these are on another page than the statement itself.      *)
(* The time stamps are kept as their order, as in PagerLRU.  PROC_CNTR is  *)
(* 0 for ever, so the search for the least recently used page in its       *)
(* branch is never run.                                                    *)
(***************************************************************************)
EXTENDS Simulator, SequencesExt

CONSTANT Places   \* the places of the statements of each path

Place == {"first",   \* the first statement of its page
          "early",
          "late"}    \* at most 101 statements before the next page

\* No statement is late on the last page: a program ends before it does.
ASSUME PlacesAssumption ==
    /\ Places \in [Paths -> Seq(Place)]
    /\ \A s \in Paths : /\ Len(Places[s]) = Len(s)
                        /\ \A n \in DOMAIN s : Places[s][n] = "late" => s[n] + 1 \in PageNos

VARIABLES
    minusOne,    \* can LAST_PG_NUM be -1 before it has a value, in this build?
    LAST_PC,     \* the page of LAST_PC, for each processor
    TMSTMP,      \* for each processor, its stamped pages, the oldest stamp first
    CTRL_FLOW,   \* for each processor and page, the entries of its row
    loop,        \* the loop pageit is in: "learn", "bring" or "fetch"
    proc, entry, \* TEMP_PROC, and the entry the last loop is at (0: before the exchanges)
    seen         \* history: the changes of page that were noticed

tables  == <<LAST_PC, TMSTMP, CTRL_FLOW, seen, minusOne>>
predVars == <<simVars, tables, loop, proc, entry>>

PredictInit ==
    /\ Init
    /\ minusOne \in BOOLEAN
    /\ LAST_PC = [i \in Slots |-> 0]
    /\ TMSTMP = [i \in Slots |-> << >>]
    /\ CTRL_FLOW = [i \in Slots |-> [p \in PageNos |-> << >>]]
    /\ loop = "learn" /\ proc = 1 /\ entry = 0
    /\ seen = [i \in Slots |-> [p \in PageNos |-> [q \in PageNos |-> 0]]]

At(j)     == Places[path[j]][pc[j]]
Behind(j) == IF At(j) = "first" /\ Needed(j) > 0 THEN Needed(j) - 1 ELSE Needed(j)
Ahead(j)  == IF At(j) = "late" THEN Needed(j) + 1 ELSE Needed(j)

\* The next processor, or the next loop, or back to main.
NextProc(next) ==
    /\ entry' = 0
    /\ IF proc < Procs THEN proc' = proc + 1 /\ UNCHANGED <<loop, phase, turn>>
       ELSE /\ proc' = 1 /\ loop' = next
            /\ IF next = "learn" THEN PagerReturns ELSE UNCHANGED <<phase, turn>>
------------------------------------------------------------------------------
(* The first loop: what became of the page each process was on.             *)

\* LAST_PG_NUM, a local variable, has no value yet: if what lies there is -1, the
\* loop does nothing.
LearnsNothing ==
    /\ phase = "call" /\ loop = "learn" /\ proc = 1 /\ minusOne
    /\ loop' = "bring"
    /\ UNCHANGED <<simVars, tables, proc, entry>>

Counted(row, page) ==
    IF \E n \in DOMAIN row : row[n].PG_NUM = page
    THEN [n \in DOMAIN row |->
             IF row[n].PG_NUM = page THEN [row[n] EXCEPT !.FREQ = @ + 1] ELSE row[n]]
    ELSE Append(row, [PG_NUM |-> page, FREQ |-> 1])

Stamp(i, p) == TMSTMP' = [TMSTMP EXCEPT ![i] = Append(SelectSeq(@, LAMBDA o : o # p), p)]

\* Mutant: the page the process is on now is thrown out.
LearnsEagerly ==
    /\ phase = "call" /\ loop = "learn" /\ Running(proc)
    /\ LET last == LAST_PC[proc]
           curr == Needed(processes[proc])
       IN  /\ LAST_PC' = [LAST_PC EXCEPT ![proc] = curr]
           /\ IF curr = last THEN UNCHANGED <<pageVars, CTRL_FLOW, seen>>
              ELSE /\ pageout(proc, curr)
                   /\ CTRL_FLOW' = [CTRL_FLOW EXCEPT ![proc][last] = Counted(@, curr)]
                   /\ seen' = [seen EXCEPT ![proc][last][curr] = @ + 1]
    /\ Stamp(proc, Behind(processes[proc]))
    /\ NextProc("bring")
    /\ UNCHANGED <<procVars, minusOne>>

\* Mutant: the page that was left is not thrown out.
LearnsKeeping ==
    /\ phase = "call" /\ loop = "learn" /\ Running(proc)
    /\ LET last == LAST_PC[proc]
           curr == Needed(processes[proc])
       IN  /\ LAST_PC' = [LAST_PC EXCEPT ![proc] = curr]
           /\ IF curr = last THEN UNCHANGED <<CTRL_FLOW, seen>>
              ELSE /\ CTRL_FLOW' = [CTRL_FLOW EXCEPT ![proc][last] = Counted(@, curr)]
                   /\ seen' = [seen EXCEPT ![proc][last][curr] = @ + 1]
    /\ Stamp(proc, Behind(processes[proc]))
    /\ NextProc("bring")
    /\ UNCHANGED <<procVars, pageVars, minusOne>>

Learns ==
    /\ phase = "call" /\ loop = "learn" /\ Running(proc)
    /\ LET last == LAST_PC[proc]
           curr == Needed(processes[proc])
       IN  /\ LAST_PC' = [LAST_PC EXCEPT ![proc] = curr]
           /\ IF curr = last THEN UNCHANGED <<pageVars, CTRL_FLOW, seen>>
              ELSE /\ pageout(proc, last)
                   /\ CTRL_FLOW' = [CTRL_FLOW EXCEPT ![proc][last] = Counted(@, curr)]
                   /\ seen' = [seen EXCEPT ![proc][last][curr] = @ + 1]
    /\ Stamp(proc, Behind(processes[proc]))
    /\ NextProc("bring")
    /\ UNCHANGED <<procVars, minusOne>>
------------------------------------------------------------------------------
(* The second loop: the needed pages.  The third: the predicted ones.       *)

\* Mutant: only predicted pages are brought in.
BringsNothing ==
    /\ phase = "call" /\ loop = "bring" /\ Running(proc)
    /\ NextProc("fetch")
    /\ UNCHANGED <<procVars, pageVars, tables>>

BringsNeeded ==
    /\ phase = "call" /\ loop = "bring" /\ Running(proc)
    /\ pagein(proc, Needed(processes[proc]))
    /\ NextProc("fetch")
    /\ UNCHANGED <<procVars, tables>>

Age(order, p) == IF p \in ToSet(order)
                 THEN CHOOSE n \in DOMAIN order : order[n] = p ELSE 0

Swapped(s, n) == [s EXCEPT ![n] = s[n + 1], ![n + 1] = s[n]]

\* Mutant: the frequencies stay where they are.
CompareExchangePages(t, n) ==
    IF /\ Age(t.order, n) > Age(t.order, n - 1)
       /\ t.row[n + 1].FREQ > t.row[n].FREQ
    THEN [t EXCEPT !.row = [@ EXCEPT ![n].PG_NUM = t.row[n + 1].PG_NUM,
                                     ![n + 1].PG_NUM = t.row[n].PG_NUM]]
    ELSE t

\* Entries n - 1 and n (from 0) change places if n is more frequent and the stamp
\* beside it newer.  That is the stamp of page n, not of the page in entry n; it
\* changes places with the stamp of page n - 1.
CompareExchange(t, n) ==
    IF /\ Age(t.order, n) > Age(t.order, n - 1)
       /\ t.row[n + 1].FREQ > t.row[n].FREQ
    THEN [row   |-> Swapped(t.row, n),
          order |-> [m \in DOMAIN t.order |-> CASE t.order[m] = n     -> n - 1
                                                [] t.order[m] = n - 1 -> n
                                                [] OTHER              -> t.order[m]]]
    ELSE t

\* MAXPROCPAGES rounds over the entries of the row.
Exchanged(row, order) ==
    LET pairs == Len(row) - 1
        after[m \in 0 .. MAXPROCPAGES * pairs] ==
            IF m = 0 THEN [row |-> row, order |-> order]
            ELSE CompareExchange(after[m - 1], ((m - 1) % pairs) + 1)
    IN  IF pairs > 0 THEN after[MAXPROCPAGES * pairs] ELSE [row |-> row, order |-> order]

ExchangesEntries ==
    /\ phase = "call" /\ loop = "fetch" /\ entry = 0 /\ Running(proc)
    /\ LET row    == Ahead(processes[proc])
           result == Exchanged(CTRL_FLOW[proc][row], TMSTMP[proc])
       IN  /\ CTRL_FLOW' = [CTRL_FLOW EXCEPT ![proc][row] = result.row]
           /\ TMSTMP' = [TMSTMP EXCEPT ![proc] = result.order]
    /\ entry' = 1
    /\ UNCHANGED <<simVars, LAST_PC, seen, minusOne, loop, proc>>

RowAhead == CTRL_FLOW[proc][Ahead(processes[proc])]

FetchesPredicted ==
    /\ phase = "call" /\ loop = "fetch" /\ entry > 0 /\ entry <= Len(RowAhead)
    /\ pagein(proc, RowAhead[entry].PG_NUM)
    /\ entry' = entry + 1
    /\ UNCHANGED <<procVars, phase, turn, tables, loop, proc>>

RowFetched ==
    /\ phase = "call" /\ loop = "fetch" /\ entry > 0 /\ entry > Len(RowAhead)
    /\ NextProc("learn")
    /\ UNCHANGED <<procVars, pageVars, tables>>

\* A processor without a process; its pageouts are refused.
SkipsInactive ==
    /\ phase = "call" /\ ~Running(proc)
    /\ NextProc(CASE loop = "learn" -> "bring" [] loop = "bring" -> "fetch"
                  [] OTHER -> "learn")
    /\ UNCHANGED <<procVars, pageVars, tables>>

pageit == \/ LearnsNothing \/ Learns \/ BringsNeeded
          \/ ExchangesEntries \/ FetchesPredicted \/ RowFetched \/ SkipsInactive

PredictNext == \/ (Step \/ allage \/ Ended) /\ UNCHANGED <<tables, loop, proc, entry>>
               \/ pageit

PredictSpec == PredictInit /\ [][PredictNext]_predVars /\ WF_predVars(PredictNext)
------------------------------------------------------------------------------
\* However entries change places, and whichever processes have used the processor, a row
\* has one entry for each page that was seen to come next, with how often it was.
CountsRight ==
    \A i \in Slots, p \in PageNos :
        LET row == CTRL_FLOW[i][p]
        IN  /\ ToSet(row) = {[PG_NUM |-> q, FREQ |-> seen[i][p][q]] :
                                q \in {x \in PageNos : seen[i][p][x] > 0}}
            /\ Len(row) = Cardinality(ToSet(row))

\* LAST_PC may be the pc of another process, or an old one: still the pager never
\* throws out the page that a process is on.
NeededStays ==
    [][phase = "call" =>
          \A i \in Slots : Running(i) =>
              LET j == processes[i] IN pages[j][Needed(j)] >= 0 => pages'[j][Needed(j)] >= 0
      ]_predVars

\* Pages that were fetched in vain are never thrown out to make room, yet there is a
\* frame for each process that waits for one: it is free, or a page is on its way out
\* of it, or the pager will notice in its next call that the page was left.  (Unless
\* LAST_PG_NUM may be -1: then nothing need ever be thrown out.)
Waiting == {i \in Slots : Running(i) /\ PageAt(i, Needed(processes[i])) < 0}
Going   == {k \in Occupied : pages[k[1]][k[2]] < 0}
Left    == {i \in Slots : /\ Running(i) /\ LAST_PC[i] # Needed(processes[i])
                          /\ PageAt(i, LAST_PC[i]) = 0}
FramesSuffice ==
    ~minusOne /\ phase = "step" /\ turn = 1 =>
        pagesavail + Cardinality(Going) + Cardinality(Left) >= Cardinality(Waiting)

\* Every job is run to its end, unless LAST_PG_NUM may be -1.
AllFinish == <>(phase = "score" \/ minusOne)
=============================================================================

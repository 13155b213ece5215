----------------------------- MODULE PageStates -----------------------------
(***************************************************************************)
(* What simulator.c promises a pager about one page (the figure "Possible  *)
(* Page States and Transitions" of the handout): a page is out, coming in, *)
(* in, or going out; a transit takes exactly Wait ticks; only a page that  *)
(* is out can start to come in, and only while a frame is free; only a     *)
(* page that is in can start to go out.  When a process ends its pages are *)
(* out at once, whatever they were doing.                                  *)
(***************************************************************************)
EXTENDS Naturals, FiniteSets

CONSTANTS Owners,    \* the processes
          PageNos,   \* the pages of a process
          Frames,    \* the number of physical pages
          Wait       \* the length of a transit in ticks

VARIABLES state,     \* the state of each page of each process
          left       \* the ticks left of its transit

Keys == Owners \X PageNos

Init == /\ state = [k \in Keys |-> "out"]
        /\ left = [k \in Keys |-> 0]

StartIn(k) == /\ state[k] = "out"
              /\ Cardinality({x \in Keys : state[x] # "out"}) < Frames
              /\ state' = [state EXCEPT ![k] = "coming"]
              /\ left' = [left EXCEPT ![k] = Wait]

StartOut(k) == /\ state[k] = "in"
               /\ state' = [state EXCEPT ![k] = "going"]
               /\ left' = [left EXCEPT ![k] = Wait]

Arrived(s) == CASE s = "coming" -> "in" [] s = "going" -> "out" [] OTHER -> s

Tick == /\ state' = [k \in Keys |-> IF left[k] = 1 THEN Arrived(state[k]) ELSE state[k]]
        /\ left' = [k \in Keys |-> IF left[k] > 0 THEN left[k] - 1 ELSE 0]

End(o) == /\ state' = [k \in Keys |-> IF k[1] = o THEN "out" ELSE state[k]]
          /\ left' = [k \in Keys |-> IF k[1] = o THEN 0 ELSE left[k]]

Next == \/ \E k \in Keys : StartIn(k) \/ StartOut(k)
        \/ Tick
        \/ \E o \in Owners : End(o)

Spec == Init /\ [][Next]_<<state, left>>
=============================================================================

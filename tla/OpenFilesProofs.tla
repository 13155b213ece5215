-------------------------- MODULE OpenFilesProofs --------------------------
(***************************************************************************)
(* How main shares the arguments out to the requesters, for every command  *)
(* line: the requesters open the arguments one after the other, each one   *)
(* once, and five of them or as many as there are requesters; a command    *)
(* line with that many inputs has every one of them opened.                *)
(***************************************************************************)
EXTENDS OpenFiles, FiniteSetTheorems, TLAPS

\* files_per_thread for n requesters, and the files of the requesters before t.
Share(n, t) == IF NumFiles > n
               THEN (NumFiles \div n) + (IF t = 0 THEN NumFiles % n ELSE 0) ELSE 1
Given(n, t) == IF n >= NumFiles \/ t = 0 THEN t
               ELSE (NumFiles % n) + (NumFiles \div n) * t
Before(t)   == Given(num_req_ths, t)

Running == stage \in {"open", "opened"}

\* offset is what the requesters so far have more than one file each; it lags behind
\* by one from the last file of a requester to the next requester.
OffsetInv ==
    offset = Before(thread_counter) - thread_counter
             + (IF i < files_per_thread[thread_counter] THEN i ELSE i - 1)

\* The files open so far, which are the arguments from 3 on.
SoFar == Before(thread_counter) + i

SharedOut ==
    /\ num_req_ths \in Int /\ argc \in Nat
    /\ stage \in {"check", "open", "opened", "refused", "undefined"}
    /\ stage \in {"check", "refused"} =>
          opens = {} /\ thread_counter = 0 /\ i = 0 /\ offset = 0
    /\ Running =>
          /\ num_req_ths \in 1 .. MAX_REQ_THS
          /\ thread_counter \in 0 .. num_req_ths - 1
          /\ i \in 0 .. files_per_thread[thread_counter]
          /\ OffsetInv
    /\ stage = "opened" => SoFar = Wanted
    /\ Fits => stage # "undefined"
    /\ SoFar > 0 => SoFar + 2 < argc
    /\ IsFiniteSet(opens)
    /\ \A o \in opens : o[2] \in 0 .. NumFiles - 1
    /\ Indices = 3 .. SoFar + 2
    /\ Cardinality(opens) = SoFar
------------------------------------------------------------------------------
\* The arithmetic of the distribution: shares between 1 and 5 that add up to 5, or to
\* one for each requester when there are more.
LEMMA ShareArithmetic ==
    ASSUME NEW n \in 1 .. MAX_REQ_THS
    PROVE  /\ Given(n, 0) = 0
           /\ Given(n, n) = IF n > NumFiles THEN n ELSE NumFiles
           /\ \A t \in 0 .. n - 1 : /\ Given(n, t) \in Nat
                                    /\ Share(n, t) \in 1 .. NumFiles
                                    /\ Given(n, t + 1) = Given(n, t) + Share(n, t)
                                    /\ Given(n, t + 1) <= Given(n, n)
<1> USE DEF Given, Share, NumFiles, MAX_REQ_THS
<1>1. CASE n = 1
  BY <1>1
<1>2. CASE n = 2
  BY <1>2
<1>3. CASE n = 3
  BY <1>3
<1>4. CASE n = 4
  BY <1>4
<1>5. CASE n \in 5 .. 10
  BY <1>5
<1> QED BY <1>1, <1>2, <1>3, <1>4, <1>5

LEMMA FirstShare == \A n \in 1 .. MAX_REQ_THS : 0 \in 0 .. n - 1
BY DEF MAX_REQ_THS

LEMMA Shares ==
    ASSUME num_req_ths \in 1 .. MAX_REQ_THS
    PROVE  /\ Before(num_req_ths) = Wanted
           /\ \A t \in 0 .. num_req_ths - 1 :
                 /\ Before(t) \in Nat
                 /\ files_per_thread[t] \in 1 .. NumFiles
                 /\ Before(t + 1) = Before(t) + files_per_thread[t]
                 /\ Before(t + 1) <= Wanted
<1>1. \A t \in 0 .. num_req_ths - 1 : files_per_thread[t] = Share(num_req_ths, t)
  BY DEF files_per_thread, Share
<1> QED BY <1>1, ShareArithmetic DEF Before, Wanted

\* The requesters open no more than they want.
LEMMA NoMore ==
    ASSUME SharedOut, Running
    PROVE  /\ SoFar \in Nat /\ SoFar <= Wanted /\ Wanted \in Nat
           /\ i < files_per_thread[thread_counter] => SoFar < Wanted
<1>1. /\ num_req_ths \in 1 .. MAX_REQ_THS /\ thread_counter \in 0 .. num_req_ths - 1
      /\ i \in 0 .. files_per_thread[thread_counter]
  BY DEF SharedOut
<1>2. /\ Before(thread_counter) \in Nat
      /\ files_per_thread[thread_counter] \in 1 .. NumFiles
      /\ Before(thread_counter) + files_per_thread[thread_counter] <= Wanted
  BY <1>1, Shares
<1>3. Wanted \in Nat
  BY <1>1 DEF Wanted, NumFiles, MAX_REQ_THS
<1> QED BY <1>1, <1>2, <1>3 DEF SoFar, NumFiles

LEMMA SharedOutInit == Init => SharedOut
<1> SUFFICES ASSUME Init PROVE SharedOut
  OBVIOUS
<1>1. /\ num_req_ths \in Int /\ argc \in Nat /\ stage = "check" /\ opens = {}
      /\ thread_counter = 0 /\ i = 0 /\ offset = 0
  BY ArgsAssumption DEF Init
<1>2. SoFar = 0
  BY <1>1 DEF SoFar, Before, Given
<1>3. Indices = {} /\ 3 .. SoFar + 2 = {}
  BY <1>1, <1>2 DEF Indices
<1> QED BY <1>1, <1>2, <1>3, FS_EmptySet DEF SharedOut, Running

LEMMA ChecksKeep == ASSUME SharedOut, CheckArguments PROVE SharedOut'
<1>1. /\ opens' = {} /\ thread_counter' = 0 /\ i' = 0 /\ offset' = 0
      /\ num_req_ths' \in Int /\ argc' \in Nat
  BY DEF SharedOut, CheckArguments, MAX_REQ_THS
<1>2. SoFar' = 0
  BY <1>1 DEF SoFar, Before, Given
<1>3. /\ Indices' = {} /\ 3 .. SoFar' + 2 = {}
      /\ Cardinality(opens') = SoFar' /\ IsFiniteSet(opens') /\ ~(SoFar' > 0)
  BY <1>1, <1>2, FS_EmptySet DEF Indices
<1>4. CASE stage' \in {"refused", "undefined"}
  <2>1. Fits' => stage' # "undefined"
    <3>1. num_req_ths \in Int
      BY DEF SharedOut
    <3>2. stage' = "undefined" => num_req_ths' <= 0
      BY <3>1 DEF CheckArguments, MAX_REQ_THS
    <3> QED BY <1>1, <3>2 DEF Fits, MAX_REQ_THS
  <2> QED BY <1>1, <1>3, <1>4, <2>1 DEF SharedOut, Running
<1>5. CASE stage' = "open"
  <2>1. num_req_ths' \in 1 .. MAX_REQ_THS
    BY <1>1, <1>5 DEF CheckArguments, MAX_REQ_THS
  <2>2. Before(thread_counter)' = 0
    BY <1>1 DEF Before, Given
  <2>3. files_per_thread[thread_counter]' \in 1 .. NumFiles
    <3>1. files_per_thread' = [t \in 0 .. num_req_ths' - 1 |-> Share(num_req_ths', t)]
      BY DEF files_per_thread, Share
    <3>2. 0 \in 0 .. num_req_ths' - 1 /\ thread_counter' = 0
      <4>1. 0 \in 0 .. num_req_ths' - 1
        BY <2>1, FirstShare
      <4>2. thread_counter' = 0
        BY <1>1
      <4> QED BY <4>1, <4>2
    <3>3. Share(num_req_ths', 0) \in 1 .. NumFiles
      BY <2>1, <3>2, ShareArithmetic
    <3>4. files_per_thread[thread_counter]' = Share(num_req_ths', 0)
      BY <3>1, <3>2
    <3> QED BY <3>3, <3>4
  <2>4. OffsetInv'
    BY <1>1, <2>2, <2>3 DEF OffsetInv, NumFiles
  <2>5. i' \in 0 .. files_per_thread[thread_counter]'
    BY <1>1, <2>3 DEF NumFiles
  <2>6. thread_counter' \in 0 .. num_req_ths' - 1
    BY <1>1, <2>1, FirstShare
  <2> QED BY <1>1, <1>3, <1>5, <2>1, <2>4, <2>5, <2>6 DEF SharedOut, Running
<1> QED BY <1>4, <1>5 DEF CheckArguments

LEMMA OpenKeeps == ASSUME SharedOut, OpenFile PROVE SharedOut'
<1> DEFINE tc == thread_counter
           new == <<tc, i, index>>
           share == files_per_thread[tc]
<1>1. /\ num_req_ths \in 1 .. MAX_REQ_THS /\ tc \in 0 .. num_req_ths - 1
      /\ stage = "open" /\ i \in 0 .. share /\ i < share
      /\ OffsetInv /\ IsFiniteSet(opens) /\ argc \in Nat /\ index < argc
      /\ UNCHANGED <<argc, num_req_ths, stage, thread_counter>>
      /\ opens' = opens \cup {new} /\ i' = i + 1
      /\ offset' = IF i # share - 1 THEN offset + 1 ELSE offset
  BY DEF SharedOut, OpenFile, Opens, Running, argVars
<1>2. share \in 1 .. NumFiles /\ Before(tc) \in Nat /\ tc \in Nat
  BY <1>1, Shares
<1>3. /\ files_per_thread' = files_per_thread /\ Before(tc)' = Before(tc)
      /\ SoFar' = SoFar + 1 /\ SoFar \in Nat
  BY <1>1, <1>2 DEF files_per_thread, Before, SoFar, NumFiles
<1>4. offset \in Int /\ index = SoFar + 3
  BY <1>1, <1>2 DEF OffsetInv, SoFar, NumFiles, index
<1>5. OffsetInv'
  <2>1. files_per_thread[thread_counter]' = share
    BY <1>1, <1>3
  <2>2. offset' = Before(tc) - tc + (IF i + 1 < share THEN i + 1 ELSE i)
    BY <1>1, <1>2 DEF OffsetInv, NumFiles
  <2> QED BY <1>1, <1>2, <1>3, <2>1, <2>2 DEF OffsetInv, NumFiles
<1>6. Indices' = Indices \cup {SoFar + 3}
  <2>1. new[3] = SoFar + 3
    BY <1>4
  <2>2. opens' = opens \cup {new}
    BY <1>1
  <2> HIDE DEF new
  <2> QED BY <2>1, <2>2 DEF Indices
<1>7. Indices' = 3 .. SoFar' + 2
  BY <1>3, <1>6 DEF SharedOut
<1>8. new \notin opens
  <2>1. SoFar + 3 \notin Indices
    BY <1>3 DEF SharedOut
  <2> QED BY <1>4, <2>1 DEF Indices
<1>9. IsFiniteSet(opens') /\ Cardinality(opens') = SoFar'
  <2> HIDE DEF new
  <2> QED BY <1>1, <1>3, <1>8, FS_AddElement DEF SharedOut
<1>10. \A o \in opens' : o[2] \in 0 .. NumFiles - 1
  BY <1>1, <1>2 DEF SharedOut, NumFiles
<1>11. i' \in 0 .. files_per_thread[thread_counter]'
  BY <1>1, <1>2, <1>3 DEF NumFiles
<1>12. SoFar' + 2 < argc'
  BY <1>1, <1>3, <1>4
<1> QED BY <1>1, <1>5, <1>7, <1>9, <1>10, <1>11, <1>12 DEF SharedOut, Running

\* A command line with as many inputs as the requesters want never comes to its end.
LEMMA PastKeeps == ASSUME SharedOut, OpenPast PROVE SharedOut'
<1>1. /\ stage = "open" /\ i < files_per_thread[thread_counter] /\ index >= argc
      /\ stage' = "undefined" /\ argc \in Nat
      /\ UNCHANGED <<argc, num_req_ths, thread_counter, i, offset, opens>>
  BY DEF SharedOut, OpenPast, Opens, argVars
<1>2. /\ OffsetInv /\ Before(thread_counter) \in Nat /\ i \in Int /\ thread_counter \in Int
  BY <1>1, Shares DEF SharedOut, Running
<1>3. index = SoFar + 3
  BY <1>1, <1>2 DEF OffsetInv, SoFar, index
<1>4. SoFar < Wanted /\ SoFar \in Nat /\ Wanted \in Nat
  BY <1>1, NoMore DEF Running
<1>5. ~Fits
  BY <1>1, <1>3, <1>4 DEF Fits
<1>6. SoFar' = SoFar /\ Indices' = Indices /\ ~Fits'
  BY <1>1, <1>5 DEF SoFar, Before, Indices, Fits, Wanted
<1> QED BY <1>1, <1>6 DEF SharedOut, Running

LEMMA NextKeeps == ASSUME SharedOut, NextRequester PROVE SharedOut'
<1> DEFINE tc == thread_counter
           share == files_per_thread[tc]
<1>1. /\ num_req_ths \in 1 .. MAX_REQ_THS /\ tc \in 0 .. num_req_ths - 1
      /\ stage = "open" /\ i = share /\ OffsetInv
      /\ UNCHANGED <<argc, num_req_ths, offset, opens>>
  BY DEF SharedOut, NextRequester, Running, argVars
<1>2. /\ share \in 1 .. NumFiles /\ Before(tc) \in Nat
      /\ Before(tc + 1) = Before(tc) + share
  BY <1>1, Shares
<1>3. files_per_thread' = files_per_thread /\ Indices' = Indices
  BY <1>1 DEF files_per_thread, Indices
<1>4. CASE tc + 1 < num_req_ths
  <2>1. thread_counter' = tc + 1 /\ i' = 0 /\ stage' = stage
    BY <1>4 DEF NextRequester
  <2>2. thread_counter' \in 0 .. num_req_ths' - 1
    BY <1>1, <1>4, <2>1 DEF MAX_REQ_THS
  <2>3. /\ files_per_thread[thread_counter]' \in 1 .. NumFiles
        /\ Before(thread_counter)' = Before(tc) + share
    BY <1>1, <1>2, <1>3, <2>1, <2>2, Shares DEF Before
  <2>4. SoFar' = SoFar
    BY <1>1, <1>2, <2>1, <2>3 DEF SoFar, NumFiles
  <2>5. OffsetInv'
    BY <1>1, <1>2, <2>1, <2>3 DEF OffsetInv, NumFiles, MAX_REQ_THS
  <2>6. i' \in 0 .. files_per_thread[thread_counter]'
    BY <2>1, <2>3 DEF NumFiles
  <2> QED BY <1>1, <1>3, <2>1, <2>2, <2>4, <2>5, <2>6 DEF SharedOut, Running
<1>5. CASE ~(tc + 1 < num_req_ths)
  <2>1. UNCHANGED <<thread_counter, i>> /\ stage' = "opened"
    BY <1>5 DEF NextRequester
  <2>2. tc + 1 = num_req_ths
    BY <1>1, <1>5 DEF MAX_REQ_THS
  <2>3. SoFar = Wanted
    BY <1>1, <1>2, <2>2, Shares DEF SoFar
  <2>4. SoFar' = SoFar /\ Wanted' = Wanted /\ OffsetInv'
    BY <1>1, <1>3, <2>1 DEF SoFar, Wanted, OffsetInv, Before
  <2> QED BY <1>1, <1>3, <2>1, <2>3, <2>4 DEF SharedOut, Running
<1> QED BY <1>4, <1>5

LEMMA SharedOutNext == SharedOut /\ [Next]_vars => SharedOut'
<1> SUFFICES ASSUME SharedOut, [Next]_vars PROVE SharedOut'
  OBVIOUS
<1>1. CASE Ended \/ UNCHANGED vars
  BY <1>1 DEF Ended, vars, argVars, SharedOut, Running, OffsetInv, SoFar, Before,
              files_per_thread, Indices, Wanted, Fits
<1> QED BY <1>1, ChecksKeep, OpenKeeps, PastKeeps, NextKeeps DEF Next
------------------------------------------------------------------------------
\* For every command line: where the distribution of the files is.
THEOREM Distribution == Spec => []SharedOut
BY SharedOutInit, SharedOutNext, PTL DEF Spec

\* Whatever the command line, no two requesters read the same argument.
THEOREM FilesDisjoint == Spec => []NoFileTwice
<1>1. SharedOut => NoFileTwice
  <2> SUFFICES ASSUME SharedOut PROVE NoFileTwice
    OBVIOUS
  <2>1. SoFar \in Nat
    BY FS_CardinalityType DEF SharedOut
  <2>2. Cardinality(3 .. SoFar + 2) = SoFar
    BY <2>1, FS_Interval
  <2> QED BY <2>2 DEF SharedOut, NoFileTwice
<1> QED BY <1>1, Distribution, PTL

\* inFiles.array is large enough for every requester, the first one too.
THEOREM ListsFit == Spec => []ListFits
<1>1. SharedOut => ListFits
  BY DEF SharedOut, ListFits, NumFiles
<1> QED BY <1>1, Distribution, PTL

\* Whenever main is through, the arguments from the first input on are open, as many as
\* the requesters want, and all of them exist; and a command line that names just that
\* many inputs is never read past its end and has all of them opened, and no other file.
THEOREM InputsCovered == Spec => []CoversInputs
<1>1. SharedOut => CoversInputs
  <2> SUFFICES ASSUME SharedOut PROVE CoversInputs
    OBVIOUS
  <2>1. ASSUME stage = "opened" PROVE Indices = 3 .. Wanted + 2 /\ Wanted + 2 < argc
    <3>1. SoFar = Wanted /\ num_req_ths \in 1 .. MAX_REQ_THS
      BY <2>1 DEF SharedOut, Running
    <3>2. Wanted > 0
      BY <3>1 DEF Wanted, NumFiles, MAX_REQ_THS
    <3> QED BY <3>1, <3>2 DEF SharedOut
  <2>2. ASSUME Fits PROVE stage # "undefined" /\ Indices \subseteq Inputs
    <3>1. stage # "undefined" /\ argc = Wanted + 4
      BY <2>2 DEF SharedOut, Fits
    <3>2. CASE Running
      <4>1. SoFar \in Nat /\ SoFar <= Wanted /\ Wanted \in Nat
        BY <3>2, NoMore
      <4> QED BY <3>1, <4>1 DEF SharedOut, Inputs
    <3>3. CASE ~Running
      <4>1. opens = {}
        BY <3>1, <3>3 DEF SharedOut, Running
      <4> QED BY <3>1, <4>1 DEF Indices
    <3> QED BY <3>1, <3>2, <3>3
  <2>3. ASSUME Fits, stage = "opened" PROVE Indices = Inputs
    <3>1. Indices = 3 .. Wanted + 2 /\ argc = Wanted + 4 /\ Wanted \in Nat
      BY <2>1, <2>3, NoMore DEF Fits, Running
    <3>2. argc - 2 = Wanted + 2
      BY <3>1
    <3> QED BY <3>1, <3>2 DEF Inputs
  <2> QED BY <2>1, <2>2, <2>3 DEF CoversInputs
<1> QED BY <1>1, Distribution, PTL
============================================================================

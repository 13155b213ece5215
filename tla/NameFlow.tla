------------------------------ MODULE NameFlow ------------------------------
(***************************************************************************)
(* Where the names of the input files are while multi-lookup.c runs: that  *)
(* none is lost or doubled on the way to the output file, and that the     *)
(* names of a requester keep the order of its files.                       *)
(***************************************************************************)
EXTENDS MultiLookup, SequencesExt

\* The line written for a name.
Answer(n) == IF Address[n] = FAILED THEN Blank ELSE Address[n]

\* The places in lists of files, one list per requester, that hold a name of N.
InFile(F, N, r, i) == {<<r, i, k>> : k \in {m \in DOMAIN F[r][i].names : F[r][i].names[m] \in N}}
InList(F, N, r)    == UNION {InFile(F, N, r, i) : i \in DOMAIN F[r]}
Occurring(F, N)    == UNION {InList(F, N, r) : r \in Requesters}

\* The threads that carry a name of N, the slots that hold one, and the lines of the
\* output file that answer one.
Carriers   == {t \in Threads : pc[t] \notin {"scan", "done"}}
Held(N)    == {t \in Carriers : hostname[t] \in N}
Stored(N)  == {i \in Slots : array[i] \in N}
Printed(N) == {i \in DOMAIN results : /\ results[i][1] \in N
                                      /\ results[i][2] = Answer(results[i][1])}

\* While the threads run, and where an exit of main has stopped them, every name of every
\* file is in exactly one place: still unread, in a thread's hands, in the array, or on a
\* line of the output file with the answer for it.  No interleaving drops a name or hands
\* it to two resolvers, and when main cannot create a thread and exits, the lines written
\* are those of the names taken so far but for the ones still in a resolver's hands.
\* (It is said of sets of names: of one name, which may occur often, and of all.)
NameConservation ==
    status \in {"running", "aborted"} =>
        \A N \in SUBSET Names :
            Cardinality(Occurring(files, N)) + Cardinality(Held(N))
                + Cardinality(Stored(N)) + Cardinality(Printed(N))
            = Cardinality(Occurring(Input, N))

\* At the end nobody holds a name, and nothing is missing but what main throws away
\* with the array.
LossBounded ==
    status = "done" =>
        /\ Held(Names) = {}
        /\ Cardinality(Occurring(Input, Names))
              <= Cardinality(Occurring(files, Names)) + Cardinality(Printed(Names)) + MaxSize
------------------------------------------------------------------------------
\* The names of a list of files in their order, and those of a sequence that are in S.
NamesOf(fs)  == FlattenSeq([i \in DOMAIN fs |-> fs[i].names])
Chosen(s, S) == FlattenSeq([i \in DOMAIN s |-> IF s[i] \in S THEN <<s[i]>> ELSE << >>])

\* The names a requester is given, and those of them that are not taken yet: in the
\* array, in its hand, and unread.
Own(r)    == ToSet(NamesOf(Input[r]))
Hand(r)   == IF r \in Carriers /\ hostname[r] # NULL THEN <<hostname[r]>> ELSE << >>
InLine(r) == Chosen(Contents(EffectiveHead, EffectiveTail), Own(r)) \o Hand(r) \o NamesOf(files[r])

\* A name that only files of r have can be told from the others in the array.
OwnNames(r) == \A q \in Requesters \ {r} : Own(q) \cap Own(r) = {}

\* The names of a requester stand in line in the order of its files: what is not taken
\* is the end of them, whatever other requesters put between and however often the
\* array was full.
FileOrder ==
    status \in {"running", "aborted"} =>
        \A r \in Requesters : OwnNames(r) => IsSuffix(InLine(r), NamesOf(Input[r]))
=============================================================================

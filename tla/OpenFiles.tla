----------------------------- MODULE OpenFiles -----------------------------
(***************************************************************************)
(* The part of main in multi-lookup.c that turns the command line          *)
(*     multi-lookup <requesters> <resolvers> <input>... <output>           *)
(* into the lists of files of the requesters, one fopen at a time.  How    *)
(* many arguments are opened depends on the requesters alone; the program  *)
(* does not look at argc for it, and from argv[argc] on nothing can be     *)
(* said of what it does.  MultiLookup starts from the lists that contain   *)
(* inputs only (its constant Input).                                       *)
(***************************************************************************)
EXTENDS Integers, FiniteSets

CONSTANTS Argcs,       \* values of argc to consider
          Requested    \* values the first argument may have as a number

MINARGS     == 3
MAX_REQ_THS == 10
NumFiles    == 5       \* numFiles, and the size of inFiles.array

ASSUME ArgsAssumption == Argcs \subseteq Nat \ {0} /\ Requested \subseteq Int

VARIABLES
    argc, num_req_ths,
    stage,            \* "check", "open", "opened", "refused", or "undefined"
    thread_counter,   \* the requester whose files are opened
    i,                \* how many of its files are open
    offset,           \* arguments passed over by requesters with several files
    opens             \* <<requester, position in its list, index into argv>>

argVars == <<argc, num_req_ths>>
vars    == <<argVars, stage, thread_counter, i, offset, opens>>

Init == /\ argc \in Argcs
        /\ num_req_ths \in Requested
        /\ stage = "check"
        /\ thread_counter = 0 /\ i = 0 /\ offset = 0
        /\ opens = {}

\* Mutant: what the division leaves over goes to the last requester too.
RestTwice ==
    [t \in 0 .. num_req_ths - 1 |->
        IF NumFiles > num_req_ths
        THEN NumFiles \div num_req_ths
             + (IF t \in {0, num_req_ths - 1} THEN NumFiles % num_req_ths ELSE 0)
        ELSE 1]

\* Mutant: what the division leaves over is not taken off file by file, so the
\* first requester gets all the files on top of its share.
RestUnspent ==
    [t \in 0 .. num_req_ths - 1 |->
        IF NumFiles > num_req_ths
        THEN NumFiles \div num_req_ths + (IF t = 0 THEN NumFiles ELSE 0)
        ELSE 1]

\* The five files are shared out evenly, and the first requester takes the rest.
files_per_thread ==
    [t \in 0 .. num_req_ths - 1 |->
        IF NumFiles > num_req_ths
        THEN NumFiles \div num_req_ths
             + (IF t = 0 THEN NumFiles % num_req_ths ELSE 0)
        ELSE 1]

\* The number of arguments may be wrong, or the output file not open.
CheckArguments ==
    /\ stage = "check"
    /\ \/ stage' = "refused" /\ UNCHANGED num_req_ths
       \/ /\ argc \in MINARGS .. MAX_REQ_THS + 1
          /\ num_req_ths' = IF num_req_ths > MAX_REQ_THS THEN MAX_REQ_THS ELSE num_req_ths
          \* Division by zero, and an array of negative size.
          /\ stage' = IF num_req_ths <= 0 THEN "undefined" ELSE "open"
    /\ UNCHANGED <<argc, thread_counter, i, offset, opens>>

\* The index into argv of the next file.
index == thread_counter + offset + 3

Opens == stage = "open" /\ i < files_per_thread[thread_counter]

\* Mutant: the offset does not move between two files of a requester.
OpenNeverMoves ==
    /\ Opens /\ index < argc
    /\ opens' = opens \cup {<<thread_counter, i, index>>}
    /\ i' = i + 1
    /\ UNCHANGED <<argVars, stage, thread_counter, offset>>

OpenFile ==
    /\ Opens /\ index < argc
    /\ opens' = opens \cup {<<thread_counter, i, index>>}
    /\ offset' = IF i # files_per_thread[thread_counter] - 1 THEN offset + 1 ELSE offset
    /\ i' = i + 1
    /\ UNCHANGED <<argVars, stage, thread_counter>>

\* argv[argc] is NULL, and behind it there are no arguments.
OpenPast ==
    /\ Opens /\ index >= argc
    /\ stage' = "undefined"
    /\ UNCHANGED <<argVars, thread_counter, i, offset, opens>>

\* pthread_create for this requester, and on to the next one.
NextRequester ==
    /\ stage = "open" /\ i = files_per_thread[thread_counter]
    /\ IF thread_counter + 1 < num_req_ths
       THEN thread_counter' = thread_counter + 1 /\ i' = 0 /\ UNCHANGED stage
       ELSE stage' = "opened" /\ UNCHANGED <<thread_counter, i>>
    /\ UNCHANGED <<argVars, offset, opens>>

Ended == stage \in {"opened", "refused", "undefined"} /\ UNCHANGED vars

Next == CheckArguments \/ OpenFile \/ OpenPast \/ NextRequester \/ Ended

Spec == Init /\ [][Next]_vars
------------------------------------------------------------------------------
\* The arguments that were opened, and those that name input files.
Indices == {o[3] : o \in opens}
Inputs  == 3 .. argc - 2

\* The requesters never share a file: no argument is opened twice.
NoFileTwice == Cardinality(Indices) = Cardinality(opens)

\* The list of a requester never outgrows inFiles.array.
ListFits == \A o \in opens : o[2] < NumFiles

\* How many files the requesters want: five, or one each when they are more.
Wanted == IF num_req_ths > NumFiles THEN num_req_ths ELSE NumFiles

\* The command line names as many inputs as that.
Fits == num_req_ths \in 1 .. MAX_REQ_THS /\ argc = Wanted + 4

\* When the files are opened, they are the arguments from the first input on, one after
\* the other, and all of them are there.  A command line that names just as many inputs
\* as the requesters want has every input opened, and nothing else.
CoversInputs ==
    /\ stage = "opened" => Indices = 3 .. Wanted + 2 /\ Wanted + 2 < argc
    /\ Fits => /\ stage # "undefined" /\ Indices \subseteq Inputs
               /\ stage = "opened" => Indices = Inputs

\* README.md of the program, on the command line "./multi-lookup <# requester threads>
\* <# resolver threads> <input files> <output file>" and its example with two input
\* files: what is opened for reading is the input files, all of them.
ReadsInputs == Indices \subseteq Inputs /\ (stage = "opened" => Indices = Inputs)
=============================================================================

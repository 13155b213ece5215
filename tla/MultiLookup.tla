----------------------------- MODULE MultiLookup -----------------------------
(***************************************************************************)
(* multi-lookup.c as its threads interleave: main creates a pool of        *)
(* requester threads and a pool of resolver threads and joins them;        *)
(* requesters read hostnames from their files into the shared array;       *)
(* resolvers take them out, look them up and write the results.            *)
(*                                                                         *)
(* A thread stops between two steps wherever another thread could see a    *)
(* difference: before it acquires a mutex, and before each read or write   *)
(* of the shared array, of a shared counter or of a file.  Unlocking       *)
(* several mutexes in a row is one step: an unlock only enables others.    *)
(* Abstracted: the texts printed, performance.txt and the list IP_LIST     *)
(* that a resolver initialises and clears without using it; but not that   *)
(* they may fail: what fopen and malloc return is used without a look.     *)
(***************************************************************************)
EXTENDS SharedArray, FiniteSets

CONSTANTS NumReq,     \* num_req_ths, the size of the requester pool
          NumRes,     \* num_res_ths, the size of the resolver pool
          Input,      \* Input[r]: the files main opened for requester r
          Address     \* Address[n]: the string dnslookup leaves for n, or FAILED

\* Threads are numbered in the order main creates them, as gettid would.
Requesters == 1 .. NumReq
Resolvers  == NumReq + 1 .. NumReq + NumRes
NumThreads == NumReq + NumRes
Threads    == 1 .. NumThreads
NoThread   == 0

FAILED  == "UTIL_FAILURE"
Blank   == ""
Answers == {"an.ip.v4.address", "UNHANDELED"}

\* An input file: whether fopen succeeded, and the names still to be read.
File == [opened : BOOLEAN, names : Seq(Names)]

ASSUME PoolAssumption    == NumReq \in Nat \ {0} /\ NumRes \in Nat
ASSUME InputAssumption   == Input \in [Requesters -> Seq(File)]
ASSUME AddressAssumption == Address \in [Names -> Answers \cup {FAILED}]

Mutexes == {"read_mutex", "write1", "mutex", "shared_array_mutex",
            "error_report", "write2"}

RequesterLabels == {"lockLog", "report", "scan", "lockRead", "lockWrite",
                    "testFull", "storeItem", "advanceTail", "unlock", "done"}
ResolverLabels  == {"check", "enterRead", "enterMutex", "count", "enterWrite",
                    "admit", "lockArray", "testEmpty", "fetchItem",
                    "advanceHead", "unlockArray", "leaveMutex", "leave",
                    "lockError", "lookup", "done"}

VARIABLES
    status,       \* main: "running", "done" (returned), "aborted" (exit), or
                  \* "undefined", after which nothing can be said of the program
    created,      \* threads 1..created have been created
    joined,       \* threads 1..joined have been joined
    req_th_done,  \* the global flag main sets between the two rounds of joins
    pc,           \* where each thread is
    lock,         \* the owner of each mutex, or NoThread
    readCount,    \* resolvers counted as reading the array
    files,        \* what each requester still has to read
    hostname,     \* the name a thread carries, or NULL
    completed,    \* requester: the name it carried has been given to ADD_ITEM
    empty,        \* resolver: EMPTY_SHARED_ARRAY
    serviced,     \* serviced.txt: the lines <<thread, number of files>>
    results       \* the output file, in order: <<name, address>>

mainVars  == <<status, created, joined, req_th_done>>
localVars == <<hostname, completed, empty>>
ioVars    == <<files, serviced, results>>
vars == <<ringVars, mainVars, pc, lock, readCount, localVars, ioVars>>

Init == /\ SHARED_ARRAY_INIT
        /\ status = "running" /\ created = 0 /\ joined = 0
        /\ req_th_done = FALSE
        /\ pc = [t \in Threads |-> IF t \in Requesters THEN "lockLog" ELSE "check"]
        /\ lock = [m \in Mutexes |-> NoThread]
        /\ readCount = 0
        /\ files = Input
        /\ hostname = [t \in Threads |-> NULL]
        /\ completed = [r \in Requesters |-> FALSE]
        /\ empty = [t \in Resolvers |-> FALSE]
        /\ serviced = {}
        /\ results = << >>
------------------------------------------------------------------------------
(* A thread that exists moves from one label to another.                   *)

At(t, label) == /\ status = "running"
                /\ t <= created
                /\ pc[t] = label

Goto(t, label) == pc' = [pc EXCEPT ![t] = label]

Acquire(t, m) == /\ lock[m] = NoThread
                 /\ lock' = [lock EXCEPT ![m] = t]

\* The default mutex of the build does not look at who unlocks it: write1 is
\* acquired by the first resolver in and released by the last one out.
Release(ms) == lock' = [m \in Mutexes |-> IF m \in ms THEN NoThread ELSE lock[m]]

\* Acquires m and nothing else.
LockStep(t, from, m, to) ==
    /\ At(t, from)
    /\ Acquire(t, m)
    /\ Goto(t, to)
    /\ UNCHANGED <<ringVars, mainVars, readCount, localVars, ioVars>>
------------------------------------------------------------------------------
(* REQUEST_THREAD                                                          *)

RequesterLocksLog(r) == LockStep(r, "lockLog", "write2", "report")

\* The line is written before the first file is read.
Report(r) ==
    /\ At(r, "report")
    /\ serviced' = serviced \cup {<<r, Len(Input[r])>>}
    /\ Release({"write2"})
    /\ Goto(r, "scan")
    /\ UNCHANGED <<ringVars, mainVars, readCount, localVars, files, results>>

\* What is left of a list of files after fscanf has read a name.
AfterScan(fs) == [fs EXCEPT ![1] = [opened |-> TRUE, names |-> Tail(fs[1].names)]]

\* fscanf finds a name in the current file.
ReadName(r) ==
    /\ At(r, "scan")
    /\ files[r] # << >> /\ files[r][1].opened /\ files[r][1].names # << >>
    /\ hostname' = [hostname EXCEPT ![r] = Head(files[r][1].names)]
    /\ files' = [files EXCEPT ![r] = AfterScan(@)]
    /\ completed' = [completed EXCEPT ![r] = FALSE]
    /\ Goto(r, "lockRead")
    /\ UNCHANGED <<ringVars, mainVars, lock, readCount, empty, serviced, results>>

CloseFile(r) ==
    /\ At(r, "scan")
    /\ files[r] # << >> /\ files[r][1].opened /\ files[r][1].names = << >>
    /\ files' = [files EXCEPT ![r] = Tail(@)]
    /\ UNCHANGED <<ringVars, mainVars, pc, lock, readCount, localVars,
                   serviced, results>>

\* All files read, or pthread_exit at the first one that did not open.
FinishRequester(r) ==
    /\ At(r, "scan")
    /\ files[r] # << >> => ~files[r][1].opened
    /\ Goto(r, "done")
    /\ UNCHANGED <<ringVars, mainVars, lock, readCount, localVars, ioVars>>

RequesterLocksRead(r) == LockStep(r, "lockRead", "read_mutex", "lockWrite")

\* Mutant: a requester that trusts read_mutex to keep the resolvers out.
SkipsWrite(r) ==
    /\ At(r, "lockWrite")
    /\ Goto(r, "testFull")
    /\ UNCHANGED <<ringVars, mainVars, lock, readCount, localVars, ioVars>>

RequesterLocksWrite(r) == LockStep(r, "lockWrite", "write1", "testFull")

TestFull(r) ==
    /\ At(r, "testFull") /\ allocated
    /\ Goto(r, IF TEST_FULL THEN "unlock" ELSE "storeItem")
    /\ UNCHANGED <<ringVars, mainVars, lock, readCount, localVars, ioVars>>

\* SHARED_ARRAY_ADD_ITEM tests again for a full array.  Its result is not looked
\* at: a name refused here would be gone.
AddItem(r) ==
    /\ At(r, "storeItem")
    /\ IF TEST_FULL
       THEN Goto(r, "unlock") /\ UNCHANGED array
       ELSE Goto(r, "advanceTail") /\ StoreItem(hostname[r])
    /\ hostname' = [hostname EXCEPT ![r] = NULL]
    /\ completed' = [completed EXCEPT ![r] = TRUE]
    /\ UNCHANGED <<allocated, head, tail, mainVars, lock, readCount, empty, ioVars>>

MoveTail(r) ==
    /\ At(r, "advanceTail")
    /\ AdvanceTail
    /\ Goto(r, "unlock")
    /\ UNCHANGED <<allocated, array, head, mainVars, lock, readCount, localVars, ioVars>>

\* Mutant: a name that found the array full is not tried again.
GivesUpWhenFull(r) ==
    /\ At(r, "unlock")
    /\ Release({"write1", "read_mutex"})
    /\ Goto(r, "scan")
    /\ UNCHANGED <<ringVars, mainVars, readCount, localVars, ioVars>>

\* After a full array the thread sleeps a random while and tries again.
RequesterUnlocks(r) ==
    /\ At(r, "unlock")
    /\ Release({"write1", "read_mutex"})
    /\ Goto(r, IF completed[r] THEN "scan" ELSE "lockRead")
    /\ UNCHANGED <<ringVars, mainVars, readCount, localVars, ioVars>>

Requester(r) ==
    \/ RequesterLocksLog(r) \/ Report(r)
    \/ ReadName(r) \/ CloseFile(r) \/ FinishRequester(r)
    \/ RequesterLocksRead(r) \/ RequesterLocksWrite(r)
    \/ TestFull(r) \/ AddItem(r) \/ MoveTail(r) \/ RequesterUnlocks(r)
------------------------------------------------------------------------------
(* RESOLVE_THREAD                                                          *)

\* The loop condition reads what the thread itself saw last time, and the flag.
Check(t) ==
    /\ At(t, "check")
    /\ Goto(t, IF ~empty[t] \/ ~req_th_done THEN "enterRead" ELSE "done")
    /\ UNCHANGED <<ringVars, mainVars, lock, readCount, localVars, ioVars>>

ResolverLocksRead(t)  == LockStep(t, "enterRead", "read_mutex", "enterMutex")
ResolverLocksMutex(t) == LockStep(t, "enterMutex", "mutex", "count")

\* Mutant: the resolver forgets to count itself.
ForgetsToCount(t) ==
    /\ At(t, "count")
    /\ Goto(t, "admit")
    /\ UNCHANGED <<ringVars, mainVars, lock, readCount, localVars, ioVars>>

\* Mutant: the count is tested before it is increased.
TestsOldCount(t) ==
    /\ At(t, "count")
    /\ readCount' = readCount + 1
    /\ Goto(t, IF readCount = 1 THEN "enterWrite" ELSE "admit")
    /\ UNCHANGED <<ringVars, mainVars, lock, localVars, ioVars>>

CountReader(t) ==
    /\ At(t, "count")
    /\ readCount' = readCount + 1
    /\ Goto(t, IF readCount' = 1 THEN "enterWrite" ELSE "admit")
    /\ UNCHANGED <<ringVars, mainVars, lock, localVars, ioVars>>

ResolverLocksWrite(t) == LockStep(t, "enterWrite", "write1", "admit")

\* Mutant: mutex stays locked.
AdmitKeepsMutex(t) ==
    /\ At(t, "admit")
    /\ Release({"read_mutex"})
    /\ Goto(t, "lockArray")
    /\ UNCHANGED <<ringVars, mainVars, readCount, localVars, ioVars>>

Admit(t) ==
    /\ At(t, "admit")
    /\ Release({"mutex", "read_mutex"})
    /\ Goto(t, "lockArray")
    /\ UNCHANGED <<ringVars, mainVars, readCount, localVars, ioVars>>

\* Mutant: two resolvers may be at the array at once.
SkipsArrayLock(t) ==
    /\ At(t, "lockArray")
    /\ Goto(t, "testEmpty")
    /\ UNCHANGED <<ringVars, mainVars, lock, readCount, localVars, ioVars>>

ResolverLocksArray(t) == LockStep(t, "lockArray", "shared_array_mutex", "testEmpty")

\* Mutant: EMPTY_SHARED_ARRAY is only ever reset.
NeverSeesEmpty(t) ==
    /\ At(t, "testEmpty") /\ allocated
    /\ empty' = [empty EXCEPT ![t] = FALSE]
    /\ Goto(t, IF TEST_EMPTY THEN "unlockArray" ELSE "fetchItem")
    /\ UNCHANGED <<ringVars, mainVars, lock, readCount, hostname, completed, ioVars>>

TestEmpty(t) ==
    /\ At(t, "testEmpty") /\ allocated
    /\ empty' = [empty EXCEPT ![t] = TEST_EMPTY]
    /\ Goto(t, IF TEST_EMPTY THEN "unlockArray" ELSE "fetchItem")
    /\ UNCHANGED <<ringVars, mainVars, lock, readCount, hostname, completed, ioVars>>

\* SHARED_ARRAY_REMOVE_ITEM tests again for an empty array.
RemoveItem(t) ==
    /\ At(t, "fetchItem")
    /\ IF TEST_EMPTY
       THEN Goto(t, "unlockArray") /\ UNCHANGED <<array, hostname>>
       ELSE /\ hostname' = [hostname EXCEPT ![t] = array[head]]
            /\ FetchItem
            /\ Goto(t, "advanceHead")
    /\ UNCHANGED <<allocated, head, tail, mainVars, lock, readCount, completed, empty,
                   ioVars>>

MoveHead(t) ==
    /\ At(t, "advanceHead")
    /\ AdvanceHead
    /\ Goto(t, "unlockArray")
    /\ UNCHANGED <<allocated, array, tail, mainVars, lock, readCount, localVars, ioVars>>

ResolverUnlocksArray(t) ==
    /\ At(t, "unlockArray")
    /\ Release({"shared_array_mutex"})
    /\ Goto(t, "leaveMutex")
    /\ UNCHANGED <<ringVars, mainVars, readCount, localVars, ioVars>>

ResolverLeaves(t) == LockStep(t, "leaveMutex", "mutex", "leave")

\* The last resolver out lets the requesters in.
UncountReader(t) ==
    /\ At(t, "leave")
    /\ readCount' = readCount - 1
    /\ Release(IF readCount' = 0 THEN {"mutex", "write1"} ELSE {"mutex"})
    /\ Goto(t, IF hostname[t] # NULL THEN "lockError" ELSE "check")
    /\ UNCHANGED <<ringVars, mainVars, localVars, ioVars>>

ResolverLocksError(t) == LockStep(t, "lockError", "error_report", "lookup")

\* Mutant: nothing is written for a name whose lookup fails.
DropsBogusName(t) ==
    /\ At(t, "lookup")
    /\ LET n == hostname[t]
       IN  results' = IF Address[n] = FAILED THEN results
                      ELSE Append(results, <<n, Address[n]>>)
    /\ hostname' = [hostname EXCEPT ![t] = NULL]
    /\ Release({"error_report"})
    /\ Goto(t, "check")
    /\ UNCHANGED <<ringVars, mainVars, readCount, completed, empty, files, serviced>>

Lookup(t) ==
    /\ At(t, "lookup")
    /\ LET n == hostname[t]
       IN  results' = Append(results,
                <<n, IF Address[n] = FAILED THEN Blank ELSE Address[n]>>)
    /\ hostname' = [hostname EXCEPT ![t] = NULL]
    /\ Release({"error_report"})
    /\ Goto(t, "check")
    /\ UNCHANGED <<ringVars, mainVars, readCount, completed, empty, files, serviced>>

Resolver(t) ==
    \/ Check(t) \/ ResolverLocksRead(t) \/ ResolverLocksMutex(t)
    \/ CountReader(t) \/ ResolverLocksWrite(t) \/ Admit(t)
    \/ ResolverLocksArray(t) \/ TestEmpty(t) \/ RemoveItem(t) \/ MoveHead(t)
    \/ ResolverUnlocksArray(t) \/ ResolverLeaves(t) \/ UncountReader(t)
    \/ ResolverLocksError(t) \/ Lookup(t)
------------------------------------------------------------------------------
(* main                                                                    *)

CreateThread ==
    /\ status = "running" /\ created < NumThreads
    /\ created' = created + 1
    /\ UNCHANGED <<ringVars, status, joined, req_th_done, pc, lock, readCount,
                   localVars, ioVars>>

\* pthread_create returns an error: exit takes every thread down.
CreateFails ==
    /\ status = "running" /\ created < NumThreads
    /\ status' = "aborted"
    /\ UNCHANGED <<ringVars, created, joined, req_th_done, pc, lock, readCount,
                   localVars, ioVars>>

JoinRequester ==
    /\ status = "running" /\ created = NumThreads
    /\ joined < NumReq
    /\ pc[joined + 1] = "done"
    /\ joined' = joined + 1
    /\ UNCHANGED <<ringVars, status, created, req_th_done, pc, lock, readCount,
                   localVars, ioVars>>

SetDone ==
    /\ status = "running" /\ created = NumThreads
    /\ joined = NumReq /\ ~req_th_done
    /\ req_th_done' = TRUE
    /\ UNCHANGED <<ringVars, status, created, joined, pc, lock, readCount,
                   localVars, ioVars>>

JoinResolver ==
    /\ status = "running" /\ created = NumThreads
    /\ req_th_done
    /\ joined \in NumReq .. NumThreads - 1
    /\ pc[joined + 1] = "done"
    /\ joined' = joined + 1
    /\ UNCHANGED <<ringVars, status, created, req_th_done, pc, lock, readCount,
                   localVars, ioVars>>

\* Mutant: main does not wait for the resolvers.
FinishUnjoined ==
    /\ status = "running" /\ req_th_done
    /\ SHARED_ARRAY_CLEAR
    /\ status' = "done"
    /\ UNCHANGED <<created, joined, req_th_done, pc, lock, readCount, localVars,
                   ioVars>>

\* What is still in the array is thrown away, and main returns.
Finish ==
    /\ status = "running" /\ req_th_done /\ joined = NumThreads
    /\ SHARED_ARRAY_CLEAR
    /\ status' = "done"
    /\ UNCHANGED <<created, joined, req_th_done, pc, lock, readCount, localVars,
                   ioVars>>

Main == \/ CreateThread \/ CreateFails
        \/ JoinRequester \/ SetDone \/ JoinResolver \/ Finish

------------------------------------------------------------------------------
(* What is used without a look at whether it is there                      *)

Undefined == /\ status = "running" /\ status' = "undefined"
             /\ UNCHANGED <<ringVars, created, joined, req_th_done, pc, lock, readCount,
                            localVars, ioVars>>

MainEnds == req_th_done /\ joined = NumThreads

\* main has gone on without the shared array: the first to look into it strays.
Strays ==
    /\ ~allocated
    /\ \/ \E r \in Requesters : At(r, "testFull")
       \/ \E t \in Resolvers : At(t, "testEmpty")
       \/ MainEnds
    /\ Undefined

\* A requester writes to serviced.txt, copies a name into new memory, or writes to
\* performance.txt at its end; a resolver clears its IP_LIST, or comes to its end.
RequesterUses(r) == \/ At(r, "report") \/ At(r, "storeItem")
                    \/ At(r, "scan") /\ files[r] = << >>
ResolverUses(t)  == \/ At(t, "lookup")
                    \/ At(t, "check") /\ empty[t] /\ req_th_done

\* The file or the memory for it is not there.
LacksResource ==
    /\ \/ \E r \in Requesters : RequesterUses(r)
       \/ \E t \in Resolvers : ResolverUses(t)
       \/ MainEnds
    /\ Undefined

Terminated == status # "running" /\ UNCHANGED vars

Next == \/ Main
        \/ \E r \in Requesters : Requester(r)
        \/ \E t \in Resolvers : Resolver(t)
        \/ Strays \/ LacksResource
        \/ Terminated

Spec == Init /\ [][Next]_vars

\* main runs on, and a thread is not passed over for ever: not by the scheduler,
\* and not at a mutex that is free again and again.
Fairness == /\ WF_vars(Main) /\ WF_vars(Strays)
            /\ \A r \in Requesters : SF_vars(Requester(r))
            /\ \A t \in Resolvers : SF_vars(Resolver(t))

FairSpec == Spec /\ Fairness
------------------------------------------------------------------------------
(* Safety                                                                  *)

TypeOK ==
    /\ RingTypeOK
    /\ allocated \in BOOLEAN
    /\ status \in {"running", "done", "aborted", "undefined"}
    /\ created \in 0 .. NumThreads
    /\ joined \in 0 .. NumThreads
    /\ req_th_done \in BOOLEAN
    /\ pc \in [Threads -> RequesterLabels \cup ResolverLabels]
    /\ \A r \in Requesters : pc[r] \in RequesterLabels
    /\ \A t \in Resolvers : pc[t] \in ResolverLabels
    /\ lock \in [Mutexes -> Threads \cup {NoThread}]
    /\ readCount \in Nat
    /\ files \in [Requesters -> Seq(File)]
    /\ hostname \in [Threads -> Names \cup {NULL}]
    /\ completed \in [Requesters -> BOOLEAN]
    /\ empty \in [Resolvers -> BOOLEAN]
    /\ serviced \subseteq Requesters \X Nat
    /\ results \in Seq(Names \X (Answers \cup {Blank}))

\* The labels between the acquisition and the release of a mutex.
Section ==
    [m \in Mutexes |->
        CASE m = "read_mutex" -> {"lockWrite", "testFull", "storeItem",
                 "advanceTail", "unlock", "enterMutex", "count", "enterWrite", "admit"}
          [] m = "write1" -> {"testFull", "storeItem", "advanceTail", "unlock"}
          [] m = "mutex" -> {"count", "enterWrite", "admit", "leave"}
          [] m = "shared_array_mutex" -> {"testEmpty", "fetchItem", "advanceHead",
                 "unlockArray"}
          [] m = "error_report" -> {"lookup"}
          [] m = "write2" -> {"report"}]

\* The resolvers counted in readCount, and those of them behind write1.
Admitted == {t \in Resolvers :
                pc[t] \in {"admit", "lockArray", "testEmpty", "fetchItem",
                           "advanceHead", "unlockArray", "leaveMutex", "leave"}}
Entering == {t \in Resolvers : pc[t] = "enterWrite"}
Readers  == Admitted \cup Entering

\* Every mutex has exactly the owner its sections say.  In particular whoever
\* unlocks a mutex owns it, except write1, which the resolvers own as a group.
PlainLocks == \A t \in Threads, m \in Mutexes \ {"write1"} :
                 pc[t] \in Section[m] <=> lock[m] = t
WriteLock  == /\ \A r \in Requesters : pc[r] \in Section["write1"] <=> lock["write1"] = r
              /\ Admitted # {} <=> lock["write1"] \in Resolvers
LockInv    == PlainLocks /\ WriteLock

\* readCount counts the resolvers between its two updates, and one that waits
\* for write1 is alone among them: nobody is inside while the first one waits.
ReaderInv ==
    /\ readCount = Cardinality(Readers)
    /\ \A t \in Entering : Readers = {t}

\* A resolver looks up a name only when it has taken one.
Named == \A t \in Resolvers : pc[t] \in {"lockError", "lookup"} => hostname[t] # NULL

\* The array is in the hands of one requester or of one resolver: the
\* readers/writer protocol around SHARED_ARRAY leaves no two threads at it.
AtArray == {t \in Threads : pc[t] \in {"testFull", "storeItem", "advanceTail",
                                       "testEmpty", "fetchItem", "advanceHead"}}
Exclusion == \A t, u \in AtArray : t = u
------------------------------------------------------------------------------
(* The array as its users see it: an item is in the queue from the write   *)
(* of its slot to the write of NULL over it, whatever the index says yet.  *)

EffectiveTail == IF \E r \in Requesters : pc[r] = "advanceTail"
                 THEN Successor(tail) ELSE tail
EffectiveHead == IF \E t \in Resolvers : pc[t] = "advanceHead"
                 THEN Successor(head) ELSE head

\* The threads together use the array as a bounded first-in first-out queue: each
\* of their steps appends one item, takes the oldest, or leaves the queue alone.
SharedQueue == INSTANCE BoundedQueue
               WITH Items <- Names, Capacity <- MaxSize,
                    queue <- Contents(EffectiveHead, EffectiveTail)

SharedIsQueue == SharedQueue!Spec
------------------------------------------------------------------------------
(* Liveness                                                                *)

\* The program ends: no thread waits for ever for a mutex, for room in the array
\* or for a thread that never ends.
Termination == <>(status # "running")

\* A name a resolver has taken out of the array is written to the output file,
\* unless the program is aborted or comes to use what is not there.
TakenIsWritten ==
    \A t \in Resolvers, n \in Names :
        hostname[t] = n ~> \/ \E i \in DOMAIN results : results[i][1] = n
                           \/ status \in {"aborted", "undefined"}
==============================================================================

------------------------------ MODULE ByteFile ------------------------------
(***************************************************************************)
(* What a device with a buffer promises the processes that have it open:   *)
(* one array of bytes, and a cursor for each open file.  A transfer is a   *)
(* request for bytes that lie in the array, and hands over byte after      *)
(* byte, each read or stored at the cursor, which moves on by one.  A read *)
(* may end anywhere; a write stores zeros in what is left of its request   *)
(* when the bytes run out, and leaves the cursor in front of them.         *)
(* Between transfers a cursor may be put anywhere, also outside the array. *)
(* Transfers of different files may overlap.                               *)
(***************************************************************************)
EXTENDS Integers

CONSTANTS Users,      \* the open files
          Bytes, ZERO, Size

VARIABLES contents,   \* the bytes of the device, at 0 .. Size - 1
          cursor,     \* the cursor of each file
          doing,      \* what each file does: "nothing", "reading" or "writing"
          left,       \* how much of its request is still to come
          zeros,      \* how much of it was not handed over, and is cleared
          last        \* the byte each file has read last

vars == <<contents, cursor, doing, left, zeros, last>>

Init == /\ cursor \in [Users -> Int]
        /\ doing = [u \in Users |-> "nothing"]
        /\ left = [u \in Users |-> 0] /\ zeros = [u \in Users |-> 0]
        /\ last \in [Users -> Bytes]

\* The device is made ready, with bytes nobody has chosen, while nobody uses it.
Load == /\ \A u \in Users : doing[u] = "nothing"
        /\ UNCHANGED <<cursor, doing, left, zeros, last>>

Move(u) == /\ doing[u] = "nothing"
           /\ cursor' = [cursor EXCEPT ![u] = cursor'[u]]
           /\ UNCHANGED <<contents, doing, left, zeros, last>>

\* A request for nothing may be made anywhere.
Begin(u) == /\ doing[u] = "nothing"
            /\ \E mode \in {"reading", "writing"} : doing' = [doing EXCEPT ![u] = mode]
            /\ \E n \in 0 .. Size : /\ n > 0 => cursor[u] >= 0 /\ cursor[u] + n <= Size
                                    /\ left' = [left EXCEPT ![u] = n]
            /\ UNCHANGED <<contents, cursor, zeros, last>>

Finish(u) == /\ doing[u] = "reading" \/ (doing[u] = "writing" /\ left[u] = 0)
             /\ doing' = [doing EXCEPT ![u] = "nothing"]
             /\ left' = [left EXCEPT ![u] = 0] /\ zeros' = [zeros EXCEPT ![u] = 0]
             /\ UNCHANGED <<contents, cursor, last>>

Takes(u, mode) == /\ doing[u] = mode /\ left[u] > 0
                  /\ left' = [left EXCEPT ![u] = @ - 1]
                  /\ UNCHANGED doing

Get(u) == /\ Takes(u, "reading")
          /\ last' = [last EXCEPT ![u] = contents[cursor[u]]]
          /\ cursor' = [cursor EXCEPT ![u] = @ + 1]
          /\ UNCHANGED <<contents, zeros>>

Put(u) == /\ Takes(u, "writing") /\ zeros[u] = 0
          /\ \E v \in Bytes : contents' = [contents EXCEPT ![cursor[u]] = v]
          /\ cursor' = [cursor EXCEPT ![u] = @ + 1]
          /\ UNCHANGED <<zeros, last>>

Clear(u) == /\ Takes(u, "writing")
            /\ contents' = [contents EXCEPT ![cursor[u] + zeros[u]] = ZERO]
            /\ zeros' = [zeros EXCEPT ![u] = @ + 1]
            /\ UNCHANGED <<cursor, last>>

Next == \/ Load
        \/ \E u \in Users : Move(u) \/ Begin(u) \/ Finish(u) \/ Get(u) \/ Put(u) \/ Clear(u)

Spec == Init /\ [][Next]_vars
=============================================================================

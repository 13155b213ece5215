----------------------------- MODULE CharDriver -----------------------------
(***************************************************************************)
(* simple_char_driver.c: a buffer of BUFF_SIZE bytes behind a device file. *)
(* Every process that opens it has a position of its own; the buffer and   *)
(* the two counters are shared by all of them and by no lock.              *)
(*                                                                         *)
(* The copy between buffer and process goes byte by byte, may be overtaken *)
(* by the copies of other processes, and may stop short: copy_to_user and  *)
(* copy_from_user return how much is left, and what copy_from_user has not *)
(* stored it clears, up to the end of the request.  The kernel around the  *)
(* driver is modelled from how the driver uses it: it hands read and write *)
(* a copy of the position and takes it back at the end, refuses a transfer *)
(* at a negative position or of more than an int can count, and unloads    *)
(* the module only while no file is open.                                  *)
(*                                                                         *)
(* A transfer that would leave the buffer ends the model: nothing can be   *)
(* said of what follows.                                                   *)
(***************************************************************************)
EXTENDS Integers, FiniteSets

CONSTANTS Files,        \* the files processes may open
          Bytes, ZERO,
          BUFF_SIZE,
          Lengths,      \* the lengths asked for
          Offsets,      \* the offsets of seeks
          IntBits,      \* bits of an int
          SizeBits,     \* bits of a size_t
          MaxBefore,    \* bound: no position goes further in front of the buffer,
          MaxBehind,    \* bound: nor further behind it
          MaxOpens      \* bound on the opens of a loaded module

Places == 0 .. BUFF_SIZE - 1

IntHalf == 2^(IntBits - 1)

ASSUME DriverAssumption ==
    /\ MaxBefore \in Nat /\ MaxBehind \in Nat /\ MaxOpens \in Nat
    /\ IntHalf \in Nat \ {0} /\ 2^SizeBits \in Nat /\ 2 * IntHalf <= 2^SizeBits
    /\ BUFF_SIZE \in Nat \ {0} /\ BUFF_SIZE < IntHalf
    /\ ZERO \in Bytes /\ Offsets \subseteq Int
    /\ Lengths \subseteq 0 .. IntHalf - 1

VARIABLES
    loaded,        \* is the module there
    allocated,     \* device_buff is not NULL
    device_buff,   \* its bytes
    open_Count, close_Count,
    stage,         \* where each file is: "closed", "open", "reading", ...
    f_pos,         \* the position of each file
    counter,       \* what an open or close has read of its counter
    amount,        \* BYTES_TO_READ or BYTES_TO_WRITE
    copied,        \* bytes of it that are over
    cleared,       \* bytes of it that are cleared, because the copy has stopped short
    delivered,     \* the last byte the process of each file has read
    opens          \* the opens of the loaded module, for the bound

counts  == <<open_Count, close_Count, counter, opens>>
moving  == <<amount, copied, cleared, delivered>>
vars    == <<loaded, allocated, device_buff, stage, f_pos, counts, moving>>
------------------------------------------------------------------------------
Init == /\ loaded = FALSE /\ allocated = FALSE
        /\ device_buff \in [Places -> Bytes]
        /\ open_Count = 0 /\ close_Count = 0 /\ opens = 0
        /\ stage = [f \in Files |-> "closed"]
        /\ f_pos = [f \in Files |-> 0]
        /\ counter = [f \in Files |-> 0]
        /\ amount = [f \in Files |-> 0] /\ copied = [f \in Files |-> 0]
        /\ cleared = [f \in Files |-> 0]
        /\ delivered \in [Files -> Bytes]

\* kmalloc does not clear the memory, and its result is not looked at.  (Nor is the one
\* of register_chrdev, without which nothing is opened.)
simple_char_driver_init ==
    /\ ~loaded
    /\ loaded' = TRUE /\ allocated' \in BOOLEAN
    /\ device_buff' \in [Places -> Bytes]
    /\ open_Count' = 0 /\ close_Count' = 0 /\ opens' = 0
    /\ UNCHANGED <<stage, f_pos, counter, moving>>

simple_char_driver_exit ==
    /\ loaded /\ \A f \in Files : stage[f] = "closed"
    /\ loaded' = FALSE /\ allocated' = FALSE
    /\ UNCHANGED <<device_buff, stage, f_pos, counts, moving>>

At(f, s) == stage[f] = s /\ \A g \in Files : stage[g] # "outside"
Goes(f, s) == stage' = [stage EXCEPT ![f] = s]

\* open_Count++ reads the counter and writes it back.
OpenReads(f) ==
    /\ loaded /\ At(f, "closed") /\ opens < MaxOpens
    /\ counter' = [counter EXCEPT ![f] = open_Count] /\ opens' = opens + 1
    /\ Goes(f, "opening")
    /\ UNCHANGED <<loaded, allocated, device_buff, f_pos, open_Count,
                   close_Count, moving>>

simple_char_driver_open(f) ==
    /\ At(f, "opening")
    /\ open_Count' = counter[f] + 1 /\ counter' = [counter EXCEPT ![f] = 0]
    /\ f_pos' = [f_pos EXCEPT ![f] = 0]
    /\ Goes(f, "open")
    /\ UNCHANGED <<loaded, allocated, device_buff, close_Count, opens, moving>>

CloseReads(f) ==
    /\ At(f, "open")
    /\ counter' = [counter EXCEPT ![f] = close_Count]
    /\ Goes(f, "closing")
    /\ UNCHANGED <<loaded, allocated, device_buff, f_pos, open_Count,
                   close_Count, opens, moving>>

simple_char_driver_close(f) ==
    /\ At(f, "closing")
    /\ close_Count' = counter[f] + 1 /\ counter' = [counter EXCEPT ![f] = 0]
    /\ Goes(f, "closed")
    /\ UNCHANGED <<loaded, allocated, device_buff, f_pos, open_Count, opens,
                   moving>>
------------------------------------------------------------------------------
\* SEEK_SET, SEEK_CUR, SEEK_END, and any other whence.
new_offset(f, offset) == {offset, f_pos[f] + offset, BUFF_SIZE - offset, 0}

\* What is out of range is reported, and taken all the same.
simple_char_driver_seek(f) ==
    /\ At(f, "open")
    /\ \E offset \in Offsets : \E to \in new_offset(f, offset) :
          /\ to \in -MaxBefore .. BUFF_SIZE + MaxBehind
          /\ f_pos' = [f_pos EXCEPT ![f] = to]
    /\ UNCHANGED <<loaded, allocated, device_buff, stage, counts, moving>>

\* What is left of n in an int, and of an int in a size_t.
AsInt(n)  == ((n + IntHalf) % (2 * IntHalf)) - IntHalf
AsSize(n) == n % 2^SizeBits

MAX_BYTES(f) == AsInt(BUFF_SIZE - f_pos[f])

\* Mutant: the comparison is one of signed numbers.
BytesSigned(f, length) == IF MAX_BYTES(f) > length THEN length ELSE MAX_BYTES(f)

\* BYTES_TO_READ and BYTES_TO_WRITE: the comparison is one of unsigned numbers.
BytesToMove(f, length) == IF AsSize(MAX_BYTES(f)) > length THEN length ELSE MAX_BYTES(f)

InBuffer(f, n) == n = 0 \/ (allocated /\ f_pos[f] >= 0 /\ f_pos[f] + n <= BUFF_SIZE)

Starts(f, s) ==
    /\ At(f, "open") /\ f_pos[f] >= 0
    /\ \E length \in Lengths :
          LET n == BytesToMove(f, length)
          IN  /\ amount' = [amount EXCEPT ![f] = n]
              /\ Goes(f, IF InBuffer(f, n) THEN s ELSE "outside")
    /\ UNCHANGED <<loaded, allocated, device_buff, f_pos, copied, cleared, delivered,
                   counts>>

\* Local variables are 0 when they are not in use.
Returns(f) ==
    /\ amount' = [amount EXCEPT ![f] = 0]
    /\ copied' = [copied EXCEPT ![f] = 0] /\ cleared' = [cleared EXCEPT ![f] = 0]
    /\ Goes(f, "open")
    /\ UNCHANGED <<loaded, allocated, device_buff, delivered, counts>>

\* A read may give up at any byte; a write is over when its whole request is stored or
\* cleared.
IsOver(f, s) == s = "writing" => copied[f] + cleared[f] = amount[f]

\* Mutant: the position moves by what was asked for, not by what came over.
EndsWithAll(f, s) ==
    /\ At(f, s) /\ IsOver(f, s)
    /\ f_pos' = [f_pos EXCEPT ![f] = @ + amount[f]]
    /\ Returns(f)

\* *offset += what was copied.
Ends(f, s) ==
    /\ At(f, s) /\ IsOver(f, s)
    /\ f_pos' = [f_pos EXCEPT ![f] = @ + copied[f]]
    /\ Returns(f)

copy_to_user(f) ==
    /\ At(f, "reading") /\ copied[f] < amount[f]
    /\ delivered' = [delivered EXCEPT ![f] = device_buff[f_pos[f] + copied[f]]]
    /\ copied' = [copied EXCEPT ![f] = @ + 1]
    /\ UNCHANGED <<loaded, allocated, device_buff, stage, f_pos, counts, amount, cleared>>

copy_from_user(f) ==
    /\ At(f, "writing") /\ copied[f] < amount[f] /\ cleared[f] = 0
    /\ \E v \in Bytes :
          device_buff' = [device_buff EXCEPT ![f_pos[f] + copied[f]] = v]
    /\ copied' = [copied EXCEPT ![f] = @ + 1]
    /\ UNCHANGED <<loaded, allocated, stage, f_pos, counts, amount, cleared, delivered>>

\* The memory of the process ends short of the request: the rest of it becomes zeros.
clear_rest(f) ==
    /\ At(f, "writing") /\ copied[f] + cleared[f] < amount[f]
    /\ device_buff' = [device_buff EXCEPT ![f_pos[f] + copied[f] + cleared[f]] = ZERO]
    /\ cleared' = [cleared EXCEPT ![f] = @ + 1]
    /\ UNCHANGED <<loaded, allocated, stage, f_pos, counts, amount, copied, delivered>>

simple_char_driver_read(f) ==
    Starts(f, "reading") \/ copy_to_user(f) \/ Ends(f, "reading")

simple_char_driver_write(f) ==
    Starts(f, "writing") \/ copy_from_user(f) \/ clear_rest(f) \/ Ends(f, "writing")

Next == \/ simple_char_driver_init \/ simple_char_driver_exit
        \/ \E f \in Files : \/ OpenReads(f)  \/ simple_char_driver_open(f)
                            \/ CloseReads(f) \/ simple_char_driver_close(f)
                            \/ simple_char_driver_seek(f)
                            \/ simple_char_driver_read(f) \/ simple_char_driver_write(f)

Spec == Init /\ [][Next]_vars
------------------------------------------------------------------------------
(* Properties                                                              *)

Stages == {"closed", "opening", "open", "reading", "writing", "closing", "outside"}

Busy(f) == stage[f] \in {"reading", "writing"}

TypeOK ==
    /\ loaded \in BOOLEAN /\ allocated \in BOOLEAN
    /\ device_buff \in [Places -> Bytes]
    /\ open_Count \in Nat /\ close_Count \in Nat /\ opens \in Nat
    /\ stage \in [Files -> Stages]
    /\ f_pos \in [Files -> Int] /\ counter \in [Files -> Nat]
    /\ amount \in [Files -> Nat] /\ copied \in [Files -> Nat]
    /\ cleared \in [Files -> Nat] /\ delivered \in [Files -> Bytes]

\* Read and write never leave the buffer by themselves: a transfer goes outside only at
\* a position that a seek has put outside (or without any memory), and as long as it is
\* inside the copies of all processes are inside, and what is cleared behind a copy that
\* stops short, however they overlap.
OnlySeekLeaves ==
    /\ \A f \in Files : stage[f] = "outside" => ~allocated \/ f_pos[f] > BUFF_SIZE
    /\ \A f \in Files : Busy(f) =>
          /\ copied[f] + cleared[f] <= amount[f] /\ f_pos[f] >= 0
          /\ amount[f] > 0 => f_pos[f] + amount[f] <= BUFF_SIZE

\* The device is an array of bytes with a cursor per file: every byte is read or stored
\* at the cursor of its file, a transfer that was cut short or overtaken by others leaves
\* the position behind the last byte that came over, and a write that was cut short has
\* cleared the rest of its own request and no other byte.
AsByteFile == INSTANCE ByteFile
    WITH Users <- Files, Size <- BUFF_SIZE, contents <- device_buff,
         cursor <- [f \in Files |-> f_pos[f] + IF Busy(f) THEN copied[f] ELSE 0],
         doing <- [f \in Files |-> IF Busy(f) THEN stage[f] ELSE "nothing"],
         left <- [f \in Files |->
                     IF Busy(f) THEN amount[f] - copied[f] - cleared[f] ELSE 0],
         zeros <- cleared, last <- delivered

IsByteFile == AsByteFile!Spec
=============================================================================

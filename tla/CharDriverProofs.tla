-------------------------- MODULE CharDriverProofs --------------------------
(***************************************************************************)
(* The driver keeps its promise to any number of processes: read and write *)
(* stay in the buffer by themselves, the device is a ByteFile, and the     *)
(* counters, which no lock protects, count nothing that did not happen.    *)
(***************************************************************************)
EXTENDS CharDriver, FiniteSetTheorems, TLAPS

USE DEF counts, moving

\* No file is open in a module that is not loaded; only a transfer has a count of
\* copied and cleared bytes, and only a write clears.
Kept ==
    /\ ~loaded => \A f \in Files : stage[f] = "closed"
    /\ \A f \in Files : ~Busy(f) => copied[f] = 0
    /\ \A f \in Files : stage[f] # "writing" => cleared[f] = 0

DriverInv == TypeOK /\ OnlySeekLeaves /\ Kept
------------------------------------------------------------------------------
(* How much a transfer moves                                                *)

LEMMA Sizes == BUFF_SIZE \in Nat /\ BUFF_SIZE > 0 /\ ZERO \in Bytes
BY DriverAssumption

\* The value of an int as a size_t.
LEMMA SizeValue ==
    ASSUME NEW n \in Int, NEW M \in Nat, -M <= n, n < M
    PROVE  n % M = IF n >= 0 THEN n ELSE n + M
OBVIOUS

\* What of a wider number is left in an int: the number itself, when it fits.
LEMMA IntValue ==
    ASSUME NEW n \in Int
    PROVE  /\ AsInt(n) \in Int /\ -IntHalf <= AsInt(n) /\ AsInt(n) < IntHalf
           /\ -IntHalf <= n /\ n < IntHalf => AsInt(n) = n
<1> DEFINE H == IntHalf
           m == (n + H) % (2 * H)
<1>1. H \in Nat /\ H > 0
  BY DriverAssumption
<1>2. AsInt(n) = m - H
  BY DEF AsInt
<1> HIDE DEF H
<1>3. m \in Int /\ 0 <= m /\ m < 2 * H
  BY <1>1
<1>4. ASSUME -H <= n, n < H PROVE m = n + H
  <2>1. -(2 * H) <= n + H /\ n + H < 2 * H /\ 2 * H \in Nat /\ n + H \in Int
    BY <1>1, <1>4
  <2> QED BY <1>1, <1>4, <2>1, SizeValue
<1> HIDE DEF m
<1> QED BY <1>1, <1>2, <1>3, <1>4 DEF H

\* Inside the buffer the request is cut to what is left of it; behind the buffer it is
\* not cut, where MAX_BYTES is negative and a large unsigned number, or cut to whatever
\* an int makes of the distance.
LEMMA BytesMoved ==
    ASSUME NEW f \in Files, f_pos[f] \in Nat, NEW length \in Lengths
    PROVE  /\ BytesToMove(f, length) \in Nat
           /\ f_pos[f] <= BUFF_SIZE => f_pos[f] + BytesToMove(f, length) <= BUFF_SIZE
<1> DEFINE n == BUFF_SIZE - f_pos[f]
           H == IntHalf
           M == 2^SizeBits
           most == MAX_BYTES(f)
<1>1. /\ BUFF_SIZE \in Nat /\ H \in Nat /\ M \in Nat /\ BUFF_SIZE < H /\ 2 * H <= M
      /\ length \in Nat /\ length < H
  BY DriverAssumption
<1>2. n \in Int /\ most = AsInt(n)
  BY <1>1 DEF MAX_BYTES
<1>3. /\ most \in Int /\ -H <= most /\ most < H
      /\ -H <= n /\ n < H => most = n
  BY <1>2, IntValue
<1>4. BytesToMove(f, length) = IF most % M > length THEN length ELSE most
  BY DEF BytesToMove, AsSize
<1> HIDE DEF n, H, M, most
<1>5. most % M = IF most >= 0 THEN most ELSE most + M
  <2>1. -M <= most /\ most < M
    BY <1>1, <1>3
  <2> QED BY <1>1, <1>3, <2>1, SizeValue
<1>6. BytesToMove(f, length) = IF most < 0 \/ most > length THEN length ELSE most
  BY <1>1, <1>3, <1>4, <1>5
<1>7. ASSUME f_pos[f] <= BUFF_SIZE PROVE most = n /\ n >= 0
  BY <1>1, <1>3, <1>7 DEF n
<1> QED BY <1>1, <1>3, <1>6, <1>7 DEF n
------------------------------------------------------------------------------
(* The invariant                                                            *)

LEMMA DriverInit == Init => DriverInv
<1> SUFFICES ASSUME Init PROVE DriverInv
  OBVIOUS
<1>1. TypeOK
  <2>1. loaded \in BOOLEAN /\ allocated \in BOOLEAN
    BY DEF Init
  <2>2. stage \in [Files -> Stages]
    BY DEF Init, Stages
  <2>3. /\ f_pos \in [Files -> Int] /\ counter \in [Files -> Nat]
        /\ amount \in [Files -> Nat] /\ copied \in [Files -> Nat]
        /\ cleared \in [Files -> Nat]
    BY DEF Init
  <2> QED BY <2>1, <2>2, <2>3 DEF Init, TypeOK
<1>2. OnlySeekLeaves /\ Kept
  BY Sizes DEF Init, OnlySeekLeaves, Kept, Busy
<1> QED BY <1>1, <1>2 DEF DriverInv

LEMMA ModuleStep ==
    ASSUME DriverInv, simple_char_driver_init \/ simple_char_driver_exit
    PROVE  DriverInv'
<1>1. TypeOK'
  <2>1. loaded' \in BOOLEAN /\ allocated' \in BOOLEAN
    BY DEF simple_char_driver_init, simple_char_driver_exit
  <2> QED BY <2>1 DEF DriverInv, TypeOK, simple_char_driver_init, simple_char_driver_exit
<1>2. OnlySeekLeaves' /\ Kept'
  BY DEF DriverInv, OnlySeekLeaves, Kept, Busy, simple_char_driver_init,
         simple_char_driver_exit
<1> QED BY <1>1, <1>2 DEF DriverInv

LEMMA OpenCloseStep ==
    ASSUME DriverInv, NEW f \in Files,
           \/ OpenReads(f) \/ simple_char_driver_open(f)
           \/ CloseReads(f) \/ simple_char_driver_close(f)
    PROVE  DriverInv'
<1> USE Sizes DEF DriverInv, At, Goes
<1>1. TypeOK'
  BY DEF TypeOK, Stages, OpenReads, simple_char_driver_open, CloseReads,
         simple_char_driver_close
<1>2. OnlySeekLeaves'
  BY DEF TypeOK, OnlySeekLeaves, Busy, OpenReads, simple_char_driver_open, CloseReads,
         simple_char_driver_close
<1>3. Kept'
  BY DEF TypeOK, Kept, Busy, OpenReads, simple_char_driver_open, CloseReads,
         simple_char_driver_close
<1> QED BY <1>1, <1>2, <1>3

LEMMA SeekStep ==
    ASSUME DriverInv, NEW f \in Files, simple_char_driver_seek(f)
    PROVE  DriverInv'
<1> USE Sizes DEF DriverInv, At
<1>1. PICK to \in -MaxBefore .. BUFF_SIZE + MaxBehind : f_pos' = [f_pos EXCEPT ![f] = to]
  BY DEF simple_char_driver_seek
<1>2. to \in Int
  OBVIOUS
<1>3. /\ stage[f] = "open"
      /\ UNCHANGED <<loaded, allocated, device_buff, stage, counts, moving>>
  BY DEF simple_char_driver_seek
<1> QED BY <1>1, <1>2, <1>3 DEF TypeOK, OnlySeekLeaves, Kept, Busy

LEMMA StartStep ==
    ASSUME DriverInv, NEW f \in Files, NEW s \in {"reading", "writing"}, Starts(f, s)
    PROVE  DriverInv'
<1> USE DEF DriverInv, At, Goes
<1>1. PICK length \in Lengths :
         /\ amount' = [amount EXCEPT ![f] = BytesToMove(f, length)]
         /\ stage' = [stage EXCEPT ![f] = IF InBuffer(f, BytesToMove(f, length))
                                          THEN s ELSE "outside"]
  BY DEF Starts
<1> DEFINE n == BytesToMove(f, length)
<1>2. /\ stage[f] = "open" /\ f_pos[f] >= 0 /\ \A g \in Files : stage[g] # "outside"
      /\ UNCHANGED <<loaded, allocated, device_buff, f_pos, copied, cleared, delivered, counts>>
  BY DEF Starts
<1>3. f_pos[f] \in Nat /\ BUFF_SIZE \in Nat
  BY <1>2, DriverAssumption DEF TypeOK
<1>4. n \in Nat /\ (f_pos[f] <= BUFF_SIZE => f_pos[f] + n <= BUFF_SIZE)
  BY <1>3, BytesMoved
<1>5. copied[f] = 0 /\ cleared[f] = 0
  BY <1>2 DEF Kept, Busy
<1> HIDE DEF n
<1>6. amount' = [amount EXCEPT ![f] = n]
  BY <1>1 DEF n
<1>7. \/ InBuffer(f, n) /\ stage' = [stage EXCEPT ![f] = s]
      \/ ~InBuffer(f, n) /\ stage' = [stage EXCEPT ![f] = "outside"]
  BY <1>1 DEF n
<1>8. TypeOK'
  BY <1>2, <1>4, <1>6, <1>7 DEF TypeOK, Stages
<1>9. OnlySeekLeaves'
  BY <1>2, <1>3, <1>4, <1>5, <1>6, <1>7 DEF TypeOK, OnlySeekLeaves, Busy, InBuffer
<1>10. Kept'
  BY <1>2, <1>5, <1>7 DEF TypeOK, Kept, Busy
<1> QED BY <1>8, <1>9, <1>10

LEMMA EndStep ==
    ASSUME DriverInv, NEW f \in Files, NEW s \in {"reading", "writing"}, Ends(f, s)
    PROVE  DriverInv'
<1> USE Sizes DEF DriverInv, At, Goes
<1>1. /\ stage[f] = s /\ stage' = [stage EXCEPT ![f] = "open"]
      /\ f_pos' = [f_pos EXCEPT ![f] = @ + copied[f]]
      /\ amount' = [amount EXCEPT ![f] = 0] /\ copied' = [copied EXCEPT ![f] = 0]
      /\ cleared' = [cleared EXCEPT ![f] = 0]
      /\ UNCHANGED <<loaded, allocated, device_buff, delivered, counts>>
  BY DEF Ends, Returns
<1>2. copied[f] \in Nat /\ f_pos[f] \in Int
  BY DEF TypeOK
<1>3. f_pos[f] + copied[f] \in Int
  BY <1>2
<1>4. TypeOK'
  BY <1>1, <1>3 DEF TypeOK, Stages
<1>5. OnlySeekLeaves'
  BY <1>1 DEF TypeOK, OnlySeekLeaves, Busy
<1>6. Kept'
  BY <1>1, <1>3 DEF TypeOK, Kept, Busy
<1> QED BY <1>4, <1>5, <1>6

\* The next byte a transfer touches, stored, read or cleared, is one of the buffer.
LEMMA CopyStep ==
    ASSUME DriverInv, NEW f \in Files,
           copy_to_user(f) \/ copy_from_user(f) \/ clear_rest(f)
    PROVE  /\ DriverInv' /\ Busy(f)
           /\ f_pos[f] + copied[f] + cleared[f] \in Places
<1> USE Sizes DEF DriverInv, At
<1>1. /\ stage[f] \in {"reading", "writing"} /\ copied[f] + cleared[f] < amount[f]
      /\ UNCHANGED <<loaded, allocated, stage, f_pos, counts, amount>>
      /\ \/ copied' = [copied EXCEPT ![f] = @ + 1] /\ UNCHANGED cleared
         \/ /\ stage[f] = "writing"
            /\ cleared' = [cleared EXCEPT ![f] = @ + 1] /\ UNCHANGED copied
  BY DEF copy_to_user, copy_from_user, clear_rest, Kept, TypeOK
<1>2. Busy(f) /\ f_pos[f] >= 0 /\ (amount[f] > 0 => f_pos[f] + amount[f] <= BUFF_SIZE)
  BY <1>1 DEF OnlySeekLeaves, Busy
<1>3. f_pos[f] \in Int /\ copied[f] \in Nat /\ cleared[f] \in Nat /\ amount[f] \in Nat
  BY DEF TypeOK
<1>4. f_pos[f] + copied[f] + cleared[f] \in Places
  BY <1>1, <1>2, <1>3 DEF Places
<1>5. device_buff' \in [Places -> Bytes] /\ delivered' \in [Files -> Bytes]
  <2>1. CASE copy_to_user(f)
    <3>1. cleared[f] = 0
      BY <2>1 DEF Kept, copy_to_user
    <3> QED BY <1>3, <1>4, <2>1, <3>1 DEF TypeOK, copy_to_user
  <2>2. CASE copy_from_user(f)
    BY <2>2 DEF TypeOK, copy_from_user
  <2>3. CASE clear_rest(f)
    BY <2>3 DEF TypeOK, clear_rest
  <2> QED BY <2>1, <2>2, <2>3
<1>6. TypeOK'
  <2>1. loaded' \in BOOLEAN /\ allocated' \in BOOLEAN
    BY <1>1 DEF TypeOK
  <2>2. copied' \in [Files -> Nat] /\ cleared' \in [Files -> Nat]
    BY <1>1 DEF TypeOK
  <2> QED BY <1>1, <1>5, <2>1, <2>2 DEF TypeOK
<1>7. OnlySeekLeaves'
  BY <1>1, <1>3 DEF TypeOK, OnlySeekLeaves, Busy
<1>8. Kept'
  BY <1>1 DEF TypeOK, Kept, Busy
<1> QED BY <1>2, <1>4, <1>6, <1>7, <1>8

LEMMA DriverNext == DriverInv /\ [Next]_vars => DriverInv'
<1> SUFFICES ASSUME DriverInv, [Next]_vars PROVE DriverInv'
  OBVIOUS
<1>1. CASE simple_char_driver_init \/ simple_char_driver_exit
  BY <1>1, ModuleStep
<1>2. ASSUME NEW f \in Files,
             \/ OpenReads(f) \/ simple_char_driver_open(f)
             \/ CloseReads(f) \/ simple_char_driver_close(f)
      PROVE  DriverInv'
  BY <1>2, OpenCloseStep
<1>3. ASSUME NEW f \in Files, simple_char_driver_seek(f) PROVE DriverInv'
  BY <1>3, SeekStep
<1>4. ASSUME NEW f \in Files, simple_char_driver_read(f) PROVE DriverInv'
  BY <1>4, StartStep, EndStep, CopyStep DEF simple_char_driver_read
<1>5. ASSUME NEW f \in Files, simple_char_driver_write(f) PROVE DriverInv'
  BY <1>5, StartStep, EndStep, CopyStep DEF simple_char_driver_write
<1>6. CASE UNCHANGED vars
  BY <1>6 DEF vars, DriverInv, TypeOK, OnlySeekLeaves, Kept, Busy
<1> QED BY <1>1, <1>2, <1>3, <1>4, <1>5, <1>6 DEF Next

\* The inductive invariant of the driver, for any number of processes, any size of the
\* buffer and any requests.
THEOREM DriverInvariance == Spec => []DriverInv
BY DriverInit, DriverNext, PTL DEF Spec

\* Every variable keeps its type; no request for a negative amount is ever made.
THEOREM DriverTypes == Spec => []TypeOK
BY DriverInvariance, PTL DEF DriverInv

\* A transfer leaves the buffer only at a position a seek has put behind it.
THEOREM StaysInside == Spec => []OnlySeekLeaves
BY DriverInvariance, PTL DEF DriverInv
------------------------------------------------------------------------------
(* The device is a ByteFile                                                 *)

cursor == [f \in Files |-> f_pos[f] + IF Busy(f) THEN copied[f] ELSE 0]
doing  == [f \in Files |-> IF Busy(f) THEN stage[f] ELSE "nothing"]
left   == [f \in Files |-> IF Busy(f) THEN amount[f] - copied[f] - cleared[f] ELSE 0]

LEMMA FileInit == Init => AsByteFile!Init
<1> SUFFICES ASSUME Init PROVE AsByteFile!Init
  OBVIOUS
<1>1. \A f \in Files : ~Busy(f) /\ f_pos[f] = 0
  BY DEF Init, Busy
<1>2. cursor \in [Files -> Int]
  BY <1>1 DEF cursor
<1>3. doing = [f \in Files |-> "nothing"] /\ left = [f \in Files |-> 0]
  BY <1>1 DEF doing, left
<1> QED BY <1>2, <1>3 DEF Init, AsByteFile!Init, cursor, doing, left

\* What moves no byte, and changes nothing of a file in a transfer nor any position.
LEMMA QuietStep ==
    ASSUME UNCHANGED <<device_buff, delivered, cleared>>,
           cursor' = cursor, doing' = doing, left' = left
    PROVE  UNCHANGED AsByteFile!vars
BY DEF AsByteFile!vars, cursor, doing, left

\* A step of one file is seen by that file alone.
LEMMA OneFile ==
    ASSUME DriverInv, NEW f \in Files,
           stage' = stage \/ \E s : stage' = [stage EXCEPT ![f] = s],
           f_pos' = f_pos \/ \E p : f_pos' = [f_pos EXCEPT ![f] = p],
           amount' = amount \/ \E n : amount' = [amount EXCEPT ![f] = n],
           copied' = copied \/ \E n : copied' = [copied EXCEPT ![f] = n],
           cleared' = cleared \/ \E n : cleared' = [cleared EXCEPT ![f] = n]
    PROVE  /\ cursor' = [cursor EXCEPT ![f] = cursor'[f]]
           /\ doing' = [doing EXCEPT ![f] = doing'[f]]
           /\ left' = [left EXCEPT ![f] = left'[f]]
<1>1. \A g \in Files \ {f} :
         /\ stage'[g] = stage[g] /\ f_pos'[g] = f_pos[g] /\ amount'[g] = amount[g]
         /\ copied'[g] = copied[g] /\ cleared'[g] = cleared[g] /\ Busy(g)' = Busy(g)
  BY DEF DriverInv, TypeOK, Busy
<1>2. \A g \in Files \ {f} :
         cursor'[g] = cursor[g] /\ doing'[g] = doing[g] /\ left'[g] = left[g]
  BY <1>1 DEF cursor, doing, left
<1>3. cursor' = [cursor EXCEPT ![f] = cursor'[f]]
  BY <1>2 DEF cursor
<1>4. doing' = [doing EXCEPT ![f] = doing'[f]]
  BY <1>2 DEF doing
<1>5. left' = [left EXCEPT ![f] = left'[f]]
  BY <1>2 DEF left
<1> QED BY <1>3, <1>4, <1>5

LEMMA LoadIsLoad ==
    ASSUME DriverInv, simple_char_driver_init \/ simple_char_driver_exit
    PROVE  AsByteFile!Load
<1>1. UNCHANGED <<stage, f_pos, amount, copied, cleared, delivered>>
  BY DEF simple_char_driver_init, simple_char_driver_exit
<1>2. \A f \in Files : ~Busy(f)
  BY DEF DriverInv, Kept, Busy, simple_char_driver_init, simple_char_driver_exit
<1> QED BY <1>1, <1>2 DEF AsByteFile!Load, Busy

LEMMA OpenIsQuiet ==
    ASSUME DriverInv, NEW f \in Files,
           OpenReads(f) \/ CloseReads(f) \/ simple_char_driver_close(f)
    PROVE  UNCHANGED AsByteFile!vars
<1>1. /\ stage[f] \in {"closed", "open", "closing"}
      /\ \E s \in {"opening", "closing", "closed"} : stage' = [stage EXCEPT ![f] = s]
      /\ UNCHANGED <<device_buff, f_pos, amount, copied, cleared, delivered>>
  BY DEF OpenReads, CloseReads, simple_char_driver_close, At, Goes
<1>2. ~Busy(f) /\ ~Busy(f)'
  BY <1>1 DEF DriverInv, TypeOK, Busy
<1>3. /\ cursor' = [cursor EXCEPT ![f] = cursor'[f]]
      /\ doing' = [doing EXCEPT ![f] = doing'[f]] /\ left' = [left EXCEPT ![f] = left'[f]]
  BY <1>1, OneFile
<1>4. cursor'[f] = cursor[f] /\ doing'[f] = doing[f] /\ left'[f] = left[f]
  BY <1>1, <1>2 DEF cursor, doing, left
<1>5. cursor' = cursor /\ doing' = doing /\ left' = left
  BY <1>3, <1>4 DEF cursor, doing, left
<1> QED BY <1>1, <1>5, QuietStep

\* open puts the position at 0, seek anywhere; both while the file moves no bytes.
LEMMA PutIsMove ==
    ASSUME DriverInv, NEW f \in Files,
           simple_char_driver_open(f) \/ simple_char_driver_seek(f)
    PROVE  AsByteFile!Move(f)
<1>1. /\ ~Busy(f) /\ UNCHANGED <<device_buff, amount, copied, cleared, delivered>>
      /\ \E to : f_pos' = [f_pos EXCEPT ![f] = to]
      /\ stage' = [stage EXCEPT ![f] = "open"]
  BY DEF DriverInv, TypeOK, Busy, simple_char_driver_open, simple_char_driver_seek, At,
         Goes
<1>2. ~Busy(f)'
  BY <1>1 DEF DriverInv, TypeOK, Busy
<1>3. /\ cursor' = [cursor EXCEPT ![f] = cursor'[f]]
      /\ doing' = [doing EXCEPT ![f] = doing'[f]] /\ left' = [left EXCEPT ![f] = left'[f]]
  BY <1>1, OneFile
<1>4. doing'[f] = doing[f] /\ left'[f] = left[f] /\ doing[f] = "nothing"
  BY <1>1, <1>2 DEF doing, left
<1>5. doing' = doing /\ left' = left
  BY <1>3, <1>4 DEF doing, left
<1> QED BY <1>1, <1>3, <1>4, <1>5 DEF AsByteFile!Move, cursor, doing, left

\* A transfer that would leave the buffer never begins.
LEMMA StartIsBegin ==
    ASSUME DriverInv, NEW f \in Files, NEW s \in {"reading", "writing"}, Starts(f, s)
    PROVE  AsByteFile!Begin(f) \/ UNCHANGED AsByteFile!vars
<1>1. PICK length \in Lengths :
         /\ amount' = [amount EXCEPT ![f] = BytesToMove(f, length)]
         /\ stage' = [stage EXCEPT ![f] = IF InBuffer(f, BytesToMove(f, length))
                                          THEN s ELSE "outside"]
  BY DEF Starts, Goes
<1> DEFINE n == BytesToMove(f, length)
<1>2. /\ stage[f] = "open" /\ f_pos[f] >= 0
      /\ UNCHANGED <<device_buff, f_pos, copied, cleared, delivered>>
  BY DEF Starts, At
<1>3. /\ ~Busy(f) /\ copied[f] = 0 /\ cleared[f] = 0 /\ f_pos[f] \in Nat
      /\ BUFF_SIZE \in Nat
  BY <1>2, Sizes DEF DriverInv, TypeOK, Kept, Busy
<1>4. n \in Nat
  BY <1>3, BytesMoved
<1>5. amount' = [amount EXCEPT ![f] = n]
  BY <1>1
<1>6. \/ InBuffer(f, n) /\ stage' = [stage EXCEPT ![f] = s]
      \/ stage' = [stage EXCEPT ![f] = "outside"]
  BY <1>1
<1> HIDE DEF n
<1>7. /\ cursor' = [cursor EXCEPT ![f] = cursor'[f]]
      /\ doing' = [doing EXCEPT ![f] = doing'[f]] /\ left' = [left EXCEPT ![f] = left'[f]]
  BY <1>2, <1>5, <1>6, OneFile
<1>8. cursor'[f] = f_pos[f] /\ cursor[f] = f_pos[f]
  BY <1>2, <1>3 DEF cursor
<1>9. cursor' = cursor
  BY <1>7, <1>8 DEF cursor
<1>10. doing[f] = "nothing" /\ left[f] = 0
  BY <1>3 DEF doing, left
<1>11. CASE InBuffer(f, n) /\ stage' = [stage EXCEPT ![f] = s]
  <2>1. Busy(f)' /\ doing'[f] = s
    BY <1>11 DEF DriverInv, TypeOK, Busy, doing
  <2>2. amount'[f] = n /\ copied'[f] = 0 /\ cleared'[f] = 0
    BY <1>2, <1>3, <1>5 DEF DriverInv, TypeOK
  <2>3. left'[f] = n
    BY <1>4, <2>1, <2>2 DEF left
  <2>4. n > 0 => cursor[f] >= 0 /\ cursor[f] + n <= BUFF_SIZE
    BY <1>4, <1>8, <1>11 DEF InBuffer
  <2>5. n \in 0 .. BUFF_SIZE
    BY <1>3, <1>4, <1>8, <2>4
  <2> QED BY <1>2, <1>7, <1>9, <1>10, <2>1, <2>3, <2>4, <2>5
          DEF AsByteFile!Begin, cursor, doing, left
<1>12. CASE stage' = [stage EXCEPT ![f] = "outside"]
  <2>1. ~Busy(f)'
    BY <1>12 DEF DriverInv, TypeOK, Busy
  <2>2. doing'[f] = doing[f] /\ left'[f] = left[f]
    BY <1>3, <2>1 DEF doing, left
  <2>3. doing' = doing /\ left' = left
    BY <1>7, <2>2 DEF doing, left
  <2> QED BY <1>2, <1>9, <2>3, QuietStep
<1> QED BY <1>6, <1>11, <1>12

\* The position that is handed back is the cursor the copy has come to.
LEMMA EndIsFinish ==
    ASSUME DriverInv, NEW f \in Files, NEW s \in {"reading", "writing"}, Ends(f, s)
    PROVE  AsByteFile!Finish(f)
<1>1. /\ stage[f] = s /\ stage' = [stage EXCEPT ![f] = "open"]
      /\ f_pos' = [f_pos EXCEPT ![f] = @ + copied[f]]
      /\ amount' = [amount EXCEPT ![f] = 0] /\ copied' = [copied EXCEPT ![f] = 0]
      /\ cleared' = [cleared EXCEPT ![f] = 0]
      /\ UNCHANGED <<device_buff, delivered>>
  BY DEF Ends, Returns, At, Goes
<1>2. /\ Busy(f) /\ ~Busy(f)' /\ f_pos[f] \in Int /\ copied[f] \in Nat
      /\ cleared[f] \in Nat /\ amount[f] \in Nat
  BY <1>1 DEF DriverInv, TypeOK, Busy
<1>3. /\ cursor' = [cursor EXCEPT ![f] = cursor'[f]]
      /\ doing' = [doing EXCEPT ![f] = doing'[f]] /\ left' = [left EXCEPT ![f] = left'[f]]
  BY <1>1, OneFile
<1>4. doing[f] = s /\ doing'[f] = "nothing" /\ left'[f] = 0
  BY <1>1, <1>2 DEF doing, left
<1>5. cursor'[f] = cursor[f]
  BY <1>1, <1>2 DEF DriverInv, TypeOK, cursor
<1>6. cursor' = cursor
  BY <1>3, <1>5 DEF cursor
<1>7. s = "writing" => left[f] = 0
  BY <1>2 DEF Ends, IsOver, left
<1> QED BY <1>1, <1>3, <1>4, <1>6, <1>7 DEF AsByteFile!Finish, cursor, doing, left

\* A byte of a transfer takes one of what is left of the request; one that is handed over
\* is at the cursor, one that is cleared behind it and behind those cleared before.
LEMMA CopyTakes ==
    ASSUME DriverInv, NEW f \in Files,
           copy_to_user(f) \/ copy_from_user(f) \/ clear_rest(f), NEW s, stage[f] = s
    PROVE  /\ AsByteFile!Takes(f, s)
           /\ cursor[f] = f_pos[f] + copied[f]
           /\ cleared' = cleared => cursor' = [cursor EXCEPT ![f] = @ + 1]
           /\ copied' = copied => cursor' = cursor
<1>1. /\ stage[f] \in {"reading", "writing"} /\ UNCHANGED <<stage, f_pos, amount>>
      /\ copied[f] + cleared[f] < amount[f]
      /\ \/ copied' = [copied EXCEPT ![f] = @ + 1] /\ UNCHANGED cleared
         \/ cleared' = [cleared EXCEPT ![f] = @ + 1] /\ UNCHANGED copied
  BY DEF copy_to_user, copy_from_user, clear_rest, At, DriverInv, Kept, TypeOK
<1>2. /\ f_pos[f] \in Int /\ amount[f] \in Nat /\ copied[f] \in Nat /\ cleared[f] \in Nat
  BY DEF DriverInv, TypeOK
<1>3. Busy(f) /\ Busy(f)' /\ doing' = doing
  BY <1>1 DEF Busy, doing
<1>4. /\ cursor' = [cursor EXCEPT ![f] = cursor'[f]]
      /\ left' = [left EXCEPT ![f] = left'[f]]
  BY <1>1, OneFile
<1>5. doing[f] = stage[f] /\ left[f] = amount[f] - copied[f] - cleared[f]
      /\ left'[f] = amount[f] - copied'[f] - cleared'[f]
  BY <1>1, <1>3 DEF doing, left
<1>6. \/ copied'[f] = copied[f] + 1 /\ cleared'[f] = cleared[f]
      \/ copied'[f] = copied[f] /\ cleared'[f] = cleared[f] + 1
  BY <1>1 DEF DriverInv, TypeOK
<1>7. left[f] > 0 /\ left'[f] = left[f] - 1
  BY <1>1, <1>2, <1>5, <1>6
<1>8. cursor[f] = f_pos[f] + copied[f] /\ cursor'[f] = f_pos[f] + copied'[f]
  BY <1>1, <1>3 DEF cursor
<1>9. cleared' = cleared => cursor'[f] = cursor[f] + 1
  BY <1>2, <1>6, <1>8
<1>10. copied' = copied => cursor' = cursor
  BY <1>1, <1>3 DEF cursor, Busy
<1>11. cleared' = cleared => cursor' = [cursor EXCEPT ![f] = @ + 1]
  BY <1>4, <1>9
<1>12. left' = [left EXCEPT ![f] = @ - 1]
  BY <1>4, <1>7
<1>13. AsByteFile!Takes(f, s)
  BY <1>3, <1>5, <1>7, <1>12 DEF AsByteFile!Takes, cursor, doing, left
<1> QED BY <1>8, <1>10, <1>11, <1>13

LEMMA CopyIsTransfer ==
    ASSUME DriverInv, NEW f \in Files
    PROVE  /\ copy_to_user(f) => AsByteFile!Get(f)
           /\ copy_from_user(f) => AsByteFile!Put(f)
           /\ clear_rest(f) => AsByteFile!Clear(f)
<1>1. ASSUME copy_to_user(f) PROVE AsByteFile!Get(f)
  <2>1. /\ stage[f] = "reading" /\ UNCHANGED <<device_buff, cleared>>
        /\ delivered' = [delivered EXCEPT ![f] = device_buff[f_pos[f] + copied[f]]]
    BY <1>1 DEF copy_to_user, At
  <2>2. /\ AsByteFile!Takes(f, "reading") /\ cursor[f] = f_pos[f] + copied[f]
        /\ cursor' = [cursor EXCEPT ![f] = @ + 1]
    BY <1>1, <2>1, CopyTakes
  <2> QED BY <2>1, <2>2 DEF AsByteFile!Get, cursor, doing, left
<1>2. ASSUME copy_from_user(f) PROVE AsByteFile!Put(f)
  <2>1. /\ stage[f] = "writing" /\ cleared[f] = 0 /\ UNCHANGED <<delivered, cleared>>
        /\ \E v \in Bytes :
              device_buff' = [device_buff EXCEPT ![f_pos[f] + copied[f]] = v]
    BY <1>2 DEF copy_from_user, At
  <2>2. /\ AsByteFile!Takes(f, "writing") /\ cursor[f] = f_pos[f] + copied[f]
        /\ cursor' = [cursor EXCEPT ![f] = @ + 1]
    BY <1>2, <2>1, CopyTakes
  <2> QED BY <2>1, <2>2 DEF AsByteFile!Put, cursor, doing, left
<1>3. ASSUME clear_rest(f) PROVE AsByteFile!Clear(f)
  <2>1. /\ stage[f] = "writing" /\ UNCHANGED <<delivered, copied>>
        /\ cleared' = [cleared EXCEPT ![f] = @ + 1]
        /\ device_buff' = [device_buff EXCEPT ![f_pos[f] + copied[f] + cleared[f]] = ZERO]
    BY <1>3 DEF clear_rest, At
  <2>2. /\ AsByteFile!Takes(f, "writing") /\ cursor[f] = f_pos[f] + copied[f]
        /\ cursor' = cursor
    BY <1>3, <2>1, CopyTakes
  <2> QED BY <2>1, <2>2 DEF AsByteFile!Clear, cursor, doing, left
<1> QED BY <1>1, <1>2, <1>3

\* Every byte a process reads or stores is the one at its own cursor, whatever other
\* processes do meanwhile; its position always ends up behind the last byte that came
\* over, and a write that stops short clears the rest of its request and nothing more:
\* any number of processes share the device as an array of bytes.
THEOREM DriverIsByteFile == Spec => IsByteFile
<1>1. DriverInv /\ [Next]_vars => [AsByteFile!Next]_AsByteFile!vars
  <2> SUFFICES ASSUME DriverInv, [Next]_vars
               PROVE  AsByteFile!Next \/ UNCHANGED AsByteFile!vars
    OBVIOUS
  <2>1. CASE simple_char_driver_init \/ simple_char_driver_exit
    BY <2>1, LoadIsLoad DEF AsByteFile!Next
  <2>2. ASSUME NEW f \in Files,
               OpenReads(f) \/ CloseReads(f) \/ simple_char_driver_close(f)
        PROVE  UNCHANGED AsByteFile!vars
    BY <2>2, OpenIsQuiet
  <2>3. ASSUME NEW f \in Files, simple_char_driver_open(f) \/ simple_char_driver_seek(f)
        PROVE  AsByteFile!Next
    BY <2>3, PutIsMove DEF AsByteFile!Next
  <2>4. ASSUME NEW f \in Files, simple_char_driver_read(f) \/ simple_char_driver_write(f)
        PROVE  AsByteFile!Next \/ UNCHANGED AsByteFile!vars
    BY <2>4, StartIsBegin, EndIsFinish, CopyIsTransfer
       DEF simple_char_driver_read, simple_char_driver_write, AsByteFile!Next
  <2>5. CASE UNCHANGED vars
    <3>1. UNCHANGED <<stage, f_pos, amount, copied, cleared, device_buff, delivered>>
      BY <2>5 DEF vars
    <3> QED BY <3>1, QuietStep DEF cursor, doing, left, Busy
  <2> QED BY <2>1, <2>2, <2>3, <2>4, <2>5 DEF Next
<1> QED BY <1>1, FileInit, DriverInvariance, PTL DEF Spec, IsByteFile, AsByteFile!Spec
------------------------------------------------------------------------------
(* The counters                                                             *)

\* The files that are opened, or are being opened, and not being closed.
Held == {f \in Files : stage[f] \notin {"closed", "closing"}}

\* Several processes at once may lose a count of open_Count++ and close_Count++, but
\* none is invented, and the last count is not lost: there are never more opens counted
\* than were begun, never more closes than opens whose file is not open any more, and
\* once all of them have ended neither counter is 0.
CountsKeptLow ==
    /\ open_Count <= opens
    /\ close_Count + Cardinality(Held) <= opens
    /\ opens > 0 => open_Count > 0 \/ \E f \in Files : stage[f] = "opening"
    /\ opens > 0 => close_Count > 0 \/ \E f \in Files : stage[f] # "closed"

\* What is about to be written back is bounded as well.
CountsInv ==
    /\ CountsKeptLow
    /\ \A f \in Files :
          /\ stage[f] = "opening" => counter[f] + 1 <= opens
          /\ stage[f] = "closing" => counter[f] + 1 + Cardinality(Held) <= opens

LEMMA HeldIsFinite ==
    ASSUME IsFiniteSet(Files)
    PROVE  /\ IsFiniteSet(Held) /\ Cardinality(Held) \in Nat
           /\ IsFiniteSet(Held') /\ Cardinality(Held') \in Nat
<1>1. Held \subseteq Files /\ Held' \subseteq Files
  BY DEF Held
<1> QED BY <1>1, FS_Subset, FS_CardinalityType

LEMMA CountsInit == ASSUME Init PROVE CountsInv
<1>1. Held = {}
  BY DEF Held, Init
<1>2. Cardinality(Held) = 0
  BY <1>1, FS_EmptySet
<1> QED BY <1>2 DEF CountsInv, CountsKeptLow, Init

\* A load begins the counts anew, at a moment when no file is held.
LEMMA ModuleCounts ==
    ASSUME DriverInv, CountsInv, simple_char_driver_init \/ simple_char_driver_exit
    PROVE  CountsInv'
<1>1. CASE simple_char_driver_init
  <2>1. \A f \in Files : stage'[f] = "closed"
    BY <1>1 DEF simple_char_driver_init, DriverInv, Kept
  <2>2. Held' = {}
    BY <2>1 DEF Held
  <2>3. Cardinality(Held') = 0
    BY <2>2, FS_EmptySet
  <2>4. opens' = 0 /\ open_Count' = 0 /\ close_Count' = 0
    BY <1>1 DEF simple_char_driver_init
  <2> QED BY <2>1, <2>3, <2>4 DEF CountsInv, CountsKeptLow
<1>2. CASE simple_char_driver_exit
  <2>1. UNCHANGED <<stage, open_Count, close_Count, counter, opens>>
    BY <1>2 DEF simple_char_driver_exit
  <2> QED BY <2>1 DEF CountsInv, CountsKeptLow, Held
<1> QED BY <1>1, <1>2

LEMMA OpenCounts ==
    ASSUME IsFiniteSet(Files), DriverInv, CountsInv, NEW f \in Files, OpenReads(f)
    PROVE  CountsInv'
<1>1. /\ stage[f] = "closed" /\ stage' = [stage EXCEPT ![f] = "opening"]
      /\ counter' = [counter EXCEPT ![f] = open_Count] /\ opens' = opens + 1
      /\ UNCHANGED <<open_Count, close_Count>>
  BY DEF OpenReads, At, Goes
<1>2. Held' = Held \cup {f} /\ f \notin Held
  BY <1>1 DEF Held, DriverInv, TypeOK
<1>3. Cardinality(Held') = Cardinality(Held) + 1
  BY <1>2, HeldIsFinite, FS_AddElement
<1> QED BY <1>1, <1>3, HeldIsFinite DEF CountsInv, CountsKeptLow, DriverInv, TypeOK

LEMMA OpenedCounts ==
    ASSUME IsFiniteSet(Files), DriverInv, CountsInv, NEW f \in Files,
           simple_char_driver_open(f)
    PROVE  CountsInv'
<1>1. /\ stage[f] = "opening" /\ stage' = [stage EXCEPT ![f] = "open"]
      /\ counter' = [counter EXCEPT ![f] = 0] /\ open_Count' = counter[f] + 1
      /\ UNCHANGED <<opens, close_Count>>
  BY DEF simple_char_driver_open, At, Goes
<1>2. Held' = Held
  BY <1>1 DEF Held, DriverInv, TypeOK
<1>3. Cardinality(Held') = Cardinality(Held)
  BY <1>2
<1> QED BY <1>1, <1>3, HeldIsFinite DEF CountsInv, CountsKeptLow, DriverInv, TypeOK

LEMMA CloseCounts ==
    ASSUME IsFiniteSet(Files), DriverInv, CountsInv, NEW f \in Files, CloseReads(f)
    PROVE  CountsInv'
<1>1. /\ stage[f] = "open" /\ stage' = [stage EXCEPT ![f] = "closing"]
      /\ counter' = [counter EXCEPT ![f] = close_Count]
      /\ UNCHANGED <<opens, open_Count, close_Count>>
  BY DEF CloseReads, At, Goes
<1>2. Held' = Held \ {f} /\ f \in Held
  BY <1>1 DEF Held, DriverInv, TypeOK
<1>3. Cardinality(Held') = Cardinality(Held) - 1
  BY <1>2, HeldIsFinite, FS_RemoveElement
<1> QED BY <1>1, <1>3, HeldIsFinite DEF CountsInv, CountsKeptLow, DriverInv, TypeOK

LEMMA ClosedCounts ==
    ASSUME IsFiniteSet(Files), DriverInv, CountsInv, NEW f \in Files,
           simple_char_driver_close(f)
    PROVE  CountsInv'
<1>1. /\ stage[f] = "closing" /\ stage' = [stage EXCEPT ![f] = "closed"]
      /\ counter' = [counter EXCEPT ![f] = 0] /\ close_Count' = counter[f] + 1
      /\ UNCHANGED <<opens, open_Count>>
  BY DEF simple_char_driver_close, At, Goes
<1>2. Held' = Held
  BY <1>1 DEF Held, DriverInv, TypeOK
<1>3. Cardinality(Held') = Cardinality(Held)
  BY <1>2
<1> QED BY <1>1, <1>3, HeldIsFinite DEF CountsInv, CountsKeptLow, DriverInv, TypeOK

\* Seeks and transfers count nothing, and hold what is open.
LEMMA TransferCounts ==
    ASSUME DriverInv, CountsInv, NEW f \in Files,
           \/ simple_char_driver_seek(f) \/ simple_char_driver_read(f)
           \/ simple_char_driver_write(f)
    PROVE  CountsInv'
<1>1. /\ UNCHANGED counts
      /\ \/ stage' = stage
         \/ /\ stage[f] \in {"open", "reading", "writing"}
            /\ \E s \in {"open", "reading", "writing", "outside"} :
                  stage' = [stage EXCEPT ![f] = s]
  BY DEF simple_char_driver_seek, simple_char_driver_read, simple_char_driver_write,
         Starts, Ends, Returns, copy_to_user, copy_from_user, clear_rest, At, Goes
<1>2. \A g \in Files : /\ stage'[g] # stage[g] => g = f
                       /\ \A s \in {"closed", "opening", "closing"} :
                             stage'[g] = s <=> stage[g] = s
  BY <1>1 DEF DriverInv, TypeOK
<1>3. Held' = Held
  BY <1>2 DEF Held
<1>4. Cardinality(Held') = Cardinality(Held)
  BY <1>3
<1> QED BY <1>1, <1>2, <1>4 DEF CountsInv, CountsKeptLow

LEMMA CountsNext ==
    ASSUME IsFiniteSet(Files), DriverInv, CountsInv, [Next]_vars
    PROVE  CountsInv'
<1>1. CASE UNCHANGED vars
  BY <1>1 DEF vars, CountsInv, CountsKeptLow, Held
<1> QED BY <1>1, ModuleCounts, OpenCounts, OpenedCounts, CloseCounts, ClosedCounts,
           TransferCounts DEF Next

\* However the opens and closes of any number of processes overtake each other, the two
\* counters, which no lock protects, stay within what has happened.
THEOREM CountsStayLow == IsFiniteSet(Files) /\ Spec => []CountsKeptLow
<1> SUFFICES ASSUME IsFiniteSet(Files) PROVE Spec => []CountsKeptLow
  OBVIOUS
<1>1. CountsInv /\ DriverInv /\ [Next]_vars => CountsInv'
  BY CountsNext
<1>2. CountsInv => CountsKeptLow
  BY DEF CountsInv
<1> QED BY <1>1, <1>2, CountsInit, DriverInvariance, PTL DEF Spec
=============================================================================

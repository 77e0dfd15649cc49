--------------------------- MODULE RdComputeProofs ---------------------------
(***************************************************************************)
(* Proofs about RdCompute: the invariants of its run, for every choice of  *)
(* the constants.  The strengthening says, line by line of each Device     *)
(* method, what holds of the list flag, the submit flag, the host and the  *)
(* read there.                                                             *)
(***************************************************************************)
EXTENDS RdCompute, TLAPS

-----------------------------------------------------------------------------
(* The arithmetic of a read.                                               *)

\* What is left when one part of a sum is taken away.
LEMMA Difference ==
  ASSUME NEW x \in Nat, NEW y \in Nat, NEW z \in Nat, x = y + z
  PROVE  x - z = y
  OBVIOUS

\* What % and \div of naturals are.
LEMMA Division ==
  ASSUME NEW w \in Nat \ {0}, NEW x \in Nat
  PROVE  /\ x % w \in 0..w-1
         /\ x \div w \in Nat
         /\ x = w * (x \div w) + (x % w)
  OBVIOUS

\* The same, as a quotient and a remainder.
LEMMA Quotient ==
  ASSUME NEW w \in Nat \ {0}, NEW x \in Nat
  PROVE  \E q \in Nat, r \in 0..w-1 : x % w = r /\ x = w * q + r
<1>1. x % w \in 0..w-1 /\ x \div w \in Nat /\ x = w * (x \div w) + (x % w)
  BY Division
<1>2. QED
  BY <1>1, Zenon

\* A multiple less than one step above another is no more than it.
LEMMA MultipleBelow ==
  ASSUME NEW w \in Nat \ {0}, NEW a \in Nat, NEW b \in Nat, w * a < w * b + w
  PROVE  w * a <= w * b
<1>1. w * b + w = w * (b + 1)
  OBVIOUS
<1>2. CASE a <= b
  BY <1>2
<1>3. CASE a >= b + 1
  <2>1. w * a >= w * (b + 1)
    BY <1>3
  <2>2. QED
    BY <2>1, <1>1
<1>4. QED
  BY <1>2, <1>3

\* A multiple leaves no remainder,
LEMMA Multiple ==
  ASSUME NEW w \in Nat \ {0}, NEW q \in Nat
  PROVE  (w * q) % w = 0
  OBVIOUS

\* and what leaves no remainder is a multiple.
LEMMA Factor ==
  ASSUME NEW w \in Nat \ {0}, NEW x \in Nat, x % w = 0
  PROVE  \E q \in Nat : x = w * q
<1>1. PICK q \in Nat, r \in 0..w-1 : x % w = r /\ x = w * q + r
  BY Quotient, Zenon
<1>2. w * q \in Nat
  OBVIOUS
<1>3. x = w * q
  BY <1>1, <1>2
<1>4. QED
  BY <1>3, Zenon

\* round_up() of rd_compute.cpp: the least multiple from x on.
LEMMA Rounded ==
  ASSUME NEW w \in Nat \ {0}, NEW x \in Nat
  PROVE  \E q \in Nat : RoundUp(x, w) = w * q /\ x <= w * q /\ w * q < x + w
<1> DEFINE y == x + w - 1
<1>1. y \in Nat
  OBVIOUS
<1> HIDE DEF y
<1>2. PICK q \in Nat, r \in 0..w-1 : y % w = r /\ y = w * q + r
  BY <1>1, Quotient, Zenon
<1>3. w * q \in Nat
  OBVIOUS
<1>4. RoundUp(x, w) = y - (y % w)
  BY DEF RoundUp, RoundDown, y
<1>5. RoundUp(x, w) = w * q
  BY <1>1, <1>2, <1>3, <1>4
<1>6. x <= w * q /\ w * q < x + w
  BY <1>2, <1>3 DEF y
<1>7. QED
  BY <1>5, <1>6, Zenon

\* A multiple of a multiple of w is a multiple of w.
LEMMA Divides ==
  ASSUME NEW w \in Nat \ {0}, NEW u \in Nat \ {0}, NEW x \in Nat, u % w = 0, x % u = 0
  PROVE  x % w = 0
<1>1. PICK p \in Nat : u = w * p
  BY Factor, Zenon
<1>2. PICK q \in Nat : x = u * q
  BY Factor, Zenon
<1>3. x = w * (p * q) /\ p * q \in Nat
  BY <1>1, <1>2
<1>4. QED
  BY <1>3, Multiple

\* The arithmetic of one chunk of buffer_get_into (rd_compute.cpp 390-407): whole
\* words inside the staging buffer and the buffer read, and at least one byte of
\* what is left.
LEMMA ChunkFits ==
  ASSUME NEW w \in Nat \ {0}, NEW at \in Nat, NEW rest \in Nat \ {0},
         NEW bytes \in Nat \ {0}, bytes % w = 0,
         NEW buf \in Nat, buf % w = 0, at + rest <= buf
  PROVE  LET skew == at % w
             n == Least(rest, bytes)
             span == Least(bytes, RoundUp(skew + n, w))
             take == Least(n, span - skew)
         IN  /\ span \in Nat /\ span <= bytes /\ at - skew + span <= buf
             /\ span % w = 0 /\ (at - skew) % w = 0
             /\ take \in Nat /\ take > 0 /\ take <= rest /\ skew + take <= span
<1> SUFFICES ASSUME NEW skew, skew = at % w, NEW n, n = Least(rest, bytes),
                    NEW span, span = Least(bytes, RoundUp(skew + n, w)),
                    NEW take, take = Least(n, span - skew)
             PROVE  /\ span \in Nat /\ span <= bytes /\ at - skew + span <= buf
                    /\ span % w = 0 /\ (at - skew) % w = 0
                    /\ take \in Nat /\ take > 0 /\ take <= rest /\ skew + take <= span
  BY Zenon
<1>0. PICK a \in Nat, r \in 0..w-1 : at % w = r /\ at = w * a + r
  BY Quotient, Zenon
<1>1. skew = r /\ at = w * a + r /\ w * a \in Nat /\ at - r = w * a
  <2>1. skew = r
    BY <1>0, Zenon
  <2>2. w * a \in Nat
    OBVIOUS
  <2>3. r \in Nat
    OBVIOUS
  <2>4. at - r = w * a
    BY <1>0, <2>2, <2>3, Difference
  <2>5. QED
    BY <1>0, <2>1, <2>2, <2>4, Zenon
<1>2. n \in Nat /\ n > 0 /\ n <= rest /\ n <= bytes
  BY DEF Least
<1>3. skew + n \in Nat
  BY <1>1, <1>2
<1>4. PICK q \in Nat : RoundUp(skew + n, w) = w * q /\ skew + n <= w * q /\ w * q < (skew + n) + w
  BY <1>3, Rounded, Zenon
<1>5. PICK b \in Nat : bytes = w * b
  <2>1. bytes \in Nat
    OBVIOUS
  <2>2. QED
    BY <2>1, Factor, Zenon
<1>6. PICK c \in Nat : buf = w * c
  BY Factor, Zenon
<1>7. w * a \in Nat /\ w * q \in Nat /\ w * c \in Nat /\ w * (a + q) = w * a + w * q
  OBVIOUS
<1>8. bytes >= w
  <2>1. b >= 1
    BY <1>5
  <2>2. w * b >= w * 1
    BY <2>1
  <2>3. QED
    BY <2>2, <1>5
<1>9. w * a + w * q <= buf
  <2>1. w * (a + q) < w * c + w
    BY <1>7, <1>1, <1>2, <1>4, <1>6
  <2>2. w * (a + q) <= w * c
    BY <2>1, MultipleBelow
  <2>3. QED
    BY <2>2, <1>6, <1>7
<1>10. span \in Nat /\ span <= bytes /\ span <= w * q /\ (span = bytes \/ span = w * q)
  BY <1>4, <1>7 DEF Least
<1>11. span % w = 0
  <2>1. (w * q) % w = 0
    BY Multiple
  <2>2. QED
    BY <2>1, <1>10
<1>12. (at - skew) % w = 0
  <2>1. at - skew = w * a
    BY <1>1, Zenon
  <2>2. (w * a) % w = 0
    BY Multiple
  <2>3. QED
    BY <2>1, <2>2
<1>13. span > skew
  BY <1>1, <1>2, <1>4, <1>8, <1>10
<1>14. take \in Nat /\ take > 0 /\ take <= n /\ take <= span - skew
  BY <1>1, <1>2, <1>10, <1>13 DEF Least
<1>15. at - skew + span <= buf
  BY <1>1, <1>7, <1>9, <1>10
<1>16. QED
  BY <1>1, <1>2, <1>10, <1>11, <1>12, <1>14, <1>15

-----------------------------------------------------------------------------
(* The strengthening.                                                      *)

DropPcs == {"staging_free", "staging_clear", "staging_zero"}
StagingPcs == DropPcs \cup {"staging_create", "staging_bytes"}
GetPcs == StagingPcs \cup {"chunk", "chunk_copy", "chunk_get"}
RecoverPcs == {"recover_end", "recover_flag"}

\* Which method a line belongs to, and that a method is inside a vmcall.
Control ==
  /\ op = "none" <=> pc = "idle"
  /\ pc \in Methods => op = pc
  /\ pc \in GetPcs \ DropPcs => op = "buffer_get_into"
  /\ pc \in DropPcs => op \in {"buffer_get_into", "close"}
  /\ pc = "close_free" => op = "close"
  /\ pc \in RecoverPcs => op \in Recovering \cup {"buffer_get_into"}
  /\ pc = "list_begin_host" => op = "list_begin"
  /\ pc = "list_end_flag" => op = "list_end"
  /\ pc \in {"submit_flag", "submit_frame"} => op = "submit"
  /\ pc \in {"sync_host", "sync_flag"} => op = "sync"
  /\ op # "none" => inCall
  /\ recording => inCall
  /\ op \in {"dispatch", "list_end"} => recording
  /\ op \in Methods \ {"dispatch", "list_end"} => ~recording

\* What each line knows of the compute list.
ListLines ==
  /\ hostList => list_open_
  /\ pc \in Recovering \cup {"chunk_copy"} => ~list_open_
  /\ pc \in RecoverPcs \cup {"list_begin_host", "list_end_flag"} => list_open_
  /\ pc \in {"recover_flag", "list_begin_host", "list_end_flag"} => ~hostList
  /\ recording /\ pc # "list_end_flag" => hostList
  /\ ~refused

\* What each line knows of the submit.
SubmitLines ==
  /\ pc \in {"submit_flag", "submit_frame"} => hostBusy
  /\ pc = "submit_frame" => submitted_
  /\ pc = "sync_flag" => ~hostBusy
  /\ op = "buffer_get_into" /\ pc # "buffer_get_into" => ~submitted_
  /\ ~torn /\ pc \notin {"submit_flag", "sync_flag"} => submitted_ = hostBusy

Device == DeviceTypes /\ Control /\ ListLines /\ SubmitLines

\* What has been read, at every line.
ReadSoFar ==
  /\ staging.bytes % Word = 0
  /\ get.off + get.n <= BufBytes
  /\ Len(get.out) <= get.n
  /\ ~torn => \A k \in 1..Len(get.out) : get.out[k] = get.off + k - 1

\* What each line knows of the staging buffer and of what is left to read.
ReadLines ==
  /\ op # "buffer_get_into" \/ pc = "buffer_get_into" => get = NoGet
  /\ pc \in StagingPcs /\ op = "buffer_get_into" => get.n > 0 /\ get.out = <<>>
  /\ pc = "chunk_get" /\ ~torn => get.copied
  /\ pc = "chunk" => Rest = 0 \/ staging.bytes > 0
  /\ pc \in {"chunk_copy", "chunk_get"} => Rest > 0 /\ staging.bytes > 0
  /\ pc \in RecoverPcs /\ op = "buffer_get_into" => Rest > 0 /\ staging.bytes > 0

IInv == Device /\ ReadTypes /\ ReadSoFar /\ ReadLines

-----------------------------------------------------------------------------
\* A fresh device and an idle guest satisfy it.
LEMMA InitEstablishes == Init => IInv
<1> SUFFICES ASSUME Init PROVE IInv
  OBVIOUS
<1>1. DeviceTypes
  <2>1. 0 \in 0..MaxCount
    BY MaxCountAssumption
  <2>2. QED
    BY <2>1, Zenon DEF Init, DeviceTypes, Methods, Lines
<1>2. Control
  BY DEF Init, Control, Methods, Recovering, GetPcs, StagingPcs, DropPcs, RecoverPcs
<1>3. ListLines
  BY DEF Init, ListLines, Recovering, RecoverPcs
<1>4. SubmitLines
  BY DEF Init, SubmitLines
<1>5. ReadTypes
  BY SizesAssumption DEF Init, ReadTypes, NoStaging, NoGet
<1>6. ReadSoFar
  <2>1. 0 % Word = 0
    BY SizesAssumption
  <2>2. QED
    BY <2>1, SizesAssumption DEF Init, ReadSoFar, NoStaging, NoGet
<1>7. ReadLines
  BY DEF Init, ReadLines, RecoverPcs, StagingPcs, DropPcs
<1>8. QED
  BY <1>1, <1>2, <1>3, <1>4, <1>5, <1>6, <1>7 DEF IInv, Device

\* A creation of the staging buffer that fails ends the read,
LEMMA StagingCreateMoves ==
  ASSUME StagingCreate
  PROVE  /\ pc = "staging_create" /\ UNCHANGED <<guest, host, inCall, recording, torn>>
         /\ \/ op' = op /\ pc' = "staging_bytes"
            \/ op' = "none" /\ pc' = "idle"
<1>1. CASE InReturn
  BY <1>1 DEF StagingCreate, InReturn, GetReturn
<1>2. CASE ~InReturn
  BY <1>2 DEF StagingCreate, Goto, InGet
<1>3. QED
  BY <1>1, <1>2

\* and so does a short answer of the host.
LEMMA ChunkGetMoves ==
  ASSUME ChunkGet
  PROVE  /\ pc = "chunk_get" /\ UNCHANGED <<guest, host, inCall, recording, torn>>
         /\ \/ op' = op /\ pc' = "chunk"
            \/ op' = "none" /\ pc' = "idle"
<1>1. CASE InReturn
  BY <1>1 DEF ChunkGet, InReturn, GetReturn
<1>2. CASE ~InReturn
  BY <1>2 DEF ChunkGet, Goto, InGet
<1>3. QED
  BY <1>1, <1>2

\* Each step of a vmcall, of the frame clock and of the sandbox keeps what the
\* lines know of the list and the submit: the heart of the recover() argument.
LEMMA DevicePreserved == Device /\ [Next]_vars => Device'
<1> SUFFICES ASSUME Device, [Next]_vars PROVE Device'
  OBVIOUS
<1> USE MaxCountAssumption
    DEF Device, DeviceTypes, Control, ListLines, SubmitLines, Methods, Recovering, Lines,
        BufferCalls, Body, guest, host, call, read, DropPcs, GetPcs, StagingPcs, RecoverPcs
<1>1. CASE BeginCall
  BY <1>1 DEF BeginCall
<1>2. CASE EndCall
  BY <1>2 DEF EndCall
<1>3. CASE NextFrame
  BY <1>3 DEF NextFrame
<1>4. CASE Kill
  BY <1>4 DEF Kill
<1>5. CASE Adopt
  BY <1>5 DEF Adopt
<1>6. ASSUME NEW m \in Methods, Enter(m) PROVE Device'
  BY <1>6 DEF Enter, Callable
<1>7. CASE RecoverEnd
  BY <1>7 DEF RecoverEnd
<1>8. CASE RecoverFlag
  BY <1>8 DEF RecoverFlag
<1>9. CASE ListBeginFlag
  BY <1>9 DEF ListBeginFlag
<1>10. CASE ListBeginHost
  BY <1>10 DEF ListBeginHost, Return
<1>11. CASE Dispatch
  BY <1>11 DEF Dispatch, Return
<1>12. CASE ListEndHost
  BY <1>12 DEF ListEndHost
<1>13. CASE ListEndFlag
  BY <1>13 DEF ListEndFlag, Return
<1>14. CASE BufferUpdateOrGet \/ BufferCopyOrClear
  BY <1>14 DEF BufferUpdateOrGet, BufferCopyOrClear, Return
<1>15. CASE SubmitHost
  BY <1>15 DEF SubmitHost
<1>16. CASE SubmitFlag
  BY <1>16 DEF SubmitFlag
<1>17. CASE SubmitFrame
  BY <1>17 DEF SubmitFrame, Return
<1>18. CASE SyncCount
  BY <1>18 DEF SyncCount
<1>19. CASE SyncHost
  BY <1>19 DEF SyncHost
<1>20. CASE SyncFlag
  BY <1>20 DEF SyncFlag, Return
<1>21. CASE GetEnter
  BY <1>21 DEF GetEnter, GetRefused, Goto
<1>22. CASE StagingFree
  BY <1>22 DEF StagingFree, Goto, InGet
<1>23. CASE StagingClear
  BY <1>23 DEF StagingClear, Goto, InGet
<1>24. CASE StagingCreate
  BY <1>24, StagingCreateMoves
<1>25. CASE StagingBytes
  BY <1>25 DEF StagingBytes, Goto, InGet
<1>26. CASE Chunk
  BY <1>26 DEF Chunk, Goto, InGet, InReturn, GetReturn
<1>27. CASE ChunkCopy
  BY <1>27 DEF ChunkCopy, Goto, GetReturn
<1>28. CASE ChunkGet
  BY <1>28, ChunkGetMoves
<1>29. CASE StagingZero
  BY <1>29 DEF StagingZero, Goto, InGet
<1>30. CASE Close
  BY <1>30 DEF Close, Goto, InGet
<1>31. CASE CloseFree
  BY <1>31 DEF CloseFree, Return
<1>32. CASE UNCHANGED vars
  BY <1>32 DEF vars
<1>33. QED
  BY <1>1, <1>2, <1>3, <1>4, <1>5, <1>6, <1>7, <1>8, <1>9, <1>10, <1>11, <1>12, <1>13, <1>14,
     <1>15, <1>16, <1>17, <1>18, <1>19, <1>20, <1>21, <1>22, <1>23, <1>24, <1>25, <1>26, <1>27,
     <1>28, <1>29, <1>30, <1>31, <1>32
  DEF Next, Step, BufferGetInto

\* The chunk the code cuts is the chunk ChunkFits is about.
LEMMA SpanFits ==
  ASSUME ReadTypes, ReadSoFar, Rest > 0, staging.bytes > 0
  PROVE  /\ Span \in Nat /\ Span <= staging.bytes /\ Low + Span <= BufBytes
         /\ Span % Word = 0 /\ Low % Word = 0
         /\ Skew \in Nat /\ Low \in Int /\ Low + Skew = At
         /\ Take \in Nat /\ Take > 0 /\ Take <= Rest /\ Skew + Take <= Span
<1>1. /\ Word \in Nat \ {0} /\ BufBytes \in Nat /\ BufBytes % Word = 0
      /\ staging.bytes \in Nat \ {0} /\ staging.bytes % Word = 0
      /\ At \in Nat /\ Rest \in Nat \ {0} /\ At + Rest <= BufBytes
  BY SizesAssumption DEF ReadTypes, ReadSoFar, At, Rest
<1>2. Skew \in Nat /\ Low \in Int /\ Low + Skew = At
  <2>1. At % Word \in 0..Word-1
    BY <1>1, Division
  <2>2. QED
    BY <1>1, <2>1 DEF Skew, Low
<1>3. /\ Span \in Nat /\ Span <= staging.bytes /\ At - Skew + Span <= BufBytes
      /\ Span % Word = 0 /\ (At - Skew) % Word = 0
      /\ Take \in Nat /\ Take > 0 /\ Take <= Rest /\ Skew + Take <= Span
  BY <1>1, ChunkFits, Zenon DEF Span, Skew, Take
<1>4. QED
  BY <1>2, <1>3 DEF Low

\* The staging buffer is created with whole words, and some.
LEMMA WantedFits ==
  ASSUME NEW n \in Nat
  PROVE  Wanted(n) \in 0..StagingMax /\ Wanted(n) % Word = 0 /\ (n > 0 => Wanted(n) > 0)
<1>1. PICK q \in Nat : RoundUp(n, Block) = Block * q /\ n <= Block * q
  BY SizesAssumption, Rounded, Zenon
<1>2. Block * q \in Nat /\ (Block * q) % Block = 0
  BY SizesAssumption, Multiple
<1>3. StagingMax \in Nat /\ StagingMax % Block = 0 /\ Word \in Nat \ {0} /\ Block \in Nat \ {0}
      /\ Block % Word = 0 /\ StagingMax > 0
  BY SizesAssumption
<1>4. (Block * q) % Word = 0 /\ StagingMax % Word = 0
  BY <1>2, <1>3, Divides, Zenon
<1>5. Wanted(n) = Least(StagingMax, Block * q)
  BY <1>1 DEF Wanted
<1>6. QED
  BY <1>1, <1>2, <1>3, <1>4, <1>5 DEF Least

\* Every step keeps what has been read exact, and what is left in reach.
LEMMA ReadPreserved ==
  Device /\ ReadTypes /\ ReadSoFar /\ ReadLines /\ [Next]_vars
    => (ReadTypes /\ ReadSoFar /\ ReadLines)'
<1> DEFINE RInv == ReadTypes /\ ReadSoFar /\ ReadLines
<1> SUFFICES ASSUME Device, RInv, [Next]_vars PROVE RInv'
  OBVIOUS
<1>0. NoGet.out = <<>> /\ NoGet.n = 0 /\ NoGet.off = 0
  BY DEF NoGet
<1>1. ASSUME get = NoGet, UNCHANGED read, pc' \notin GetPcs \cup RecoverPcs PROVE RInv'
  BY <1>0, <1>1 DEF read, ReadTypes, ReadSoFar, ReadLines, Rest, GetPcs
<1>2. CASE (BeginCall \/ EndCall \/ NextFrame) /\ UNCHANGED read
  BY <1>2 DEF BeginCall, EndCall, NextFrame, call, read, ReadTypes, ReadSoFar, ReadLines, Rest
<1>3. ASSUME NEW m \in Methods, Enter(m), UNCHANGED read PROVE RInv'
  <2>1. get = NoGet
    BY <1>3 DEF Enter, ReadLines
  <2>2. /\ m # "buffer_get_into" => op' # "buffer_get_into"
        /\ m = "buffer_get_into" => pc' = "buffer_get_into"
        /\ pc' \notin GetPcs
    BY <1>3 DEF Enter, Methods, Recovering, GetPcs, StagingPcs, DropPcs
  <2>3. staging' = staging /\ get' = NoGet /\ op' = m
    BY <1>3, <2>1 DEF Enter, read
  <2>4. ReadTypes' /\ ReadSoFar'
    BY <1>0, <2>1, <2>3 DEF ReadTypes, ReadSoFar
  <2>5. ReadLines'
    BY <2>2, <2>3 DEF ReadLines, GetPcs, RecoverPcs
  <2>6. QED
    BY <2>4, <2>5
<1>4. CASE Step /\ UNCHANGED read
  <2>1. CASE RecoverEnd
    BY <1>4, <2>1 DEF RecoverEnd, read, ReadTypes, ReadSoFar, ReadLines, Rest, StagingPcs, DropPcs,
       RecoverPcs
  <2>2. CASE RecoverFlag
    BY <1>4, <2>2 DEF RecoverFlag, Body, read, ReadTypes, ReadSoFar, ReadLines, Rest, StagingPcs,
       DropPcs, RecoverPcs, Device, Control, Recovering
  <2>3. CASE ~RecoverEnd /\ ~RecoverFlag
    <3>1. pc' \notin GetPcs \cup RecoverPcs /\ op # "buffer_get_into"
      BY <1>4, <2>3 DEF Step, ListBeginFlag, ListBeginHost, Dispatch, ListEndHost, ListEndFlag,
         BufferUpdateOrGet, BufferCopyOrClear, SubmitHost, SubmitFlag, SubmitFrame, SyncCount,
         SyncHost, SyncFlag, Return, Device, Control, Methods, GetPcs, StagingPcs, DropPcs,
         RecoverPcs
    <3>2. QED
      BY <1>1, <1>4, <3>1 DEF ReadLines
  <2>4. QED
    BY <2>1, <2>2, <2>3
<1>5. CASE GetEnter
  <2>1. CASE submitted_
    BY <1>1, <1>5, <2>1
    DEF GetEnter, GetRefused, Goto, ReadLines, GetPcs, StagingPcs, DropPcs, RecoverPcs
  <2>2. CASE ~submitted_
    <3>1. PICK off \in 0..BufBytes, n \in 0..BufBytes :
            /\ off + n <= BufBytes
            /\ get' = [off |-> off, n |-> n, out |-> <<>>, copied |-> FALSE]
            /\ pc' = (IF n = 0 \/ staging.bytes >= Wanted(n) THEN "chunk"
                      ELSE IF staging.set THEN "staging_free" ELSE "staging_create")
      BY <1>5, <2>2 DEF GetEnter, GetRefused, Goto
    <3>2. n \in Nat /\ (n > 0 => Wanted(n) > 0) /\ Wanted(n) \in Nat
      BY SizesAssumption, WantedFits
    <3>3. staging' = staging /\ op' = "buffer_get_into"
      BY <1>5, <2>2 DEF GetEnter, GetRefused, Device, Control, Methods
    <3>4. ReadTypes' /\ ReadSoFar'
      BY <3>1, <3>3, SizesAssumption DEF ReadTypes, ReadSoFar
    <3>5. Rest' = n /\ get'.n = n /\ get'.out = <<>>
      BY <3>1 DEF Rest
    <3>6. n > 0 /\ pc' = "chunk" => staging.bytes > 0
      BY <3>1, <3>2 DEF ReadTypes
    <3>7. pc' \in {"chunk", "staging_free", "staging_create"} /\ (n = 0 => pc' = "chunk")
      BY <3>1
    <3>8. ReadLines'
      BY <3>2, <3>3, <3>5, <3>6, <3>7 DEF ReadLines, StagingPcs, DropPcs, RecoverPcs
    <3>9. QED
      BY <3>4, <3>8
  <2>3. QED
    BY <2>1, <2>2
<1>6. CASE StagingFree
  BY <1>6 DEF StagingFree, Goto, InGet, ReadTypes, ReadSoFar, ReadLines, Rest, StagingPcs, DropPcs,
     RecoverPcs
<1>7. CASE StagingClear
  BY <1>7 DEF StagingClear, Goto, InGet, ReadTypes, ReadSoFar, ReadLines, Rest, StagingPcs, DropPcs,
     RecoverPcs
<1>8. ASSUME InReturn PROVE RInv'
  <2>1. get' = NoGet /\ staging' = staging /\ torn' = torn /\ pc' = "idle"
    BY <1>8 DEF InReturn, GetReturn
  <2>2. NoGet \in [off : 0..BufBytes, n : 0..BufBytes, out : Seq(Int), copied : BOOLEAN]
    BY SizesAssumption DEF NoGet
  <2>3. QED
    BY <1>0, <2>1, <2>2, SizesAssumption DEF ReadTypes, ReadSoFar, ReadLines, StagingPcs, DropPcs,
       RecoverPcs
<1>9. CASE StagingCreate
  BY <1>8, <1>9 DEF StagingCreate, Goto, InGet, ReadTypes, ReadSoFar, ReadLines, Rest, StagingPcs,
     DropPcs, RecoverPcs
<1>10. CASE StagingBytes
  <2>0. op = "buffer_get_into"
    BY <1>10 DEF StagingBytes, Device, Control, GetPcs, StagingPcs, DropPcs
  <2>1. get.n \in Nat /\ get.n > 0
    BY <1>10, <2>0, SizesAssumption DEF StagingBytes, ReadTypes, ReadLines, StagingPcs
  <2>2. Wanted(get.n) \in 0..StagingMax /\ Wanted(get.n) % Word = 0 /\ Wanted(get.n) > 0
    BY <2>1, WantedFits
  <2>3. /\ staging' = [staging EXCEPT !.bytes = Wanted(get.n)] /\ get' = get /\ pc' = "chunk"
        /\ op' = op /\ torn' = torn
    BY <1>10 DEF StagingBytes, Goto, InGet
  <2>4. PICK b \in 0..StagingMax : b = Wanted(get.n)
    BY <2>2
  <2>5. staging' = [staging EXCEPT !.bytes = b] /\ b % Word = 0 /\ b > 0
    BY <2>2, <2>3, <2>4
  <2>6. QED
    BY <2>0, <2>3, <2>5, SizesAssumption DEF ReadTypes, ReadSoFar, ReadLines, Rest, StagingPcs,
       DropPcs, RecoverPcs
<1>11. CASE Chunk
  <2>1. CASE Rest = 0
    BY <1>8, <1>11, <2>1 DEF Chunk
  <2>2. CASE Rest # 0
    <3>1. Rest > 0
      BY <2>2, SizesAssumption DEF Rest, ReadTypes, ReadSoFar
    <3>2. QED
      BY <1>11, <2>2, <3>1 DEF Chunk, Goto, InGet, read, ReadTypes, ReadSoFar, ReadLines, Rest,
         StagingPcs, DropPcs, RecoverPcs
  <2>3. QED
    BY <2>1, <2>2
<1>12. CASE ChunkCopy
  <2>1. CASE staging.live
    <3>1. /\ pc = "chunk_copy" /\ pc' = "chunk_get" /\ op' = op /\ torn' = torn
          /\ get' = [get EXCEPT !.copied = ~hostBusy] /\ staging' = staging
      BY <1>12, <2>1 DEF ChunkCopy, Goto
    <3>2. ~torn => ~hostBusy
      BY <3>1 DEF Device, SubmitLines, Control, GetPcs, StagingPcs, DropPcs
    <3>3. op = "buffer_get_into"
      BY <3>1 DEF Device, Control, GetPcs, StagingPcs, DropPcs
    <3>4. PICK c \in BOOLEAN : c = ~hostBusy
      OBVIOUS
    <3>5. get' = [get EXCEPT !.copied = c] /\ (~torn => c)
      BY <3>1, <3>2, <3>4
    <3>6. /\ get'.off = get.off /\ get'.n = get.n /\ get'.out = get.out /\ get'.copied = c
          /\ get' = [off |-> get.off, n |-> get.n, out |-> get.out, copied |-> c]
      BY <3>5 DEF ReadTypes
    <3>7. QED
      BY <3>1, <3>3, <3>5, <3>6 DEF ReadTypes, ReadSoFar, ReadLines, Rest, StagingPcs, DropPcs,
         RecoverPcs
  <2>2. CASE ~staging.live
    <3>2. pc' = "idle" /\ get' = NoGet /\ staging' = staging /\ torn' = torn
      BY <1>12, <2>2 DEF ChunkCopy, GetReturn
    <3>3. NoGet \in [off : 0..BufBytes, n : 0..BufBytes, out : Seq(Int), copied : BOOLEAN]
      BY SizesAssumption DEF NoGet
    <3>4. QED
      BY <1>0, <3>2, <3>3, SizesAssumption DEF ReadTypes, ReadSoFar, ReadLines, StagingPcs, DropPcs,
         RecoverPcs
  <2>3. QED
    BY <2>1, <2>2
<1>13. CASE ChunkGet
  <2>1. CASE InReturn
    BY <1>8, <2>1
  <2>2. CASE ~InReturn
    <3> DEFINE new == [i \in 1..Take |-> ByteTaken(i)]
    <3>1. Rest > 0 /\ staging.bytes > 0
      BY <1>13 DEF ChunkGet, ReadLines
    <3>2. /\ Skew \in Nat /\ Low \in Int /\ Low + Skew = At /\ Span \in Nat
          /\ Take \in Nat /\ Take <= Rest /\ Skew + Take <= Span
      BY <3>1, SpanFits
    <3>3. /\ get' = [get EXCEPT !.out = get.out \o new, !.copied = FALSE]
          /\ staging' = staging /\ pc = "chunk_get" /\ pc' = "chunk" /\ op' = op /\ torn' = torn
      BY <1>13, <2>2 DEF ChunkGet, Goto, InGet
    <3>4. get.out \in Seq(Int) /\ get.off \in Nat /\ get.n \in Nat /\ Len(get.out) \in Nat
      BY SizesAssumption DEF ReadTypes
    <3>5. At = get.off + Len(get.out) /\ Rest = get.n - Len(get.out)
      BY DEF At, Rest
    <3>6. ASSUME ~torn, NEW i \in 1..Take PROVE new[i] = At + i - 1
      <4>1. get.copied
        BY <3>3, <3>6 DEF ReadLines
      <4>2. ByteTaken(i) = Low + Skew + i - 1
        BY <3>2, <4>1 DEF ByteTaken
      <4>3. QED
        BY <3>2, <3>4, <3>5, <4>2
    <3>7. new \in Seq(Int) /\ Len(new) = Take
      <4>1. \A i \in 1..Take : ByteTaken(i) \in Int
        BY <3>2 DEF ByteTaken
      <4>2. QED
        BY <3>2, <4>1
    <3> HIDE DEF new
    <3>8. get'.off = get.off /\ get'.n = get.n /\ get'.out = get.out \o new
          /\ get' = [off |-> get.off, n |-> get.n, out |-> get.out \o new, copied |-> FALSE]
      BY <3>3 DEF ReadTypes
    <3>9. get.out \o new \in Seq(Int) /\ Len(get.out \o new) = Len(get.out) + Take
      <4>1. ASSUME NEW s \in Seq(Int), NEW t \in Seq(Int)
            PROVE  s \o t \in Seq(Int) /\ Len(s \o t) = Len(s) + Len(t)
        OBVIOUS
      <4>2. QED
        BY <3>4, <3>7, <4>1, Zenon
    <3>10. ReadTypes'
      BY <3>3, <3>8, <3>9 DEF ReadTypes
    <3>11. ASSUME ~torn
           PROVE  \A k \in 1..Len(get.out \o new) : (get.out \o new)[k] = get.off + k - 1
      <4> TAKE k \in 1..Len(get.out \o new)
      <4>1. CASE k <= Len(get.out)
        BY <3>4, <3>7, <3>9, <3>11, <4>1 DEF ReadSoFar
      <4>2. CASE k > Len(get.out)
        <5>1. (get.out \o new)[k] = new[k - Len(get.out)]
          BY <3>2, <3>4, <3>7, <3>9, <4>2
        <5>2. k - Len(get.out) \in 1..Take
          BY <3>2, <3>4, <3>9, <4>2
        <5>3. new[k - Len(get.out)] = At + (k - Len(get.out)) - 1
          BY <3>6, <3>11, <5>2
        <5>4. At + (k - Len(get.out)) - 1 = get.off + k - 1
          BY <3>4, <3>5, <3>9
        <5>5. QED
          BY <5>1, <5>3, <5>4
      <4>3. QED
        BY <3>2, <3>4, <3>9, <4>1, <4>2
    <3>12. ReadSoFar'
      <4>1. Len(get.out) + Take <= get.n
        BY <3>2, <3>4, <3>5
      <4>2. QED
        BY <3>3, <3>8, <3>9, <3>11, <4>1 DEF ReadSoFar
    <3>13. ReadLines'
      <4>1. op = "buffer_get_into"
        BY <3>3 DEF Device, Control, GetPcs, StagingPcs, DropPcs
      <4>2. QED
        BY <3>1, <3>3, <4>1 DEF ReadLines, StagingPcs, DropPcs, RecoverPcs
    <3>14. QED
      BY <3>10, <3>12, <3>13
  <2>3. QED
    BY <2>1, <2>2
<1>14. CASE Kill
  <2>1. get' = NoGet /\ staging' = staging /\ pc' = "idle"
    BY <1>14 DEF Kill
  <2>2. NoGet \in [off : 0..BufBytes, n : 0..BufBytes, out : Seq(Int), copied : BOOLEAN]
    BY SizesAssumption DEF NoGet
  <2>3. QED
    BY <1>0, <2>1, <2>2, SizesAssumption DEF ReadTypes, ReadSoFar, ReadLines, StagingPcs, DropPcs,
       RecoverPcs
<1>15. CASE Adopt
  <2>1. /\ op = "none" /\ pc = "idle" /\ op' = op /\ pc' = pc /\ get' = get
        /\ staging' = [staging EXCEPT !.live = FALSE]
    BY <1>15 DEF Adopt, call, Device, Control
  <2>2. get = NoGet
    BY <2>1 DEF ReadLines
  <2>3. ReadTypes' /\ ReadSoFar'
    <3>1. ReadTypes' /\ staging'.bytes = staging.bytes
      BY <2>1 DEF ReadTypes
    <3>2. ReadSoFar'
      BY <1>0, <2>1, <2>2, <3>1 DEF ReadSoFar
    <3>3. QED
      BY <3>1, <3>2
  <2>4. ReadLines'
    BY <2>1, <2>2 DEF ReadLines, StagingPcs, DropPcs, RecoverPcs
  <2>5. QED
    BY <2>3, <2>4
<1>16. CASE StagingZero
  <2>1. 0 % Word = 0
    BY SizesAssumption
  <2>2. /\ staging' = [staging EXCEPT !.bytes = 0] /\ get' = get /\ op' = op /\ torn' = torn
        /\ pc = "staging_zero" /\ op \in {"buffer_get_into", "close"}
        /\ pc' = (IF op = "close" THEN "close_free" ELSE "staging_create")
    BY <1>16 DEF StagingZero, Goto, InGet, Device, Control, DropPcs
  <2>3. ReadTypes' /\ ReadSoFar'
    <3>1. ReadTypes' /\ staging'.bytes = 0
      BY <2>2, SizesAssumption DEF ReadTypes
    <3>2. ReadSoFar'
      BY <2>1, <2>2, <3>1 DEF ReadSoFar
    <3>3. QED
      BY <3>1, <3>2
  <2>4. ReadLines'
    BY <2>2 DEF ReadLines, Rest, StagingPcs, DropPcs, RecoverPcs
  <2>5. QED
    BY <2>3, <2>4
<1>17. CASE Close
  <2>1. op = "close"
    BY <1>17 DEF Close, Device, Control, Methods
  <2>2. QED
    BY <1>17, <2>1 DEF Close, Goto, InGet, read, ReadTypes, ReadSoFar, ReadLines, Rest, StagingPcs,
       DropPcs, RecoverPcs
<1>18. CASE CloseFree
  <2>1. op = "close" /\ pc' = "idle" /\ UNCHANGED read
    BY <1>18 DEF CloseFree, Return, Device, Control
  <2>2. QED
    BY <1>1, <2>1 DEF ReadLines, GetPcs, StagingPcs, DropPcs, RecoverPcs
<1>19. CASE UNCHANGED vars
  BY <1>19 DEF vars, call, read, ReadTypes, ReadSoFar, ReadLines, Rest
<1>20. QED
  BY <1>2, <1>3, <1>4, <1>5, <1>6, <1>7, <1>9, <1>10, <1>11, <1>12, <1>13, <1>14, <1>15, <1>16,
     <1>17, <1>18, <1>19
  DEF Next, BufferGetInto

\* The line-by-line invariant holds of every behaviour.
THEOREM Inductive == Spec => []IInv
<1>1. IInv /\ [Next]_vars => IInv'
  BY DevicePreserved, ReadPreserved, Zenon DEF IInv
<1>2. QED
  BY <1>1, InitEstablishes, PTL DEF Spec

\* The flags, the host's state, the call and the read keep their types.
THEOREM Types == Spec => []TypeOK
<1>1. IInv => TypeOK
  BY DEF IInv, Device, TypeOK
<1>2. QED
  BY <1>1, Inductive, PTL

\* A list open on the host is always one list_open_ knows of, so that the next
\* vmcall after a kill at any line can end it.
THEOREM FlagCovers == Spec => []ListFlagCoversHost
<1>1. IInv => ListFlagCoversHost
  BY DEF IInv, Device, ListLines, ListFlagCoversHost
<1>2. QED
  BY <1>1, Inductive, PTL

\* Godot never refuses a call of the wrapper because of a list a killed vmcall
\* left open.
THEOREM Recovers == Spec => []NeverRefused
<1>1. IInv => NeverRefused
  BY DEF IInv, Device, ListLines, NeverRefused
<1>2. QED
  BY <1>1, Inductive, PTL

\* A read through the staging buffer stays inside the buffers, and is exact
\* unless a kill has torn submitted_ from the host (rd_compute.cpp 367-412).
THEOREM ReadIsExact == Spec => []ReadsTheRange
<1>1. IInv => ReadsTheRange
  <2> SUFFICES ASSUME IInv PROVE ReadsTheRange
    OBVIOUS
  <2>1. ASSUME pc \in {"chunk_copy", "chunk_get"}
        PROVE  /\ Span <= staging.bytes /\ Low + Span <= BufBytes
               /\ Span % Word = 0 /\ Low % Word = 0 /\ Take > 0
    <3>1. Rest > 0 /\ staging.bytes > 0
      BY <2>1 DEF IInv, ReadLines
    <3>2. QED
      BY <3>1, SpanFits DEF IInv
  <2>2. QED
    BY <2>1 DEF IInv, ReadSoFar, ReadsTheRange
<1>2. QED
  BY <1>1, Inductive, PTL

\* submitted() agrees with the host between calls, unless a kill tore it.
THEOREM SubmittedAgrees == Spec => []SubmittedTruth
<1>1. IInv => SubmittedTruth
  BY DEF IInv, Device, Control, SubmitLines, SubmittedTruth
<1>2. QED
  BY <1>1, Inductive, PTL
=============================================================================

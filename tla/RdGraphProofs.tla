---------------------------- MODULE RdGraphProofs ----------------------------
(***************************************************************************)
(* Proofs about RdGraph, for every graph: barrier elision is sound.  The   *)
(* argument: interval overlap of word-widened ranges finds every shared    *)
(* word, and the segment sets hold the ranges of every dispatch recorded   *)
(* since the last barrier, and nothing else, so that no barrier is placed  *)
(* without a conflict either.                                              *)
(*                                                                         *)
(* And a submit is of the whole graph: while it is packed, the dispatches  *)
(* are the nodes before the next one that run, each once and in order.     *)
(***************************************************************************)
EXTENDS RdGraph, SequenceTheorems, TLAPS

\* Ranges widened by range_of() overlap whenever two tensors share a word.
LEMMA SharedWordOverlaps ==
  ASSUME NEW t \in Tensor, NEW u \in Tensor, Words(t) \cap Words(u) # {}
  PROVE  /\ range_of(t).rid = range_of(u).rid
         /\ range_of(t).lo < range_of(u).hi
         /\ range_of(u).lo < range_of(t).hi
<1>1. PICK w \in Words(t) : w \in Words(u)
  OBVIOUS
<1>2. PICK b \in t.off..(t.off + t.n - 1) : w = <<t.buf, b \div 4>>
  BY <1>1 DEF Words
<1>3. PICK c \in u.off..(u.off + u.n - 1) : w = <<u.buf, c \div 4>>
  BY <1>1 DEF Words
<1>4. t.buf = u.buf /\ b \div 4 = c \div 4
  BY <1>2, <1>3
<1>5. t.off \in Nat /\ t.n \in Nat /\ u.off \in Nat /\ u.n \in Nat /\ b \in Nat /\ c \in Nat
  BY <1>2, <1>3 DEF Tensor
<1>6. /\ FloorWord(t.off) <= 4 * (b \div 4) /\ 4 * (b \div 4) < FloorWord(t.off + t.n + 3)
      /\ FloorWord(u.off) <= 4 * (c \div 4) /\ 4 * (c \div 4) < FloorWord(u.off + u.n + 3)
  BY <1>2, <1>3, <1>5 DEF FloorWord
<1>7. /\ FloorWord(t.off) < FloorWord(u.off + u.n + 3)
      /\ FloorWord(u.off) < FloorWord(t.off + t.n + 3)
  BY <1>4, <1>5, <1>6 DEF FloorWord
<1>8. QED
  BY <1>4, <1>7 DEF range_of

\* A dispatch that conflicts with one whose ranges are in the segment sets is
\* a hazard.
LEMMA ConflictIsHazard ==
  ASSUME NEW a \in Nodes, NEW nd \in Nodes, Conflict(a, nd),
         Reads(a) \subseteq seg_reads, Write(a) \in seg_writes
  PROVE  Hazard(nd)
<1>1. /\ a.dst \in Tensor /\ nd.dst \in Tensor
      /\ Sources(a) \subseteq Tensor /\ Sources(nd) \subseteq Tensor
  BY NodesAssumption DEF Sources
<1>2. CASE Words(a.dst) \cap Words(nd.dst) # {}
  <2>1. overlaps(seg_writes, Write(nd))
    BY <1>1, <1>2, SharedWordOverlaps DEF overlaps, Write
  <2>2. QED
    BY <2>1 DEF Hazard
<1>3. CASE Words(a.dst) \cap ReadWords(nd) # {}
  <2>1. PICK t \in Sources(nd) : Words(a.dst) \cap Words(t) # {}
    BY <1>3 DEF ReadWords
  <2>2. overlaps(seg_writes, range_of(t))
    BY <1>1, <2>1, SharedWordOverlaps DEF overlaps, Write
  <2>3. QED
    BY <2>1, <2>2 DEF Hazard, Reads
<1>4. CASE ReadWords(a) \cap Words(nd.dst) # {}
  <2>1. PICK t \in Sources(a) : Words(t) \cap Words(nd.dst) # {}
    BY <1>4 DEF ReadWords
  <2>2. range_of(t) \in seg_reads
    BY <2>1 DEF Reads
  <2>3. overlaps(seg_reads, Write(nd))
    BY <1>1, <2>1, <2>2, SharedWordOverlaps DEF overlaps, Write
  <2>4. QED
    BY <2>3 DEF Hazard
<1>5. QED
  BY <1>2, <1>3, <1>4 DEF Conflict

\* Conversely two ranges that overlap share a word, the first of the later one.
LEMMA LaterWordShared ==
  ASSUME NEW t \in Tensor, NEW u \in Tensor, t.n > 0, u.n > 0, t.buf = u.buf,
         u.off \div 4 <= t.off \div 4, FloorWord(t.off) < FloorWord(u.off + u.n + 3)
  PROVE  Words(t) \cap Words(u) # {}
<1> DEFINE w == <<t.buf, t.off \div 4>>
<1>1. t.off \in Nat /\ t.n \in Nat /\ u.off \in Nat /\ u.n \in Nat
  BY DEF Tensor
<1>2. w \in Words(t)
  <2>1. t.off \in t.off..(t.off + t.n - 1)
    BY <1>1
  <2>2. QED
    BY <2>1 DEF Words
<1>3. \E c \in u.off..(u.off + u.n - 1) : c \div 4 = t.off \div 4
  <2>1. CASE u.off \div 4 = t.off \div 4
    <3>1. u.off \in u.off..(u.off + u.n - 1)
      BY <1>1
    <3>2. QED
      BY <2>1, <3>1
  <2>2. CASE u.off \div 4 # t.off \div 4
    <3> DEFINE c == 4 * (t.off \div 4)
    <3> DEFINE e == (u.off + u.n + 3) \div 4
    <3>1. c \in u.off..(u.off + u.n - 1)
      <4>1. /\ t.off \div 4 \in Nat /\ u.off \div 4 \in Nat /\ e \in Nat
            /\ u.off < 4 * (u.off \div 4) + 4 /\ 4 * e <= u.off + u.n + 3
        BY <1>1
      <4>2. u.off \div 4 + 1 <= t.off \div 4 /\ t.off \div 4 + 1 <= e
        BY <2>2, <4>1 DEF FloorWord
      <4>3. u.off <= c /\ c <= u.off + u.n - 1
        BY <1>1, <4>1, <4>2
      <4>4. QED
        BY <1>1, <4>1, <4>3
    <3>2. c \div 4 = t.off \div 4
      BY <1>1
    <3>3. QED
      BY <3>1, <3>2
  <2>3. QED
    BY <2>1, <2>2
<1>4. w \in Words(u)
  BY <1>3 DEF Words
<1>5. QED
  BY <1>2, <1>4

LEMMA OverlapSharesWord ==
  ASSUME NEW t \in Tensor, NEW u \in Tensor, t.n > 0, u.n > 0,
         range_of(t).rid = range_of(u).rid, range_of(t).lo < range_of(u).hi,
         range_of(u).lo < range_of(t).hi
  PROVE  Words(t) \cap Words(u) # {}
<1>1. /\ t.buf = u.buf /\ FloorWord(t.off) < FloorWord(u.off + u.n + 3)
      /\ FloorWord(u.off) < FloorWord(t.off + t.n + 3)
      /\ t.off \in Nat /\ u.off \in Nat
  BY DEF range_of, Tensor
<1>2. CASE u.off \div 4 <= t.off \div 4
  BY <1>1, <1>2, LaterWordShared
<1>3. CASE t.off \div 4 <= u.off \div 4
  <2>1. Words(u) \cap Words(t) # {}
    BY <1>1, <1>3, LaterWordShared
  <2>2. QED
    BY <2>1
<1>4. QED
  BY <1>1, <1>2, <1>3

-----------------------------------------------------------------------------
\* The nodes that are packed: not skipped, so with bytes.
Packable == {nd \in Nodes : ~nd.skip}

\* A hazard is a conflict with one of the dispatches whose ranges the segment
\* sets hold.
LEMMA HazardIsConflict ==
  ASSUME NEW nd \in Packable, NEW D \in SUBSET Packable, Hazard(nd), ~(BarrierAll /\ i > 1),
         \A r \in seg_reads : \E a \in D : r \in Reads(a),
         \A r \in seg_writes : \E a \in D : r = Write(a)
  PROVE  \E a \in D : Conflict(a, nd)
<1>1. \A a \in Packable :
        /\ a.dst \in Tensor /\ a.dst.n > 0
        /\ \A t \in Sources(a) : t \in Tensor /\ t.n > 0
  BY NodesAssumption, BytesAssumption DEF Packable, Sources
<1>2. ASSUME NEW r \in Reads(nd), overlaps(seg_writes, r)
      PROVE  \E a \in D : Conflict(a, nd)
  <2>1. PICK t \in Sources(nd) : r = range_of(t)
    BY <1>2 DEF Reads
  <2>2. PICK x \in seg_writes : x.rid = r.rid /\ x.lo < r.hi /\ r.lo < x.hi
    BY <1>2 DEF overlaps
  <2>3. PICK a \in D : x = range_of(a.dst)
    BY <2>2 DEF Write
  <2>4. Words(a.dst) \cap Words(t) # {}
    BY <1>1, <2>1, <2>2, <2>3, OverlapSharesWord
  <2>5. Words(a.dst) \cap ReadWords(nd) # {}
    BY <2>1, <2>4 DEF ReadWords
  <2>6. QED
    BY <2>5 DEF Conflict
<1>3. CASE overlaps(seg_writes, Write(nd))
  <2>1. PICK x \in seg_writes : x.rid = Write(nd).rid /\ x.lo < Write(nd).hi /\ Write(nd).lo < x.hi
    BY <1>3 DEF overlaps
  <2>2. PICK a \in D : x = range_of(a.dst)
    BY <2>1 DEF Write
  <2>3. Words(a.dst) \cap Words(nd.dst) # {}
    BY <1>1, <2>1, <2>2, OverlapSharesWord DEF Write
  <2>4. QED
    BY <2>3 DEF Conflict
<1>4. CASE overlaps(seg_reads, Write(nd))
  <2>1. PICK x \in seg_reads : x.rid = Write(nd).rid /\ x.lo < Write(nd).hi /\ Write(nd).lo < x.hi
    BY <1>4 DEF overlaps
  <2>2. PICK a \in D : x \in Reads(a)
    BY <2>1
  <2>3. PICK t \in Sources(a) : x = range_of(t)
    BY <2>2 DEF Reads
  <2>4. Words(t) \cap Words(nd.dst) # {}
    BY <1>1, <2>1, <2>3, OverlapSharesWord DEF Write
  <2>5. ReadWords(a) \cap Words(nd.dst) # {}
    BY <2>3, <2>4 DEF ReadWords
  <2>6. QED
    BY <2>5 DEF Conflict
<1>5. QED
  BY <1>2, <1>3, <1>4 DEF Hazard

-----------------------------------------------------------------------------
\* How far the recording is, and that only it has recorded anything.
Progress ==
  /\ phase = "record" => i = Len(seg) + 1 /\ Len(seg) <= Len(ds)
  /\ phase # "record" => seg = <<>>

\* The segment sets hold the ranges of every dispatch of the open segment.
SegmentsCover ==
  \A k \in 1..Len(seg) :
    /\ seg[k] <= barriers
    /\ seg[k] = barriers => Reads(ds[k]) \subseteq seg_reads /\ Write(ds[k]) \in seg_writes

\* ... and of no other, and the last dispatch is of the open segment.
SegmentsOnly ==
  /\ ds \in Seq(Packable)
  /\ phase = "record" =>
       /\ \A r \in seg_reads : \E k \in 1..Len(seg) : seg[k] = barriers /\ r \in Reads(ds[k])
       /\ \A r \in seg_writes : \E k \in 1..Len(seg) : seg[k] = barriers /\ r = Write(ds[k])
  /\ seg # <<>> => seg[Len(seg)] = barriers

\* graph_compute runs past ensure_idle() on an idle device.
DeviceIdle ==
  /\ hostBusy = pending
  /\ phase # "idle" => ~hostBusy

IInv == /\ TypeOK /\ Progress /\ SegmentsCover /\ ConflictsAreSeparated /\ DeviceIdle
        /\ SegmentsOnly /\ BarriersAreNeeded

\* Nothing recorded, nothing in flight.
LEMMA InitEstablishes == Init => IInv
<1> SUFFICES ASSUME Init PROVE IInv
  OBVIOUS
<1>1. /\ graph = <<>> /\ ds = <<>> /\ seg = <<>> /\ phase = "idle"
      /\ i = 1 /\ barriers = 0 /\ status = "SUCCESS"
  BY DEF Init
<1>2. pending \in BOOLEAN /\ hostBusy \in BOOLEAN /\ hostBusy = pending
  BY DEF Init
<1>3. TypeOK
  BY <1>1, <1>2 DEF TypeOK
<1>4. Progress /\ SegmentsCover /\ ConflictsAreSeparated
  BY <1>1 DEF Progress, SegmentsCover, ConflictsAreSeparated
<1>5. SegmentsOnly /\ BarriersAreNeeded
  BY <1>1 DEF SegmentsOnly, BarriersAreNeeded
<1>6. QED
  BY <1>1, <1>2, <1>3, <1>4, <1>5 DEF IInv, DeviceIdle

\* A return of graph_compute leaves no list behind.
LEMMA ReturnClears ==
  ASSUME NEW s \in {"SUCCESS", "FAILED"}, Return(s),
         hostBusy' \in BOOLEAN, pending' = hostBusy'
  PROVE  IInv'
<1>1. /\ phase' = "idle" /\ status' = s /\ graph' = <<>> /\ i' = 1 /\ ds' = <<>>
      /\ barriers' = 0 /\ seg' = <<>>
  BY DEF Return
<1>2. TypeOK' /\ Progress' /\ SegmentsCover' /\ ConflictsAreSeparated' /\ DeviceIdle'
  BY <1>1 DEF TypeOK, Progress, SegmentsCover, ConflictsAreSeparated, DeviceIdle
<1>3. SegmentsOnly' /\ BarriersAreNeeded'
  BY <1>1 DEF SegmentsOnly, BarriersAreNeeded
<1>4. QED
  BY <1>2, <1>3 DEF IInv

\* Recording one dispatch keeps the segments covered and conflicts apart.
LEMMA RecordPreserves == IInv /\ Record => IInv'
<1> SUFFICES ASSUME IInv, Record PROVE IInv'
  OBVIOUS
<1> DEFINE nd == ds[i]
<1>1. /\ i \in 1..Len(ds) /\ ds \in Seq(Nodes) /\ nd \in Nodes
      /\ i = Len(seg) + 1 /\ phase = "record"
  BY DEF Record, IInv, TypeOK, Progress
<1>2. /\ seg' = Append(seg, barriers') /\ i' = i + 1 /\ ds' = ds /\ graph' = graph
      /\ phase' = phase /\ pending' = pending /\ hostBusy' = hostBusy /\ status' = status
      /\ barriers' = barriers + (IF Hazard(nd) THEN 1 ELSE 0)
      /\ seg_reads' = (IF Hazard(nd) THEN {} ELSE seg_reads) \cup Reads(nd)
      /\ seg_writes' = (IF Hazard(nd) THEN {} ELSE seg_writes) \cup {Write(nd)}
  BY DEF Record
<1>3. barriers \in Nat /\ barriers' \in Nat /\ seg \in Seq(Nat) /\ seg' \in Seq(Nat)
  BY <1>2 DEF IInv, TypeOK
<1>4. /\ Len(seg') = i
      /\ seg'[i] = barriers'
      /\ \A k \in 1..(i - 1) : seg'[k] = seg[k]
  BY <1>1, <1>2, <1>3
<1>5. TypeOK'
  BY <1>1, <1>2, <1>3 DEF IInv, TypeOK
<1>6. Progress'
  BY <1>1, <1>2, <1>3, <1>4 DEF IInv, Progress
<1>7. SegmentsCover'
  <2> SUFFICES ASSUME NEW k \in 1..i
               PROVE  /\ seg'[k] <= barriers'
                      /\ seg'[k] = barriers' => /\ Reads(ds[k]) \subseteq seg_reads'
                                               /\ Write(ds[k]) \in seg_writes'
    BY <1>2, <1>4 DEF SegmentsCover
  <2>1. CASE k = i
    BY <1>2, <1>3, <1>4, <2>1
  <2>2. CASE k # i
    <3>1. k \in 1..Len(seg) /\ seg'[k] = seg[k] /\ seg[k] \in Nat
      BY <1>1, <1>3, <1>4, <2>2
    <3>2. QED
      BY <1>2, <1>3, <3>1 DEF IInv, SegmentsCover
  <2>3. QED
    BY <2>1, <2>2
<1>8. ConflictsAreSeparated'
  <2> SUFFICES ASSUME NEW k \in 1..i, NEW l \in 1..i, k < l, Conflict(ds[k], ds[l])
               PROVE  seg'[k] # seg'[l]
    BY <1>2, <1>4 DEF ConflictsAreSeparated
  <2>1. CASE l = i
    <3>1. /\ k \in 1..Len(seg) /\ seg'[k] = seg[k] /\ seg[k] \in Nat /\ seg[k] <= barriers
          /\ ds[k] \in Nodes
      BY <1>1, <1>3, <1>4, <2>1 DEF IInv, SegmentsCover
    <3>2. CASE Hazard(nd)
      BY <1>2, <1>3, <1>4, <2>1, <3>1, <3>2
    <3>3. CASE ~Hazard(nd)
      <4>1. seg[k] # barriers
        BY <1>1, <2>1, <3>1, <3>3, ConflictIsHazard DEF IInv, SegmentsCover
      <4>2. QED
        BY <1>2, <1>3, <1>4, <2>1, <3>1, <3>3, <4>1
    <3>4. QED
      BY <3>2, <3>3
  <2>2. CASE l # i
    <3>1. /\ k \in 1..Len(seg) /\ l \in 1..Len(seg)
          /\ seg'[k] = seg[k] /\ seg'[l] = seg[l]
      BY <1>1, <1>3, <1>4, <2>2
    <3>2. QED
      BY <3>1 DEF IInv, ConflictsAreSeparated
  <2>3. QED
    BY <2>1, <2>2
<1>9. DeviceIdle'
  BY <1>2 DEF IInv, DeviceIdle
<1>10. SegmentsOnly'
  <2>1. ds \in Seq(Packable) /\ ds' = ds
    BY <1>2 DEF IInv, SegmentsOnly
  <2>2. ASSUME NEW r \in seg_reads'
        PROVE  \E k \in 1..i : seg'[k] = barriers' /\ r \in Reads(ds[k])
    <3>1. CASE r \in Reads(nd)
      BY <1>1, <1>4, <3>1
    <3>2. CASE r \notin Reads(nd)
      <4>1. ~Hazard(nd) /\ r \in seg_reads /\ barriers' = barriers
        BY <1>2, <1>3, <2>2, <3>2 DEF IInv, TypeOK
      <4>2. PICK k \in 1..Len(seg) : seg[k] = barriers /\ r \in Reads(ds[k])
        BY <1>1, <4>1 DEF IInv, SegmentsOnly
      <4>3. k \in 1..i /\ seg'[k] = barriers'
        BY <1>1, <1>3, <1>4, <4>1, <4>2
      <4>4. QED
        BY <4>2, <4>3
    <3>3. QED
      BY <3>1, <3>2
  <2>3. ASSUME NEW r \in seg_writes'
        PROVE  \E k \in 1..i : seg'[k] = barriers' /\ r = Write(ds[k])
    <3>1. CASE r = Write(nd)
      BY <1>1, <1>4, <3>1
    <3>2. CASE r # Write(nd)
      <4>1. ~Hazard(nd) /\ r \in seg_writes /\ barriers' = barriers
        BY <1>2, <1>3, <2>3, <3>2 DEF IInv, TypeOK
      <4>2. PICK k \in 1..Len(seg) : seg[k] = barriers /\ r = Write(ds[k])
        BY <1>1, <4>1 DEF IInv, SegmentsOnly
      <4>3. k \in 1..i /\ seg'[k] = barriers'
        BY <1>1, <1>3, <1>4, <4>1, <4>2
      <4>4. QED
        BY <4>2, <4>3
    <3>3. QED
      BY <3>1, <3>2
  <2>4. QED
    BY <1>2, <1>4, <2>1, <2>2, <2>3 DEF SegmentsOnly
<1>11. BarriersAreNeeded'
  <2> SUFFICES ASSUME NEW l \in 2..i, seg'[l] # seg'[l - 1], ~BarrierAll
               PROVE  \E k \in 1..(l - 1) : seg'[k] = seg'[l - 1] /\ Conflict(ds[k], ds[l])
    BY <1>2, <1>4, NodesAssumption, Zenon DEF BarriersAreNeeded
  <2>1. CASE l = i
    <3> DEFINE D == {ds[k] : k \in {j \in 1..Len(seg) : seg[j] = barriers}}
    <3>1. /\ l - 1 \in 1..Len(seg) /\ l - 1 = Len(seg) /\ seg # <<>> /\ seg'[l - 1] = seg[l - 1]
      BY <1>1, <1>3, <1>4, <2>1
    <3>2. seg[l - 1] = barriers
      BY <3>1 DEF IInv, SegmentsOnly
    <3>3. Hazard(nd)
      BY <1>2, <1>3, <1>4, <2>1, <3>1, <3>2
    <3>4. ds \in Seq(Packable) /\ nd \in Packable /\ D \in SUBSET Packable
      BY <1>1 DEF IInv, SegmentsOnly, Progress
    <3>5. \A r \in seg_reads : \E a \in D : r \in Reads(a)
      BY <1>1 DEF IInv, SegmentsOnly
    <3>6. \A r \in seg_writes : \E a \in D : r = Write(a)
      BY <1>1 DEF IInv, SegmentsOnly
    <3> HIDE DEF nd
    <3>7. PICK a \in D : Conflict(a, nd)
      BY <3>3, <3>4, <3>5, <3>6, HazardIsConflict
    <3>8. PICK k \in 1..Len(seg) : seg[k] = barriers /\ a = ds[k]
      BY <3>7
    <3>9. k \in 1..(l - 1) /\ seg'[k] = seg'[l - 1]
      BY <1>1, <1>3, <1>4, <2>1, <3>1, <3>2, <3>8
    <3>10. Conflict(ds[k], ds[l])
      BY <2>1, <3>7, <3>8 DEF nd
    <3>11. QED
      BY <3>9, <3>10
  <2>2. CASE l # i
    <3>1. /\ l \in 2..Len(seg) /\ seg'[l] = seg[l] /\ seg'[l - 1] = seg[l - 1]
          /\ \A k \in 1..(l - 1) : seg'[k] = seg[k]
      <4>1. l \in 1..(i - 1) /\ l - 1 \in 1..(i - 1) /\ l \in 2..Len(seg)
        BY <1>1, <1>3, <2>2
      <4>2. \A k \in 1..(l - 1) : k \in 1..(i - 1)
        BY <1>1, <4>1
      <4>3. QED
        BY <1>4, <4>1, <4>2, Zenon
    <3>2. \E k \in 1..(l - 1) : seg[k] = seg[l - 1] /\ Conflict(ds[k], ds[l])
      BY <3>1 DEF IInv, BarriersAreNeeded
    <3>3. QED
      BY <3>1, <3>2
  <2>3. QED
    BY <2>1, <2>2
<1>12. QED
  BY <1>5, <1>6, <1>7, <1>8, <1>9, <1>10, <1>11 DEF IInv

\* Every step of graph_compute and of its callers keeps the invariant.
LEMMA StepPreserves == IInv /\ [Next]_vars => IInv'
<1> SUFFICES ASSUME IInv, [Next]_vars PROVE IInv'
  OBVIOUS
<1>1. hostBusy \in BOOLEAN /\ pending = hostBusy
  BY DEF IInv, TypeOK, DeviceIdle
<1>2. CASE NoDevice
  BY <1>1, <1>2, ReturnClears DEF NoDevice
<1>3. ASSUME NEW g \in Graphs, GraphCompute(g) PROVE IInv'
  <2>1. g \in Seq(Nodes)
    BY DEF Graphs
  <2>2. /\ phase = "idle" /\ phase' = "pack" /\ graph' = g
        /\ pending' = FALSE /\ hostBusy' = FALSE
    BY <1>1, <1>3 DEF GraphCompute, Enter
  <2>3. UNCHANGED <<i, ds, seg_reads, seg_writes, barriers, seg, status>>
    BY <1>3 DEF GraphCompute, Enter
  <2>4. TypeOK'
    BY <2>1, <2>2, <2>3 DEF IInv, TypeOK
  <2>5. Progress' /\ DeviceIdle'
    BY <2>2, <2>3 DEF IInv, Progress, DeviceIdle
  <2>6. SegmentsCover' /\ ConflictsAreSeparated'
    BY <2>3 DEF IInv, SegmentsCover, ConflictsAreSeparated
  <2>7. SegmentsOnly' /\ BarriersAreNeeded'
    BY <2>2, <2>3 DEF IInv, SegmentsOnly, BarriersAreNeeded
  <2>8. QED
    BY <2>4, <2>5, <2>6, <2>7 DEF IInv
<1>4. ASSUME phase # "record", phase \in {"pack", "prepare"}, UNCHANGED <<seg, pending, hostBusy, status>>,
             TypeOK', ds' \in Seq(Packable), phase' \in {"pack", "prepare"}
      PROVE  IInv'
  <2>1. seg' = <<>>
    BY <1>4 DEF IInv, Progress
  <2>2. SegmentsOnly' /\ BarriersAreNeeded'
    BY <1>4, <2>1 DEF SegmentsOnly, BarriersAreNeeded
  <2>3. QED
    BY <1>4, <2>1, <2>2 DEF IInv, Progress, SegmentsCover, ConflictsAreSeparated,
       DeviceIdle
<1>5. CASE PackNode
  <2>1. TypeOK'
    BY <1>5 DEF IInv, TypeOK, PackNode, Listing
  <2>2. ds' \in Seq(Packable)
    BY <1>5 DEF IInv, TypeOK, SegmentsOnly, PackNode, Skips, Packable
  <2>3. QED
    BY <1>4, <1>5, <2>1, <2>2 DEF PackNode, Listing
<1>6. CASE PackRefused
  BY <1>1, <1>6, ReturnClears DEF PackRefused
<1>7. CASE NothingToRun
  BY <1>1, <1>7, ReturnClears DEF NothingToRun
<1>8. CASE Packed
  <2>1. TypeOK'
    BY <1>8 DEF IInv, TypeOK, Packed, loc
  <2>2. ds' \in Seq(Packable)
    BY <1>8 DEF IInv, SegmentsOnly, Packed, loc
  <2>3. QED
    BY <1>4, <1>8, <2>1, <2>2 DEF Packed, loc
<1>9. CASE CpuRun
  BY <1>1, <1>9, ReturnClears DEF CpuRun
<1>10. CASE PrepareFails
  BY <1>1, <1>10, ReturnClears DEF PrepareFails
<1>11. CASE ListBegin
  <2>1. seg' = <<>>
    BY <1>11 DEF IInv, Progress, ListBegin
  <2>2. TypeOK'
    BY <1>11 DEF IInv, TypeOK, ListBegin
  <2>3. Progress'
    BY <1>11, <2>1, <2>2 DEF Progress, ListBegin, TypeOK
  <2>4. SegmentsCover' /\ ConflictsAreSeparated'
    BY <2>1 DEF SegmentsCover, ConflictsAreSeparated
  <2>5. DeviceIdle'
    BY <1>11 DEF IInv, DeviceIdle, ListBegin
  <2>6. SegmentsOnly' /\ BarriersAreNeeded'
    BY <1>11, <2>1 DEF IInv, ListBegin, SegmentsOnly, BarriersAreNeeded
  <2>7. QED
    BY <2>2, <2>3, <2>4, <2>5, <2>6 DEF IInv
<1>12. CASE Record
  BY <1>12, RecordPreserves
<1>13. CASE Submit
  <2>1. Return("SUCCESS") /\ hostBusy' = TRUE /\ pending' = TRUE
    BY <1>13 DEF Submit
  <2>2. QED
    BY <2>1, ReturnClears
<1>14. CASE EnsureIdle
  <2>1. /\ pending' = FALSE /\ hostBusy' = FALSE
        /\ UNCHANGED <<graph, i, ds, seg_reads, seg_writes, barriers, seg, phase, status>>
    BY <1>14 DEF EnsureIdle, loc
  <2>2. TypeOK'
    BY <2>1 DEF IInv, TypeOK
  <2>3. Progress'
    BY <2>1 DEF IInv, Progress
  <2>4. SegmentsCover' /\ SegmentsOnly'
    BY <2>1 DEF IInv, SegmentsCover, SegmentsOnly
  <2>5. ConflictsAreSeparated' /\ BarriersAreNeeded'
    BY <2>1 DEF IInv, ConflictsAreSeparated, BarriersAreNeeded
  <2>6. DeviceIdle'
    BY <2>1 DEF IInv, DeviceIdle
  <2>7. QED
    BY <2>2, <2>3, <2>4, <2>5, <2>6 DEF IInv
<1>15. CASE UNCHANGED vars
  <2>1. UNCHANGED <<graph, i, ds, seg_reads, seg_writes, barriers, seg, phase, status,
                    pending, hostBusy>>
    BY <1>15 DEF vars, loc
  <2>2. TypeOK'
    BY <2>1 DEF IInv, TypeOK
  <2>3. Progress'
    BY <2>1 DEF IInv, Progress
  <2>4. SegmentsCover' /\ SegmentsOnly'
    BY <2>1 DEF IInv, SegmentsCover, SegmentsOnly
  <2>5. ConflictsAreSeparated' /\ BarriersAreNeeded'
    BY <2>1 DEF IInv, ConflictsAreSeparated, BarriersAreNeeded
  <2>6. DeviceIdle'
    BY <2>1 DEF IInv, DeviceIdle
  <2>7. QED
    BY <2>2, <2>3, <2>4, <2>5, <2>6 DEF IInv
<1>16. QED
  BY <1>2, <1>3, <1>5, <1>6, <1>7, <1>8, <1>9, <1>10, <1>11, <1>12, <1>13, <1>14, <1>15 DEF Next

\* The invariant holds of every behaviour.
THEOREM Inductive == Spec => []IInv
  BY InitEstablishes, StepPreserves, PTL DEF Spec

\* The graph, the loops and the list keep their types.
THEOREM Types == Spec => []TypeOK
<1>1. IInv => TypeOK
  BY DEF IInv
<1>2. QED
  BY <1>1, Inductive, PTL

\* Barrier elision is exact for every graph and tensor layout: two
\* dispatches of one list that conflict on a word have a barrier in between, and
\* every barrier separates two that do.
THEOREM ElisionExact == Spec => []BarriersAreExact
<1>1. IInv => BarriersAreExact
  BY DEF IInv, BarriersAreExact
<1>2. QED
  BY <1>1, Inductive, PTL

\* graph_compute never records on a device that still runs the last graph.
THEOREM RecordsIdle == Spec => []RecordsOnIdleDevice
<1>1. IInv => RecordsOnIdleDevice
  BY DEF IInv, DeviceIdle, RecordsOnIdleDevice
<1>2. QED
  BY <1>1, Inductive, PTL

-----------------------------------------------------------------------------
(* What is submitted.                                                      *)

\* The packing loop is at node i, and has packed what runs of those before it.
Packing ==
  /\ phase = "idle" => i = 1 /\ ds = <<>>
  /\ phase = "pack" => i <= Len(graph) + 1 /\ \E n \in Nat : n + 1 = i /\ RunsOf(ds, graph, n)
  /\ phase \in {"prepare", "record"} => RunsOf(ds, graph, Len(graph))

\* Of no node yet.
LEMMA NoneRun ==
  ASSUME NEW gr
  PROVE  RunsOf(<<>>, gr, 0)
<1> DEFINE at == [k \in 1..Len(<<>>) |-> k]
<1>1. Len(<<>>) = 0 /\ 1..0 = {}
  BY EmptySeq
<1>2. at \in [1..Len(<<>>) -> 1..0]
  BY <1>1
<1>3. QED
  BY <1>1, <1>2 DEF RunsOf

\* A skipped node adds nothing.
LEMMA SkippedRun ==
  ASSUME NEW s \in Seq(Nodes), NEW gr, NEW n \in Nat, RunsOf(s, gr, n), gr[n + 1].skip
  PROVE  RunsOf(s, gr, n + 1)
<1>1. PICK L \in Nat : L = Len(s)
  BY LenProperties
<1>2. PICK at \in [1..L -> 1..n] :
        /\ \A k, l \in 1..L : k < l => at[k] < at[l]
        /\ \A k \in 1..L : s[k] = gr[at[k]]
        /\ \A m \in 1..n : ~gr[m].skip <=> \E k \in 1..L : at[k] = m
  BY <1>1 DEF RunsOf
<1>3. \A k \in 1..L : at[k] \in 1..n
  OBVIOUS
<1>4. at \in [1..L -> 1..n + 1]
  BY <1>3
<1>5. \A m \in 1..n + 1 : ~gr[m].skip <=> \E k \in 1..L : at[k] = m
  <2>1. ASSUME NEW m \in 1..n + 1 PROVE ~gr[m].skip <=> \E k \in 1..L : at[k] = m
    <3>1. CASE m \in 1..n
      BY <1>2, <3>1
    <3>2. CASE m = n + 1
      BY <1>3, <3>2
    <3>3. QED
      BY <3>1, <3>2
  <2>2. QED
    BY <2>1
<1>6. QED
  BY <1>1, <1>2, <1>4, <1>5 DEF RunsOf

\* Any other is the next dispatch.
LEMMA NextRun ==
  ASSUME NEW s \in Seq(Nodes), NEW gr, NEW n \in Nat, RunsOf(s, gr, n), ~gr[n + 1].skip,
         NEW nd \in Nodes, nd = gr[n + 1]
  PROVE  RunsOf(Append(s, nd), gr, n + 1)
<1>1. PICK L \in Nat : L = Len(s)
  BY LenProperties
<1>2. PICK at \in [1..L -> 1..n] :
        /\ \A k, l \in 1..L : k < l => at[k] < at[l]
        /\ \A k \in 1..L : s[k] = gr[at[k]]
        /\ \A m \in 1..n : ~gr[m].skip <=> \E k \in 1..L : at[k] = m
  BY <1>1 DEF RunsOf
<1>3. PICK t : t = Append(s, nd)
  OBVIOUS
<1>4. Len(t) = L + 1 /\ t[L + 1] = nd /\ \A k \in 1..L : t[k] = s[k]
  BY <1>1, <1>3, AppendProperties
<1>5. PICK to : to = [k \in 1..L + 1 |-> IF k = L + 1 THEN n + 1 ELSE at[k]]
  OBVIOUS
<1>6. to[L + 1] = n + 1 /\ \A k \in 1..L : to[k] = at[k] /\ to[k] \in 1..n
  BY <1>5
<1>7. \A k \in 1..L + 1 : k \in 1..L \/ k = L + 1
  OBVIOUS
<1>8. to \in [1..L + 1 -> 1..n + 1]
  <2>1. \A k \in 1..L + 1 : to[k] \in 1..n + 1
    BY <1>6, <1>7
  <2>2. QED
    BY <1>5, <2>1
<1>9. \A k, l \in 1..L + 1 : k < l => to[k] < to[l]
  <2>1. ASSUME NEW k \in 1..L + 1, NEW l \in 1..L + 1, k < l PROVE to[k] < to[l]
    <3>1. k \in 1..L
      BY <2>1
    <3>2. CASE l \in 1..L
      BY <1>2, <1>6, <2>1, <3>1, <3>2
    <3>3. CASE l = L + 1
      BY <1>6, <3>1, <3>3
    <3>4. QED
      BY <1>7, <3>2, <3>3
  <2>2. QED
    BY <2>1
<1>10. \A k \in 1..L + 1 : t[k] = gr[to[k]]
  BY <1>2, <1>4, <1>6, <1>7
<1>11. \A m \in 1..n + 1 : ~gr[m].skip <=> \E k \in 1..L + 1 : to[k] = m
  <2>1. ASSUME NEW m \in 1..n + 1 PROVE ~gr[m].skip <=> \E k \in 1..L + 1 : to[k] = m
    <3>1. CASE m \in 1..n
      <4>1. m # n + 1
        BY <3>1
      <4>2. (\E k \in 1..L + 1 : to[k] = m) <=> \E k \in 1..L : at[k] = m
        BY <1>6, <1>7, <4>1
      <4>3. QED
        BY <1>2, <3>1, <4>2
    <3>2. CASE m = n + 1
      BY <1>6, <3>2
    <3>3. QED
      BY <3>1, <3>2
  <2>2. QED
    BY <2>1
<1>12. PICK M \in Nat : M = L + 1
  OBVIOUS
<1>13. Len(t) = M
  BY <1>4, <1>12
<1>14. RunsOf(t, gr, n + 1)
  <2>1. /\ to \in [1..M -> 1..n + 1]
        /\ \A k, l \in 1..M : k < l => to[k] < to[l]
        /\ \A k \in 1..M : t[k] = gr[to[k]]
        /\ \A m \in 1..n + 1 : ~gr[m].skip <=> \E k \in 1..M : to[k] = m
    BY <1>8, <1>9, <1>10, <1>11, <1>12
  <2> HIDE <1>4, <1>5, <1>8, <1>9, <1>10, <1>11
  <2>2. QED
    BY <1>13, <2>1 DEF RunsOf
<1>15. QED
  BY <1>3, <1>14

LEMMA PackingKept == IInv /\ Packing /\ [Next]_vars => Packing'
<1> SUFFICES ASSUME IInv, Packing, [Next]_vars PROVE Packing'
  OBVIOUS
<1>1. ds \in Seq(Nodes) /\ graph \in Seq(Nodes) /\ i \in Nat \ {0}
  BY DEF IInv, TypeOK
<1>2. PICK L \in Nat : L = Len(graph)
  BY <1>1, LenProperties
<1>3. ASSUME NEW s, Return(s) PROVE Packing'
  BY <1>3 DEF Return, Packing
<1>4. ASSUME NEW g \in Graphs, GraphCompute(g) PROVE Packing'
  <2>1. phase' = "pack" /\ graph' = g /\ i' = 1 /\ ds' = <<>>
    BY <1>4 DEF GraphCompute, Enter, Packing
  <2>2. PICK n \in Nat : n = Len(g)
    BY LenProperties DEF Graphs
  <2>3. RunsOf(ds', graph', 0)
    BY <2>1, NoneRun
  <2>4. QED
    BY <2>1, <2>2, <2>3 DEF Packing
<1>5. CASE PackNode
  <2>1. /\ phase = "pack" /\ phase' = "pack" /\ graph' = graph /\ i' = i + 1 /\ i <= L
        /\ ds' = IF graph[i].skip THEN ds ELSE Append(ds, graph[i])
    BY <1>2, <1>5 DEF PackNode, Skips
  <2>2. PICK n \in Nat : n + 1 = i /\ RunsOf(ds, graph, n)
    BY <2>1 DEF Packing
  <2>3. graph[i] \in Nodes
    BY <1>1, <1>2, <2>1, ElementOfSeq
  <2>4. RunsOf(ds', graph, n + 1)
    BY <1>1, <2>1, <2>2, <2>3, SkippedRun, NextRun
  <2>5. PICK m \in Nat : m = n + 1 /\ m + 1 = i'
    BY <2>1, <2>2
  <2>6. i' <= L + 1
    BY <1>1, <2>1
  <2>7. QED
    BY <1>2, <2>1, <2>4, <2>5, <2>6 DEF Packing
<1>6. CASE Packed
  <2>1. phase = "pack" /\ phase' = "prepare" /\ i > L /\ graph' = graph /\ ds' = ds
    BY <1>2, <1>6 DEF Packed, loc
  <2>2. PICK n \in Nat : n + 1 = i /\ RunsOf(ds, graph, n) /\ i <= L + 1
    BY <1>2, <2>1 DEF Packing
  <2>3. n = L
    BY <2>1, <2>2
  <2>4. QED
    BY <1>2, <2>1, <2>2, <2>3 DEF Packing
<1>7. CASE ListBegin \/ Record
  BY <1>7 DEF ListBegin, Record, Packing
<1>8. CASE EnsureIdle \/ UNCHANGED vars
  BY <1>8 DEF EnsureIdle, vars, loc, Packing
<1>9. QED
  BY <1>3, <1>4, <1>5, <1>6, <1>7, <1>8 DEF Next, NoDevice, PackRefused, NothingToRun, CpuRun,
     PrepareFails, Submit

\* A step that submits.
SubmitsAll == hostBusy' /\ ~hostBusy => RunsOf(ds, graph, Len(graph)) /\ Len(seg) = Len(ds)

LEMMA SubmitIsWhole == IInv /\ Packing /\ [Next]_vars => SubmitsAll
<1> SUFFICES ASSUME IInv, Packing, [Next]_vars, hostBusy', ~hostBusy
             PROVE  RunsOf(ds, graph, Len(graph)) /\ Len(seg) = Len(ds)
  BY DEF SubmitsAll
<1>1. Submit
  BY DEF Next, NoDevice, GraphCompute, Enter, PackNode, PackRefused, NothingToRun, Packed, CpuRun,
     PrepareFails, ListBegin, Record, EnsureIdle, vars
<1>2. phase = "record" /\ i > Len(ds) /\ i = Len(seg) + 1 /\ Len(seg) <= Len(ds)
  BY <1>1 DEF Submit, IInv, Progress
<1>3. PICK m \in Nat, n \in Nat : m = Len(seg) /\ n = Len(ds)
  BY LenProperties DEF IInv, TypeOK
<1>4. Len(seg) = Len(ds)
  BY <1>2, <1>3
<1>5. QED
  BY <1>2, <1>4 DEF Packing

\* What is submitted is the whole graph, each node that runs once and in order,
\* with a dispatch recorded for each.
THEOREM SubmitsWhole == Spec => SubmitsWholeGraph
<1>1. Init => Packing
  BY DEF Init, Packing
<1>2. Spec => [](IInv /\ Packing)
  BY <1>1, PackingKept, InitEstablishes, StepPreserves, PTL DEF Spec
<1>3. Spec => [][SubmitsAll]_vars
  BY <1>2, SubmitIsWhole, PTL DEF Spec
<1>4. QED
  BY <1>3 DEF SubmitsWholeGraph, SubmitsAll
=============================================================================

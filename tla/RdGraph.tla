------------------------------ MODULE RdGraph ------------------------------
(***************************************************************************)
(* ggml-rd's graph_compute (guest/ggml-rd/rd_graph.cpp): one ggml graph    *)
(* becomes one compute list and one submit.  Godot does not order the      *)
(* dispatches of a list; a barrier does.  The recording loop places one    *)
(* only before a dispatch that conflicts with one recorded since the last  *)
(* barrier, judged on byte ranges widened to whole words.                  *)
(*                                                                         *)
(* A tensor is [buf, off, n]: n bytes at byte off of an RD buffer.  A node *)
(* is a ggml_tensor of the graph: whether it is skipped (layout-only,      *)
(* empty, not COMPUTE), whether a packer accepts it, its sources and its   *)
(* destination.  What the list binds for a dispatch is RdCaches' part.     *)
(* The gate controls (GGML_RD_FAULT, GGML_RD_DROP_BARRIER, the profile)    *)
(* are left out.                                                           *)
(***************************************************************************)
EXTENDS Integers, Sequences

CONSTANTS
  Nodes,        \* the nodes a graph is built from
  MaxNodes,     \* bound: nodes of one graph
  BarrierAll    \* GGML_RD_BARRIER_ALL

Tensor == [buf : Nat, off : Nat, n : Nat]

ASSUME NodesAssumption ==
  /\ MaxNodes \in Nat
  /\ BarrierAll \in BOOLEAN
  /\ \A nd \in Nodes :
       /\ nd.skip \in BOOLEAN /\ nd.packs \in BOOLEAN
       /\ nd.src \in Seq(Tensor) /\ Len(nd.src) <= 3
       /\ nd.dst \in Tensor

\* The packing loop skips a node without elements (rd_graph.cpp 132); the sources
\* of one that has them have them too.
ASSUME BytesAssumption ==
  \A nd \in Nodes : ~nd.skip =>
    nd.dst.n > 0 /\ \A k \in 1..Len(nd.src) : nd.src[k].n > 0

VARIABLES
  graph,        \* the nodes of the ggml_cgraph
  phase,        \* where graph_compute is
  i,            \* the loop index of the packing and of the recording loop
  ds,           \* the dispatches packed so far (as their nodes)
  seg_reads, seg_writes,        \* ranges since the last barrier
  barriers,     \* barriers placed in this list
  seg,          \* per recorded dispatch, the barriers recorded before it
  pending,      \* Ctx::pending
  hostBusy,     \* Godot: a submit is in flight
  status        \* what the last graph_compute returned

loc  == <<graph, i, ds, seg_reads, seg_writes, barriers, seg>>
vars == <<loc, phase, pending, hostBusy, status>>

-----------------------------------------------------------------------------
\* x & ~3: the byte its 4-byte word starts at.
FloorWord(x) == 4 * (x \div 4)

\* Widened to whole 4-byte words.  Mutant: the tensor's own bytes.
RangeOfBytes(t) == [rid |-> t.buf, lo |-> t.off, hi |-> t.off + t.n]
range_of(t) ==
  [rid |-> t.buf, lo |-> FloorWord(t.off), hi |-> FloorWord(t.off + t.n + 3)]

overlaps(v, r) == \E x \in v : x.rid = r.rid /\ x.lo < r.hi /\ r.lo < x.hi

Sources(nd) == {nd.src[k] : k \in 1..Len(nd.src)}
Reads(nd)   == {range_of(t) : t \in Sources(nd)}
Write(nd)   == range_of(nd.dst)

\* A hazard against the dispatches since the last barrier: RAW, WAW or WAR.
Hazard(nd) ==
  \/ BarrierAll /\ i > 1
  \/ \E r \in Reads(nd) : overlaps(seg_writes, r)
  \/ overlaps(seg_writes, Write(nd))
  \/ overlaps(seg_reads, Write(nd))

-----------------------------------------------------------------------------
Graphs == UNION {[1..n -> Nodes] : n \in 0..MaxNodes}

Init ==
  /\ graph = <<>> /\ phase = "idle" /\ i = 1 /\ ds = <<>>
  /\ seg_reads = {} /\ seg_writes = {} /\ barriers = 0 /\ seg = <<>>
  /\ pending = FALSE /\ hostBusy = FALSE /\ status = "SUCCESS"

\* graph_compute returns; its locals are gone (ds is static, and cleared on entry).
Return(s) ==
  /\ phase' = "idle" /\ status' = s
  /\ graph' = <<>> /\ i' = 1 /\ ds' = <<>>
  /\ seg_reads' = {} /\ seg_writes' = {} /\ barriers' = 0 /\ seg' = <<>>

\* graph_compute on a device that is gone, with no CPU fallback.
NoDevice ==
  /\ phase = "idle"
  /\ Return("FAILED")
  /\ UNCHANGED <<pending, hostBusy>>

\* graph_compute enters and calls ensure_idle(): a graph still in flight is
\* waited for (on a later frame) and synced.  Mutant: without ensure_idle().
Enter(g) ==
  /\ graph' = g
  /\ phase' = "pack"
  /\ UNCHANGED <<i, ds, seg_reads, seg_writes, barriers, seg, status>>

GraphComputeNoWait(g) ==
  /\ phase = "idle"
  /\ Enter(g)
  /\ UNCHANGED <<pending, hostBusy>>

GraphCompute(g) ==
  /\ phase = "idle"
  /\ Enter(g)
  /\ pending' = FALSE
  /\ hostBusy' = (hostBusy /\ ~pending)

\* One node of the packing loop: skipped, refused, or one more dispatch.
\* Mutant: a node no packer accepts is skipped.
SkipsRefused(nd) == nd.skip \/ ~nd.packs
Skips(nd) == nd.skip

Listing == <<seg_reads, seg_writes, barriers, seg>>

PackNode ==
  /\ phase = "pack" /\ i <= Len(graph)
  /\ Skips(graph[i]) \/ graph[i].packs
  /\ ds' = IF Skips(graph[i]) THEN ds ELSE Append(ds, graph[i])
  /\ i' = i + 1
  /\ UNCHANGED <<graph, phase, Listing, pending, hostBusy, status>>

PackRefused ==
  /\ phase = "pack" /\ i <= Len(graph)
  /\ ~Skips(graph[i]) /\ ~graph[i].packs
  /\ Return("FAILED")
  /\ UNCHANGED <<pending, hostBusy>>

\* Every node is packed.  A graph of views alone is done.
NothingToRun ==
  /\ phase = "pack" /\ i > Len(graph) /\ ds = <<>>
  /\ Return("SUCCESS")
  /\ UNCHANGED <<pending, hostBusy>>

Packed ==
  /\ phase = "pack" /\ i > Len(graph) /\ ds # <<>>
  /\ phase' = "prepare"
  /\ UNCHANGED <<loc, pending, hostBusy, status>>

\* The CPU fallback: every dispatch in graph order on this thread, or the
\* first that has no CPU kernel fails the graph.  Nothing is recorded.
CpuRun ==
  /\ phase = "prepare"
  /\ \E s \in {"SUCCESS", "FAILED"} : Return(s)
  /\ UNCHANGED <<pending, hostBusy>>

\* A pipeline, the params table, a set or the params upload fails.
PrepareFails ==
  /\ phase = "prepare"
  /\ Return("FAILED")
  /\ UNCHANGED <<pending, hostBusy>>

\* Everything the recording binds exists and the params are uploaded: the
\* list begins, with empty segments.  Mutant: the recording
\* loop starts before the first dispatch.
ListBeginZero ==
  /\ phase = "prepare"
  /\ phase' = "record"
  /\ i' = 0
  /\ UNCHANGED <<graph, ds, Listing, pending, hostBusy, status>>

ListBegin ==
  /\ phase = "prepare"
  /\ phase' = "record"
  /\ i' = 1
  /\ seg_reads' = {} /\ seg_writes' = {} /\ barriers' = 0
  /\ UNCHANGED <<graph, ds, seg, pending, hostBusy, status>>

\* One dispatch of the recording loop: a barrier if there is a hazard, the
\* ranges noted, the dispatch.  Mutant: the segments kept across a barrier.
RecordKeepSegments ==
  /\ phase = "record" /\ i <= Len(ds)
  /\ LET nd == ds[i] IN
       /\ barriers' = barriers + (IF Hazard(nd) THEN 1 ELSE 0)
       /\ seg_reads'  = seg_reads \cup Reads(nd)
       /\ seg_writes' = seg_writes \cup {Write(nd)}
  /\ seg' = Append(seg, barriers')
  /\ i' = i + 1
  /\ UNCHANGED <<graph, ds, phase, pending, hostBusy, status>>

Record ==
  /\ phase = "record" /\ i <= Len(ds)
  /\ LET nd == ds[i]
         kept == ~Hazard(nd)
     IN
       /\ barriers' = barriers + (IF kept THEN 0 ELSE 1)
       /\ seg_reads'  = (IF kept THEN seg_reads ELSE {}) \cup Reads(nd)
       /\ seg_writes' = (IF kept THEN seg_writes ELSE {}) \cup {Write(nd)}
  /\ seg' = Append(seg, barriers')
  /\ i' = i + 1
  /\ UNCHANGED <<graph, ds, phase, pending, hostBusy, status>>

\* list_end, submit, pending; nothing waits here.
Submit ==
  /\ phase = "record" /\ i > Len(ds)
  /\ Return("SUCCESS")
  /\ hostBusy' = TRUE
  /\ pending' = TRUE

\* Any other backend entry (a tensor read or write, a buffer freed, the close)
\* also begins with ensure_idle().
EnsureIdle ==
  /\ phase = "idle" /\ pending
  /\ pending' = FALSE /\ hostBusy' = FALSE
  /\ UNCHANGED <<loc, phase, status>>

Next ==
  \/ NoDevice
  \/ \E g \in Graphs : GraphCompute(g)
  \/ PackNode \/ PackRefused \/ NothingToRun \/ Packed \/ CpuRun \/ PrepareFails \/ ListBegin \/ Record \/ Submit
  \/ EnsureIdle

Spec == Init /\ [][Next]_vars

-----------------------------------------------------------------------------
\* What a kernel really touches: the words that hold its tensors' bytes, the
\* destination's first and last word whole (a 16-bit store reads and writes
\* the neighbouring half).
Words(t) == {<<t.buf, b \div 4>> : b \in t.off..(t.off + t.n - 1)}

ReadWords(nd) == UNION {Words(t) : t \in Sources(nd)}

\* Two dispatches whose order matters.
Conflict(a, b) ==
  \/ Words(a.dst) \cap Words(b.dst) # {}
  \/ Words(a.dst) \cap ReadWords(b) # {}
  \/ ReadWords(a) \cap Words(b.dst) # {}

\* The types of the graph, of the loops and of the list.
TypeOK ==
  /\ graph \in Seq(Nodes) /\ ds \in Seq(Nodes)
  /\ phase \in {"idle", "pack", "prepare", "record"}
  /\ i \in Nat \ {0} /\ barriers \in Nat /\ seg \in Seq(Nat)
  /\ pending \in BOOLEAN /\ hostBusy \in BOOLEAN
  /\ status \in {"SUCCESS", "FAILED"}

ConflictsAreSeparated ==
  \A k, l \in 1..Len(seg) :
    k < l /\ Conflict(ds[k], ds[l]) => seg[k] # seg[l]

BarriersAreNeeded ==
  \A l \in 2..Len(seg) :
    seg[l] # seg[l - 1] =>
      BarrierAll \/ \E k \in 1..(l - 1) : seg[k] = seg[l - 1] /\ Conflict(ds[k], ds[l])

\* The point of the recording loop (rd_graph.cpp 299-328): two dispatches of a
\* list that touch a word in conflict always have a barrier between them, since
\* Godot orders nothing else inside a list; and only then (rd_graph.cpp 11-16):
\* every barrier separates a dispatch from one it conflicts with in the segment
\* before, unless GGML_RD_BARRIER_ALL asked for all of them.
BarriersAreExact == ConflictsAreSeparated /\ BarriersAreNeeded

\* Nothing is recorded while the device still runs the graph before
\* (rd_graph.cpp 106-108): a local device drops what is recorded then.
RecordsOnIdleDevice == phase = "record" => ~hostBusy

\* The dispatches are the first n nodes of gr that are not skipped, each once, in
\* their order: at says which node each one is.
RunsOf(dispatches, gr, n) ==
  \E at \in [1..Len(dispatches) -> 1..n] :
    /\ \A k, l \in 1..Len(dispatches) : k < l => at[k] < at[l]
    /\ \A k \in 1..Len(dispatches) : dispatches[k] = gr[at[k]]
    /\ \A m \in 1..n : ~gr[m].skip <=> \E k \in 1..Len(dispatches) : at[k] = m

\* A graph that is submitted is the whole graph: every node that is not
\* skipped, once, in graph order (rd_graph.cpp 130-197, 299-343).
SubmitsWholeGraph ==
  [][hostBusy' /\ ~hostBusy => RunsOf(ds, graph, Len(graph)) /\ Len(seg) = Len(ds)]_vars
=============================================================================

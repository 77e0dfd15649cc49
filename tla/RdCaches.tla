------------------------------ MODULE RdCaches ------------------------------
(***************************************************************************)
(* What ggml-rd keeps on the RenderingDevice between graphs                *)
(* (guest/ggml-rd/rd_kernels.cpp): the kernels' pipelines, the params      *)
(* table, the slot sets and the cache of uniform sets, keyed by the RIDs   *)
(* they bind; its buffers, which come and go (ggml-rd.cpp); and what a     *)
(* graph's compute list binds out of all that (rd_graph.cpp 252-343).      *)
(*                                                                         *)
(* A RID the guest keeps is the index of a permanent slot of the sandbox   *)
(* (rd_compute.cpp rid_or_fail), which names a GPU object until it is      *)
(* released, and another one after that: so an equal key is not yet the    *)
(* same buffer.  Godot frees a uniform set with any buffer it binds and    *)
(* whatever was made from a shader with the shader.                        *)
(***************************************************************************)
EXTENDS Integers, Sequences, FiniteSets

CONSTANTS
  Buffers,        \* the ggml buffers a caller holds, at most one RID each
  Kernels,        \* kernel ids
  Bindings,       \* the bindings of set 0 that are tensors
  Slots,          \* indices of permanent slots
  FirstCap,       \* slots of the first params table
  CreateFails,    \* a create call of the device may fail
  MaxDispatches,  \* bound: dispatches of a graph
  MaxOps          \* bound: allocations, frees and graphs

ASSUME CachesAssumption ==
  /\ Slots \subseteq Nat \ {0} /\ IsFiniteSet(Slots)
  /\ FirstCap \in Nat \ {0} /\ CreateFails \in BOOLEAN
  /\ MaxDispatches \in Nat \ {0} /\ MaxOps \in Nat

VARIABLES
  dev,    \* the host's objects, the permanent slots, permanent_live_
  buf,    \* Buffer::rid
  S,      \* State of rd_kernels.cpp
  g,      \* graph_compute: its dispatches, where it is, the sets 0 it has
  list,   \* the list being recorded: bound_kernel and bound_set0, and the
          \* objects Godot has bound in it
  ops     \* calls so far

vars == <<dev, buf, S, g, list, ops>>

Null == 0
NoKernel == [shader |-> Null, pipeline |-> Null]
Empty == [kerns |-> [k \in Kernels |-> NoKernel], layout |-> Null, params |-> Null, cap |-> 0,
          ubos |-> <<>>, sets |-> <<>>, set0 |-> {}]
NoGraph == [step |-> "none", ds |-> <<>>, n |-> 0, i |-> 0, taken |-> <<>>]
NoList == [kernel |-> {}, set0 |-> Null, pipeline |-> Null, tensors |-> Null, slot |-> Null]

Init ==
  /\ dev = [objects |-> {}, slot |-> [s \in Slots |-> Null], live |-> 0, next |-> 1, refused |-> FALSE]
  /\ buf = [b \in Buffers |-> Null]
  /\ S = Empty /\ g = NoGraph /\ list = NoList /\ ops = 0

-----------------------------------------------------------------------------
(* rdc::Device: a result is the device after the call, and a RID.          *)

\* The permanent slot of the next RID.  They are finite: nothing is created past
\* the last one.
NextSlot(d) ==
  LET free == {s \in Slots : d.slot[s] = Null} IN
  IF free = {} THEN {} ELSE {CHOOSE s \in free : TRUE}

\* A create call; deps are the objects the new one goes with.
Create(d, deps) ==
  {[d |-> [d EXCEPT !.objects = @ \cup {[id |-> d.next, deps |-> deps]}, !.next = @ + 1,
                    !.slot[s] = d.next, !.live = @ + 1], rid |-> s] : s \in NextSlot(d)}
    \cup (IF CreateFails THEN {[d |-> d, rid |-> Null]} ELSE {})

IdsOf(d, T) == {d.slot[s] : s \in T}
Live(d, id) == \E o \in d.objects : o.id = id

\* forget, and free_rid, of the RIDs T.  Godot refuses to free what is gone.
\* Mutant: a slot is released uncounted.
ForgetUncounted(d, T) == [d EXCEPT !.slot = [s \in Slots |-> IF s \in T THEN Null ELSE @[s]]]
Forget(d, T) ==
  [d EXCEPT !.slot = [s \in Slots |-> IF s \in T THEN Null ELSE @[s]], !.live = @ - Cardinality(T)]

FreeRids(d, T) ==
  Forget([d EXCEPT !.objects = {o \in @ : o.id \notin IdsOf(d, T) /\ o.deps \cap IdsOf(d, T) = {}},
                   !.refused = @ \/ \E id \in IdsOf(d, T) : ~Live(d, id)], T)

RidSet(T) == T \ {Null}

-----------------------------------------------------------------------------
(* The buffers: buft_alloc_buffer and buffer_free, between graphs.         *)

Call == g.step = "none" /\ ops < MaxOps /\ ops' = ops + 1 /\ UNCHANGED list

Alloc(b) ==
  /\ Call /\ buf[b] = Null
  /\ \E r \in Create(dev, {}) : dev' = r.d /\ buf' = [buf EXCEPT ![b] = r.rid]
  /\ UNCHANGED <<S, g>>

\* forget_sets_of: the cached sets that bind the buffer.  Mutant: as a source.
SetsOfSources(rid) == {e \in S.set0 : \E b \in Bindings \ {"dst"} : e.key[b] = rid}
SetsOf(rid) == {e \in S.set0 : \E b \in Bindings : e.key[b] = rid}

\* forget_sets_of, before Godot frees them with the buffer.  Mutant: erased from
\* the cache with their slots kept.
ForgetSetsNot(d, sets) == d
ForgetSets(d, sets) == Forget(d, {e.set : e \in sets})

Free(b) ==
  /\ Call /\ buf[b] # Null
  /\ dev' = FreeRids(ForgetSets(dev, SetsOf(buf[b])), {buf[b]})
  /\ S' = [S EXCEPT !.set0 = @ \ SetsOf(buf[b])]
  /\ buf' = [buf EXCEPT ![b] = Null]
  /\ UNCHANGED g

-----------------------------------------------------------------------------
(* graph_compute of n dispatches, each a kernel and the tensors it binds:  *)
(* everything the recording binds is made before the list opens.           *)

Dispatch == [kernel : Kernels, of : [Bindings -> Buffers]]

GraphCompute(ds) ==
  /\ Call /\ \A i \in 1..Len(ds) : \A b \in Bindings : buf[ds[i].of[b]] # Null
  /\ g' = [step |-> "kernels", ds |-> ds, n |-> Len(ds), i |-> 0, taken |-> <<>>]
  /\ UNCHANGED <<dev, buf, S>>

\* The dispatch the loops are at.
Current == g.ds[g.i + 1]

\* One more of n is done in this step, or it was the last; or the graph fails.
Onward(step, next) ==
  g' = IF g.i + 1 = g.n THEN [g EXCEPT !.step = next, !.i = 0] ELSE [g EXCEPT !.step = step, !.i = @ + 1]
FailGraph == g' = NoGraph

Step(step) == g.step = step /\ UNCHANGED <<buf, ops>>
Prepare(step) == Step(step) /\ UNCHANGED list

\* kernel_pipeline: a shader and its pipeline, once per kernel; a shader without
\* a pipeline is freed again.  The first kernel's shader is the sets' layout.
KernelPipeline(k) ==
  /\ Prepare("kernels") /\ k = Current.kernel
  /\ IF S.kerns[k].pipeline # Null
     THEN UNCHANGED <<dev, S>> /\ Onward("kernels", "params")
     ELSE \E sh \in Create(dev, {}) :
            IF sh.rid = Null THEN dev' = sh.d /\ UNCHANGED S /\ FailGraph
            ELSE \E p \in Create(sh.d, {sh.d.slot[sh.rid]}) :
                   IF p.rid = Null
                   THEN dev' = FreeRids(p.d, {sh.rid}) /\ UNCHANGED S /\ FailGraph
                   ELSE /\ dev' = p.d
                        /\ S' = [S EXCEPT !.kerns[k] = [shader |-> sh.rid, pipeline |-> p.rid],
                                          !.layout = IF @ = Null THEN sh.rid ELSE @]
                        /\ Onward("kernels", "params")

\* params_buffer: the table as it is, or, with every set that binds it, a new
\* one of the next power of two.
CapFor(n) == {c \in FirstCap..FirstCap * 2^n : /\ \E k \in 0..n : c = FirstCap * 2^k
                                             /\ c >= n /\ (c = FirstCap \/ c < 2 * n)}

\* Mutant: a table that grows leaves its sets in the cache.
DroppedNone(c) == c
Dropped(c) == [c EXCEPT !.set0 = {}, !.params = Null, !.cap = 0]

ParamsBuffer ==
  /\ Prepare("params")
  /\ IF S.params # Null /\ S.cap >= g.n
     THEN UNCHANGED <<dev, S>> /\ g' = [g EXCEPT !.step = "slots"]
     ELSE LET d == IF S.params = Null THEN dev ELSE FreeRids(ForgetSets(dev, S.set0), {S.params})
              c == IF S.params = Null THEN S ELSE Dropped(S)
          IN \E r \in Create(d, {}) :
               /\ dev' = r.d
               /\ IF r.rid = Null THEN S' = c /\ FailGraph
                  ELSE /\ \E cap \in CapFor(g.n) : S' = [c EXCEPT !.params = r.rid, !.cap = cap]
                       /\ g' = [g EXCEPT !.step = "slots"]

\* slot_set(g.i), one pass of its loop: a uniform buffer and the set that binds
\* it; a buffer without its set is freed again.  Mutant: it is kept.
UndoUboNot(d, ubo) == d
UndoUbo(d, ubo) == FreeRids(d, {ubo})

SlotSet ==
  /\ Prepare("slots")
  /\ IF Len(S.sets) > g.i
     THEN UNCHANGED <<dev, S>> /\ Onward("slots", "sets")
     ELSE \E u \in Create(dev, {}) :
            IF u.rid = Null THEN dev' = u.d /\ UNCHANGED S /\ FailGraph
            ELSE \E s \in Create(u.d, {u.d.slot[u.rid], u.d.slot[S.layout]}) :
                   IF s.rid = Null
                   THEN dev' = UndoUbo(s.d, u.rid) /\ UNCHANGED S /\ FailGraph
                   ELSE /\ dev' = s.d
                        /\ S' = [S EXCEPT !.ubos = Append(@, u.rid), !.sets = Append(@, s.rid)]
                        /\ Onward("slots", "sets")

\* tensor_set: the cached set of the key, or a new one.
Found(key) == {e \in S.set0 : e.params = S.params /\ e.key = key}
Take(set) ==
  g' = [g EXCEPT !.step = IF g.i + 1 = g.n THEN "begin" ELSE "sets",
                 !.i = IF g.i + 1 = g.n THEN 0 ELSE @ + 1, !.taken = Append(@, set)]

TensorSet(bs) ==
  LET key == [b \in Bindings |-> buf[bs[b]]] IN
  /\ Prepare("sets") /\ bs = Current.of
  /\ \/ \E e \in Found(key) : Take(e.set) /\ UNCHANGED <<dev, S>>
     \/ /\ Found(key) = {}
        /\ \E r \in Create(dev, {dev.slot[S.layout], dev.slot[S.params]} \cup {dev.slot[key[b]] : b \in Bindings}) :
             /\ dev' = r.d
             /\ IF r.rid = Null THEN UNCHANGED S /\ FailGraph
                ELSE /\ S' = [S EXCEPT !.set0 = @ \cup {[params |-> S.params, key |-> key, set |-> r.rid]}]
                     /\ Take(r.rid)

\* The params upload, which may fail, and list_begin: nothing is bound yet.
ListBegin ==
  /\ Prepare("begin") /\ UNCHANGED <<dev, S>>
  /\ \/ g' = [g EXCEPT !.step = "record"]
     \/ CreateFails /\ FailGraph

\* One dispatch recorded: its pipeline and its set 0 bound where they differ from
\* those bound last, by the kernel and by the index of the RID, its slot set
\* always.  Mutant: set 0 only with a new pipeline.
BoundWithPipeline(d, set, slotset) ==
  [kernel |-> {d.kernel}, set0 |-> set,
   pipeline |-> IF d.kernel \in list.kernel THEN list.pipeline ELSE dev.slot[S.kerns[d.kernel].pipeline],
   tensors |-> IF d.kernel \in list.kernel THEN list.tensors ELSE dev.slot[set],
   slot |-> dev.slot[slotset]]

Bound(d, set, slotset) ==
  [kernel |-> {d.kernel}, set0 |-> set,
   pipeline |-> IF d.kernel \in list.kernel THEN list.pipeline ELSE dev.slot[S.kerns[d.kernel].pipeline],
   tensors |-> IF set = list.set0 THEN list.tensors ELSE dev.slot[set],
   slot |-> dev.slot[slotset]]

Record ==
  /\ Step("record") /\ g.i < g.n /\ UNCHANGED <<dev, S>>
  /\ list' = Bound(Current, g.taken[g.i + 1], S.sets[g.i + 1])
  /\ g' = [g EXCEPT !.i = @ + 1]

\* list_end and submit: the graph's locals are gone.
Submit ==
  /\ Step("record") /\ g.i = g.n /\ UNCHANGED <<dev, S>>
  /\ list' = NoList /\ g' = NoGraph

-----------------------------------------------------------------------------
\* release_kernels on a live device: sets first, shaders last.  Mutant: the
\* other way round.
Owned(c) == {e.set : e \in c.set0} \cup {c.sets[i] : i \in 1..Len(c.sets)}
Made(c) == {c.ubos[i] : i \in 1..Len(c.ubos)} \cup RidSet({c.params})
Compiled(c) == RidSet({c.kerns[k].pipeline : k \in Kernels})
Shaders(c) == RidSet({c.kerns[k].shader : k \in Kernels})

ReleasedShadersFirst(d, c) ==
  FreeRids(FreeRids(FreeRids(FreeRids(d, Shaders(c)), Compiled(c)), Made(c)), Owned(c))
Released(d, c) ==
  FreeRids(FreeRids(FreeRids(FreeRids(d, Owned(c)), Made(c)), Compiled(c)), Shaders(c))

Release ==
  /\ g.step = "none"
  /\ dev' = Released(dev, S) /\ S' = Empty
  /\ UNCHANGED <<buf, g, list, ops>>

Next ==
  \/ \E b \in Buffers : Alloc(b) \/ Free(b)
  \/ \E n \in 1..MaxDispatches : \E ds \in [1..n -> Dispatch] : GraphCompute(ds)
  \/ \E k \in Kernels : KernelPipeline(k)
  \/ ParamsBuffer \/ SlotSet
  \/ \E bs \in [Bindings -> Buffers] : TensorSet(bs)
  \/ ListBegin \/ Record \/ Submit \/ Release

Spec == Init /\ [][Next]_vars

-----------------------------------------------------------------------------
\* The types of the caches; the slot sets have one uniform buffer each.
TypeOK ==
  /\ buf \in [Buffers -> Slots \cup {Null}]
  /\ {S.layout, S.params} \subseteq Slots \cup {Null} /\ S.cap \in Nat
  /\ Len(S.ubos) = Len(S.sets)
  /\ g.i \in 0..g.n /\ dev.live \in 0..Cardinality(Slots)

\* The object a kept RID names.
Names(rid) == dev.slot[rid]

\* rd_kernels.cpp 6-7: a cached set is one Godot still has, and it binds the
\* params table and the very buffers whose RIDs are its key, never one that had
\* the slot before.
CachedSetsBindTheirKey ==
  \A e \in S.set0 :
    /\ Live(dev, Names(e.set)) /\ e.params = S.params
    /\ \A o \in dev.objects : o.id = Names(e.set) =>
         o.deps = {Names(S.layout), Names(S.params)} \cup {Names(e.key[b]) : b \in Bindings}

\* rd_graph.cpp 254, "Everything the recording binds exists before the list
\* opens": from then on the sets a graph has taken, and the slot sets, are all
\* there, and bind its tensors, the params table and the slots' buffers.
RecordsLiveSets ==
  g.step \in {"begin", "record"} =>
    \A i \in 1..g.n :
      /\ \E o \in dev.objects :
           /\ o.id = Names(g.taken[i]) /\ Names(S.params) \in o.deps
           /\ \A b \in Bindings : Names(buf[g.ds[i].of[b]]) \in o.deps
      /\ \E o \in dev.objects : o.id = Names(S.sets[i]) /\ Names(S.ubos[i]) \in o.deps

\* rd_graph.cpp 329-338, binding on a change only: what Godot has bound when a
\* dispatch is recorded is alive and the dispatch's own: its kernel's pipeline,
\* the cached set of its tensors in their order, the set of its own params slot.
\* The comparison is of indices of permanent slots, which are given again.
BoundToItsOwn ==
  g.step = "record" /\ g.i > 0 =>
    LET d == g.ds[g.i] IN
    /\ list.pipeline = Names(S.kerns[d.kernel].pipeline)
    /\ \E e \in S.set0 : /\ list.tensors = Names(e.set) /\ e.params = S.params
                         /\ \A b \in Bindings : e.key[b] = buf[d.of[b]]
    /\ list.slot = Names(S.sets[g.i])
    /\ \A id \in {list.pipeline, list.tensors, list.slot} : Live(dev, id)

KeptRids ==
  RidSet({buf[b] : b \in Buffers}) \cup Owned(S) \cup Made(S) \cup Compiled(S) \cup Shaders(S)

\* Every permanent slot that is held is somebody's, nobody holds one that was
\* released, and permanent_live_ counts them: with the buffers freed, a close
\* ends at permanent_slots=0.  Godot is never asked to free what it has freed
\* already.
NoSlotLeaks ==
  /\ {s \in Slots : Names(s) # Null} = KeptRids
  /\ dev.live = Cardinality(KeptRids)
  /\ ~dev.refused
=============================================================================

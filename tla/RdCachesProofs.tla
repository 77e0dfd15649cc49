--------------------------- MODULE RdCachesProofs ---------------------------
(***************************************************************************)
(* Proofs about RdCaches, for every set of buffers, kernels, bindings and  *)
(* slots and every size of graph: the caches hold what they say they hold, *)
(* and no slot leaks.                                                      *)
(*                                                                         *)
(* The strengthening says of every RID that is kept which object it names  *)
(* and what that object goes with: what a kept object depends on is kept   *)
(* as well, so that what is freed takes nothing along that is still in the *)
(* caches.  That RIDs kept in different places differ is said with a ghost *)
(* function owner, from a slot to the one place that keeps it.             *)
(***************************************************************************)
EXTENDS RdCaches, FiniteSetTheorems, SequenceTheorems, TLAPS

-----------------------------------------------------------------------------
(* The device.                                                             *)

Rids == Slots \cup {Null}

DevType == [objects : SUBSET [id : Nat, deps : SUBSET Nat], slot : [Slots -> Nat], live : Int,
            next : Nat, refused : BOOLEAN]

Held(d) == {s \in Slots : d.slot[s] # Null}

\* The RID s names an object that goes with the objects X.
Is(d, s, X) ==
  s \in Slots /\ d.slot[s] # Null /\ [id |-> d.slot[s], deps |-> X] \in d.objects

\* Ids are given once, a slot holds one of its own, permanent_live_ counts them.
WellFormed(d) ==
  /\ d \in DevType /\ d.next # 0
  /\ \A o \in d.objects : o.id # 0 /\ o.id < d.next
  /\ \A o, p \in d.objects : o.id = p.id => o = p
  /\ \A s \in Slots : d.slot[s] < d.next
  /\ \A s, t \in Slots : d.slot[s] = d.slot[t] /\ d.slot[s] # Null => s = t
  /\ d.live = Cardinality(Held(d)) /\ ~d.refused

-----------------------------------------------------------------------------
(* What keeps RIDs: the buffers bf and the caches c.                       *)

KernelType == [shader : Rids, pipeline : Rids]
CacheType == [kerns : [Kernels -> KernelType], layout : Rids, params : Rids, cap : Nat,
              ubos : Seq(Slots), sets : Seq(Slots),
              set0 : SUBSET [params : Slots, key : [Bindings -> Slots], set : Slots]]
BufType == [Buffers -> Rids]

Kept(bf, c) ==
  RidSet({bf[b] : b \in Buffers}) \cup Owned(c) \cup Made(c) \cup Compiled(c) \cup Shaders(c)

BuffersAre(d, bf, owner) ==
  \A b \in Buffers : bf[b] # Null => Is(d, bf[b], {}) /\ owner[bf[b]] = <<"buffer", b>>

KernelsAre(d, c, owner) ==
  \A k \in Kernels :
    /\ c.kerns[k].shader # Null =>
         Is(d, c.kerns[k].shader, {}) /\ owner[c.kerns[k].shader] = <<"shader", k>>
    /\ c.kerns[k].pipeline # Null =>
         /\ c.kerns[k].shader # Null
         /\ Is(d, c.kerns[k].pipeline, {d.slot[c.kerns[k].shader]})
         /\ owner[c.kerns[k].pipeline] = <<"pipeline", k>>

LayoutIs(c) == c.layout # Null => \E k \in Kernels : c.kerns[k].shader = c.layout

ParamsAre(d, c, owner) ==
  c.params # Null => Is(d, c.params, {}) /\ owner[c.params] = <<"params", Null>>

SlotSetsAre(d, c, owner) ==
  /\ Len(c.sets) <= Len(c.ubos)
  /\ \A i \in 1..Len(c.ubos) : Is(d, c.ubos[i], {}) /\ owner[c.ubos[i]] = <<"ubo", i>>
  /\ \A i \in 1..Len(c.sets) :
       /\ c.layout # Null
       /\ Is(d, c.sets[i], {d.slot[c.ubos[i]], d.slot[c.layout]})
       /\ owner[c.sets[i]] = <<"set", i>>

DepsOf(d, c, e) == {d.slot[c.layout], d.slot[c.params]} \cup {d.slot[e.key[b]] : b \in Bindings}

TensorSetsAre(d, bf, c, owner) ==
  \A e \in c.set0 :
    /\ c.layout # Null /\ c.params # Null /\ e.params = c.params
    /\ \A b \in Bindings : \E a \in Buffers : bf[a] = e.key[b]
    /\ Is(d, e.set, DepsOf(d, c, e)) /\ owner[e.set] = <<"set0", e>>

\* What is kept is there, each RID kept in one place, with what it depends on.
Shaped(d, bf, c, owner) ==
  /\ bf \in BufType /\ c \in CacheType
  /\ BuffersAre(d, bf, owner) /\ KernelsAre(d, c, owner) /\ LayoutIs(c) /\ ParamsAre(d, c, owner)
  /\ SlotSetsAre(d, c, owner) /\ TensorSetsAre(d, bf, c, owner)

\* Nothing else is held.
Sound(d, bf, c, owner) == WellFormed(d) /\ Shaped(d, bf, c, owner) /\ Held(d) = Kept(bf, c)

-----------------------------------------------------------------------------
(* Between the calls, and in a graph's preparation.                        *)

\* Every kernel and slot set is whole.
Whole(c) ==
  /\ \A k \in Kernels : c.kerns[k].shader # Null => c.kerns[k].pipeline # Null /\ c.layout # Null
  /\ Len(c.ubos) = Len(c.sets)

Steps == {"none", "kernels", "params", "slots", "sets", "begin", "record"}

GraphType == [step : Steps, ds : Seq(Dispatch), n : Nat, i : Nat, taken : Seq(Slots)]

\* Where the loops of a graph are.
Counts(G) ==
  /\ G \in GraphType /\ Len(G.ds) = G.n /\ G.i <= G.n
  /\ G.step \in {"kernels", "params", "slots", "sets"} => G.i < G.n
  /\ G.step = "none" => G.n = 0
  /\ G.step \in {"params", "begin"} => G.i = 0
  /\ Len(G.taken) = IF G.step = "sets" THEN G.i
                    ELSE IF G.step \in {"begin", "record"} THEN G.n ELSE 0

\* What a graph has made so far: pipelines, the params table, slot sets, and the
\* sets of its tensors.
KernelsFor(c, G) ==
  \A j \in 1..G.n : G.step # "kernels" \/ j <= G.i => c.kerns[G.ds[j].kernel].pipeline # Null

Needs(c, G) ==
  /\ G.step \notin {"none", "kernels"} => c.layout # Null
  /\ G.step \notin {"none", "kernels", "params"} => c.params # Null
  /\ G.step = "slots" => G.i <= Len(c.sets)
  /\ G.step \in {"sets", "begin", "record"} => G.n <= Len(c.sets)

TensorsFor(c, bf, G) ==
  \A j \in 1..Len(G.taken) : \E e \in c.set0 :
    e.set = G.taken[j] /\ \A b \in Bindings : e.key[b] = bf[G.ds[j].of[b]]

\* The tensors of a graph are in buffers that are there.
BuffersFor(bf, G) == \A j \in 1..G.n : \A b \in Bindings : bf[G.ds[j].of[b]] # Null

Prepared ==
  Counts(g) /\ BuffersFor(buf, g) /\ KernelsFor(S, g) /\ Needs(S, g) /\ TensorsFor(S, buf, g)

Ready == (\E owner : Sound(dev, buf, S, owner)) /\ Whole(S) /\ Prepared

\* The list has bound what its last dispatch names.
ListIs ==
  /\ g.step # "record" \/ g.i = 0 => list = NoList
  /\ g.step = "record" /\ g.i > 0 =>
       /\ list.kernel = {g.ds[g.i].kernel} /\ list.set0 = g.taken[g.i]
       /\ list.pipeline = dev.slot[S.kerns[g.ds[g.i].kernel].pipeline]
       /\ list.tensors = dev.slot[g.taken[g.i]]
       /\ list.slot = dev.slot[S.sets[g.i]]

IInv == Ready /\ ListIs

LEMMA HeldIsFinite ==
  ASSUME NEW d
  PROVE  IsFiniteSet(Held(d)) /\ Cardinality(Held(d)) \in 0..Cardinality(Slots)
<1>1. IsFiniteSet(Slots) /\ Held(d) \subseteq Slots
  BY CachesAssumption DEF Held
<1>2. /\ IsFiniteSet(Held(d)) /\ Cardinality(Held(d)) <= Cardinality(Slots)
      /\ Cardinality(Held(d)) \in Nat /\ Cardinality(Slots) \in Nat
  BY <1>1, FS_Subset, FS_CardinalityType
<1>3. QED
  BY <1>2

LEMMA NextSlotIsFree ==
  ASSUME NEW d, NEW s \in NextSlot(d)
  PROVE  s \in Slots /\ d.slot[s] = Null /\ s # Null
<1> DEFINE free == {t \in Slots : d.slot[t] = Null}
<1>1. free # {} /\ s = CHOOSE t \in free : TRUE
  BY DEF NextSlot
<1>2. s \in free
  BY <1>1
<1>3. QED
  BY <1>2, CachesAssumption DEF Null

\* What a create call that succeeds changes.
LEMMA Created ==
  ASSUME NEW d, WellFormed(d), NEW X \in SUBSET Nat, NEW r \in Create(d, X), r.rid # Null
  PROVE  /\ WellFormed(r.d) /\ r.rid \in Slots \ Held(d) /\ Held(r.d) = Held(d) \cup {r.rid}
         /\ Is(r.d, r.rid, X)
         /\ \A s \in Held(d) : r.d.slot[s] = d.slot[s]
         /\ \A s, Y : s \in Held(d) /\ Is(d, s, Y) => Is(r.d, s, Y)
<1>1. PICK s \in Slots : /\ d.slot[s] = Null /\ r.rid = s
                         /\ r.d = [d EXCEPT !.objects = @ \cup {[id |-> d.next, deps |-> X]}, !.next = @ + 1,
                                            !.slot[s] = d.next, !.live = @ + 1]
  <2>1. PICK s \in NextSlot(d) :
          r = [d |-> [d EXCEPT !.objects = @ \cup {[id |-> d.next, deps |-> X]}, !.next = @ + 1,
                               !.slot[s] = d.next, !.live = @ + 1], rid |-> s]
    <3>1. r # [d |-> d, rid |-> Null]
      OBVIOUS
    <3>2. QED
      BY <3>1 DEF Create
  <2>2. QED
    BY <2>1, NextSlotIsFree
<1>2. d \in DevType
  BY DEF WellFormed
<1>3. PICK x \in Nat : x = d.next
  BY <1>2 DEF DevType
<1>4. PICK l \in Int : l = d.live
  BY <1>2 DEF DevType
<1>5. PICK o \in [id : Nat, deps : SUBSET Nat] : o = [id |-> x, deps |-> X]
  OBVIOUS
<1>6. PICK os \in SUBSET [id : Nat, deps : SUBSET Nat] : os = d.objects \cup {o}
  BY <1>2, <1>5 DEF DevType
<1>7. PICK sl \in [Slots -> Nat] : sl = [d.slot EXCEPT ![s] = x]
  BY <1>2, <1>3 DEF DevType
<1>8. r.d = [d EXCEPT !.objects = os, !.next = x + 1, !.slot = sl, !.live = l + 1]
  BY <1>1, <1>2, <1>3, <1>4, <1>5, <1>6, <1>7 DEF DevType
<1>9. /\ r.d \in DevType /\ r.d.objects = os /\ r.d.next = x + 1 /\ r.d.slot = sl /\ r.d.live = l + 1
      /\ r.d.refused = d.refused
  <2>1. PICK y \in Nat, m \in Int : y = x + 1 /\ m = l + 1
    OBVIOUS
  <2>2. r.d = [d EXCEPT !.objects = os, !.next = y, !.slot = sl, !.live = m]
    BY <1>8, <2>1
  <2>3. QED
    BY <1>2, <2>1, <2>2 DEF DevType
<1>10. \A t \in Slots : sl[t] = IF t = s THEN x ELSE d.slot[t]
  BY <1>2, <1>7 DEF DevType
<1>11. x # 0 /\ (\A p \in d.objects : p.id # 0 /\ p.id < x) /\ (\A t \in Slots : d.slot[t] < x)
  BY <1>3 DEF WellFormed
<1>12. Held(r.d) = Held(d) \cup {s} /\ s \notin Held(d)
  BY <1>1, <1>9, <1>10, <1>11 DEF Held, Null
<1>13. Cardinality(Held(r.d)) = Cardinality(Held(d)) + 1
  BY <1>12, HeldIsFinite, FS_AddElement
<1>14. \A p \in os : p \in d.objects \/ (p = o /\ p.id = x)
  BY <1>5, <1>6
<1>15. \A p \in os : p.id # 0 /\ p.id < x + 1
  <2>1. ASSUME NEW p \in os PROVE p.id # 0 /\ p.id < x + 1
    <3>1. PICK i \in Nat : i = p.id
      BY <1>6
    <3>2. QED
      BY <1>11, <1>14, <3>1
  <2>2. QED
    BY <2>1
<1>16. \A p, q \in os : p.id = q.id => p = q
  <2>1. ASSUME NEW p \in os, NEW q \in os, p.id = q.id PROVE p = q
    <3>1. \A z \in d.objects : z.id # x
      <4>1. ASSUME NEW z \in d.objects PROVE z.id # x
        <5>1. PICK i \in Nat : i = z.id
          BY <1>2 DEF DevType
        <5>2. QED
          BY <1>11, <5>1
      <4>2. QED
        BY <4>1
    <3>2. QED
      BY <1>14, <2>1, <3>1 DEF WellFormed
  <2>2. QED
    BY <2>1
<1>17. \A t \in Slots : sl[t] < x + 1
  <2>1. ASSUME NEW t \in Slots PROVE sl[t] < x + 1
    <3>1. PICK i \in Nat : i = d.slot[t]
      BY <1>2 DEF DevType
    <3>2. i < x
      BY <1>11, <3>1
    <3>3. QED
      BY <1>10, <3>1, <3>2
  <2>2. QED
    BY <2>1
<1>18. \A t, u \in Slots : sl[t] = sl[u] /\ sl[t] # Null => t = u
  <2>1. ASSUME NEW t \in Slots, NEW u \in Slots, sl[t] = sl[u], sl[t] # Null PROVE t = u
    <3>1. PICK i \in Nat, j \in Nat : i = d.slot[t] /\ j = d.slot[u] /\ i < x /\ j < x
      BY <1>2, <1>11 DEF DevType
    <3>2. QED
      BY <1>10, <2>1, <3>1 DEF WellFormed
  <2>2. QED
    BY <2>1
<1>19. WellFormed(r.d)
  BY <1>4, <1>9, <1>13, <1>15, <1>16, <1>17, <1>18 DEF WellFormed
<1>20. \A t \in Held(d) : r.d.slot[t] = d.slot[t]
  BY <1>9, <1>10, <1>12 DEF Held
<1>21. Is(r.d, s, X)
  BY <1>5, <1>6, <1>9, <1>10, <1>11 DEF Is, Null
<1>22. \A t, Y : t \in Held(d) /\ Is(d, t, Y) => Is(r.d, t, Y)
  BY <1>6, <1>9, <1>20 DEF Is
<1>23. QED
  BY <1>1, <1>12, <1>19, <1>20, <1>21, <1>22

\* One that fails changes nothing.
LEMMA NotCreated ==
  ASSUME NEW d, NEW X, NEW r \in Create(d, X), r.rid = Null
  PROVE  r.d = d
<1>1. CASE r \in (IF CreateFails THEN {[d |-> d, rid |-> Null]} ELSE {})
  BY <1>1
<1>2. CASE \E s \in NextSlot(d) : r.rid = s
  BY <1>2, NextSlotIsFree
<1>3. ASSUME NEW s \in NextSlot(d), NEW e, r = [d |-> e, rid |-> s] PROVE r.rid = s
  BY <1>3
<1>4. QED
  BY <1>1, <1>2, <1>3 DEF Create

\* What forgetting held RIDs changes.
LEMMA Forgotten ==
  ASSUME NEW d, WellFormed(d), NEW T, T \subseteq Held(d)
  PROVE  LET f == Forget(d, T) IN
         /\ WellFormed(f) /\ Held(f) = Held(d) \ T
         /\ \A s \in Held(f) : f.slot[s] = d.slot[s]
         /\ \A s, X : s \in Held(f) /\ Is(d, s, X) => Is(f, s, X)
<1> DEFINE f == Forget(d, T)
<1>1. d \in DevType /\ T \subseteq Slots
  BY DEF WellFormed, Held
<1>2. PICK sl \in [Slots -> Nat] : sl = [s \in Slots |-> IF s \in T THEN Null ELSE d.slot[s]]
  <2>1. [s \in Slots |-> IF s \in T THEN Null ELSE d.slot[s]] \in [Slots -> Nat]
    BY <1>1 DEF DevType, Null
  <2>2. QED
    BY <2>1
<1>3. Cardinality(T) \in Nat /\ IsFiniteSet(T)
  BY HeldIsFinite, FS_Subset, FS_CardinalityType
<1>4. PICK l \in Int : l = d.live - Cardinality(T)
  BY <1>1, <1>3 DEF DevType
<1>5. f = [d EXCEPT !.slot = sl, !.live = l]
  BY <1>1, <1>2, <1>4 DEF Forget, DevType
<1>6. /\ f \in DevType /\ f.slot = sl /\ f.live = l /\ f.objects = d.objects /\ f.next = d.next
      /\ f.refused = d.refused
  BY <1>1, <1>5 DEF DevType
<1>7. Held(f) = Held(d) \ T
  BY <1>2, <1>6 DEF Held
<1>8. Cardinality(Held(f)) = Cardinality(Held(d)) - Cardinality(T)
  <2>1. Held(d) \cap T = T
    OBVIOUS
  <2>2. QED
    BY <1>7, <2>1, HeldIsFinite, FS_Difference
<1>9. WellFormed(f)
  <2>1. \A s \in Slots : f.slot[s] < f.next
    <3>1. ASSUME NEW s \in Slots PROVE sl[s] < d.next
      <4>1. PICK x \in Nat, y \in Nat : x = d.next /\ x # 0 /\ y = d.slot[s] /\ y < x
        BY <1>1 DEF WellFormed, DevType
      <4>2. sl[s] = IF s \in T THEN 0 ELSE y
        BY <1>2, <4>1 DEF Null
      <4>3. QED
        BY <4>1, <4>2
    <3>2. QED
      BY <1>6, <3>1
  <2>2. f.live = Cardinality(Held(f))
    BY <1>4, <1>6, <1>8 DEF WellFormed
  <2>3. \A s, t \in Slots : f.slot[s] = f.slot[t] /\ f.slot[s] # Null => s = t
    BY <1>2, <1>6 DEF WellFormed
  <2>4. QED
    BY <1>6, <2>1, <2>2, <2>3 DEF WellFormed
<1>10. \A s \in Held(f) : f.slot[s] = d.slot[s]
  BY <1>2, <1>6, <1>7 DEF Held
<1>11. \A s, X : s \in Held(f) /\ Is(d, s, X) => Is(f, s, X)
  BY <1>6, <1>10 DEF Is
<1>12. QED
  BY <1>7, <1>9, <1>10, <1>11

\* What freeing them changes, when each names an object Godot has: nothing of
\* what goes with other objects.
LEMMA Freed ==
  ASSUME NEW d, WellFormed(d), NEW T, T \subseteq Held(d), \A s \in T : Live(d, d.slot[s])
  PROVE  LET f == FreeRids(d, T) IN
         /\ WellFormed(f) /\ Held(f) = Held(d) \ T
         /\ \A s \in Held(f) : f.slot[s] = d.slot[s]
         /\ \A s, X : s \in Held(f) /\ Is(d, s, X) /\ X \cap IdsOf(d, T) = {} => Is(f, s, X)
<1> DEFINE kept == {o \in d.objects : o.id \notin IdsOf(d, T) /\ o.deps \cap IdsOf(d, T) = {}}
           e == [d EXCEPT !.objects = kept]
<1>1. d \in DevType /\ T \subseteq Slots
  BY DEF WellFormed, Held
<1>2. FreeRids(d, T) = Forget(e, T)
  <2>1. (d.refused \/ \E id \in IdsOf(d, T) : ~Live(d, id)) = d.refused
    <3>1. \A id \in IdsOf(d, T) : Live(d, id)
      BY DEF IdsOf
    <3>2. d.refused \in BOOLEAN
      BY <1>1 DEF DevType
    <3>3. QED
      BY <3>1, <3>2
  <2>2. [d EXCEPT !.objects = kept, !.refused = d.refused] = e
    BY <1>1 DEF DevType
  <2>3. QED
    BY <2>1, <2>2 DEF FreeRids
<1>3. kept \subseteq d.objects
  OBVIOUS
<1>4. /\ e \in DevType /\ e.objects = kept /\ e.slot = d.slot /\ e.live = d.live /\ e.next = d.next
      /\ e.refused = d.refused
  <2>1. PICK os \in SUBSET [id : Nat, deps : SUBSET Nat] : os = kept
    BY <1>1, <1>3 DEF DevType
  <2>2. e = [d EXCEPT !.objects = os]
    BY <2>1
  <2> HIDE DEF e, kept
  <2>3. QED
    BY <1>1, <2>1, <2>2 DEF DevType
<1>5. Held(e) = Held(d)
  BY <1>4 DEF Held
<1>6. WellFormed(e)
  <2> HIDE DEF e, kept
  <2>1. QED
    BY <1>3, <1>4, <1>5 DEF WellFormed
<1>7. \A s, X : s \in Held(d) \ T /\ Is(d, s, X) /\ X \cap IdsOf(d, T) = {} => Is(e, s, X)
  <2>1. ASSUME NEW s \in Held(d) \ T, NEW X, Is(d, s, X), X \cap IdsOf(d, T) = {} PROVE Is(e, s, X)
    <3>1. d.slot[s] \notin IdsOf(d, T)
      BY <1>1 DEF IdsOf, WellFormed, Held
    <3>2. [id |-> d.slot[s], deps |-> X] \in kept
      BY <2>1, <3>1 DEF Is
    <3>3. QED
      BY <1>4, <2>1, <3>2 DEF Is
  <2>2. QED
    BY <2>1
<1> HIDE DEF e, kept
<1>8. LET f == Forget(e, T) IN
      /\ WellFormed(f) /\ Held(f) = Held(e) \ T
      /\ \A s \in Held(f) : f.slot[s] = e.slot[s]
      /\ \A s, X : s \in Held(f) /\ Is(e, s, X) => Is(f, s, X)
  BY <1>5, <1>6, Forgotten
<1>9. QED
  BY <1>2, <1>4, <1>5, <1>7, <1>8

-----------------------------------------------------------------------------
(* What is kept.                                                           *)

\* Who keeps a RID.
LEMMA KeptBy ==
  ASSUME NEW bf, NEW c, NEW s
  PROVE  s \in Kept(bf, c) <=>
           \/ s # Null /\ \E b \in Buffers : s = bf[b]
           \/ s # Null /\ \E k \in Kernels : s = c.kerns[k].shader
           \/ s # Null /\ \E k \in Kernels : s = c.kerns[k].pipeline
           \/ s # Null /\ s = c.params
           \/ \E i \in 1..Len(c.ubos) : s = c.ubos[i]
           \/ \E i \in 1..Len(c.sets) : s = c.sets[i]
           \/ \E e \in c.set0 : s = e.set
<1>1. s \in RidSet({bf[b] : b \in Buffers}) <=> s # Null /\ \E b \in Buffers : s = bf[b]
  BY DEF RidSet
<1>2. s \in Owned(c) <=> (\E e \in c.set0 : s = e.set) \/ (\E i \in 1..Len(c.sets) : s = c.sets[i])
  BY DEF Owned
<1>3. s \in Made(c) <=> (\E i \in 1..Len(c.ubos) : s = c.ubos[i]) \/ (s # Null /\ s = c.params)
  BY DEF Made, RidSet
<1>4. s \in Compiled(c) <=> s # Null /\ \E k \in Kernels : s = c.kerns[k].pipeline
  BY DEF Compiled, RidSet
<1>5. s \in Shaders(c) <=> s # Null /\ \E k \in Kernels : s = c.kerns[k].shader
  BY DEF Shaders, RidSet
<1>6. QED
  BY <1>1, <1>2, <1>3, <1>4, <1>5, Zenon DEF Kept

\* Each in one place.
Owners(bf, c, owner) ==
  /\ \A b \in Buffers : bf[b] # Null => owner[bf[b]] = <<"buffer", b>>
  /\ \A k \in Kernels : c.kerns[k].shader # Null => owner[c.kerns[k].shader] = <<"shader", k>>
  /\ \A k \in Kernels : c.kerns[k].pipeline # Null => owner[c.kerns[k].pipeline] = <<"pipeline", k>>
  /\ c.params # Null => owner[c.params] = <<"params", Null>>
  /\ \A i \in 1..Len(c.ubos) : owner[c.ubos[i]] = <<"ubo", i>>
  /\ \A i \in 1..Len(c.sets) : owner[c.sets[i]] = <<"set", i>>
  /\ \A e \in c.set0 : owner[e.set] = <<"set0", e>>

LEMMA OwnersAre ==
  ASSUME NEW d, NEW bf, NEW c, NEW owner, Shaped(d, bf, c, owner)
  PROVE  Owners(bf, c, owner)
  BY DEF Shaped, BuffersAre, KernelsAre, ParamsAre, SlotSetsAre, TensorSetsAre, Owners

LEMMA KeptMembers ==
  ASSUME NEW d, NEW bf, NEW c, NEW owner, Shaped(d, bf, c, owner)
  PROVE  /\ \A b \in Buffers : bf[b] # Null => bf[b] \in Kept(bf, c)
         /\ \A k \in Kernels : c.kerns[k].shader # Null => c.kerns[k].shader \in Kept(bf, c)
         /\ \A k \in Kernels : c.kerns[k].pipeline # Null => c.kerns[k].pipeline \in Kept(bf, c)
         /\ c.layout # Null => c.layout \in Kept(bf, c)
         /\ c.params # Null => c.params \in Kept(bf, c)
         /\ \A i \in 1..Len(c.ubos) : c.ubos[i] \in Kept(bf, c)
         /\ \A i \in 1..Len(c.sets) : c.sets[i] \in Kept(bf, c)
         /\ \A e \in c.set0 : e.set \in Kept(bf, c) /\ \A b \in Bindings : e.key[b] \in Kept(bf, c)
<1>1. \A e \in c.set0 : \A b \in Bindings : e.key[b] # Null /\ \E a \in Buffers : bf[a] = e.key[b]
  <2>1. ASSUME NEW e \in c.set0, NEW b \in Bindings PROVE e.key[b] # Null
    <3>1. e \in [params : Slots, key : [Bindings -> Slots], set : Slots]
      BY DEF Shaped, CacheType
    <3>2. e.key[b] \in Slots
      BY <3>1
    <3>3. QED
      BY <3>2, CachesAssumption DEF Null
  <2>2. QED
    BY <2>1 DEF Shaped, TensorSetsAre
<1>2. \A e \in c.set0 : \A b \in Bindings : e.key[b] \in Kept(bf, c)
  BY <1>1, KeptBy
<1>3. c.layout # Null => c.layout \in Kept(bf, c)
  BY KeptBy DEF Shaped, LayoutIs
<1>4. QED
  BY <1>2, <1>3, KeptBy

\* What is kept goes with what is kept.
LEMMA KeptAre ==
  ASSUME NEW d, NEW bf, NEW c, NEW owner, Shaped(d, bf, c, owner), NEW s \in Kept(bf, c)
  PROVE  /\ s \in Slots /\ d.slot[s] # Null /\ Live(d, d.slot[s])
         /\ \E X : Is(d, s, X) /\ X \subseteq IdsOf(d, Kept(bf, c))
<1> DEFINE Good(t) == \E X : Is(d, t, X) /\ X \subseteq IdsOf(d, Kept(bf, c))
<1>1. Good(s)
  <2>1. CASE s # Null /\ \E b \in Buffers : s = bf[b]
    BY <2>1 DEF Shaped, BuffersAre
  <2>2. CASE s # Null /\ \E k \in Kernels : s = c.kerns[k].shader
    <3>1. PICK k \in Kernels : s = c.kerns[k].shader
      BY <2>2
    <3>2. Is(d, s, {})
      BY <2>2, <3>1 DEF Shaped, KernelsAre
    <3>3. QED
      BY <3>2
  <2>3. CASE s # Null /\ \E k \in Kernels : s = c.kerns[k].pipeline
    <3>1. PICK k \in Kernels : s = c.kerns[k].pipeline
      BY <2>3
    <3>2. c.kerns[k].shader # Null /\ Is(d, s, {d.slot[c.kerns[k].shader]})
      BY <2>3, <3>1 DEF Shaped, KernelsAre
    <3>3. c.kerns[k].shader \in Kept(bf, c)
      BY <3>2, KeptMembers
    <3>4. QED
      BY <3>2, <3>3 DEF IdsOf
  <2>4. CASE s # Null /\ s = c.params
    BY <2>4 DEF Shaped, ParamsAre
  <2>5. CASE \E i \in 1..Len(c.ubos) : s = c.ubos[i]
    BY <2>5 DEF Shaped, SlotSetsAre
  <2>6. CASE \E i \in 1..Len(c.sets) : s = c.sets[i]
    <3>1. PICK i \in 1..Len(c.sets) : s = c.sets[i]
      BY <2>6
    <3>2. c.layout # Null /\ Is(d, s, {d.slot[c.ubos[i]], d.slot[c.layout]})
      BY <3>1 DEF Shaped, SlotSetsAre
    <3>3. i \in 1..Len(c.ubos)
      <4>1. c.ubos \in Seq(Slots) /\ c.sets \in Seq(Slots) /\ Len(c.sets) <= Len(c.ubos)
        BY DEF Shaped, CacheType, SlotSetsAre
      <4>2. QED
        BY <4>1, LenProperties
    <3>4. c.layout \in Kept(bf, c) /\ c.ubos[i] \in Kept(bf, c)
      BY <3>2, <3>3, KeptMembers
    <3>5. QED
      BY <3>2, <3>4 DEF IdsOf
  <2>7. CASE \E e \in c.set0 : s = e.set
    <3>1. PICK e \in c.set0 : s = e.set
      BY <2>7
    <3>2. c.layout # Null /\ c.params # Null /\ Is(d, s, DepsOf(d, c, e))
      BY <3>1 DEF Shaped, TensorSetsAre
    <3>3. c.layout \in Kept(bf, c) /\ c.params \in Kept(bf, c) /\ \A b \in Bindings : e.key[b] \in Kept(bf, c)
      BY <3>2, KeptMembers
    <3>4. DepsOf(d, c, e) \subseteq IdsOf(d, Kept(bf, c))
      BY <3>3 DEF DepsOf, IdsOf
    <3>5. QED
      BY <3>2, <3>4
  <2>8. QED
    BY <2>1, <2>2, <2>3, <2>4, <2>5, <2>6, <2>7, KeptBy
<1>2. PICK X : Is(d, s, X)
  BY <1>1
<1>3. Live(d, d.slot[s])
  BY <1>2 DEF Is, Live
<1>4. QED
  BY <1>1, <1>2, <1>3 DEF Is

\* On a device that has the kept objects as they were.
LEMMA ShapedThere ==
  ASSUME NEW d, NEW bf, NEW c, NEW owner, Shaped(d, bf, c, owner), NEW f, NEW who,
         \A s \in Kept(bf, c) : /\ f.slot[s] = d.slot[s] /\ who[s] = owner[s]
                                /\ \A X : Is(d, s, X) => Is(f, s, X)
  PROVE  Shaped(f, bf, c, who)
<1> USE DEF Shaped
<1>1. BuffersAre(f, bf, who)
  BY KeptMembers DEF BuffersAre
<1>2. KernelsAre(f, c, who)
  <2>1. ASSUME NEW k \in Kernels, c.kerns[k].shader # Null
        PROVE  Is(f, c.kerns[k].shader, {}) /\ who[c.kerns[k].shader] = <<"shader", k>>
    <3>1. Is(d, c.kerns[k].shader, {}) /\ owner[c.kerns[k].shader] = <<"shader", k>>
      BY <2>1 DEF KernelsAre
    <3>2. c.kerns[k].shader \in Kept(bf, c)
      BY <2>1, KeptMembers
    <3>3. QED
      BY <3>1, <3>2
  <2>2. ASSUME NEW k \in Kernels, c.kerns[k].pipeline # Null
        PROVE  /\ c.kerns[k].shader # Null
               /\ Is(f, c.kerns[k].pipeline, {f.slot[c.kerns[k].shader]})
               /\ who[c.kerns[k].pipeline] = <<"pipeline", k>>
    <3>1. /\ c.kerns[k].shader # Null
          /\ Is(d, c.kerns[k].pipeline, {d.slot[c.kerns[k].shader]})
          /\ owner[c.kerns[k].pipeline] = <<"pipeline", k>>
      BY <2>2 DEF KernelsAre
    <3>2. c.kerns[k].shader \in Kept(bf, c) /\ c.kerns[k].pipeline \in Kept(bf, c)
      BY <2>2, <3>1, KeptMembers
    <3>3. QED
      BY <3>1, <3>2
  <2>3. QED
    BY <2>1, <2>2 DEF KernelsAre
<1>3. ParamsAre(f, c, who)
  BY KeptMembers DEF ParamsAre
<1>4. SlotSetsAre(f, c, who)
  <2>1. ASSUME NEW i \in 1..Len(c.ubos) PROVE Is(f, c.ubos[i], {}) /\ who[c.ubos[i]] = <<"ubo", i>>
    BY KeptMembers DEF SlotSetsAre
  <2>2. ASSUME NEW i \in 1..Len(c.sets)
        PROVE  /\ c.layout # Null
               /\ Is(f, c.sets[i], {f.slot[c.ubos[i]], f.slot[c.layout]})
               /\ who[c.sets[i]] = <<"set", i>>
    <3>1. /\ c.layout # Null /\ owner[c.sets[i]] = <<"set", i>>
          /\ Is(d, c.sets[i], {d.slot[c.ubos[i]], d.slot[c.layout]})
      BY DEF SlotSetsAre
    <3>2. i \in 1..Len(c.ubos)
      <4>1. c.ubos \in Seq(Slots) /\ c.sets \in Seq(Slots) /\ Len(c.sets) <= Len(c.ubos)
        BY DEF CacheType, SlotSetsAre
      <4>2. QED
        BY <4>1, LenProperties
    <3>3. c.layout \in Kept(bf, c) /\ c.ubos[i] \in Kept(bf, c) /\ c.sets[i] \in Kept(bf, c)
      BY <3>1, <3>2, KeptMembers
    <3>4. QED
      BY <3>1, <3>3
  <2>3. QED
    BY <2>1, <2>2 DEF SlotSetsAre
<1>5. TensorSetsAre(f, bf, c, who)
  <2>1. ASSUME NEW e \in c.set0
        PROVE  /\ c.layout # Null /\ c.params # Null /\ e.params = c.params
               /\ \A b \in Bindings : \E a \in Buffers : bf[a] = e.key[b]
               /\ Is(f, e.set, DepsOf(f, c, e)) /\ who[e.set] = <<"set0", e>>
    <3>1. /\ c.layout # Null /\ c.params # Null /\ e.params = c.params
          /\ \A b \in Bindings : \E a \in Buffers : bf[a] = e.key[b]
          /\ Is(d, e.set, DepsOf(d, c, e)) /\ owner[e.set] = <<"set0", e>>
      BY DEF TensorSetsAre
    <3>2. /\ c.layout \in Kept(bf, c) /\ c.params \in Kept(bf, c) /\ e.set \in Kept(bf, c)
          /\ \A b \in Bindings : e.key[b] \in Kept(bf, c)
      BY <3>1, KeptMembers
    <3>3. DepsOf(f, c, e) = DepsOf(d, c, e)
      BY <3>2 DEF DepsOf
    <3>4. QED
      BY <3>1, <3>2, <3>3
  <2>2. QED
    BY <2>1 DEF TensorSetsAre
<1>6. QED
  BY <1>1, <1>2, <1>3, <1>4, <1>5

\* The RIDs T are forgotten, and the rest is kept.
LEMMA ForgetRest ==
  ASSUME NEW d, NEW bf, NEW c, NEW owner, WellFormed(d), Shaped(d, bf, c, owner),
         NEW T, Held(d) = Kept(bf, c) \cup T, Kept(bf, c) \cap T = {}
  PROVE  Sound(Forget(d, T), bf, c, owner)
<1> DEFINE f == Forget(d, T)
<1>1. /\ WellFormed(f) /\ Held(f) = Held(d) \ T
      /\ \A s \in Held(f) : f.slot[s] = d.slot[s]
      /\ \A s, X : s \in Held(f) /\ Is(d, s, X) => Is(f, s, X)
  BY Forgotten
<1> HIDE DEF f
<1>2. Held(f) = Kept(bf, c)
  BY <1>1
<1>3. Shaped(f, bf, c, owner)
  BY <1>1, <1>2, ShapedThere
<1>4. QED
  BY <1>1, <1>2, <1>3 DEF Sound, f

\* The RIDs T are freed, and the rest is kept: none of it goes with them.
LEMMA FreeRest ==
  ASSUME NEW d, NEW bf, NEW c, NEW owner, WellFormed(d), Shaped(d, bf, c, owner),
         NEW T, Held(d) = Kept(bf, c) \cup T, Kept(bf, c) \cap T = {},
         \A s \in T : Live(d, d.slot[s])
  PROVE  Sound(FreeRids(d, T), bf, c, owner)
<1> DEFINE f == FreeRids(d, T)
<1>1. /\ WellFormed(f) /\ Held(f) = Held(d) \ T
      /\ \A s \in Held(f) : f.slot[s] = d.slot[s]
      /\ \A s, X : s \in Held(f) /\ Is(d, s, X) /\ X \cap IdsOf(d, T) = {} => Is(f, s, X)
  BY Freed
<1> HIDE DEF f
<1>2. Held(f) = Kept(bf, c)
  BY <1>1
<1>3. IdsOf(d, Kept(bf, c)) \cap IdsOf(d, T) = {}
  BY DEF IdsOf, WellFormed, Held
<1>4. ASSUME NEW s \in Kept(bf, c), NEW X, Is(d, s, X) PROVE Is(f, s, X)
  <2>1. PICK Y : Is(d, s, Y) /\ Y \subseteq IdsOf(d, Kept(bf, c))
    BY KeptAre
  <2>2. X = Y
    <3>1. [id |-> d.slot[s], deps |-> X] = [id |-> d.slot[s], deps |-> Y]
      BY <1>4, <2>1 DEF WellFormed, Is
    <3>2. QED
      BY <3>1
  <2>3. X \cap IdsOf(d, T) = {}
    BY <1>3, <2>1, <2>2
  <2>4. QED
    BY <1>1, <1>2, <1>4, <2>3
<1>5. Shaped(f, bf, c, owner)
  BY <1>1, <1>2, <1>4, ShapedThere
<1>6. QED
  BY <1>1, <1>2, <1>5 DEF Sound, f

\* The owner of a new RID.
Put(owner, rid, w) == [s \in Slots |-> IF s = rid THEN w ELSE owner[s]]

\* A RID is created, and what was kept is as it was.
LEMMA CreateKeeps ==
  ASSUME NEW d, NEW bf, NEW c, NEW owner, WellFormed(d), Shaped(d, bf, c, owner),
         Kept(bf, c) \subseteq Held(d),
         NEW X \in SUBSET Nat, NEW r \in Create(d, X), r.rid # Null, NEW w
  PROVE  Shaped(r.d, bf, c, Put(owner, r.rid, w))
<1>1. /\ r.rid \in Slots \ Held(d)
      /\ \A s \in Held(d) : r.d.slot[s] = d.slot[s]
      /\ \A s, Y : s \in Held(d) /\ Is(d, s, Y) => Is(r.d, s, Y)
  BY Created
<1>2. \A s \in Kept(bf, c) : Put(owner, r.rid, w)[s] = owner[s]
  BY <1>1 DEF Put, Held
<1>3. QED
  BY <1>1, <1>2, ShapedThere

\* A RID that was created is freed again.
LEMMA CreateUndone ==
  ASSUME NEW d, NEW bf, NEW c, NEW owner, Sound(d, bf, c, owner),
         NEW X \in SUBSET Nat, NEW r \in Create(d, X), r.rid # Null
  PROVE  Sound(FreeRids(r.d, {r.rid}), bf, c, owner)
<1>1. /\ WellFormed(r.d) /\ r.rid \in Slots \ Held(d) /\ Held(r.d) = Held(d) \cup {r.rid}
      /\ Is(r.d, r.rid, X)
      /\ \A s \in Held(d) : r.d.slot[s] = d.slot[s]
      /\ \A s, Y : s \in Held(d) /\ Is(d, s, Y) => Is(r.d, s, Y)
  BY Created DEF Sound
<1>2. Shaped(r.d, bf, c, owner)
  BY <1>1, ShapedThere DEF Sound
<1>3. Live(r.d, r.d.slot[r.rid])
  BY <1>1 DEF Is, Live
<1>4. QED
  BY <1>1, <1>2, <1>3, FreeRest DEF Sound

-----------------------------------------------------------------------------
(* The buffers.                                                            *)

LEMMA AddBuffer ==
  ASSUME NEW d, NEW bf, NEW c, NEW owner, Sound(d, bf, c, owner), NEW b \in Buffers, bf[b] = Null,
         NEW r \in Create(d, {}), r.rid # Null
  PROVE  Sound(r.d, [bf EXCEPT ![b] = r.rid], c, Put(owner, r.rid, <<"buffer", b>>))
<1> DEFINE bf2 == [bf EXCEPT ![b] = r.rid]
           who == Put(owner, r.rid, <<"buffer", b>>)
<1>1. /\ WellFormed(r.d) /\ r.rid \in Slots \ Held(d) /\ Held(r.d) = Held(d) \cup {r.rid}
      /\ Is(r.d, r.rid, {})
  BY Created DEF Sound
<1>2. Shaped(r.d, bf, c, who)
  BY CreateKeeps DEF Sound
<1>3. bf \in BufType /\ bf2 \in BufType /\ bf2[b] = r.rid /\ \A a \in Buffers \ {b} : bf2[a] = bf[a]
  BY <1>1 DEF Sound, Shaped, BufType, Rids
<1>4. who[r.rid] = <<"buffer", b>>
  BY <1>1 DEF Put
<1> HIDE DEF bf2, who
<1>5. BuffersAre(r.d, bf2, who)
  BY <1>1, <1>2, <1>3, <1>4 DEF Shaped, BuffersAre
<1>6. TensorSetsAre(r.d, bf2, c, who)
  <2>1. ASSUME NEW e \in c.set0, NEW x \in Bindings PROVE \E a \in Buffers : bf2[a] = e.key[x]
    <3>1. e.key[x] \in Slots
      BY <1>2 DEF Shaped, CacheType
    <3>2. PICK a \in Buffers : bf[a] = e.key[x]
      BY <1>2 DEF Shaped, TensorSetsAre
    <3>3. a # b
      BY <3>1, <3>2, CachesAssumption DEF Null
    <3>4. QED
      BY <1>3, <3>2, <3>3
  <2>2. QED
    BY <1>2, <2>1 DEF Shaped, TensorSetsAre
<1>7. Shaped(r.d, bf2, c, who)
  BY <1>2, <1>3, <1>5, <1>6 DEF Shaped
<1>8. Kept(bf2, c) = Kept(bf, c) \cup {r.rid}
  <2>1. RidSet({bf2[a] : a \in Buffers}) = RidSet({bf[a] : a \in Buffers}) \cup {r.rid}
    <3>1. r.rid # Null
      OBVIOUS
    <3>2. QED
      BY <1>3, <3>1 DEF RidSet
  <2>2. QED
    BY <2>1 DEF Kept
<1>9. QED
  BY <1>1, <1>7, <1>8 DEF Sound, bf2, who

\* The cached sets E are dropped from the cache.
LEMMA FewerSets ==
  ASSUME NEW d, NEW bf, NEW c, NEW owner, Shaped(d, bf, c, owner), NEW E, E \subseteq c.set0
  PROVE  LET rest == [c EXCEPT !.set0 = @ \ E] IN
         /\ Shaped(d, bf, rest, owner)
         /\ Kept(bf, c) = Kept(bf, rest) \cup {e.set : e \in E}
         /\ Kept(bf, rest) \cap {e.set : e \in E} = {}
<1> DEFINE rest == [c EXCEPT !.set0 = @ \ E]
<1>1. /\ rest \in CacheType /\ rest.set0 = c.set0 \ E /\ rest.kerns = c.kerns /\ rest.layout = c.layout
      /\ rest.params = c.params /\ rest.ubos = c.ubos /\ rest.sets = c.sets
  <2>1. c \in CacheType
    BY DEF Shaped
  <2>2. PICK z \in SUBSET [params : Slots, key : [Bindings -> Slots], set : Slots] : z = c.set0 \ E
    BY <2>1 DEF CacheType
  <2>3. rest = [c EXCEPT !.set0 = z]
    BY <2>1, <2>2 DEF CacheType
  <2> HIDE DEF rest
  <2>4. QED
    BY <2>1, <2>2, <2>3 DEF CacheType
<1> HIDE DEF rest
<1>2. Shaped(d, bf, rest, owner)
  <2>1. KernelsAre(d, rest, owner) /\ LayoutIs(rest) /\ ParamsAre(d, rest, owner)
    BY <1>1 DEF Shaped, KernelsAre, LayoutIs, ParamsAre
  <2>2. SlotSetsAre(d, rest, owner)
    BY <1>1 DEF Shaped, SlotSetsAre
  <2>3. TensorSetsAre(d, bf, rest, owner)
    BY <1>1 DEF Shaped, TensorSetsAre, DepsOf
  <2>4. QED
    BY <1>1, <2>1, <2>2, <2>3 DEF Shaped
<1>3. Kept(bf, c) = Kept(bf, rest) \cup {e.set : e \in E}
  <2>1. Owned(c) = Owned(rest) \cup {e.set : e \in E}
    BY <1>1 DEF Owned
  <2>2. Made(c) = Made(rest) /\ Compiled(c) = Compiled(rest) /\ Shaders(c) = Shaders(rest)
    BY <1>1 DEF Made, Compiled, Shaders
  <2>3. QED
    BY <2>1, <2>2 DEF Kept
<1>4. ASSUME NEW e \in E, e.set \in Kept(bf, rest) PROVE FALSE
  <2>1. owner[e.set] = <<"set0", e>>
    BY DEF Shaped, TensorSetsAre
  <2>2. Owners(bf, c, owner)
    BY OwnersAre
  <2>3. \/ e.set # Null /\ \E b \in Buffers : e.set = bf[b]
        \/ e.set # Null /\ \E k \in Kernels : e.set = c.kerns[k].shader
        \/ e.set # Null /\ \E k \in Kernels : e.set = c.kerns[k].pipeline
        \/ e.set # Null /\ e.set = c.params
        \/ \E i \in 1..Len(c.ubos) : e.set = c.ubos[i]
        \/ \E i \in 1..Len(c.sets) : e.set = c.sets[i]
        \/ \E z \in c.set0 \ E : e.set = z.set
    BY <1>1, <1>4, KeptBy
  <2>4. \E x : \/ <<"set0", e>> = <<"buffer", x>> \/ <<"set0", e>> = <<"shader", x>>
               \/ <<"set0", e>> = <<"pipeline", x>> \/ <<"set0", e>> = <<"params", x>>
               \/ <<"set0", e>> = <<"ubo", x>> \/ <<"set0", e>> = <<"set", x>>
               \/ (x \notin E /\ <<"set0", e>> = <<"set0", x>>)
    BY <2>1, <2>2, <2>3 DEF Owners
  <2>5. QED
    BY <2>4
<1>5. QED
  BY <1>2, <1>3, <1>4 DEF rest

LEMMA DropSets ==
  ASSUME NEW d, NEW bf, NEW c, NEW owner, Sound(d, bf, c, owner), NEW E, E \subseteq c.set0
  PROVE  Sound(ForgetSets(d, E), bf, [c EXCEPT !.set0 = @ \ E], owner)
  BY FewerSets, ForgetRest DEF Sound, ForgetSets

\* A buffer that no cached set binds is freed.
LEMMA DropBuffer ==
  ASSUME NEW d, NEW bf, NEW c, NEW owner, Sound(d, bf, c, owner), NEW b \in Buffers, bf[b] # Null,
         \A e \in c.set0 : \A x \in Bindings : e.key[x] # bf[b]
  PROVE  Sound(FreeRids(d, {bf[b]}), [bf EXCEPT ![b] = Null], c, owner)
<1> DEFINE bf2 == [bf EXCEPT ![b] = Null]
<1>1. bf \in BufType /\ bf2 \in BufType /\ bf2[b] = Null /\ \A a \in Buffers \ {b} : bf2[a] = bf[a]
  BY DEF Sound, Shaped, BufType, Rids
<1> HIDE DEF bf2
<1>2. Shaped(d, bf2, c, owner)
  <2>1. BuffersAre(d, bf2, owner)
    BY <1>1 DEF Sound, Shaped, BuffersAre
  <2>2. TensorSetsAre(d, bf2, c, owner)
    <3>1. ASSUME NEW e \in c.set0, NEW x \in Bindings PROVE \E a \in Buffers : bf2[a] = e.key[x]
      BY <1>1 DEF Sound, Shaped, TensorSetsAre
    <3>2. QED
      BY <3>1 DEF Sound, Shaped, TensorSetsAre
  <2>3. QED
    BY <1>1, <2>1, <2>2 DEF Sound, Shaped
<1>3. Kept(bf, c) = Kept(bf2, c) \cup {bf[b]}
  <2>1. RidSet({bf[a] : a \in Buffers}) = RidSet({bf2[a] : a \in Buffers}) \cup {bf[b]}
    BY <1>1 DEF RidSet
  <2>2. QED
    BY <2>1 DEF Kept
<1>4. bf[b] \notin Kept(bf2, c)
  <2>1. owner[bf[b]] = <<"buffer", b>>
    BY DEF Sound, Shaped, BuffersAre
  <2>2. Owners(bf, c, owner)
    BY OwnersAre DEF Sound
  <2>3. SUFFICES ASSUME bf[b] \in Kept(bf2, c) PROVE FALSE
    OBVIOUS
  <2>4. \/ \E a \in Buffers \ {b} : bf[b] = bf[a]
        \/ \E k \in Kernels : bf[b] = c.kerns[k].shader
        \/ \E k \in Kernels : bf[b] = c.kerns[k].pipeline
        \/ bf[b] = c.params
        \/ \E i \in 1..Len(c.ubos) : bf[b] = c.ubos[i]
        \/ \E i \in 1..Len(c.sets) : bf[b] = c.sets[i]
        \/ \E z \in c.set0 : bf[b] = z.set
    BY <1>1, <2>3, KeptBy
  <2>5. \E x : \/ (x # b /\ <<"buffer", b>> = <<"buffer", x>>) \/ <<"buffer", b>> = <<"shader", x>>
               \/ <<"buffer", b>> = <<"pipeline", x>> \/ <<"buffer", b>> = <<"params", x>>
               \/ <<"buffer", b>> = <<"ubo", x>> \/ <<"buffer", b>> = <<"set", x>>
               \/ <<"buffer", b>> = <<"set0", x>>
    BY <2>1, <2>2, <2>4 DEF Owners
  <2>6. QED
    BY <2>5
<1>5. Live(d, d.slot[bf[b]])
  BY DEF Sound, Shaped, BuffersAre, Is, Live
<1>6. /\ Held(d) = Kept(bf2, c) \cup {bf[b]} /\ Kept(bf2, c) \cap {bf[b]} = {}
      /\ \A s \in {bf[b]} : Live(d, d.slot[s])
  BY <1>3, <1>4, <1>5 DEF Sound
<1>7. WellFormed(d)
  BY DEF Sound
<1>8. Sound(FreeRids(d, {bf[b]}), bf2, c, owner)
  BY <1>2, <1>6, <1>7, FreeRest
<1>9. QED
  BY <1>8 DEF bf2

-----------------------------------------------------------------------------
(* The params table, the kernels and the sets.                             *)

LEMMA DropTable ==
  ASSUME NEW d, NEW bf, NEW c, NEW owner, Sound(d, bf, c, owner), c.params # Null, c.set0 = {}
  PROVE  Sound(FreeRids(d, {c.params}), bf, [c EXCEPT !.params = Null, !.cap = 0], owner)
<1> DEFINE rest == [c EXCEPT !.params = Null, !.cap = 0]
<1>1. /\ rest \in CacheType /\ rest.set0 = {} /\ rest.kerns = c.kerns /\ rest.layout = c.layout
      /\ rest.params = Null /\ rest.ubos = c.ubos /\ rest.sets = c.sets
  BY DEF Sound, Shaped, CacheType, Rids, Null
<1> HIDE DEF rest
<1>2. Shaped(d, bf, rest, owner)
  <2>1. KernelsAre(d, rest, owner) /\ LayoutIs(rest) /\ ParamsAre(d, rest, owner)
    BY <1>1 DEF Sound, Shaped, KernelsAre, LayoutIs, ParamsAre
  <2>2. SlotSetsAre(d, rest, owner)
    BY <1>1 DEF Sound, Shaped, SlotSetsAre
  <2>3. TensorSetsAre(d, bf, rest, owner)
    BY <1>1 DEF TensorSetsAre
  <2>4. QED
    BY <1>1, <2>1, <2>2, <2>3 DEF Sound, Shaped
<1>3. Kept(bf, c) = Kept(bf, rest) \cup {c.params}
  <2>1. Made(c) = Made(rest) \cup {c.params}
    BY <1>1 DEF Made, RidSet
  <2>2. Owned(c) = Owned(rest) /\ Compiled(c) = Compiled(rest) /\ Shaders(c) = Shaders(rest)
    BY <1>1 DEF Owned, Compiled, Shaders
  <2>3. QED
    BY <2>1, <2>2 DEF Kept
<1>4. c.params \notin Kept(bf, rest)
  <2>1. owner[c.params] = <<"params", Null>>
    BY DEF Sound, Shaped, ParamsAre
  <2>2. Owners(bf, c, owner)
    BY OwnersAre DEF Sound
  <2>3. SUFFICES ASSUME c.params \in Kept(bf, rest) PROVE FALSE
    OBVIOUS
  <2>4. \/ \E a \in Buffers : c.params = bf[a]
        \/ \E k \in Kernels : c.params = c.kerns[k].shader
        \/ \E k \in Kernels : c.params = c.kerns[k].pipeline
        \/ \E i \in 1..Len(c.ubos) : c.params = c.ubos[i]
        \/ \E i \in 1..Len(c.sets) : c.params = c.sets[i]
    BY <1>1, <2>3, KeptBy
  <2>5. \E x : \/ <<"params", Null>> = <<"buffer", x>> \/ <<"params", Null>> = <<"shader", x>>
               \/ <<"params", Null>> = <<"pipeline", x>>
               \/ <<"params", Null>> = <<"ubo", x>> \/ <<"params", Null>> = <<"set", x>>
    BY <2>1, <2>2, <2>4 DEF Owners
  <2>6. QED
    BY <2>5
<1>5. /\ Held(d) = Kept(bf, rest) \cup {c.params} /\ Kept(bf, rest) \cap {c.params} = {}
      /\ \A s \in {c.params} : Live(d, d.slot[s])
  BY <1>3, <1>4 DEF Sound, Shaped, ParamsAre, Is, Live
<1>6. WellFormed(d)
  BY DEF Sound
<1>7. Sound(FreeRids(d, {c.params}), bf, rest, owner)
  BY <1>2, <1>5, <1>6, FreeRest
<1>8. QED
  BY <1>7 DEF rest

LEMMA AddTable ==
  ASSUME NEW d, NEW bf, NEW c, NEW owner, Sound(d, bf, c, owner), c.params = Null,
         NEW r \in Create(d, {}), r.rid # Null, NEW cap \in Nat
  PROVE  Sound(r.d, bf, [c EXCEPT !.params = r.rid, !.cap = cap], Put(owner, r.rid, <<"params", Null>>))
<1> DEFINE more == [c EXCEPT !.params = r.rid, !.cap = cap]
           who == Put(owner, r.rid, <<"params", Null>>)
<1>1. /\ WellFormed(r.d) /\ r.rid \in Slots \ Held(d) /\ Held(r.d) = Held(d) \cup {r.rid}
      /\ Is(r.d, r.rid, {})
  BY Created DEF Sound
<1>2. Shaped(r.d, bf, c, who)
  BY CreateKeeps DEF Sound
<1>3. /\ more \in CacheType /\ more.set0 = c.set0 /\ more.kerns = c.kerns /\ more.layout = c.layout
      /\ more.params = r.rid /\ more.ubos = c.ubos /\ more.sets = c.sets
  BY <1>1 DEF Sound, Shaped, CacheType, Rids
<1>4. who[r.rid] = <<"params", Null>>
  BY <1>1 DEF Put
<1>5. c.set0 = {}
  BY DEF Sound, Shaped, TensorSetsAre
<1> HIDE DEF more, who
<1>6. Shaped(r.d, bf, more, who)
  <2>1. KernelsAre(r.d, more, who) /\ LayoutIs(more)
    BY <1>2, <1>3 DEF Shaped, KernelsAre, LayoutIs
  <2>2. SlotSetsAre(r.d, more, who)
    BY <1>2, <1>3 DEF Shaped, SlotSetsAre
  <2>3. ParamsAre(r.d, more, who)
    BY <1>1, <1>3, <1>4 DEF ParamsAre
  <2>4. TensorSetsAre(r.d, bf, more, who)
    BY <1>3, <1>5 DEF TensorSetsAre
  <2>5. QED
    BY <1>2, <1>3, <2>1, <2>2, <2>3, <2>4 DEF Shaped
<1>7. Kept(bf, more) = Kept(bf, c) \cup {r.rid}
  <2>1. Made(more) = Made(c) \cup {r.rid}
    BY <1>3 DEF Made, RidSet
  <2>2. Owned(c) = Owned(more) /\ Compiled(c) = Compiled(more) /\ Shaders(c) = Shaders(more)
    BY <1>3 DEF Owned, Compiled, Shaders
  <2>3. QED
    BY <2>1, <2>2 DEF Kept
<1>8. QED
  BY <1>1, <1>6, <1>7 DEF Sound, more, who

\* A kernel's shader and pipeline.
LEMMA AddKernel ==
  ASSUME NEW d, NEW bf, NEW c, NEW owner, Sound(d, bf, c, owner), NEW k \in Kernels,
         c.kerns[k].shader = Null, c.kerns[k].pipeline = Null,
         NEW sh \in Create(d, {}), sh.rid # Null,
         NEW p \in Create(sh.d, {sh.d.slot[sh.rid]}), p.rid # Null
  PROVE  Sound(p.d, bf, [c EXCEPT !.kerns[k] = [shader |-> sh.rid, pipeline |-> p.rid],
                                  !.layout = IF @ = Null THEN sh.rid ELSE @],
               Put(Put(owner, sh.rid, <<"shader", k>>), p.rid, <<"pipeline", k>>))
<1> DEFINE more == [c EXCEPT !.kerns[k] = [shader |-> sh.rid, pipeline |-> p.rid],
                             !.layout = IF @ = Null THEN sh.rid ELSE @]
           one == Put(owner, sh.rid, <<"shader", k>>)
           who == Put(one, p.rid, <<"pipeline", k>>)
<1>1. /\ WellFormed(sh.d) /\ sh.rid \in Slots \ Held(d) /\ Held(sh.d) = Held(d) \cup {sh.rid}
      /\ Is(sh.d, sh.rid, {})
  BY Created DEF Sound
<1>2. Shaped(sh.d, bf, c, one)
  BY CreateKeeps DEF Sound
<1>3. {sh.d.slot[sh.rid]} \in SUBSET Nat
  BY <1>1 DEF WellFormed, DevType
<1>4. /\ WellFormed(p.d) /\ p.rid \in Slots \ Held(sh.d) /\ Held(p.d) = Held(sh.d) \cup {p.rid}
      /\ Is(p.d, p.rid, {sh.d.slot[sh.rid]}) /\ p.d.slot[sh.rid] = sh.d.slot[sh.rid]
      /\ Is(p.d, sh.rid, {})
  BY <1>1, <1>3, Created
<1>5. Shaped(p.d, bf, c, who)
  <2>1. Kept(bf, c) \subseteq Held(sh.d)
    BY <1>1 DEF Sound
  <2>2. QED
    BY <1>1, <1>2, <1>3, <2>1, CreateKeeps
<1>6. who[sh.rid] = <<"shader", k>> /\ who[p.rid] = <<"pipeline", k>>
  BY <1>1, <1>4 DEF Put
<1>7. /\ more \in CacheType /\ more.set0 = c.set0 /\ more.params = c.params /\ more.ubos = c.ubos /\ more.sets = c.sets
      /\ more.layout = (IF c.layout = Null THEN sh.rid ELSE c.layout)
      /\ more.kerns[k] = [shader |-> sh.rid, pipeline |-> p.rid]
      /\ \A j \in Kernels \ {k} : more.kerns[j] = c.kerns[j]
  <2>1. c \in CacheType
    BY DEF Sound, Shaped
  <2>2. PICK n \in KernelType : n = [shader |-> sh.rid, pipeline |-> p.rid]
    BY <1>1, <1>4 DEF KernelType, Rids
  <2>3. PICK ks \in [Kernels -> KernelType] : ks = [c.kerns EXCEPT ![k] = n]
    BY <2>1 DEF CacheType
  <2>4. PICK l \in Rids : l = IF c.layout = Null THEN sh.rid ELSE c.layout
    BY <1>1, <2>1 DEF CacheType, Rids
  <2>5. more = [c EXCEPT !.kerns = ks, !.layout = l]
    BY <2>1, <2>2, <2>3, <2>4 DEF CacheType
  <2> HIDE DEF more
  <2>6. /\ more \in CacheType /\ more.set0 = c.set0 /\ more.params = c.params /\ more.ubos = c.ubos
        /\ more.sets = c.sets /\ more.layout = l /\ more.kerns = ks
    BY <2>1, <2>5 DEF CacheType
  <2>7. ks[k] = n /\ \A j \in Kernels \ {k} : ks[j] = c.kerns[j]
    BY <2>1, <2>3 DEF CacheType
  <2>8. QED
    BY <2>2, <2>4, <2>6, <2>7
<1> HIDE DEF more, one, who
<1>8. sh.rid # Null /\ p.rid # Null /\ more.kerns[k].shader = sh.rid /\ more.kerns[k].pipeline = p.rid
  BY <1>7
<1>9. KernelsAre(p.d, more, who)
  <2>1. ASSUME NEW j \in Kernels, j # k
        PROVE  /\ more.kerns[j].shader # Null =>
                    Is(p.d, more.kerns[j].shader, {}) /\ who[more.kerns[j].shader] = <<"shader", j>>
               /\ more.kerns[j].pipeline # Null =>
                    /\ more.kerns[j].shader # Null
                    /\ Is(p.d, more.kerns[j].pipeline, {p.d.slot[more.kerns[j].shader]})
                    /\ who[more.kerns[j].pipeline] = <<"pipeline", j>>
    BY <1>5, <1>7, <2>1 DEF Shaped, KernelsAre
  <2>2. /\ Is(p.d, more.kerns[k].shader, {}) /\ who[more.kerns[k].shader] = <<"shader", k>>
        /\ more.kerns[k].shader # Null
        /\ Is(p.d, more.kerns[k].pipeline, {p.d.slot[more.kerns[k].shader]})
        /\ who[more.kerns[k].pipeline] = <<"pipeline", k>>
    BY <1>4, <1>6, <1>8
  <2>3. QED
    BY <2>1, <2>2 DEF KernelsAre
<1>10. LayoutIs(more)
  <2>1. CASE c.layout = Null
    BY <1>7, <1>8, <2>1 DEF LayoutIs
  <2>2. CASE c.layout # Null
    <3>1. PICK j \in Kernels : c.kerns[j].shader = c.layout
      BY <1>5, <2>2 DEF Shaped, LayoutIs
    <3>2. j # k
      BY <2>2, <3>1
    <3>3. QED
      BY <1>7, <2>2, <3>1, <3>2 DEF LayoutIs
  <2>3. QED
    BY <2>1, <2>2
<1>11. c.layout # Null => more.layout = c.layout
  BY <1>7
<1>12. SlotSetsAre(p.d, more, who)
  BY <1>5, <1>7, <1>11 DEF Shaped, SlotSetsAre
<1>13. TensorSetsAre(p.d, bf, more, who)
  <2>1. ASSUME NEW e \in c.set0
        PROVE  /\ more.layout # Null /\ more.params # Null /\ e.params = more.params
               /\ \A b \in Bindings : \E a \in Buffers : bf[a] = e.key[b]
               /\ Is(p.d, e.set, DepsOf(p.d, more, e)) /\ who[e.set] = <<"set0", e>>
    <3>1. /\ c.layout # Null /\ c.params # Null /\ e.params = c.params
          /\ \A b \in Bindings : \E a \in Buffers : bf[a] = e.key[b]
          /\ Is(p.d, e.set, DepsOf(p.d, c, e)) /\ who[e.set] = <<"set0", e>>
      BY <1>5 DEF Shaped, TensorSetsAre
    <3>2. DepsOf(p.d, more, e) = DepsOf(p.d, c, e)
      BY <1>7, <1>11, <3>1 DEF DepsOf
    <3>3. QED
      BY <1>7, <1>11, <3>1, <3>2
  <2>2. QED
    BY <1>7, <2>1 DEF TensorSetsAre
<1>14. Shaped(p.d, bf, more, who)
  <2>1. ParamsAre(p.d, more, who) /\ BuffersAre(p.d, bf, who)
    BY <1>5, <1>7 DEF Shaped, ParamsAre
  <2>2. QED
    BY <1>5, <1>7, <1>9, <1>10, <1>12, <1>13, <2>1 DEF Shaped
<1>15. Kept(bf, more) = Kept(bf, c) \cup {sh.rid, p.rid}
  <2>1. Shaders(more) = Shaders(c) \cup {sh.rid}
    <3>1. ASSUME NEW s PROVE (s # Null /\ \E j \in Kernels : s = more.kerns[j].shader)
                             <=> s = sh.rid \/ (s # Null /\ \E j \in Kernels : s = c.kerns[j].shader)
      BY <1>7, <1>8
    <3>2. QED
      BY <3>1 DEF Shaders, RidSet
  <2>2. Compiled(more) = Compiled(c) \cup {p.rid}
    <3>1. ASSUME NEW s PROVE (s # Null /\ \E j \in Kernels : s = more.kerns[j].pipeline)
                             <=> s = p.rid \/ (s # Null /\ \E j \in Kernels : s = c.kerns[j].pipeline)
      BY <1>7, <1>8
    <3>2. QED
      BY <3>1 DEF Compiled, RidSet
  <2>3. Owned(c) = Owned(more) /\ Made(c) = Made(more)
    BY <1>7 DEF Owned, Made
  <2>4. QED
    BY <2>1, <2>2, <2>3 DEF Kept
<1>16. QED
  <2>1. Held(p.d) = Kept(bf, more)
    BY <1>1, <1>4, <1>15 DEF Sound
  <2>2. QED
    BY <1>4, <1>14, <2>1 DEF Sound, more, who, one

LEMMA AppendIs ==
  ASSUME NEW q \in Seq(Slots), NEW x \in Slots
  PROVE  /\ Append(q, x) \in Seq(Slots) /\ Len(q) \in Nat /\ Len(Append(q, x)) = Len(q) + 1
         /\ Append(q, x)[Len(q) + 1] = x
         /\ \A i \in 1..Len(q) : Append(q, x)[i] = q[i]
  BY AppendProperties, LenProperties

\* A slot set and the uniform buffer it binds.
LEMMA AddSlotSet ==
  ASSUME NEW d, NEW bf, NEW c, NEW owner, Sound(d, bf, c, owner), c.layout # Null,
         Len(c.ubos) = Len(c.sets),
         NEW u \in Create(d, {}), u.rid # Null,
         NEW s \in Create(u.d, {u.d.slot[u.rid], u.d.slot[c.layout]}), s.rid # Null,
         NEW n \in Nat, n = Len(c.ubos) + 1
  PROVE  Sound(s.d, bf, [c EXCEPT !.ubos = Append(@, u.rid), !.sets = Append(@, s.rid)],
               Put(Put(owner, u.rid, <<"ubo", n>>), s.rid, <<"set", n>>))
<1> DEFINE more == [c EXCEPT !.ubos = Append(@, u.rid), !.sets = Append(@, s.rid)]
           one == Put(owner, u.rid, <<"ubo", n>>)
           who == Put(one, s.rid, <<"set", n>>)
<1>1. /\ WellFormed(u.d) /\ u.rid \in Slots \ Held(d) /\ Held(u.d) = Held(d) \cup {u.rid}
      /\ Is(u.d, u.rid, {})
  BY Created DEF Sound
<1>2. Shaped(u.d, bf, c, one)
  BY CreateKeeps DEF Sound
<1>3. c \in CacheType /\ c.layout \in Slots /\ c.layout \in Kept(bf, c)
  <2>1. c \in CacheType
    BY DEF Sound, Shaped
  <2>2. c.layout \in Slots
    BY <2>1 DEF CacheType, Rids
  <2>3. QED
    BY <2>1, <2>2, KeptMembers DEF Sound
<1>4. {u.d.slot[u.rid], u.d.slot[c.layout]} \in SUBSET Nat
  BY <1>1, <1>3 DEF WellFormed, DevType
<1>5. /\ WellFormed(s.d) /\ s.rid \in Slots \ Held(u.d) /\ Held(s.d) = Held(u.d) \cup {s.rid}
      /\ Is(s.d, s.rid, {u.d.slot[u.rid], u.d.slot[c.layout]})
      /\ s.d.slot[u.rid] = u.d.slot[u.rid] /\ s.d.slot[c.layout] = u.d.slot[c.layout]
      /\ Is(s.d, u.rid, {})
  <2>1. c.layout \in Held(u.d) /\ u.rid \in Held(u.d)
    BY <1>1, <1>3 DEF Sound
  <2>2. QED
    BY <1>1, <1>4, <2>1, Created
<1>6. Shaped(s.d, bf, c, who)
  <2>1. Kept(bf, c) \subseteq Held(u.d)
    BY <1>1 DEF Sound
  <2>2. QED
    BY <1>1, <1>2, <1>4, <2>1, CreateKeeps
<1>7. who[u.rid] = <<"ubo", n>> /\ who[s.rid] = <<"set", n>>
  BY <1>1, <1>5 DEF Put
<1>8. /\ Append(c.ubos, u.rid) \in Seq(Slots) /\ Append(c.sets, s.rid) \in Seq(Slots)
      /\ Len(Append(c.ubos, u.rid)) = n /\ Len(Append(c.sets, s.rid)) = n
      /\ Append(c.ubos, u.rid)[n] = u.rid /\ Append(c.sets, s.rid)[n] = s.rid
      /\ Len(c.ubos) = n - 1 /\ Len(c.sets) = n - 1
      /\ \A i \in 1..n - 1 : Append(c.ubos, u.rid)[i] = c.ubos[i]
      /\ \A i \in 1..n - 1 : Append(c.sets, s.rid)[i] = c.sets[i]
  <2>1. c.ubos \in Seq(Slots) /\ c.sets \in Seq(Slots) /\ u.rid \in Slots /\ s.rid \in Slots
    BY <1>1, <1>3, <1>5 DEF CacheType
  <2>2. PICK l \in Nat : l = Len(c.ubos) /\ l = Len(c.sets) /\ n = l + 1 /\ l = n - 1
    BY <2>1, LenProperties
  <2>3. /\ Append(c.ubos, u.rid) \in Seq(Slots) /\ Len(Append(c.ubos, u.rid)) = n
        /\ Append(c.ubos, u.rid)[n] = u.rid
        /\ \A i \in 1..n - 1 : Append(c.ubos, u.rid)[i] = c.ubos[i]
    BY <2>1, <2>2, AppendIs
  <2>4. /\ Append(c.sets, s.rid) \in Seq(Slots) /\ Len(Append(c.sets, s.rid)) = n
        /\ Append(c.sets, s.rid)[n] = s.rid
        /\ \A i \in 1..n - 1 : Append(c.sets, s.rid)[i] = c.sets[i]
    BY <2>1, <2>2, AppendIs
  <2>5. QED
    BY <2>2, <2>3, <2>4
<1> DEFINE us == Append(c.ubos, u.rid)
           ss == Append(c.sets, s.rid)
<1>9. /\ more \in CacheType /\ more.set0 = c.set0 /\ more.params = c.params /\ more.ubos = us /\ more.sets = ss
      /\ more.layout = c.layout /\ more.kerns = c.kerns
  <2>1. more = [c EXCEPT !.ubos = us, !.sets = ss]
    BY <1>3, <1>8 DEF CacheType
  <2>2. us \in Seq(Slots) /\ ss \in Seq(Slots)
    BY <1>8
  <2> HIDE DEF more, us, ss
  <2>3. QED
    BY <1>3, <2>1, <2>2 DEF CacheType
<1> HIDE DEF more, one, who, us, ss
<1>10. SlotSetsAre(s.d, more, who)
  <2>1. ASSUME NEW i \in 1..n PROVE Is(s.d, us[i], {}) /\ who[us[i]] = <<"ubo", i>>
    <3>1. CASE i = n
      BY <1>5, <1>7, <1>8, <3>1 DEF us, ss
    <3>2. CASE i # n
      <4>1. i \in 1..n - 1
        BY <3>2
      <4>2. QED
        BY <1>6, <1>8, <4>1 DEF Shaped, SlotSetsAre, us, ss
    <3>3. QED
      BY <3>1, <3>2
  <2>2. ASSUME NEW i \in 1..n
        PROVE  Is(s.d, ss[i], {s.d.slot[us[i]], s.d.slot[c.layout]}) /\ who[ss[i]] = <<"set", i>>
    <3>1. CASE i = n
      BY <1>5, <1>7, <1>8, <3>1 DEF us, ss
    <3>2. CASE i # n
      <4>1. i \in 1..n - 1
        BY <3>2
      <4>2. QED
        BY <1>6, <1>8, <4>1 DEF Shaped, SlotSetsAre, us, ss
    <3>3. QED
      BY <3>1, <3>2
  <2>3. Len(more.ubos) = n /\ Len(more.sets) = n
    BY <1>8, <1>9 DEF us, ss
  <2>4. \A i \in 1..Len(more.ubos) : Is(s.d, more.ubos[i], {}) /\ who[more.ubos[i]] = <<"ubo", i>>
    BY <1>9, <2>1, <2>3
  <2>5. \A i \in 1..Len(more.sets) :
          /\ more.layout # Null
          /\ Is(s.d, more.sets[i], {s.d.slot[more.ubos[i]], s.d.slot[more.layout]})
          /\ who[more.sets[i]] = <<"set", i>>
    BY <1>9, <2>2, <2>3
  <2>6. Len(more.sets) <= Len(more.ubos)
    BY <2>3
  <2>7. QED
    BY <2>4, <2>5, <2>6, Zenon DEF SlotSetsAre
<1>11. Shaped(s.d, bf, more, who)
  <2>1. KernelsAre(s.d, more, who) /\ LayoutIs(more) /\ ParamsAre(s.d, more, who)
    BY <1>6, <1>9 DEF Shaped, KernelsAre, LayoutIs, ParamsAre
  <2>2. TensorSetsAre(s.d, bf, more, who)
    <3>1. \A e \in c.set0 : DepsOf(s.d, more, e) = DepsOf(s.d, c, e)
      BY <1>9 DEF DepsOf
    <3>2. QED
      BY <1>6, <1>9, <3>1 DEF Shaped, TensorSetsAre
  <2>3. QED
    BY <1>6, <1>9, <1>10, <2>1, <2>2 DEF Shaped
<1>12. Kept(bf, more) = Kept(bf, c) \cup {u.rid, s.rid}
  <2>1. ASSUME NEW z PROVE (\E i \in 1..n : z = us[i]) <=> z = u.rid \/ \E i \in 1..n - 1 : z = c.ubos[i]
    <3>1. \A i \in 1..n : i = n \/ i \in 1..n - 1
      OBVIOUS
    <3>2. n \in 1..n /\ \A i \in 1..n - 1 : i \in 1..n
      BY <1>8, LenProperties
    <3>3. QED
      BY <1>8, <3>1, <3>2 DEF us, ss
  <2>2. ASSUME NEW z PROVE (\E i \in 1..n : z = ss[i]) <=> z = s.rid \/ \E i \in 1..n - 1 : z = c.sets[i]
    <3>1. \A i \in 1..n : i = n \/ i \in 1..n - 1
      OBVIOUS
    <3>2. n \in 1..n /\ \A i \in 1..n - 1 : i \in 1..n
      BY <1>8, LenProperties
    <3>3. QED
      BY <1>8, <3>1, <3>2 DEF us, ss
  <2>3. Made(more) = Made(c) \cup {u.rid}
    BY <1>8, <1>9, <2>1 DEF Made, us, ss
  <2>4. Owned(more) = Owned(c) \cup {s.rid}
    BY <1>8, <1>9, <2>2 DEF Owned, us, ss
  <2>5. Compiled(c) = Compiled(more) /\ Shaders(c) = Shaders(more)
    BY <1>9 DEF Compiled, Shaders
  <2>6. QED
    BY <2>3, <2>4, <2>5 DEF Kept
<1>13. Held(s.d) = Kept(bf, more)
  BY <1>1, <1>5, <1>12 DEF Sound
<1>14. QED
  BY <1>5, <1>11, <1>13 DEF Sound, more, one, who

\* A set of the tensors' buffers and the params table.
LEMMA AddTensorSet ==
  ASSUME NEW d, NEW bf, NEW c, NEW owner, Sound(d, bf, c, owner), c.layout # Null, c.params # Null,
         NEW key \in [Bindings -> Slots], \A b \in Bindings : \E a \in Buffers : bf[a] = key[b],
         NEW r \in Create(d, {d.slot[c.layout], d.slot[c.params]} \cup {d.slot[key[b]] : b \in Bindings}),
         r.rid # Null, NEW e, e = [params |-> c.params, key |-> key, set |-> r.rid]
  PROVE  Sound(r.d, bf, [c EXCEPT !.set0 = @ \cup {e}], Put(owner, r.rid, <<"set0", e>>))
<1> DEFINE more == [c EXCEPT !.set0 = @ \cup {e}]
           who == Put(owner, r.rid, <<"set0", e>>)
           X == {d.slot[c.layout], d.slot[c.params]} \cup {d.slot[key[b]] : b \in Bindings}
<1>1. c \in CacheType /\ c.layout \in Slots /\ c.params \in Slots /\ WellFormed(d)
  BY DEF Sound, Shaped, CacheType, Rids
<1>2. X \in SUBSET Nat
  BY <1>1 DEF WellFormed, DevType
<1>3. X = DepsOf(d, c, e)
  BY DEF DepsOf
<1>4. r \in Create(d, X)
  OBVIOUS
<1> HIDE DEF X
<1>5. /\ WellFormed(r.d) /\ r.rid \in Slots \ Held(d) /\ Held(r.d) = Held(d) \cup {r.rid}
      /\ Is(r.d, r.rid, X)
      /\ \A s \in Held(d) : r.d.slot[s] = d.slot[s]
  BY <1>1, <1>2, <1>4, Created
<1>6. Shaped(r.d, bf, c, who)
  BY <1>2, <1>4, CreateKeeps DEF Sound
<1>7. who[r.rid] = <<"set0", e>>
  BY <1>5 DEF Put
<1>8. /\ more \in CacheType /\ more.set0 = c.set0 \cup {e} /\ more.params = c.params /\ more.ubos = c.ubos
      /\ more.sets = c.sets /\ more.layout = c.layout /\ more.kerns = c.kerns
  <2>1. e \in [params : Slots, key : [Bindings -> Slots], set : Slots]
    BY <1>1, <1>5
  <2>2. PICK z \in SUBSET [params : Slots, key : [Bindings -> Slots], set : Slots] : z = c.set0 \cup {e}
    BY <1>1, <2>1 DEF CacheType
  <2>3. more = [c EXCEPT !.set0 = z]
    BY <1>1, <2>2 DEF CacheType
  <2> HIDE DEF more
  <2>4. QED
    BY <1>1, <2>2, <2>3 DEF CacheType
<1> HIDE DEF more, who
<1>9. DepsOf(r.d, c, e) = DepsOf(d, c, e)
  <2>1. c.layout \in Held(d) /\ c.params \in Held(d)
    BY KeptMembers DEF Sound
  <2>2. \A b \in Bindings : e.key[b] = key[b] /\ key[b] \in Held(d)
    <3>1. ASSUME NEW b \in Bindings PROVE key[b] \in Held(d)
      <4>1. key[b] \in Slots /\ key[b] # Null
        BY CachesAssumption DEF Null
      <4>2. PICK a \in Buffers : bf[a] = key[b]
        OBVIOUS
      <4>3. QED
        BY <4>1, <4>2, KeptMembers DEF Sound
    <3>2. QED
      BY <3>1
  <2>3. QED
    BY <1>5, <2>1, <2>2 DEF DepsOf
<1>10. TensorSetsAre(r.d, bf, more, who)
  <2>1. ASSUME NEW z \in c.set0 \cup {e}
        PROVE  /\ more.layout # Null /\ more.params # Null /\ z.params = more.params
               /\ \A b \in Bindings : \E a \in Buffers : bf[a] = z.key[b]
               /\ Is(r.d, z.set, DepsOf(r.d, more, z)) /\ who[z.set] = <<"set0", z>>
    <3>1. DepsOf(r.d, more, z) = DepsOf(r.d, c, z)
      BY <1>8 DEF DepsOf
    <3>2. CASE z \in c.set0
      BY <1>6, <1>8, <3>1, <3>2 DEF Shaped, TensorSetsAre
    <3>3. CASE z = e
      <4>1. e.params = c.params /\ e.key = key /\ e.set = r.rid
        OBVIOUS
      <4>2. QED
        BY <1>3, <1>5, <1>7, <1>8, <1>9, <3>1, <3>3, <4>1
    <3>4. QED
      BY <3>2, <3>3
  <2>2. QED
    BY <1>8, <2>1 DEF TensorSetsAre
<1>11. Shaped(r.d, bf, more, who)
  <2>1. KernelsAre(r.d, more, who) /\ LayoutIs(more) /\ ParamsAre(r.d, more, who)
    BY <1>6, <1>8 DEF Shaped, KernelsAre, LayoutIs, ParamsAre
  <2>2. SlotSetsAre(r.d, more, who)
    BY <1>6, <1>8 DEF Shaped, SlotSetsAre
  <2>3. QED
    BY <1>6, <1>8, <1>10, <2>1, <2>2 DEF Shaped
<1>12. Kept(bf, more) = Kept(bf, c) \cup {r.rid}
  <2>1. Owned(more) = Owned(c) \cup {r.rid}
    <3>1. e.set = r.rid
      OBVIOUS
    <3>2. QED
      BY <1>8, <3>1 DEF Owned
  <2>2. Made(c) = Made(more) /\ Compiled(c) = Compiled(more) /\ Shaders(c) = Shaders(more)
    BY <1>8 DEF Made, Compiled, Shaders
  <2>3. QED
    BY <2>1, <2>2 DEF Kept
<1>13. QED
  BY <1>5, <1>11, <1>12 DEF Sound, more, who

\* Buffers, sets, tables, pipelines and shaders are kept apart.
LEMMA Apart ==
  ASSUME NEW d, NEW bf, NEW c, NEW owner, Shaped(d, bf, c, owner)
  PROVE  LET B == RidSet({bf[b] : b \in Buffers}) IN
         /\ B \cap Owned(c) = {} /\ B \cap Made(c) = {} /\ B \cap Compiled(c) = {} /\ B \cap Shaders(c) = {}
         /\ Owned(c) \cap Made(c) = {} /\ Owned(c) \cap Compiled(c) = {} /\ Owned(c) \cap Shaders(c) = {}
         /\ Made(c) \cap Compiled(c) = {} /\ Made(c) \cap Shaders(c) = {}
         /\ Compiled(c) \cap Shaders(c) = {}
<1>1. Owners(bf, c, owner)
  BY OwnersAre
<1>2. \A s \in RidSet({bf[b] : b \in Buffers}) : owner[s][1] = "buffer"
  <2>1. ASSUME NEW b \in Buffers, bf[b] # Null PROVE owner[bf[b]][1] = "buffer"
    <3>1. owner[bf[b]] = <<"buffer", b>>
      BY <1>1, <2>1 DEF Owners
    <3>2. QED
      BY <3>1
  <2>2. QED
    BY <2>1 DEF RidSet
<1>3. \A s \in Owned(c) : owner[s][1] \in {"set", "set0"}
  <2>1. \A i \in 1..Len(c.sets) : owner[c.sets[i]][1] = "set"
    BY <1>1 DEF Owners
  <2>2. \A e \in c.set0 : owner[e.set][1] = "set0"
    BY <1>1 DEF Owners
  <2>3. QED
    BY <2>1, <2>2 DEF Owned
<1>4. \A s \in Made(c) : owner[s][1] \in {"params", "ubo"}
  <2>1. \A i \in 1..Len(c.ubos) : owner[c.ubos[i]][1] = "ubo"
    BY <1>1 DEF Owners
  <2>2. c.params # Null => owner[c.params][1] = "params"
    BY <1>1 DEF Owners
  <2>3. QED
    BY <2>1, <2>2 DEF Made, RidSet
<1>5. \A s \in Compiled(c) : owner[s][1] = "pipeline"
  <2>1. \A k \in Kernels : c.kerns[k].pipeline # Null => owner[c.kerns[k].pipeline][1] = "pipeline"
    BY <1>1 DEF Owners
  <2>2. QED
    BY <2>1 DEF Compiled, RidSet
<1>6. \A s \in Shaders(c) : owner[s][1] = "shader"
  <2>1. \A k \in Kernels : c.kerns[k].shader # Null => owner[c.kerns[k].shader][1] = "shader"
    BY <1>1 DEF Owners
  <2>2. QED
    BY <2>1 DEF Shaders, RidSet
<1>7. QED
  BY <1>2, <1>3, <1>4, <1>5, <1>6

\* Some of what is kept is freed.
LEMMA FreeSome ==
  ASSUME NEW d, NEW bf, NEW c, NEW owner, Sound(d, bf, c, owner), NEW rest, Shaped(d, bf, rest, owner),
         NEW T, Kept(bf, c) = Kept(bf, rest) \cup T, Kept(bf, rest) \cap T = {}
  PROVE  Sound(FreeRids(d, T), bf, rest, owner)
<1>1. \A s \in T : Live(d, d.slot[s])
  BY KeptAre DEF Sound
<1>2. Held(d) = Kept(bf, rest) \cup T /\ WellFormed(d)
  BY DEF Sound
<1>3. QED
  BY <1>1, <1>2, FreeRest

\* release_kernels: sets, then what they bind, then pipelines, then shaders.
LEMMA ReleaseAll ==
  ASSUME NEW d, NEW bf, NEW c, NEW owner, Sound(d, bf, c, owner)
  PROVE  Sound(Released(d, c), bf, Empty, owner)
<1> DEFINE c1 == [c EXCEPT !.set0 = {}, !.sets = <<>>]
           c2 == [c1 EXCEPT !.ubos = <<>>, !.params = Null]
           bare == [k \in Kernels |-> [shader |-> c.kerns[k].shader, pipeline |-> Null]]
           c3 == [c2 EXCEPT !.kerns = bare]
           d1 == FreeRids(d, Owned(c))
           d2 == FreeRids(d1, Made(c))
           d3 == FreeRids(d2, Compiled(c))
           d4 == FreeRids(d3, Shaders(c))
           B == RidSet({bf[b] : b \in Buffers})
<1>0. PICK e \in Seq(Slots) : e = <<>> /\ Len(e) = 0
  BY EmptySeq
<1>1. c \in CacheType
  BY DEF Sound, Shaped
<1>2. /\ c1 \in CacheType /\ c1.set0 = {} /\ c1.kerns = c.kerns /\ c1.layout = c.layout
      /\ c1.params = c.params /\ c1.ubos = c.ubos /\ c1.sets = <<>>
  <2>1. c1 = [c EXCEPT !.set0 = {}, !.sets = e]
    BY <1>0
  <2> HIDE DEF c1
  <2>2. QED
    BY <1>0, <1>1, <2>1 DEF CacheType
<1> HIDE DEF c1
<1>3. /\ c2 \in CacheType /\ c2.set0 = {} /\ c2.kerns = c.kerns /\ c2.layout = c.layout
      /\ c2.params = Null /\ c2.ubos = <<>> /\ c2.sets = <<>>
  <2>1. c2 = [c1 EXCEPT !.ubos = e, !.params = Null]
    BY <1>0
  <2>2. Null \in Rids
    BY DEF Rids
  <2> HIDE DEF c2
  <2>3. QED
    BY <1>0, <1>2, <2>1, <2>2 DEF CacheType
<1> HIDE DEF c2
<1>4. bare \in [Kernels -> KernelType]
  <2>1. ASSUME NEW k \in Kernels PROVE [shader |-> c.kerns[k].shader, pipeline |-> Null] \in KernelType
    <3>1. c.kerns[k] \in KernelType
      BY <1>1 DEF CacheType
    <3>2. QED
      BY <3>1 DEF KernelType, Rids
  <2>2. QED
    BY <2>1
<1>5. \A k \in Kernels : bare[k].shader = c.kerns[k].shader /\ bare[k].pipeline = Null
  OBVIOUS
<1> HIDE DEF bare
<1>6. /\ c3 \in CacheType /\ c3.set0 = {} /\ c3.kerns = bare /\ c3.layout = c.layout
      /\ c3.params = Null /\ c3.ubos = <<>> /\ c3.sets = <<>>
  BY <1>3, <1>4 DEF CacheType
<1> HIDE DEF c3
<1>7. /\ Empty \in CacheType /\ Empty.set0 = {} /\ Empty.layout = Null /\ Empty.params = Null
      /\ Empty.ubos = <<>> /\ Empty.sets = <<>>
      /\ \A k \in Kernels : Empty.kerns[k].shader = Null /\ Empty.kerns[k].pipeline = Null
  <2>1. NoKernel \in KernelType /\ NoKernel.shader = Null /\ NoKernel.pipeline = Null /\ Null \in Rids
    BY DEF NoKernel, KernelType, Rids
  <2>2. [k \in Kernels |-> NoKernel] \in [Kernels -> KernelType]
    BY <2>1
  <2>3. QED
    BY <1>0, <2>1, <2>2 DEF Empty, CacheType
<1>8. \A s : ~(\E i \in 1..Len(e) : s = e[i])
  BY <1>0
<1>9. /\ Owned(c1) = {} /\ Made(c1) = Made(c) /\ Compiled(c1) = Compiled(c) /\ Shaders(c1) = Shaders(c)
      /\ Owned(c2) = {} /\ Made(c2) = {} /\ Compiled(c2) = Compiled(c) /\ Shaders(c2) = Shaders(c)
      /\ Owned(c3) = {} /\ Made(c3) = {} /\ Compiled(c3) = {} /\ Shaders(c3) = Shaders(c)
      /\ Owned(Empty) = {} /\ Made(Empty) = {} /\ Compiled(Empty) = {} /\ Shaders(Empty) = {}
  <2>1. Owned(c1) = {} /\ Owned(c2) = {} /\ Owned(c3) = {} /\ Owned(Empty) = {}
    BY <1>0, <1>2, <1>3, <1>6, <1>7 DEF Owned
  <2>2. Made(c1) = Made(c)
    BY <1>2 DEF Made
  <2>3. Made(c2) = {} /\ Made(c3) = {} /\ Made(Empty) = {}
    BY <1>0, <1>3, <1>6, <1>7 DEF Made, RidSet
  <2>4. Compiled(c1) = Compiled(c) /\ Compiled(c2) = Compiled(c) /\ Shaders(c1) = Shaders(c) /\ Shaders(c2) = Shaders(c)
    BY <1>2, <1>3 DEF Compiled, Shaders
  <2>5. Compiled(c3) = {} /\ Compiled(Empty) = {}
    BY <1>5, <1>6, <1>7 DEF Compiled, RidSet
  <2>6. Shaders(c3) = Shaders(c)
    BY <1>5, <1>6 DEF Shaders
  <2>7. Shaders(Empty) = {}
    BY <1>7 DEF Shaders, RidSet
  <2>8. QED
    BY <2>1, <2>2, <2>3, <2>4, <2>5, <2>6, <2>7
<1>10. /\ Kept(bf, c) = B \cup Owned(c) \cup Made(c) \cup Compiled(c) \cup Shaders(c)
       /\ Kept(bf, c1) = B \cup Made(c) \cup Compiled(c) \cup Shaders(c)
       /\ Kept(bf, c2) = B \cup Compiled(c) \cup Shaders(c)
       /\ Kept(bf, c3) = B \cup Shaders(c)
       /\ Kept(bf, Empty) = B
  BY <1>9 DEF Kept
<1>11. /\ B \cap Owned(c) = {} /\ B \cap Made(c) = {} /\ B \cap Compiled(c) = {} /\ B \cap Shaders(c) = {}
       /\ Owned(c) \cap Made(c) = {} /\ Owned(c) \cap Compiled(c) = {} /\ Owned(c) \cap Shaders(c) = {}
       /\ Made(c) \cap Compiled(c) = {} /\ Made(c) \cap Shaders(c) = {}
       /\ Compiled(c) \cap Shaders(c) = {}
  BY Apart DEF Sound
<1> HIDE DEF B
<1>12. Sound(d1, bf, c1, owner)
  <2>1. KernelsAre(d, c1, owner) /\ LayoutIs(c1) /\ ParamsAre(d, c1, owner)
    BY <1>2 DEF Sound, Shaped, KernelsAre, LayoutIs, ParamsAre
  <2>2. SlotSetsAre(d, c1, owner)
    <3>1. c.ubos \in Seq(Slots) /\ Len(c.ubos) \in Nat
      BY <1>1, LenProperties DEF CacheType
    <3>2. Len(c1.sets) = 0 /\ Len(c1.sets) <= Len(c1.ubos)
      BY <1>0, <1>2, <3>1
    <3>3. \A i \in 1..Len(c1.sets) : FALSE
      BY <3>2
    <3>4. \A i \in 1..Len(c1.ubos) : Is(d, c1.ubos[i], {}) /\ owner[c1.ubos[i]] = <<"ubo", i>>
      BY <1>2 DEF Sound, Shaped, SlotSetsAre
    <3>5. QED
      BY <3>2, <3>3, <3>4 DEF SlotSetsAre
  <2>3. TensorSetsAre(d, bf, c1, owner)
    BY <1>2 DEF TensorSetsAre
  <2>4. Shaped(d, bf, c1, owner)
    BY <1>2, <2>1, <2>2, <2>3 DEF Sound, Shaped
  <2>5. Kept(bf, c) = Kept(bf, c1) \cup Owned(c) /\ Kept(bf, c1) \cap Owned(c) = {}
    BY <1>10, <1>11
  <2>6. QED
    BY <2>4, <2>5, FreeSome
<1> HIDE DEF d1
<1>13. Sound(d2, bf, c2, owner)
  <2>1. KernelsAre(d1, c2, owner) /\ LayoutIs(c2) /\ ParamsAre(d1, c2, owner)
    <3>1. KernelsAre(d1, c2, owner)
      BY <1>2, <1>3, <1>12 DEF Sound, Shaped, KernelsAre
    <3>2. LayoutIs(c2)
      BY <1>2, <1>3, <1>12 DEF Sound, Shaped, LayoutIs
    <3>3. ParamsAre(d1, c2, owner)
      BY <1>3 DEF ParamsAre
    <3>4. QED
      BY <3>1, <3>2, <3>3
  <2>2. SlotSetsAre(d1, c2, owner)
    BY <1>0, <1>3 DEF SlotSetsAre
  <2>3. TensorSetsAre(d1, bf, c2, owner)
    BY <1>3 DEF TensorSetsAre
  <2>4. Shaped(d1, bf, c2, owner)
    BY <1>3, <1>12, <2>1, <2>2, <2>3 DEF Sound, Shaped
  <2>5. Kept(bf, c1) = Kept(bf, c2) \cup Made(c) /\ Kept(bf, c2) \cap Made(c) = {}
    BY <1>10, <1>11
  <2>6. QED
    BY <1>12, <2>4, <2>5, FreeSome
<1> HIDE DEF d2
<1>14. Sound(d3, bf, c3, owner)
  <2>1. KernelsAre(d2, c3, owner) /\ LayoutIs(c3) /\ ParamsAre(d2, c3, owner)
    <3>1. KernelsAre(d2, c3, owner)
      BY <1>3, <1>5, <1>6, <1>13 DEF Sound, Shaped, KernelsAre
    <3>2. LayoutIs(c3) /\ ParamsAre(d2, c3, owner)
      BY <1>3, <1>5, <1>6, <1>13 DEF Sound, Shaped, LayoutIs, ParamsAre
    <3>3. QED
      BY <3>1, <3>2
  <2>2. SlotSetsAre(d2, c3, owner)
    BY <1>0, <1>6 DEF SlotSetsAre
  <2>3. TensorSetsAre(d2, bf, c3, owner)
    BY <1>6 DEF TensorSetsAre
  <2>4. Shaped(d2, bf, c3, owner)
    BY <1>6, <1>13, <2>1, <2>2, <2>3 DEF Sound, Shaped
  <2>5. Kept(bf, c2) = Kept(bf, c3) \cup Compiled(c) /\ Kept(bf, c3) \cap Compiled(c) = {}
    BY <1>10, <1>11
  <2>6. QED
    BY <1>13, <2>4, <2>5, FreeSome
<1> HIDE DEF d3
<1>15. Sound(d4, bf, Empty, owner)
  <2>1. KernelsAre(d3, Empty, owner) /\ LayoutIs(Empty) /\ ParamsAre(d3, Empty, owner)
    BY <1>7 DEF KernelsAre, LayoutIs, ParamsAre
  <2>2. SlotSetsAre(d3, Empty, owner)
    BY <1>0, <1>7 DEF SlotSetsAre
  <2>3. TensorSetsAre(d3, bf, Empty, owner)
    BY <1>7 DEF TensorSetsAre
  <2>4. Shaped(d3, bf, Empty, owner)
    BY <1>7, <1>14, <2>1, <2>2, <2>3 DEF Sound, Shaped
  <2>5. Kept(bf, c3) = Kept(bf, Empty) \cup Shaders(c) /\ Kept(bf, Empty) \cap Shaders(c) = {}
    BY <1>10, <1>11
  <2>6. QED
    BY <1>14, <2>4, <2>5, FreeSome
<1>16. QED
  BY <1>15 DEF Released, d1, d2, d3

-----------------------------------------------------------------------------
(* The steps.                                                              *)

Now(owner) == Sound(dev, buf, S, owner) /\ Whole(S) /\ Prepared

LEMMA NullSlot == Null \notin Slots
  BY CachesAssumption DEF Null

LEMMA StateTypes ==
  ASSUME NEW owner, Now(owner)
  PROVE  /\ WellFormed(dev) /\ dev \in DevType /\ S \in CacheType /\ buf \in BufType /\ g \in GraphType
         /\ g.n \in Nat /\ g.i \in Nat /\ g.step \in Steps
         /\ S.layout \in Rids /\ S.params \in Rids
         /\ \A k \in Kernels : S.kerns[k] \in KernelType
  BY DEF Now, Sound, WellFormed, Shaped, Prepared, Counts, GraphType, CacheType

\* Between graphs nothing is prepared.
LEMMA IdleIsPrepared ==
  ASSUME NEW owner, Now(owner), g.step = "none", g' = g
  PROVE  Prepared'
<1>1. Counts(g') /\ g'.step = "none" /\ g'.n = 0 /\ Len(g'.taken) = 0
  BY DEF Now, Prepared, Counts
<1>2. BuffersFor(buf', g') /\ KernelsFor(S', g') /\ Needs(S', g') /\ TensorsFor(S', buf', g')
  BY <1>1 DEF BuffersFor, KernelsFor, Needs, TensorsFor
<1>3. QED
  BY <1>1, <1>2 DEF Prepared

\* A graph that is none.
LEMMA NoGraphIs ==
  /\ NoGraph \in GraphType /\ NoGraph.step = "none" /\ NoGraph.n = 0 /\ NoGraph.i = 0
  /\ NoGraph.ds = <<>> /\ NoGraph.taken = <<>> /\ Len(<<>>) = 0
<1>1. PICK e \in Seq(Slots), f \in Seq(Dispatch) : e = <<>> /\ f = <<>>
  BY EmptySeq
<1>2. Len(<<>>) = 0
  BY EmptySeq
<1>3. NoGraph = [step |-> "none", ds |-> f, n |-> 0, i |-> 0, taken |-> e]
  BY <1>1 DEF NoGraph
<1>4. NoGraph \in GraphType
  BY <1>3 DEF GraphType, Steps
<1>5. QED
  BY <1>2, <1>4 DEF NoGraph

\* Before anything is made.
LEMMA InitEstablishes == Init => IInv
<1> SUFFICES ASSUME Init PROVE IInv
  OBVIOUS
<1>1. /\ dev = [objects |-> {}, slot |-> [s \in Slots |-> Null], live |-> 0, next |-> 1, refused |-> FALSE]
      /\ buf = [b \in Buffers |-> Null] /\ S = Empty /\ g = NoGraph /\ list = NoList
  BY DEF Init
<1>2. WellFormed(dev)
  <2>1. [s \in Slots |-> Null] \in [Slots -> Nat]
    BY DEF Null
  <2>2. dev \in DevType
    BY <1>1, <2>1 DEF DevType
  <2>3. Held(dev) = {}
    BY <1>1 DEF Held
  <2>4. Cardinality({}) = 0
    BY FS_EmptySet
  <2>5. \A s \in Slots : dev.slot[s] = Null
    BY <1>1
  <2>6. /\ dev.live = 0 /\ dev.next = 1 /\ dev.objects = {} /\ dev.refused = FALSE
    BY <1>1
  <2>7. QED
    BY <2>2, <2>3, <2>4, <2>5, <2>6 DEF WellFormed, Null
<1>3. Empty.set0 = {} /\ Empty.ubos = <<>> /\ Empty.sets = <<>> /\ Empty.layout = Null /\ Empty.params = Null
  BY DEF Empty
<1>4. \A k \in Kernels : Empty.kerns[k].shader = Null /\ Empty.kerns[k].pipeline = Null
  BY DEF Empty, NoKernel
<1>5. Empty \in CacheType
  <2>1. PICK e \in Seq(Slots) : e = <<>>
    BY EmptySeq
  <2>2. NoKernel \in KernelType /\ Null \in Rids
    BY DEF NoKernel, KernelType, Rids
  <2>3. [k \in Kernels |-> NoKernel] \in [Kernels -> KernelType]
    BY <2>2
  <2>4. QED
    BY <2>1, <2>2, <2>3 DEF Empty, CacheType
<1>6. Len(<<>>) = 0
  BY EmptySeq
<1>7. buf \in BufType /\ \A b \in Buffers : buf[b] = Null
  BY <1>1 DEF BufType, Rids
<1>8. ASSUME NEW owner PROVE Sound(dev, buf, S, owner)
  <2>1. BuffersAre(dev, buf, owner) /\ KernelsAre(dev, S, owner) /\ LayoutIs(S) /\ ParamsAre(dev, S, owner)
    BY <1>1, <1>3, <1>4, <1>7 DEF BuffersAre, KernelsAre, LayoutIs, ParamsAre
  <2>2. SlotSetsAre(dev, S, owner) /\ TensorSetsAre(dev, buf, S, owner)
    BY <1>1, <1>3, <1>6 DEF SlotSetsAre, TensorSetsAre
  <2>3. ASSUME NEW s PROVE s \notin Kept(buf, S)
    BY <1>1, <1>3, <1>4, <1>6, <1>7, KeptBy
  <2>4. Held(dev) = {}
    BY <1>1 DEF Held
  <2>5. QED
    BY <1>1, <1>2, <1>5, <1>7, <2>1, <2>2, <2>3, <2>4 DEF Sound, Shaped
<1>9. Whole(S)
  BY <1>1, <1>3, <1>4 DEF Whole
<1>10. Prepared
  <2>1. NoGraph \in GraphType
    BY NoGraphIs
  <2>2. Counts(g) /\ g.n = 0 /\ g.step = "none" /\ Len(g.taken) = 0
    BY <1>1, NoGraphIs DEF Counts
  <2>3. QED
    BY <2>2 DEF Prepared, BuffersFor, KernelsFor, Needs, TensorsFor
<1>11. ListIs
  BY <1>1, NoGraphIs DEF ListIs
<1>12. QED
  BY <1>8, <1>9, <1>10, <1>11 DEF IInv, Ready

LEMMA AllocKeeps ==
  ASSUME NEW owner, Now(owner), NEW b \in Buffers, Alloc(b)
  PROVE  Ready'
<1>1. PICK r \in Create(dev, {}) : dev' = r.d /\ buf' = [buf EXCEPT ![b] = r.rid]
  BY DEF Alloc
<1>2. g.step = "none" /\ buf[b] = Null /\ S' = S /\ g' = g
  BY DEF Alloc, Call
<1>3. Whole(S') /\ Prepared'
  BY <1>2, IdleIsPrepared DEF Now, Whole
<1>4. \E who : Sound(dev', buf', S', who)
  <2>1. CASE r.rid = Null
    <3>1. dev' = dev
      BY <1>1, <2>1, NotCreated
    <3>2. buf' = buf
      BY <1>1, <1>2, <2>1, StateTypes DEF BufType
    <3>3. QED
      BY <1>2, <3>1, <3>2 DEF Now
  <2>2. CASE r.rid # Null
    BY <1>1, <1>2, <2>2, AddBuffer DEF Now
  <2>3. QED
    BY <2>1, <2>2
<1>5. QED
  BY <1>3, <1>4 DEF Ready

LEMMA FreeKeeps ==
  ASSUME NEW owner, Now(owner), NEW b \in Buffers, Free(b)
  PROVE  Ready'
<1> DEFINE E == SetsOf(buf[b])
           d1 == ForgetSets(dev, E)
           c1 == [S EXCEPT !.set0 = @ \ E]
<1>1. /\ g.step = "none" /\ buf[b] # Null /\ g' = g
      /\ dev' = FreeRids(d1, {buf[b]}) /\ S' = c1 /\ buf' = [buf EXCEPT ![b] = Null]
  BY DEF Free, Call
<1>2. E \subseteq S.set0 /\ \A e \in S.set0 \ E : \A x \in Bindings : e.key[x] # buf[b]
  BY DEF SetsOf
<1>3. Sound(d1, buf, c1, owner)
  BY <1>2, DropSets DEF Now
<1>4. c1.set0 = S.set0 \ E /\ c1.kerns = S.kerns /\ c1.ubos = S.ubos /\ c1.sets = S.sets /\ c1.layout = S.layout
  BY StateTypes DEF CacheType
<1> HIDE DEF c1, d1, E
<1>5. Sound(dev', buf', S', owner)
  BY <1>1, <1>2, <1>3, <1>4, DropBuffer
<1>6. Whole(S')
  BY <1>1, <1>4 DEF Now, Whole
<1>7. Prepared'
  BY <1>1, IdleIsPrepared
<1>8. QED
  BY <1>5, <1>6, <1>7 DEF Ready

LEMMA GraphComputeKeeps ==
  ASSUME NEW owner, Now(owner), NEW n \in 1..MaxDispatches, NEW ds \in [1..n -> Dispatch], GraphCompute(ds)
  PROVE  Ready'
<1>1. n \in Nat /\ 0 < n
  BY CachesAssumption
<1>2. ds \in Seq(Dispatch) /\ Len(ds) = n
  BY <1>1, SeqDef, LenProperties
<1>3. PICK e \in Seq(Slots) : e = <<>> /\ Len(e) = 0
  BY EmptySeq
<1>4. /\ g' = [step |-> "kernels", ds |-> ds, n |-> n, i |-> 0, taken |-> e]
      /\ dev' = dev /\ buf' = buf /\ S' = S
  BY <1>2, <1>3 DEF GraphCompute
<1>5. /\ g' \in GraphType /\ g'.step = "kernels" /\ g'.ds = ds /\ g'.n = n /\ g'.i = 0 /\ g'.taken = e
  BY <1>1, <1>2, <1>3, <1>4 DEF GraphType, Steps
<1>6. Counts(g')
  BY <1>1, <1>2, <1>3, <1>5 DEF Counts
<1>7. BuffersFor(buf', g') /\ KernelsFor(S', g') /\ Needs(S', g') /\ TensorsFor(S', buf', g')
  BY <1>2, <1>3, <1>4, <1>5 DEF GraphCompute, BuffersFor, KernelsFor, Needs, TensorsFor
<1>8. Prepared'
  BY <1>6, <1>7 DEF Prepared
<1>9. QED
  BY <1>4, <1>8 DEF Ready, Now

LEMMA ReleaseKeeps ==
  ASSUME NEW owner, Now(owner), Release
  PROVE  Ready'
<1>1. g.step = "none" /\ dev' = Released(dev, S) /\ S' = Empty /\ buf' = buf /\ g' = g
  BY DEF Release
<1>2. Sound(dev', buf', S', owner)
  BY <1>1, ReleaseAll DEF Now
<1>3. Whole(S')
  BY <1>1 DEF Whole, Empty, NoKernel
<1>4. Prepared'
  BY <1>1, IdleIsPrepared
<1>5. QED
  BY <1>2, <1>3, <1>4 DEF Ready

\* A graph that fails keeps nothing prepared.
LEMMA FailedIsPrepared ==
  ASSUME FailGraph
  PROVE  Prepared'
<1>1. g' = NoGraph
  BY DEF FailGraph
<1>2. /\ g'.step = "none" /\ g'.n = 0 /\ g'.i = 0 /\ Len(g'.taken) = 0 /\ g' \in GraphType
  BY <1>1, NoGraphIs
<1>3. Counts(g')
  BY <1>1, <1>2, NoGraphIs DEF Counts
<1>4. BuffersFor(buf', g') /\ KernelsFor(S', g') /\ Needs(S', g') /\ TensorsFor(S', buf', g')
  BY <1>2 DEF BuffersFor, KernelsFor, Needs, TensorsFor
<1>5. QED
  BY <1>3, <1>4 DEF Prepared

\* What the next dispatch, or the next loop, finds.
LEMMA OnwardFields ==
  ASSUME NEW owner, Now(owner), NEW step \in Steps, NEW next \in Steps, Onward(step, next), g.i < g.n
  PROVE  /\ g' \in GraphType /\ g'.ds = g.ds /\ g'.n = g.n /\ g'.taken = g.taken
         /\ \/ g'.step = next /\ g'.i = 0 /\ g.i + 1 = g.n
            \/ g'.step = step /\ g'.i = g.i + 1 /\ g'.i < g.n
<1>1. PICK n \in Nat, i \in Nat : n = g.n /\ i = g.i /\ i < n
  BY StateTypes
<1>2. g \in GraphType
  BY StateTypes
<1>3. CASE i + 1 = n
  <2>1. g' = [g EXCEPT !.step = next, !.i = 0]
    BY <1>1, <1>3 DEF Onward
  <2>2. g' \in GraphType /\ g'.step = next /\ g'.ds = g.ds /\ g'.n = n /\ g'.i = 0 /\ g'.taken = g.taken
    BY <1>1, <1>2, <2>1 DEF GraphType
  <2>3. QED
    BY <1>1, <1>3, <2>2
<1>4. CASE i + 1 # n
  <2>1. PICK j \in Nat : j = i + 1 /\ j < n
    BY <1>1, <1>4
  <2>2. g' = [g EXCEPT !.step = step, !.i = j]
    BY <1>1, <1>2, <1>4, <2>1 DEF Onward, GraphType
  <2>3. g' \in GraphType /\ g'.step = step /\ g'.ds = g.ds /\ g'.n = n /\ g'.i = j /\ g'.taken = g.taken
    BY <1>1, <1>2, <2>2 DEF GraphType
  <2>4. QED
    BY <1>1, <2>1, <2>3
<1>5. QED
  BY <1>3, <1>4

\* What a create call hands back.
LEMMA CreatedRid ==
  ASSUME NEW d, NEW X, NEW r \in Create(d, X)
  PROVE  r.rid \in Rids
<1>1. ASSUME NEW s \in NextSlot(d), NEW e, r = [d |-> e, rid |-> s] PROVE r.rid = s /\ s \in Slots
  BY <1>1, NextSlotIsFree
<1>2. CASE r = [d |-> d, rid |-> Null]
  BY <1>2 DEF Rids
<1>3. QED
  BY <1>1, <1>2 DEF Create, Rids

\* The kernels of one more dispatch are there.
LEMMA KernelsPrepared ==
  ASSUME NEW owner, Now(owner), g.step = "kernels", Onward("kernels", "params"), S'.layout # Null, buf' = buf,
         S'.kerns[Current.kernel].pipeline # Null,
         \A k \in Kernels : S.kerns[k].pipeline # Null => S'.kerns[k].pipeline # Null
  PROVE  Prepared'
<1>1. PICK n \in Nat, i \in Nat, ds \in Seq(Dispatch) :
        n = g.n /\ i = g.i /\ ds = g.ds /\ i < n /\ Len(ds) = n /\ Len(g.taken) = 0
  BY StateTypes DEF Now, Prepared, Counts, GraphType
<1>2. /\ g' \in GraphType /\ g'.ds = ds /\ g'.n = n /\ g'.taken = g.taken
      /\ \/ g'.step = "params" /\ g'.i = 0 /\ i + 1 = n
         \/ g'.step = "kernels" /\ g'.i = i + 1 /\ g'.i < n
  BY <1>1, OnwardFields DEF Steps
<1>3. Counts(g')
  BY <1>1, <1>2 DEF Counts
<1>4. ASSUME NEW j \in 1..n, j <= i + 1 PROVE S'.kerns[ds[j].kernel].pipeline # Null
  <2>1. CASE j = i + 1
    BY <1>1, <2>1 DEF Current
  <2>2. CASE j # i + 1
    <3>1. j <= i
      BY <1>1, <1>4, <2>2
    <3>2. S.kerns[ds[j].kernel].pipeline # Null
      BY <1>1, <3>1 DEF Now, Prepared, KernelsFor
    <3>3. ds[j] \in Dispatch
      BY <1>1, ElementOfSeq
    <3>4. ds[j].kernel \in Kernels
      BY <3>3 DEF Dispatch
    <3>5. QED
      BY <3>2, <3>4
  <2>3. QED
    BY <2>1, <2>2
<1>5. KernelsFor(S', g')
  BY <1>1, <1>2, <1>4 DEF KernelsFor
<1>6. Needs(S', g') /\ TensorsFor(S', buf', g')
  BY <1>1, <1>2 DEF Needs, TensorsFor
<1>7. BuffersFor(buf', g')
  BY <1>1, <1>2 DEF Now, Prepared, BuffersFor
<1>8. QED
  BY <1>3, <1>5, <1>6, <1>7 DEF Prepared

\* The slot set of one more dispatch is there.
LEMMA SlotsPrepared ==
  ASSUME NEW owner, Now(owner), g.step = "slots", Onward("slots", "sets"), S'.kerns = S.kerns,
         S'.layout # Null, S'.params # Null, buf' = buf, Len(S'.sets) \in Nat, g.i + 1 <= Len(S'.sets)
  PROVE  Prepared'
<1>1. PICK n \in Nat, i \in Nat : n = g.n /\ i = g.i /\ i < n /\ Len(g.ds) = n /\ Len(g.taken) = 0
  BY StateTypes DEF Now, Prepared, Counts
<1>2. /\ g' \in GraphType /\ g'.ds = g.ds /\ g'.n = n /\ g'.taken = g.taken
      /\ \/ g'.step = "sets" /\ g'.i = 0 /\ i + 1 = n
         \/ g'.step = "slots" /\ g'.i = i + 1 /\ g'.i < n
  BY <1>1, OnwardFields DEF Steps
<1>3. Counts(g')
  BY <1>1, <1>2 DEF Counts
<1>4. KernelsFor(S, g)
  BY DEF Now, Prepared
<1>5. KernelsFor(S', g')
  BY <1>1, <1>2, <1>4 DEF KernelsFor
<1>6. Needs(S', g') /\ TensorsFor(S', buf', g')
  BY <1>1, <1>2 DEF Needs, TensorsFor
<1>7. BuffersFor(buf', g')
  BY <1>1, <1>2 DEF Now, Prepared, BuffersFor
<1>8. QED
  BY <1>3, <1>5, <1>6, <1>7 DEF Prepared

LEMMA KernelPipelineKeeps ==
  ASSUME NEW owner, Now(owner), NEW k \in Kernels, KernelPipeline(k)
  PROVE  Ready'
<1>1. k = Current.kernel
  BY DEF KernelPipeline
<1>2. g.step = "kernels" /\ buf' = buf
  BY DEF KernelPipeline, Prepare, Step
<1>3. CASE S.kerns[k].pipeline # Null
  <2>1. dev' = dev /\ S' = S /\ Onward("kernels", "params")
    BY <1>3 DEF KernelPipeline
  <2>2. S.layout # Null
    BY <1>3 DEF Now, Whole, Sound, Shaped, KernelsAre
  <2>3. Prepared'
    BY <1>1, <1>2, <1>3, <2>1, <2>2, KernelsPrepared
  <2>4. QED
    BY <1>2, <2>1, <2>3 DEF Ready, Now
<1>4. ASSUME S.kerns[k].pipeline = Null,
             NEW sh \in Create(dev, {}), sh.rid = Null, dev' = sh.d, S' = S, FailGraph
      PROVE  Ready'
  <2>1. dev' = dev
    BY <1>4, NotCreated
  <2>2. QED
    BY <1>2, <1>4, <2>1, FailedIsPrepared DEF Ready, Now
<1>5. ASSUME S.kerns[k].pipeline = Null, NEW sh \in Create(dev, {}), sh.rid # Null,
             NEW p \in Create(sh.d, {sh.d.slot[sh.rid]}), p.rid = Null,
             dev' = FreeRids(p.d, {sh.rid}), S' = S, FailGraph
      PROVE  Ready'
  <2>1. p.d = sh.d
    BY <1>5, NotCreated
  <2>2. Sound(dev', buf', S', owner)
    BY <1>2, <1>5, <2>1, CreateUndone DEF Now
  <2>3. QED
    BY <1>5, <2>2, FailedIsPrepared DEF Ready, Now
<1>6. ASSUME S.kerns[k].pipeline = Null, NEW sh \in Create(dev, {}), sh.rid # Null,
             NEW p \in Create(sh.d, {sh.d.slot[sh.rid]}), p.rid # Null, dev' = p.d,
             S' = [S EXCEPT !.kerns[k] = [shader |-> sh.rid, pipeline |-> p.rid],
                            !.layout = IF @ = Null THEN sh.rid ELSE @],
             Onward("kernels", "params")
      PROVE  Ready'
  <2>1. S.kerns[k].shader = Null
    BY <1>6 DEF Now, Whole
  <2>2. \E who : Sound(dev', buf', S', who)
    BY <1>2, <1>6, <2>1, AddKernel DEF Now
  <2>3. PICK K \in KernelType : K = [shader |-> sh.rid, pipeline |-> p.rid] /\ K.pipeline # Null
    <3>1. sh.rid \in Rids /\ p.rid \in Rids
      BY <1>6, CreatedRid, StateTypes DEF Rids
    <3>2. [shader |-> sh.rid, pipeline |-> p.rid] \in KernelType
      BY <3>1 DEF KernelType
    <3>3. [shader |-> sh.rid, pipeline |-> p.rid].pipeline # Null
      BY <1>6
    <3>4. QED
      BY <3>2, <3>3
  <2>4. PICK l \in Rids : l = (IF S.layout = Null THEN sh.rid ELSE S.layout) /\ l # Null
    BY <1>6, CreatedRid, StateTypes DEF Rids
  <2>5. PICK ks \in [Kernels -> KernelType] : ks = [S.kerns EXCEPT ![k] = K]
    BY <2>3, StateTypes DEF CacheType
  <2>6. S' = [S EXCEPT !.kerns = ks, !.layout = l]
    BY <1>6, <2>3, <2>4, <2>5, StateTypes DEF CacheType
  <2>7. S'.kerns = ks /\ S'.layout = l /\ S'.ubos = S.ubos /\ S'.sets = S.sets
    BY <2>6, StateTypes DEF CacheType
  <2>8. \A x \in Kernels : ks[x] = IF x = k THEN K ELSE S.kerns[x]
    BY <2>5, StateTypes DEF CacheType
  <2>9. Whole(S')
    BY <2>3, <2>4, <2>7, <2>8 DEF Now, Whole
  <2>10. Prepared'
    <3>1. S'.kerns[k].pipeline # Null
      BY <2>3, <2>7, <2>8
    <3>2. \A x \in Kernels : S.kerns[x].pipeline # Null => S'.kerns[x].pipeline # Null
      BY <2>3, <2>7, <2>8
    <3>3. QED
      BY <1>1, <1>2, <1>6, <2>4, <2>7, <3>1, <3>2, KernelsPrepared
  <2>11. QED
    BY <2>2, <2>9, <2>10 DEF Ready
<1>7. QED
  BY <1>3, <1>4, <1>5, <1>6 DEF KernelPipeline

LEMMA CapsAreNats ==
  ASSUME NEW n, NEW cap \in CapFor(n)
  PROVE  cap \in Nat
<1>1. cap \in FirstCap..FirstCap * 2^n
  BY DEF CapFor
<1>2. cap \in Int /\ FirstCap <= cap
  BY <1>1
<1>3. QED
  BY <1>2, CachesAssumption

\* The kept table's sets go with it.
LEMMA DroppedIsSound ==
  ASSUME NEW d, NEW bf, NEW c, NEW owner, Sound(d, bf, c, owner), c.params # Null
  PROVE  Sound(FreeRids(ForgetSets(d, c.set0), {c.params}), bf, Dropped(c), owner)
<1> DEFINE c1 == [c EXCEPT !.set0 = @ \ c.set0]
<1>1. c \in CacheType
  BY DEF Sound, Shaped
<1>2. c1 = [c EXCEPT !.set0 = {}]
  BY <1>1 DEF CacheType
<1>3. Sound(ForgetSets(d, c.set0), bf, c1, owner)
  BY DropSets
<1>4. c1.params = c.params /\ c1.set0 = {}
  BY <1>1, <1>2 DEF CacheType
<1>5. [c1 EXCEPT !.params = Null, !.cap = 0] = Dropped(c)
  BY <1>1, <1>2 DEF Dropped, CacheType
<1>6. PICK c2 : c2 = c1
  OBVIOUS
<1> HIDE DEF c1
<1>7. Sound(FreeRids(ForgetSets(d, c.set0), {c2.params}), bf, [c2 EXCEPT !.params = Null, !.cap = 0], owner)
  <2>1. Sound(ForgetSets(d, c.set0), bf, c2, owner) /\ c2.params # Null /\ c2.set0 = {}
    BY <1>3, <1>4, <1>6
  <2>2. QED
    BY <2>1, DropTable
<1>8. QED
  BY <1>4, <1>5, <1>6, <1>7

LEMMA ParamsBufferKeeps ==
  ASSUME NEW owner, Now(owner), ParamsBuffer
  PROVE  Ready'
<1>1. g.step = "params" /\ buf' = buf /\ S.layout # Null /\ g \in GraphType /\ Counts(g)
  BY DEF ParamsBuffer, Prepare, Step, Now, Prepared, Needs, Counts
<1>2. ASSUME g' = [g EXCEPT !.step = "slots"], S'.kerns = S.kerns, S'.sets = S.sets,
             S'.layout # Null, S'.params # Null
      PROVE  Prepared'
  <2>1. PICK n \in Nat, i \in Nat : n = g.n /\ i = g.i /\ i < n /\ Len(g.ds) = n /\ Len(g.taken) = 0 /\ i = 0
    BY <1>1, StateTypes DEF Counts
  <2>2. /\ g' \in GraphType /\ g'.step = "slots" /\ g'.ds = g.ds /\ g'.n = n /\ g'.i = i /\ g'.taken = g.taken
    BY <1>1, <1>2, <2>1 DEF GraphType, Steps
  <2>3. Counts(g')
    BY <2>1, <2>2 DEF Counts
  <2>4. KernelsFor(S, g) /\ Len(S.sets) \in Nat
    BY StateTypes, LenProperties DEF Now, Prepared, CacheType
  <2>5. KernelsFor(S', g')
    BY <1>1, <1>2, <2>1, <2>2, <2>4 DEF KernelsFor
  <2>6. Needs(S', g') /\ TensorsFor(S', buf', g')
    BY <1>2, <2>1, <2>2, <2>4 DEF Needs, TensorsFor
  <2>7. BuffersFor(buf', g')
    BY <1>1, <2>1, <2>2 DEF Now, Prepared, BuffersFor
  <2>8. QED
    BY <2>3, <2>5, <2>6, <2>7 DEF Prepared
<1>3. CASE S.params # Null /\ S.cap >= g.n
  <2>1. dev' = dev /\ S' = S /\ g' = [g EXCEPT !.step = "slots"]
    BY <1>3 DEF ParamsBuffer
  <2>2. Prepared'
    BY <1>1, <1>2, <1>3, <2>1
  <2>3. QED
    BY <1>1, <2>1, <2>2 DEF Ready, Now
<1>4. CASE ~(S.params # Null /\ S.cap >= g.n)
  <2>1. PICK d, c : /\ d = (IF S.params = Null THEN dev ELSE FreeRids(ForgetSets(dev, S.set0), {S.params}))
                    /\ c = (IF S.params = Null THEN S ELSE Dropped(S))
    OBVIOUS
  <2>2. PICK r \in Create(d, {}) :
          /\ dev' = r.d
          /\ IF r.rid = Null THEN S' = c /\ FailGraph
             ELSE /\ \E cap \in CapFor(g.n) : S' = [c EXCEPT !.params = r.rid, !.cap = cap]
                  /\ g' = [g EXCEPT !.step = "slots"]
    BY <1>4, <2>1 DEF ParamsBuffer
  <2>3. Sound(d, buf, c, owner)
    <3>1. CASE S.params = Null
      BY <2>1, <3>1 DEF Now
    <3>2. CASE S.params # Null
      BY <2>1, <3>2, DroppedIsSound DEF Now
    <3>3. QED
      BY <3>1, <3>2
  <2>4. c \in CacheType /\ c.kerns = S.kerns /\ c.layout = S.layout /\ c.ubos = S.ubos /\ c.sets = S.sets /\ c.params = Null
    <3>1. c \in CacheType
      BY <2>3 DEF Sound, Shaped
    <3>2. QED
      BY <2>1, <3>1, StateTypes DEF Dropped, CacheType
  <2>5. Whole(c)
    BY <2>4 DEF Now, Whole
  <2>6. CASE r.rid = Null
    <3>1. dev' = d /\ S' = c /\ FailGraph
      BY <2>2, <2>6, NotCreated
    <3>2. QED
      BY <1>1, <2>3, <2>5, <3>1, FailedIsPrepared DEF Ready
  <2>7. CASE r.rid # Null
    <3>1. PICK cap \in CapFor(g.n) : S' = [c EXCEPT !.params = r.rid, !.cap = cap]
      BY <2>2, <2>7
    <3>2. cap \in Nat
      BY CapsAreNats
    <3>3. \E who : Sound(dev', buf', S', who)
      BY <1>1, <2>2, <2>3, <2>4, <2>7, <3>1, <3>2, AddTable
    <3>4. r.rid \in Rids
      BY CreatedRid
    <3>5. S'.kerns = c.kerns /\ S'.layout = c.layout /\ S'.ubos = c.ubos /\ S'.sets = c.sets /\ S'.params = r.rid
      BY <2>4, <3>1, <3>2, <3>4 DEF CacheType
    <3>6. Whole(S')
      BY <2>5, <3>5 DEF Whole
    <3>7. Prepared'
      BY <1>1, <1>2, <2>2, <2>4, <2>7, <3>5
    <3>8. QED
      BY <3>3, <3>6, <3>7 DEF Ready
  <2>8. QED
    BY <2>6, <2>7
<1>5. QED
  BY <1>3, <1>4

LEMMA SlotSetKeeps ==
  ASSUME NEW owner, Now(owner), SlotSet
  PROVE  Ready'
<1>1. g.step = "slots" /\ buf' = buf /\ S.layout # Null /\ S.params # Null
  BY DEF SlotSet, Prepare, Step, Now, Prepared, Needs
<1>2. CASE Len(S.sets) > g.i
  <2>1. dev' = dev /\ S' = S /\ Onward("slots", "sets")
    BY <1>2 DEF SlotSet
  <2>2. Len(S.sets) \in Nat /\ g.i \in Nat
    BY StateTypes, LenProperties DEF CacheType
  <2>3. Prepared'
    BY <1>1, <1>2, <2>1, <2>2, SlotsPrepared
  <2>4. QED
    BY <1>1, <2>1, <2>3 DEF Ready, Now
<1>3. ASSUME NEW u \in Create(dev, {}), u.rid = Null, dev' = u.d, S' = S, FailGraph
      PROVE  Ready'
  <2>1. dev' = dev
    BY <1>3, NotCreated
  <2>2. QED
    BY <1>1, <1>3, <2>1, FailedIsPrepared DEF Ready, Now
<1>4. ASSUME NEW u \in Create(dev, {}), u.rid # Null,
             NEW s \in Create(u.d, {u.d.slot[u.rid], u.d.slot[S.layout]}), s.rid = Null,
             dev' = UndoUbo(s.d, u.rid), S' = S, FailGraph
      PROVE  Ready'
  <2>1. s.d = u.d
    BY <1>4, NotCreated
  <2>2. Sound(dev', buf', S', owner)
    BY <1>1, <1>4, <2>1, CreateUndone DEF Now, UndoUbo
  <2>3. QED
    BY <1>4, <2>2, FailedIsPrepared DEF Ready, Now
<1>5. ASSUME NEW u \in Create(dev, {}), u.rid # Null,
             NEW s \in Create(u.d, {u.d.slot[u.rid], u.d.slot[S.layout]}), s.rid # Null,
             dev' = s.d, S' = [S EXCEPT !.ubos = Append(@, u.rid), !.sets = Append(@, s.rid)],
             Onward("slots", "sets")
      PROVE  Ready'
  <2>1. S.ubos \in Seq(Slots) /\ S.sets \in Seq(Slots) /\ Len(S.ubos) = Len(S.sets)
    BY StateTypes DEF CacheType, Now, Whole
  <2>2. u.rid \in Slots /\ s.rid \in Slots
    BY <1>5, CreatedRid DEF Rids
  <2>3. PICK n \in Nat : n = Len(S.ubos) + 1
    BY <2>1, LenProperties
  <2>4. \E who : Sound(dev', buf', S', who)
    <3>1. Sound(s.d, buf, [S EXCEPT !.ubos = Append(@, u.rid), !.sets = Append(@, s.rid)],
                Put(Put(owner, u.rid, <<"ubo", n>>), s.rid, <<"set", n>>))
      BY <1>1, <1>5, <2>1, <2>3, AddSlotSet DEF Now
    <3>2. QED
      BY <1>1, <1>5, <3>1
  <2>5. PICK us \in Seq(Slots), ss \in Seq(Slots) : us = Append(S.ubos, u.rid) /\ ss = Append(S.sets, s.rid)
    BY <2>1, <2>2, AppendIs
  <2>6. Len(us) = Len(ss)
    BY <2>1, <2>2, <2>5, AppendIs
  <2>7. S' = [S EXCEPT !.ubos = us, !.sets = ss]
    BY <1>5, <2>5, StateTypes DEF CacheType
  <2>8. S'.kerns = S.kerns /\ S'.layout = S.layout /\ S'.params = S.params /\ S'.ubos = us /\ S'.sets = ss
    BY <2>5, <2>7, StateTypes DEF CacheType
  <2>9. Whole(S')
    BY <2>6, <2>8 DEF Now, Whole
  <2>10. Prepared'
    <3>1. PICK m \in Nat, i \in Nat : m = Len(S.sets) /\ i = g.i /\ i <= m
      BY <1>1, <2>1, StateTypes, LenProperties DEF Now, Prepared, Needs
    <3>2. Len(ss) = m + 1
      BY <2>1, <2>2, <2>5, <3>1, AppendIs
    <3>3. QED
      BY <1>1, <1>5, <2>8, <3>1, <3>2, SlotsPrepared
  <2>11. QED
    BY <2>4, <2>9, <2>10 DEF Ready
<1>6. QED
  BY <1>2, <1>3, <1>4, <1>5 DEF SlotSet

\* A graph that has one more set, which is in the cache.
LEMMA TakePrepared ==
  ASSUME NEW owner, Now(owner), NEW bs \in [Bindings -> Buffers], bs = Current.of, NEW set \in Slots, Take(set),
         g.step = "sets", buf' = buf, S'.kerns = S.kerns, S'.sets = S.sets, S'.layout = S.layout,
         S'.params = S.params, S.set0 \subseteq S'.set0,
         \E e \in S'.set0 : e.set = set /\ \A b \in Bindings : e.key[b] = buf[bs[b]]
  PROVE  Prepared'
<1>1. PICK n \in Nat, i \in Nat, ts \in Seq(Slots) :
        n = g.n /\ i = g.i /\ ts = g.taken /\ i < n /\ Len(ts) = i /\ Len(g.ds) = n
  BY StateTypes DEF Now, Prepared, Counts, GraphType
<1>2. g \in GraphType /\ S.layout # Null /\ S.params # Null /\ n <= Len(S.sets)
  BY <1>1 DEF Now, Prepared, Counts, Needs
<1>3. PICK us \in Seq(Slots) : us = Append(ts, set)
  BY <1>1, AppendIs
<1>4. Len(us) = i + 1 /\ us[i + 1] = set /\ \A j \in 1..i : us[j] = ts[j]
  BY <1>1, <1>3, AppendIs
<1>5. PICK st \in Steps, j \in Nat : /\ st = (IF i + 1 = n THEN "begin" ELSE "sets")
                                   /\ j = (IF i + 1 = n THEN 0 ELSE i + 1)
  BY DEF Steps
<1>6. g' = [g EXCEPT !.step = st, !.i = j, !.taken = us]
  BY <1>1, <1>2, <1>3, <1>5 DEF Take, GraphType
<1>7. g' \in GraphType /\ g'.step = st /\ g'.ds = g.ds /\ g'.n = n /\ g'.i = j /\ g'.taken = us
  BY <1>1, <1>2, <1>6 DEF GraphType
<1>8. ASSUME NEW x \in 1..(i + 1)
      PROVE  \E e \in S'.set0 : e.set = us[x] /\ \A b \in Bindings : e.key[b] = buf'[g'.ds[x].of[b]]
  <2>1. CASE x = i + 1
    BY <1>1, <1>4, <1>7, <2>1 DEF Current
  <2>2. CASE x # i + 1
    <3>1. x \in 1..i
      BY <2>2
    <3>2. \E e \in S.set0 : e.set = ts[x] /\ \A b \in Bindings : e.key[b] = buf[g.ds[x].of[b]]
      BY <1>1, <3>1 DEF Now, Prepared, TensorsFor
    <3>3. us[x] = ts[x]
      BY <1>4, <3>1
    <3>4. QED
      BY <1>7, <3>2, <3>3
  <2>3. QED
    BY <2>1, <2>2
<1>9. TensorsFor(S', buf', g')
  BY <1>4, <1>7, <1>8 DEF TensorsFor
<1>10. Counts(g')
  BY <1>1, <1>4, <1>5, <1>7 DEF Counts
<1>11. KernelsFor(S, g)
  BY DEF Now, Prepared
<1>12. KernelsFor(S', g')
  BY <1>1, <1>5, <1>7, <1>11 DEF KernelsFor
<1>13. Needs(S', g')
  BY <1>2, <1>5, <1>7 DEF Needs
<1>14. BuffersFor(buf', g')
  BY <1>1, <1>7 DEF Now, Prepared, BuffersFor
<1>15. QED
  BY <1>9, <1>10, <1>12, <1>13, <1>14 DEF Prepared

LEMMA TensorSetKeeps ==
  ASSUME NEW owner, Now(owner), NEW bs \in [Bindings -> Buffers], TensorSet(bs)
  PROVE  Ready'
<1>1. PICK key : key = [b \in Bindings |-> buf[bs[b]]]
  OBVIOUS
<1>2. bs = Current.of
  BY DEF TensorSet
<1>3. /\ g.step = "sets" /\ buf' = buf /\ S.layout # Null /\ S.params # Null
  BY DEF TensorSet, Prepare, Step, Now, Prepared, Needs
<1>4. ASSUME NEW b \in Bindings PROVE key[b] # Null
  <2>1. PICK n \in Nat, i \in Nat : n = g.n /\ i = g.i /\ i + 1 \in 1..n
    BY <1>3, StateTypes DEF Now, Prepared, Counts
  <2>2. buf[g.ds[i + 1].of[b]] # Null
    BY <2>1 DEF Now, Prepared, BuffersFor
  <2>3. QED
    BY <1>2, <1>1, <2>1, <2>2 DEF Current
<1>5. key \in [Bindings -> Slots] /\ \A b \in Bindings : key[b] = buf[bs[b]] /\ bs[b] \in Buffers
  BY <1>1, <1>3, <1>4, StateTypes DEF BufType, Rids
<1>6. ASSUME NEW e \in Found(key), Take(e.set), dev' = dev, S' = S
      PROVE  Ready'
  <2>1. e \in S.set0 /\ e.key = key
    BY DEF Found
  <2>2. e.set \in Slots
    BY <2>1, StateTypes DEF CacheType
  <2>3. Prepared'
    BY <1>2, <1>3, <1>5, <1>6, <2>1, <2>2, TakePrepared
  <2>4. QED
    BY <1>3, <1>6, <2>3 DEF Ready, Now
<1>7. PICK X : X = {dev.slot[S.layout], dev.slot[S.params]} \cup {dev.slot[key[b]] : b \in Bindings}
  OBVIOUS
<1>8. ASSUME NEW r \in Create(dev, X), r.rid = Null, dev' = r.d, S' = S, FailGraph
      PROVE  Ready'
  <2>1. dev' = dev
    BY <1>8, NotCreated
  <2>2. QED
    BY <1>3, <1>8, <2>1, FailedIsPrepared DEF Ready, Now
<1>9. ASSUME NEW r \in Create(dev, X), r.rid # Null, dev' = r.d, Take(r.rid),
             S' = [S EXCEPT !.set0 = @ \cup {[params |-> S.params, key |-> key, set |-> r.rid]}]
      PROVE  Ready'
  <2>1. r.rid \in Slots /\ S.params \in Slots
    BY <1>3, <1>9, CreatedRid, StateTypes DEF Rids
  <2>2. PICK e \in [params : Slots, key : [Bindings -> Slots], set : Slots] :
          e = [params |-> S.params, key |-> key, set |-> r.rid]
    BY <1>5, <2>1
  <2>3. \E who : Sound(dev', buf', S', who)
    <3>1. \A b \in Bindings : \E a \in Buffers : buf[a] = key[b]
      BY <1>5
    <3>2. Sound(r.d, buf, [S EXCEPT !.set0 = @ \cup {e}], Put(owner, r.rid, <<"set0", e>>))
      BY <1>3, <1>5, <1>7, <1>9, <2>2, <3>1, AddTensorSet DEF Now
    <3>3. QED
      BY <1>3, <1>9, <2>2, <3>2
  <2>4. PICK es \in SUBSET [params : Slots, key : [Bindings -> Slots], set : Slots] :
          es = S.set0 \cup {e}
    BY <2>2, StateTypes DEF CacheType
  <2>5. S' = [S EXCEPT !.set0 = es]
    BY <1>9, <2>2, <2>4, StateTypes DEF CacheType
  <2>6. /\ S'.kerns = S.kerns /\ S'.layout = S.layout /\ S'.params = S.params
        /\ S'.ubos = S.ubos /\ S'.sets = S.sets /\ S'.set0 = es
    BY <2>5, StateTypes DEF CacheType
  <2>7. Whole(S')
    BY <2>6 DEF Now, Whole
  <2>8. Prepared'
    <3>1. e \in S'.set0 /\ e.set = r.rid /\ \A b \in Bindings : e.key[b] = buf[bs[b]]
      BY <1>5, <2>2, <2>4, <2>6
    <3>2. S.set0 \subseteq S'.set0
      BY <2>4, <2>6
    <3>3. QED
      BY <1>2, <1>3, <1>9, <2>1, <2>6, <3>1, <3>2, TakePrepared
  <2>9. QED
    BY <2>3, <2>7, <2>8 DEF Ready
<1>10. QED
  BY <1>1, <1>6, <1>7, <1>8, <1>9 DEF TensorSet

LEMMA ListBeginKeeps ==
  ASSUME NEW owner, Now(owner), ListBegin
  PROVE  Ready'
<1>1. dev' = dev /\ S' = S /\ buf' = buf /\ g.step = "begin"
  BY DEF ListBegin, Prepare, Step
<1>2. CASE FailGraph
  BY <1>1, <1>2, FailedIsPrepared DEF Ready, Now
<1>3. CASE g' = [g EXCEPT !.step = "record"]
  <2>1. g \in GraphType
    BY StateTypes
  <2>2. /\ g' \in GraphType /\ g'.step = "record" /\ g'.ds = g.ds /\ g'.n = g.n /\ g'.i = g.i
        /\ g'.taken = g.taken
    BY <1>3, <2>1 DEF GraphType, Steps
  <2>3. Counts(g')
    BY <1>1, <2>2 DEF Now, Prepared, Counts
  <2>4. KernelsFor(S', g') /\ Needs(S', g')
    BY <1>1, <2>2 DEF Now, Prepared, KernelsFor, Needs
  <2>5. TensorsFor(S', buf', g')
    BY <1>1, <2>2 DEF Now, Prepared, TensorsFor
  <2>6. BuffersFor(buf', g')
    BY <1>1, <2>2 DEF Now, Prepared, BuffersFor
  <2>7. QED
    BY <1>1, <2>3, <2>4, <2>5, <2>6 DEF Ready, Now, Prepared
<1>4. QED
  BY <1>2, <1>3 DEF ListBegin

LEMMA RecordKeeps ==
  ASSUME NEW owner, Now(owner), Record
  PROVE  Ready'
<1>1. dev' = dev /\ S' = S /\ buf' = buf /\ g.step = "record" /\ g.i < g.n
  BY DEF Record, Step
<1>2. PICK j \in Nat : j = g.i + 1 /\ j <= g.n
  BY <1>1, StateTypes
<1>3. g \in GraphType
  BY StateTypes
<1>4. g' = [g EXCEPT !.i = j]
  BY <1>2, <1>3 DEF Record, GraphType
<1>5. /\ g' \in GraphType /\ g'.step = "record" /\ g'.ds = g.ds /\ g'.n = g.n /\ g'.i = j
      /\ g'.taken = g.taken
  BY <1>1, <1>3, <1>4 DEF GraphType
<1>6. Counts(g')
  BY <1>1, <1>2, <1>5 DEF Now, Prepared, Counts
<1>7. KernelsFor(S', g') /\ Needs(S', g')
  BY <1>1, <1>5 DEF Now, Prepared, KernelsFor, Needs
<1>8. TensorsFor(S', buf', g')
  BY <1>1, <1>5 DEF Now, Prepared, TensorsFor
<1>9. BuffersFor(buf', g')
  BY <1>1, <1>5 DEF Now, Prepared, BuffersFor
<1>10. QED
  BY <1>1, <1>6, <1>7, <1>8, <1>9 DEF Ready, Now, Prepared

LEMMA SubmitKeeps ==
  ASSUME NEW owner, Now(owner), Submit
  PROVE  Ready'
<1>1. dev' = dev /\ S' = S /\ buf' = buf /\ FailGraph
  BY DEF Submit, Step, FailGraph
<1>2. QED
  BY <1>1, FailedIsPrepared DEF Ready, Now

\* Outside of a recording nothing is bound.
LEMMA UnboundKeeps ==
  ASSUME ListIs, list' = list, g.step # "record", g'.step # "record" \/ g'.i = 0
  PROVE  ListIs'
<1>1. list' = NoList
  BY DEF ListIs
<1>2. QED
  BY <1>1 DEF ListIs

\* One more dispatch is bound: what is not bound again is what it binds.
LEMMA RecordBinds ==
  ASSUME NEW owner, Now(owner), ListIs, Record
  PROVE  ListIs'
<1>1. dev' = dev /\ S' = S /\ g.step = "record" /\ g.i < g.n
  BY DEF Record, Step
<1>2. PICK n \in Nat, i \in Nat, j \in Nat : n = g.n /\ i = g.i /\ i < n /\ j = i + 1
  BY <1>1, StateTypes
<1>3. g \in GraphType /\ Len(g.taken) = n
  BY <1>1, <1>2 DEF Now, Prepared, Counts
<1>4. g' = [g EXCEPT !.i = j]
  BY <1>2, <1>3 DEF Record, GraphType
<1>5. g'.step = "record" /\ g'.ds = g.ds /\ g'.i = j /\ g'.taken = g.taken /\ 0 < j
  BY <1>1, <1>2, <1>3, <1>4 DEF GraphType
<1>6. PICK d, set : d = g.ds[j] /\ set = g.taken[j]
  OBVIOUS
<1>7. set # Null
  <2>1. set \in Slots
    BY <1>2, <1>3, <1>6, ElementOfSeq DEF GraphType
  <2>2. QED
    BY <2>1, NullSlot
<1>8. list' = Bound(d, set, S.sets[j])
  BY <1>2, <1>6 DEF Record, Current
<1>9. list'.kernel = {d.kernel} /\ list'.set0 = set /\ list'.slot = dev.slot[S.sets[j]]
  BY <1>8 DEF Bound
<1>10. list'.pipeline = dev.slot[S.kerns[d.kernel].pipeline]
  <2>1. CASE d.kernel \notin list.kernel
    BY <1>8, <2>1 DEF Bound
  <2>2. CASE d.kernel \in list.kernel
    <3>1. i > 0
      BY <1>1, <1>2, <2>2 DEF ListIs, NoList
    <3>2. d.kernel = g.ds[i].kernel /\ list.pipeline = dev.slot[S.kerns[g.ds[i].kernel].pipeline]
      BY <1>1, <1>2, <2>2, <3>1 DEF ListIs
    <3>3. QED
      BY <1>8, <2>2, <3>2 DEF Bound
  <2>3. QED
    BY <2>1, <2>2
<1>11. list'.tensors = dev.slot[set]
  <2>1. CASE set # list.set0
    BY <1>8, <2>1 DEF Bound
  <2>2. CASE set = list.set0
    <3>1. i > 0
      BY <1>1, <1>2, <1>7, <2>2 DEF ListIs, NoList
    <3>2. list.tensors = dev.slot[set]
      BY <1>1, <1>2, <2>2, <3>1 DEF ListIs
    <3>3. QED
      BY <1>8, <2>2, <3>2 DEF Bound
  <2>3. QED
    BY <2>1, <2>2
<1>12. QED
  BY <1>1, <1>5, <1>6, <1>9, <1>10, <1>11 DEF ListIs

LEMMA ReadyKeeps ==
  ASSUME Ready, [Next]_vars
  PROVE  Ready'
<1>1. PICK owner : Now(owner)
  BY DEF Ready, Now
<1>2. CASE UNCHANGED vars
  <2>1. dev' = dev /\ buf' = buf /\ S' = S /\ g' = g
    BY <1>2 DEF vars
  <2>2. Prepared'
    BY <1>1, <2>1 DEF Now, Prepared
  <2>3. QED
    BY <1>1, <2>1, <2>2 DEF Now, Ready
<1>3. ASSUME NEW b \in Buffers, Alloc(b) PROVE Ready'
  BY <1>1, <1>3, AllocKeeps
<1>4. ASSUME NEW b \in Buffers, Free(b) PROVE Ready'
  BY <1>1, <1>4, FreeKeeps
<1>5. ASSUME NEW n \in 1..MaxDispatches, NEW ds \in [1..n -> Dispatch], GraphCompute(ds) PROVE Ready'
  BY <1>1, <1>5, GraphComputeKeeps
<1>6. ASSUME NEW k \in Kernels, KernelPipeline(k) PROVE Ready'
  BY <1>1, <1>6, KernelPipelineKeeps
<1>7. CASE ParamsBuffer
  BY <1>1, <1>7, ParamsBufferKeeps
<1>8. CASE SlotSet
  BY <1>1, <1>8, SlotSetKeeps
<1>9. ASSUME NEW bs \in [Bindings -> Buffers], TensorSet(bs) PROVE Ready'
  BY <1>1, <1>9, TensorSetKeeps
<1>10. CASE ListBegin
  BY <1>1, <1>10, ListBeginKeeps
<1>11. CASE Record
  BY <1>1, <1>11, RecordKeeps
<1>12. CASE Submit
  BY <1>1, <1>12, SubmitKeeps
<1>13. CASE Release
  BY <1>1, <1>13, ReleaseKeeps
<1>14. QED
  BY <1>2, <1>3, <1>4, <1>5, <1>6, <1>7, <1>8, <1>9, <1>10, <1>11, <1>12, <1>13 DEF Next

LEMMA ListKeeps ==
  ASSUME Ready, ListIs, [Next]_vars
  PROVE  ListIs'
<1>1. PICK owner : Now(owner)
  BY DEF Ready, Now
<1>2. CASE UNCHANGED vars
  BY <1>2 DEF vars, ListIs
<1>3. ASSUME list' = list, g' = g, g.step = "none" PROVE ListIs'
  BY <1>3, UnboundKeeps
<1>4. ASSUME list' = list, g.step # "record", FailGraph PROVE ListIs'
  BY <1>4, NoGraphIs, UnboundKeeps DEF FailGraph
<1>5. ASSUME NEW b \in Buffers, Alloc(b) \/ Free(b) PROVE ListIs'
  BY <1>3, <1>5 DEF Alloc, Free, Call
<1>6. ASSUME NEW n \in 1..MaxDispatches, NEW ds \in [1..n -> Dispatch], GraphCompute(ds) PROVE ListIs'
  <2>1. list' = list /\ g.step = "none" /\ g'.step = "kernels"
    BY <1>6 DEF GraphCompute, Call
  <2>2. QED
    BY <2>1, UnboundKeeps
<1>7. ASSUME NEW step \in Steps \ {"record"}, NEW next \in Steps \ {"record"}, list' = list,
             g.step = step, Onward(step, next)
      PROVE  ListIs'
  <2>1. g \in GraphType
    BY <1>1, StateTypes
  <2>2. g'.step \in {step, next}
    BY <1>7, <2>1 DEF Onward, GraphType
  <2>3. QED
    BY <1>7, <2>2, UnboundKeeps
<1>8. ASSUME NEW k \in Kernels, KernelPipeline(k) PROVE ListIs'
  <2>1. list' = list /\ g.step = "kernels" /\ (FailGraph \/ Onward("kernels", "params"))
    BY <1>8 DEF KernelPipeline, Prepare, Step
  <2>2. QED
    BY <1>4, <1>7, <2>1 DEF Steps
<1>9. CASE ParamsBuffer
  <2>1. list' = list /\ g.step = "params" /\ (FailGraph \/ g' = [g EXCEPT !.step = "slots"])
    BY <1>9 DEF ParamsBuffer, Prepare, Step
  <2>2. g \in GraphType
    BY <1>1, StateTypes
  <2>3. ASSUME g' = [g EXCEPT !.step = "slots"] PROVE g'.step = "slots"
    BY <2>2, <2>3 DEF GraphType
  <2>4. QED
    BY <1>4, <2>1, <2>3, UnboundKeeps
<1>10. CASE SlotSet
  <2>1. list' = list /\ g.step = "slots" /\ (FailGraph \/ Onward("slots", "sets"))
    BY <1>10 DEF SlotSet, Prepare, Step
  <2>2. QED
    BY <1>4, <1>7, <2>1 DEF Steps
<1>11. ASSUME NEW bs \in [Bindings -> Buffers], TensorSet(bs) PROVE ListIs'
  <2>1. list' = list /\ g.step = "sets" /\ (FailGraph \/ \E set : Take(set))
    BY <1>11 DEF TensorSet, Prepare, Step
  <2>2. g \in GraphType
    BY <1>1, StateTypes
  <2>3. ASSUME NEW set, Take(set) PROVE g'.step # "record"
    <3>1. PICK ts, i : ts = Append(g.taken, set) /\ i = (IF g.i + 1 = g.n THEN 0 ELSE g.i + 1)
      OBVIOUS
    <3>2. PICK st : st = (IF g.i + 1 = g.n THEN "begin" ELSE "sets")
      OBVIOUS
    <3>3. g' = [g EXCEPT !.step = st, !.i = i, !.taken = ts]
      BY <2>2, <2>3, <3>1, <3>2 DEF Take, GraphType
    <3>4. g'.step = st
      BY <2>2, <3>3 DEF GraphType
    <3>5. QED
      BY <3>2, <3>4
  <2>4. QED
    BY <1>4, <2>1, <2>3, UnboundKeeps
<1>12. CASE ListBegin
  <2>1. list' = list /\ g.step = "begin" /\ (FailGraph \/ g' = [g EXCEPT !.step = "record"])
    BY <1>12 DEF ListBegin, Prepare, Step
  <2>2. g \in GraphType /\ g.i = 0
    BY <1>1, <2>1 DEF Now, Prepared, Counts
  <2>3. ASSUME g' = [g EXCEPT !.step = "record"] PROVE g'.i = 0
    BY <2>2, <2>3 DEF GraphType
  <2>4. QED
    BY <1>4, <2>1, <2>3, UnboundKeeps
<1>13. CASE Record
  BY <1>1, <1>13, RecordBinds
<1>14. CASE Submit
  <2>1. list' = NoList /\ g' = NoGraph
    BY <1>14 DEF Submit
  <2>2. QED
    BY <2>1, NoGraphIs DEF ListIs
<1>15. CASE Release
  BY <1>3, <1>15 DEF Release
<1>16. QED
  BY <1>2, <1>5, <1>6, <1>8, <1>9, <1>10, <1>11, <1>12, <1>13, <1>14, <1>15 DEF Next

-----------------------------------------------------------------------------
(* What the runs check, for every value of the constants.                  *)

\* In every reachable state each RID that is kept names an object that goes with
\* what its place says, in one place only, nothing else is held, a graph's
\* preparation has what its step needs, and a list has bound what its last
\* dispatch names.
THEOREM Invariance == Spec => []IInv
<1>1. Init => IInv
  BY InitEstablishes
<1>2. IInv /\ [Next]_vars => IInv'
  BY ReadyKeeps, ListKeeps DEF IInv
<1>3. QED
  BY <1>1, <1>2, PTL DEF Spec

\* The caches are of their types, each slot set has its uniform buffer, and
\* permanent_live_ stays within the slots there are.
THEOREM CachesAreTyped == Spec => []TypeOK
<1>1. ASSUME IInv PROVE TypeOK
  <2>1. PICK owner : Now(owner)
    BY <1>1 DEF IInv, Ready, Now
  <2>2. buf \in [Buffers -> Slots \cup {Null}] /\ {S.layout, S.params} \subseteq Slots \cup {Null} /\ S.cap \in Nat
    BY <2>1, StateTypes DEF BufType, CacheType, Rids
  <2>3. Len(S.ubos) = Len(S.sets)
    BY <2>1 DEF Now, Whole
  <2>4. g.i \in 0..g.n
    BY <2>1, StateTypes DEF Now, Prepared, Counts
  <2>5. dev.live \in 0..Cardinality(Slots)
    BY <2>1, StateTypes, HeldIsFinite DEF WellFormed
  <2>6. QED
    BY <2>2, <2>3, <2>4, <2>5 DEF TypeOK
<1>2. QED
  BY <1>1, Invariance, PTL

\* rd_kernels.cpp 6-7: a cached set is alive and binds the buffers of its key and
\* the params table there is, whatever slot was given again in between.
THEOREM SetsBindTheirKey == Spec => []CachedSetsBindTheirKey
<1>1. ASSUME IInv PROVE CachedSetsBindTheirKey
  <2>1. PICK owner : Now(owner)
    BY <1>1 DEF IInv, Ready, Now
  <2>2. ASSUME NEW e \in S.set0
        PROVE  /\ Live(dev, Names(e.set)) /\ e.params = S.params
               /\ \A o \in dev.objects : o.id = Names(e.set) =>
                    o.deps = {Names(S.layout), Names(S.params)} \cup {Names(e.key[b]) : b \in Bindings}
    <3>1. Is(dev, e.set, DepsOf(dev, S, e)) /\ e.params = S.params
      BY <2>1 DEF Now, Sound, Shaped, TensorSetsAre
    <3>2. PICK o \in dev.objects : o = [id |-> dev.slot[e.set], deps |-> DepsOf(dev, S, e)]
      BY <3>1 DEF Is
    <3>3. o.id = Names(e.set) /\ o.deps = DepsOf(dev, S, e)
      BY <3>2 DEF Names
    <3>4. \A p \in dev.objects : p.id = o.id => p = o
      BY <2>1, StateTypes DEF WellFormed
    <3>5. QED
      BY <3>1, <3>3, <3>4 DEF Live, DepsOf, Names
  <2>3. QED
    BY <2>2 DEF CachedSetsBindTheirKey
<1>2. QED
  BY <1>1, Invariance, PTL

\* A cached set names an object that binds the buffers of its key and the
\* params table.
LEMMA CachedIsThere ==
  ASSUME NEW owner, Now(owner), NEW e \in S.set0
  PROVE  \E o \in dev.objects : /\ o.id = Names(e.set) /\ e.params = S.params /\ Names(S.params) \in o.deps
                               /\ \A b \in Bindings : Names(e.key[b]) \in o.deps
<1>1. Is(dev, e.set, DepsOf(dev, S, e)) /\ e.params = S.params
  BY DEF Now, Sound, Shaped, TensorSetsAre
<1>2. PICK o \in dev.objects : o.id = dev.slot[e.set] /\ o.deps = DepsOf(dev, S, e)
  BY <1>1 DEF Is
<1>3. QED
  BY <1>1, <1>2 DEF DepsOf, Names

\* The slot set of a dispatch names an object that binds its params slot.
LEMMA SlotSetIsThere ==
  ASSUME NEW owner, Now(owner), g.step \in {"begin", "record"}, NEW i \in 1..g.n
  PROVE  \E o \in dev.objects : o.id = Names(S.sets[i]) /\ Names(S.ubos[i]) \in o.deps
<1>1. i \in 1..Len(S.sets)
  <2>1. PICK n \in Nat, m \in Nat : n = g.n /\ m = Len(S.sets)
    BY StateTypes, LenProperties DEF CacheType
  <2>2. n <= m
    BY <2>1 DEF Now, Prepared, Needs
  <2>3. QED
    BY <2>1, <2>2
<1>2. Is(dev, S.sets[i], {dev.slot[S.ubos[i]], dev.slot[S.layout]})
  BY <1>1 DEF Now, Sound, Shaped, SlotSetsAre
<1>3. QED
  BY <1>2 DEF Is, Names

\* rd_graph.cpp 254: the sets a graph has taken, and its slot sets, are all there
\* when it records, and bind its tensors, the params table and the params slots.
THEOREM RecordingsAreLive == Spec => []RecordsLiveSets
<1>1. ASSUME IInv PROVE RecordsLiveSets
  <2>1. PICK owner : Now(owner)
    BY <1>1 DEF IInv, Ready, Now
  <2>2. ASSUME g.step \in {"begin", "record"}, NEW i \in 1..g.n
        PROVE  /\ \E o \in dev.objects :
                    /\ o.id = Names(g.taken[i]) /\ Names(S.params) \in o.deps
                    /\ \A b \in Bindings : Names(buf[g.ds[i].of[b]]) \in o.deps
               /\ \E o \in dev.objects : o.id = Names(S.sets[i]) /\ Names(S.ubos[i]) \in o.deps
    <3>1. Len(g.taken) = g.n
      BY <2>1, <2>2 DEF Now, Prepared, Counts
    <3>2. PICK e \in S.set0 : e.set = g.taken[i] /\ \A b \in Bindings : e.key[b] = buf[g.ds[i].of[b]]
      BY <2>1, <2>2, <3>1 DEF Now, Prepared, TensorsFor
    <3>3. QED
      BY <2>1, <2>2, <3>2, CachedIsThere, SlotSetIsThere
  <2>3. QED
    BY <2>2 DEF RecordsLiveSets
<1>2. QED
  BY <1>1, Invariance, PTL

\* rd_graph.cpp 329-338: though it binds on a change only, and compares indices
\* of slots, what the list has bound at a dispatch is alive and that dispatch's
\* own.
THEOREM BindingsAreOwn == Spec => []BoundToItsOwn
<1>1. ASSUME IInv PROVE BoundToItsOwn
  <2>1. PICK owner : Now(owner)
    BY <1>1 DEF IInv, Ready, Now
  <2>2. SUFFICES ASSUME g.step = "record", g.i > 0
                 PROVE  /\ list.pipeline = Names(S.kerns[g.ds[g.i].kernel].pipeline)
                        /\ \E e \in S.set0 : /\ list.tensors = Names(e.set) /\ e.params = S.params
                                             /\ \A b \in Bindings : e.key[b] = buf[g.ds[g.i].of[b]]
                        /\ list.slot = Names(S.sets[g.i])
                        /\ \A id \in {list.pipeline, list.tensors, list.slot} : Live(dev, id)
    BY DEF BoundToItsOwn
  <2>3. PICK n \in Nat, i \in Nat : n = g.n /\ i = g.i /\ i \in 1..n /\ Len(g.taken) = n /\ Len(g.ds) = n
    BY <2>1, <2>2, StateTypes DEF Now, Prepared, Counts
  <2>4. PICK d : d = g.ds[i]
    OBVIOUS
  <2>5. /\ list.pipeline = Names(S.kerns[d.kernel].pipeline) /\ list.tensors = Names(g.taken[i])
        /\ list.slot = Names(S.sets[i])
    BY <1>1, <2>2, <2>3, <2>4 DEF IInv, ListIs, Names
  <2>6. PICK e \in S.set0 : e.set = g.taken[i] /\ \A b \in Bindings : e.key[b] = buf[d.of[b]]
    BY <2>1, <2>3, <2>4 DEF Now, Prepared, TensorsFor
  <2>7. Live(dev, list.tensors) /\ e.params = S.params
    BY <2>1, <2>5, <2>6, CachedIsThere DEF Live
  <2>8. Live(dev, list.slot)
    BY <2>1, <2>2, <2>3, <2>5, SlotSetIsThere DEF Live
  <2>9. Live(dev, list.pipeline)
    <3>1. g \in GraphType
      BY <2>1, StateTypes
    <3>2. d \in Dispatch
      BY <2>3, <2>4, <3>1, ElementOfSeq DEF GraphType
    <3>3. d.kernel \in Kernels
      BY <3>2 DEF Dispatch
    <3>4. S.kerns[d.kernel].pipeline # Null
      BY <2>1, <2>2, <2>3, <2>4 DEF Now, Prepared, KernelsFor
    <3>5. Is(dev, S.kerns[d.kernel].pipeline, {dev.slot[S.kerns[d.kernel].shader]})
      BY <2>1, <3>3, <3>4 DEF Now, Sound, Shaped, KernelsAre
    <3>6. QED
      BY <2>5, <3>5 DEF Is, Live, Names
  <2>10. QED
    BY <2>3, <2>4, <2>5, <2>6, <2>7, <2>8, <2>9
<1>2. QED
  BY <1>1, Invariance, PTL

\* Every permanent slot that is held is kept somewhere, permanent_live_ counts
\* them, and Godot is never asked to free what it has freed already.
THEOREM SlotsDoNotLeak == Spec => []NoSlotLeaks
<1>1. ASSUME IInv PROVE NoSlotLeaks
  <2>1. PICK owner : Now(owner)
    BY <1>1 DEF IInv, Ready, Now
  <2>2. Held(dev) = Kept(buf, S) /\ dev.live = Cardinality(Held(dev)) /\ ~dev.refused
    BY <2>1 DEF Now, Sound, WellFormed
  <2>3. KeptRids = Kept(buf, S) /\ {s \in Slots : Names(s) # Null} = Held(dev)
    BY DEF KeptRids, Kept, Held, Names
  <2>4. QED
    BY <2>2, <2>3 DEF NoSlotLeaks
<1>2. QED
  BY <1>1, Invariance, PTL
=============================================================================

----------------------------- MODULE JobsProofs -----------------------------
(***************************************************************************)
(* Proofs about Jobs.  With one driver on the device, rule 4 holds for     *)
(* every set of scripts, every stage cap and every order of starts, ticks, *)
(* replacements and closes (with two it does not: see the run), and every  *)
(* submit in flight keeps an owner.  With any drivers: the types, and that *)
(* the stages run in the scripted order, to the verdict and no further.    *)
(***************************************************************************)
EXTENDS Jobs, SequenceTheorems, TLAPS

DevTypes ==
  dev \in [submitted : BOOLEAN, fresh : BOOLEAN, sameFrameSync : BOOLEAN, recordedBusy : BOOLEAN]

\* Where a submit of this frame can have come from: the driver's own tick,
\* which has freed what was parked before this frame and then stopped.
Frame(d) ==
  /\ dev.fresh => ticked[d]
  /\ dev.fresh \/ tick.driver = d => parked[d] = 0 \/ parkedNow[d]
  /\ tick.driver = d => ticked[d]
  /\ tick.driver = d /\ tick.more => ~dev.fresh

Slots(d) ==
  /\ tick \in [driver : {d, "none"}, stages : Nat, more : BOOLEAN]
  /\ parked \in [Drivers -> Nat] /\ parkedNow \in [Drivers -> BOOLEAN]
  /\ ticked \in [Drivers -> BOOLEAN]

IInv(d) == DevTypes /\ Slots(d) /\ Frame(d) /\ RuleFour

\* A sync outside a submit's frame leaves the device within rule 4.
LEMMA SyncOnLaterFrame ==
  ASSUME NEW v \in [submitted : BOOLEAN, fresh : BOOLEAN, sameFrameSync : BOOLEAN,
                    recordedBusy : BOOLEAN],
         ~v.sameFrameSync, ~v.fresh
  PROVE  DevSync(v) = [v EXCEPT !.submitted = FALSE]
  BY DEF DevSync

\* free_parked() with the frame condition of Frees is such a sync.
LEMMA FreeOnLaterFrame ==
  ASSUME NEW d, Drivers = {d}, IInv(d)
  PROVE  /\ DevAfterFree(d) \in [submitted : BOOLEAN, fresh : BOOLEAN, sameFrameSync : BOOLEAN,
                                 recordedBusy : BOOLEAN]
         /\ DevAfterFree(d).fresh = dev.fresh
         /\ ~DevAfterFree(d).sameFrameSync
         /\ AfterFree(d) \in Nat
         /\ AfterFree(d) = 0 \/ parkedNow[d]
<1>1. CASE Frees(d)
  <2>1. parked[d] > 0 /\ ~parkedNow[d] /\ parked[d] \in Nat /\ parkedNow[d] \in BOOLEAN
    BY <1>1 DEF Frees, IInv, Slots
  <2>2. ~dev.fresh
    BY <2>1 DEF IInv, Frame
  <2>3. DevAfterFree(d) = [dev EXCEPT !.submitted = FALSE]
    <3>1. DevSync(dev) = [dev EXCEPT !.submitted = FALSE]
      BY <2>2, SyncOnLaterFrame DEF IInv, DevTypes, RuleFour
    <3>2. DevFree(dev, parked[d]) = DevSync(dev)
      BY <2>1 DEF DevFree
    <3>3. QED
      BY <1>1, <3>1, <3>2 DEF DevAfterFree
  <2>4. AfterFree(d) = 0
    BY <1>1 DEF AfterFree
  <2>5. /\ [dev EXCEPT !.submitted = FALSE] \in
             [submitted : BOOLEAN, fresh : BOOLEAN, sameFrameSync : BOOLEAN, recordedBusy : BOOLEAN]
        /\ [dev EXCEPT !.submitted = FALSE].fresh = dev.fresh
        /\ ~[dev EXCEPT !.submitted = FALSE].sameFrameSync
    BY DEF IInv, DevTypes, RuleFour
  <2>6. QED
    BY <2>3, <2>4, <2>5
<1>2. CASE ~Frees(d)
  BY <1>2 DEF AfterFree, DevAfterFree, Frees, IInv, DevTypes, Slots, RuleFour
<1>3. QED
  BY <1>1, <1>2

\* Nothing parked, nothing submitted.
LEMMA InitEstablishes ==
  ASSUME NEW d, Drivers = {d}
  PROVE  Init => IInv(d)
<1> SUFFICES ASSUME Init PROVE IInv(d)
  OBVIOUS
<1>1. DevTypes /\ RuleFour /\ ~dev.fresh
  BY DEF Init, DevTypes, RuleFour
<1>2. Slots(d)
  BY DEF Init, Slots, Idle
<1>3. tick.driver = "none"
  BY DEF Init, Idle
<1>4. QED
  BY <1>1, <1>2, <1>3, ScriptsAssumption DEF IInv, Frame

\* Every call of the host and every frame keeps it.
LEMMA StepPreserves ==
  ASSUME NEW d, Drivers = {d}
  PROVE  IInv(d) /\ [Next]_vars => IInv(d)'
<1> SUFFICES ASSUME IInv(d), [Next]_vars PROVE IInv(d)'
  OBVIOUS
<1> d # "none"
  BY ScriptsAssumption
<1> DEFINE Dev == [submitted : BOOLEAN, fresh : BOOLEAN, sameFrameSync : BOOLEAN,
                   recordedBusy : BOOLEAN]
<1>1. /\ dev \in Dev /\ ~dev.sameFrameSync
      /\ tick \in [driver : {d, "none"}, stages : Nat, more : BOOLEAN]
      /\ parked \in [{d} -> Nat] /\ parkedNow \in [{d} -> BOOLEAN]
      /\ ticked \in [{d} -> BOOLEAN]
  BY DEF IInv, DevTypes, Slots, RuleFour
<1>2. /\ DevAfterFree(d) \in Dev /\ DevAfterFree(d).fresh = dev.fresh
      /\ ~DevAfterFree(d).sameFrameSync
      /\ AfterFree(d) \in Nat /\ (AfterFree(d) = 0 \/ parkedNow[d])
  BY FreeOnLaterFrame
<1>3. ASSUME NEW s \in Outcomes, JobStart(d, s) PROVE IInv(d)'
  <2>1. /\ dev' = DevAfterFree(d) /\ tick = Idle /\ tick' = tick /\ ticked' = ticked
        /\ parked' = [parked EXCEPT ![d] = AfterFree(d) + IF pending(d) THEN 1 ELSE 0]
        /\ parkedNow' = [parkedNow EXCEPT ![d] = @ \/ pending(d)]
    BY <1>3 DEF JobStart, Started
  <2>2. /\ parked' \in [{d} -> Nat] /\ parkedNow' \in [{d} -> BOOLEAN]
        /\ parked'[d] = 0 \/ parkedNow'[d]
    <3>1. CASE pending(d)
      <4>1. parked' = [parked EXCEPT ![d] = AfterFree(d) + 1]
        BY <2>1, <3>1
      <4>2. parkedNow' = [parkedNow EXCEPT ![d] = TRUE]
        BY <2>1, <3>1
      <4>3. QED
        BY <1>1, <1>2, <4>1, <4>2
    <3>2. CASE ~pending(d)
      BY <1>1, <1>2, <2>1, <3>2
    <3>3. QED
      BY <3>1, <3>2
  <2>3. tick'.driver = "none"
    BY <2>1 DEF Idle
  <2>4. dev' \in Dev /\ dev'.fresh = dev.fresh /\ ~dev'.sameFrameSync
    BY <1>2, <2>1
  <2>5. QED
    BY <1>1, <2>1, <2>2, <2>3, <2>4 DEF IInv, DevTypes, Slots, Frame, RuleFour
<1>4. CASE TickNoJob(d)
  <2>1. /\ dev' = DevAfterFree(d) /\ tick = Idle /\ tick' = tick /\ ticked' = ticked
        /\ parked' = [parked EXCEPT ![d] = AfterFree(d)] /\ parkedNow' = parkedNow
    BY <1>4 DEF TickNoJob
  <2>2. tick'.driver = "none" /\ dev' \in Dev /\ dev'.fresh = dev.fresh /\ ~dev'.sameFrameSync
    BY <1>2, <2>1 DEF Idle
  <2>3. parked' \in [{d} -> Nat] /\ (parked'[d] = 0 \/ parkedNow'[d])
    BY <1>1, <1>2, <2>1
  <2>4. QED
    BY <1>1, <2>1, <2>2, <2>3 DEF IInv, DevTypes, Slots, Frame, RuleFour
<1>5. CASE Tick(d)
  <2>1. /\ tick' = [driver |-> d, stages |-> 0, more |-> ~job[d].finished]
        /\ ticked' = [ticked EXCEPT ![d] = TRUE] /\ ~ticked[d]
        /\ parked' = [parked EXCEPT ![d] = AfterFree(d)] /\ parkedNow' = parkedNow
        /\ dev' = IF Drains(d) THEN DevSync(DevAfterFree(d)) ELSE DevAfterFree(d)
    BY <1>5 DEF Tick
  <2>2. ~dev.fresh
    BY <2>1 DEF IInv, Frame
  <2>3. DevSync(DevAfterFree(d)) = [DevAfterFree(d) EXCEPT !.submitted = FALSE]
    BY <1>2, <2>2, SyncOnLaterFrame
  <2>4. dev' \in Dev /\ ~dev'.fresh /\ ~dev'.sameFrameSync
    <3>1. CASE Drains(d)
      BY <1>2, <2>1, <2>2, <2>3, <3>1
    <3>2. CASE ~Drains(d)
      BY <1>2, <2>1, <2>2, <3>2
    <3>3. QED
      BY <3>1, <3>2
  <2>5. parked' \in [{d} -> Nat] /\ (parked'[d] = 0 \/ parkedNow'[d])
    BY <1>1, <1>2, <2>1
  <2>6. /\ tick' \in [driver : {d, "none"}, stages : Nat, more : BOOLEAN] /\ tick'.driver = d
        /\ ticked' \in [{d} -> BOOLEAN] /\ ticked'[d]
    BY <1>1, <2>1
  <2>7. QED
    BY <1>1, <2>1, <2>4, <2>5, <2>6 DEF IInv, DevTypes, Slots, Frame, RuleFour
<1>6. CASE RunStage(d)
  <2> DEFINE st == Scripts[job[d].script].stage[Head(job[d].q)]
             inFlight == st.submit \/ (job[d].pending /\ ~st.touch)
             finished == job[d].finished \/ st.verdict
             synced == IF st.touch /\ job[d].pending THEN DevSync(dev) ELSE dev
  <2>1. /\ tick.driver = d /\ tick.more
        /\ tick' = [tick EXCEPT !.stages = @ + 1, !.more = ~Stops(st.yield, inFlight, finished)]
        /\ dev' = IF st.submit THEN DevSubmit(synced) ELSE synced
        /\ UNCHANGED <<parked, parkedNow, ticked>>
    BY <1>6 DEF RunStage, Syncs
  <2>2. ~dev.fresh /\ ticked[d] /\ (parked[d] = 0 \/ parkedNow[d])
    BY <2>1 DEF IInv, Frame
  <2>3. synced \in Dev /\ ~synced.fresh /\ ~synced.sameFrameSync
    <3>1. DevSync(dev) = [dev EXCEPT !.submitted = FALSE]
      BY <1>1, <2>2, SyncOnLaterFrame
    <3>2. DevSync(dev) \in Dev /\ ~DevSync(dev).fresh /\ ~DevSync(dev).sameFrameSync
      BY <1>1, <2>2, <3>1
    <3>3. CASE st.touch /\ job[d].pending
      BY <3>2, <3>3
    <3>4. CASE ~(st.touch /\ job[d].pending)
      BY <1>1, <2>2, <3>4
    <3>5. QED
      BY <3>3, <3>4
  <2>4. tick' \in [driver : {d, "none"}, stages : Nat, more : BOOLEAN] /\ tick'.driver = tick.driver
    <3> DEFINE m == ~Stops(st.yield, inFlight, finished)
    <3>1. m \in BOOLEAN
      OBVIOUS
    <3>2. tick' = [tick EXCEPT !.stages = @ + 1, !.more = m]
      BY <2>1
    <3> HIDE DEF m
    <3>3. tick'.driver = tick.driver /\ tick'.stages = tick.stages + 1 /\ tick'.more = m
      BY <1>1, <3>2
    <3>4. tick' = [driver |-> tick.driver, stages |-> tick.stages + 1, more |-> m]
      BY <1>1, <3>2
    <3>5. QED
      BY <1>1, <3>1, <3>3, <3>4
  <2>5. CASE st.submit
    <3>1. dev' = [synced EXCEPT !.submitted = TRUE, !.fresh = TRUE,
                                !.recordedBusy = @ \/ synced.submitted]
      BY <2>1, <2>5 DEF DevSubmit
    <3>2. dev' \in Dev /\ ~dev'.sameFrameSync
      BY <2>3, <3>1
    <3>3. ~tick'.more
      BY <1>1, <2>1, <2>5 DEF Stops
    <3>4. QED
      BY <1>1, <2>1, <2>2, <2>4, <3>2, <3>3 DEF IInv, DevTypes, Slots, Frame, RuleFour
  <2>6. CASE ~st.submit
    BY <1>1, <2>1, <2>2, <2>3, <2>4, <2>6 DEF IInv, DevTypes, Slots, Frame, RuleFour
  <2>7. QED
    BY <2>5, <2>6
<1>7. CASE TickEnd(d)
  <2>1. tick' = Idle /\ UNCHANGED <<parked, parkedNow, dev, ticked>>
    BY <1>7 DEF TickEnd
  <2>2. tick'.driver = "none" /\ tick' \in [driver : {d, "none"}, stages : Nat, more : BOOLEAN]
    BY <2>1 DEF Idle
  <2>3. QED
    BY <1>1, <2>1, <2>2 DEF IInv, DevTypes, Slots, Frame, RuleFour
<1>8. CASE RdClose
  <2>1. /\ tick = Idle /\ tick' = tick /\ ticked' = ticked /\ parkedNow' = parkedNow
        /\ parked' = [e \in Drivers |-> 0]
        /\ dev' = [(IF parked[d] > 0 THEN DevSync(dev) ELSE dev) EXCEPT !.submitted = FALSE]
        /\ ~(parked[d] > 0 /\ parkedNow[d])
    BY <1>8 DEF RdClose, InFlight
  <2>2. dev' = [dev EXCEPT !.submitted = FALSE]
    <3>1. CASE parked[d] > 0
      <4>1. ~dev.fresh
        BY <1>1, <2>1, <3>1 DEF IInv, Frame
      <4>2. DevSync(dev) = [dev EXCEPT !.submitted = FALSE]
        BY <1>1, <4>1, SyncOnLaterFrame
      <4>3. QED
        BY <1>1, <2>1, <3>1, <4>2
    <3>2. CASE ~(parked[d] > 0)
      BY <2>1, <3>2
    <3>3. QED
      BY <3>1, <3>2
  <2>3. dev' \in Dev /\ dev'.fresh = dev.fresh /\ ~dev'.sameFrameSync
    BY <1>1, <2>2
  <2>4. tick.driver = "none"
    BY <2>1 DEF Idle
  <2>5. parked' \in [{d} -> Nat] /\ parked'[d] = 0
    BY <2>1
  <2>6. QED
    BY <1>1, <2>1, <2>3, <2>4, <2>5 DEF IInv, DevTypes, Slots, Frame, RuleFour
<1>9. CASE NextFrame
  <2>1. /\ tick = Idle /\ UNCHANGED <<tick, parked>>
        /\ ticked' = [e \in Drivers |-> FALSE] /\ parkedNow' = [e \in Drivers |-> FALSE]
        /\ dev' = [dev EXCEPT !.fresh = FALSE]
    BY <1>9 DEF NextFrame
  <2>2. dev' \in Dev /\ ~dev'.fresh /\ ~dev'.sameFrameSync
    BY <1>1, <2>1
  <2>3. tick.driver = "none"
    BY <2>1 DEF Idle
  <2>4. ticked' \in [{d} -> BOOLEAN] /\ parkedNow' \in [{d} -> BOOLEAN]
    BY <2>1
  <2>5. QED
    BY <1>1, <2>1, <2>2, <2>3, <2>4 DEF IInv, DevTypes, Slots, Frame, RuleFour
<1>10. CASE UNCHANGED vars
  BY <1>10 DEF vars, IInv, DevTypes, Slots, Frame, RuleFour
<1>11. QED
  BY <1>3, <1>4, <1>5, <1>6, <1>7, <1>8, <1>9, <1>10 DEF Next, HostTick

\* Rule 4 by construction, as jobs.h and main.cpp have it, when one job slot
\* uses the device: whatever the jobs do, no sync() is in its submit's frame.
THEOREM OneDriverKeepsRuleFour ==
  ASSUME NEW d, Drivers = {d}
  PROVE  Spec => []RuleFour
<1>1. Init => IInv(d)
  BY InitEstablishes
<1>2. IInv(d) /\ [Next]_vars => IInv(d)'
  BY StepPreserves
<1>3. IInv(d) => RuleFour
  BY DEF IInv
<1>4. QED
  BY <1>1, <1>2, <1>3, PTL DEF Spec

-----------------------------------------------------------------------------
(* The types, the order of the stages and the verdict, for any drivers.    *)

DeviceType == [submitted : BOOLEAN, fresh : BOOLEAN, sameFrameSync : BOOLEAN, recordedBusy : BOOLEAN]
JobOf(name) == [script : {name}, q : Seq(DOMAIN Scripts[name].stage),
                finished : BOOLEAN, pending : BOOLEAN]
AnyJob == {NoJob} \cup UNION {JobOf(name) : name \in DOMAIN Scripts}
Answered == {"none", "FAIL", "STARTED", "RUNNING", "VERDICT", "CLOSED"}

Typed ==
  /\ job \in [Drivers -> AnyJob] /\ parked \in [Drivers -> Nat]
  /\ tick \in [driver : Drivers \cup {"none"}, stages : 0..MaxStages, more : BOOLEAN]
  /\ on \in [Drivers -> BOOLEAN] /\ ran \in [Drivers -> Seq(Nat)]
  /\ answer \in [Drivers -> Answered]
  /\ dev \in DeviceType

\* The tick is that of a driver whose job runs, and after the verdict of a job it
\* runs no more stages.
Ticking(d) ==
  /\ tick.driver = d => HasJob(d) /\ on[d]
  /\ tick.driver = d /\ tick.more => ~job[d].finished

\* What a job has run and what it has queued are the numbered stages, in order.
InTurn(d) ==
  /\ ran[d] = [k \in 1..Len(ran[d]) |-> k]
  /\ HasJob(d) =>
       LET st == Scripts[job[d].script].stage IN
       \E last \in [1..Len(st) -> 1..Len(st)] :
         /\ Covers(job[d].q, Len(ran[d]) + 1, Len(st), last)
         /\ \A n \in 1..Len(st) : Covers(st[n].next, n + 1, last[n], last)

\* A job is finished by the stage it ran last, which gave the verdict, or by a
\* queue run empty; and it is answered so only when nothing of it is in flight.
Gives(d, k) == Scripts[job[d].script].stage[ran[d][k]].verdict
Finishes(d) ==
  HasJob(d) =>
    /\ \A k \in 1..(Len(ran[d]) - 1) : ~Gives(d, k)
    /\ ran[d] # <<>> /\ ~job[d].finished => ~Gives(d, Len(ran[d]))
    /\ job[d].finished => job[d].q = <<>> \/ (ran[d] # <<>> /\ Gives(d, Len(ran[d])))
    /\ answer[d] = "VERDICT" => job[d].finished /\ ~job[d].pending /\ ~on[d]

Walks == \A d \in Drivers : Ticking(d) /\ InTurn(d) /\ Finishes(d)

\* A submit in flight is that of a job, or of a job parked in flight.
Owned == dev.submitted => \E d \in Drivers : pending(d) \/ parked[d] > 0

Inv == Typed /\ Walks

LEMMA SyncTypes ==
  ASSUME NEW v \in DeviceType
  PROVE  DevSync(v) \in DeviceType /\ ~DevSync(v).submitted
<1>1. PICK b \in BOOLEAN : b <=> v.sameFrameSync \/ v.fresh
  OBVIOUS
<1>2. DevSync(v) = [v EXCEPT !.submitted = FALSE, !.sameFrameSync = b]
  BY <1>1 DEF DevSync, DeviceType
<1>3. QED
  BY <1>2 DEF DeviceType

LEMMA SubmitTypes ==
  ASSUME NEW v \in DeviceType
  PROVE  DevSubmit(v) \in DeviceType /\ (DevSubmit(v).recordedBusy <=> v.recordedBusy \/ v.submitted)
<1>1. PICK b \in BOOLEAN : b <=> v.recordedBusy \/ v.submitted
  OBVIOUS
<1>2. DevSubmit(v) = [v EXCEPT !.submitted = TRUE, !.fresh = TRUE, !.recordedBusy = b]
  BY <1>1 DEF DevSubmit, DeviceType
<1>3. QED
  BY <1>1, <1>2 DEF DeviceType

\* free_parked() leaves the device as it is, or synced; and nothing parked then.
LEMMA FreeTypes ==
  ASSUME NEW d \in Drivers, Typed
  PROVE  /\ DevAfterFree(d) \in DeviceType /\ AfterFree(d) \in Nat
         /\ DevAfterFree(d).submitted => dev.submitted /\ AfterFree(d) = parked[d]
         /\ DevAfterFree(d).recordedBusy <=> dev.recordedBusy
<1>1. dev \in DeviceType /\ parked[d] \in Nat
  BY DEF Typed
<1>2. DevSync(dev) \in DeviceType /\ ~DevSync(dev).submitted
  BY <1>1, SyncTypes
<1>3. DevSync(dev).recordedBusy <=> dev.recordedBusy
  BY <1>1 DEF DevSync, DeviceType
<1>4. CASE Frees(d)
  BY <1>1, <1>2, <1>3, <1>4 DEF Frees, DevAfterFree, DevFree, AfterFree
<1>5. CASE ~Frees(d)
  BY <1>1, <1>5 DEF DevAfterFree, AfterFree
<1>6. QED
  BY <1>4, <1>5

\* What a driver's own steps have to keep up, and what every other step leaves.
LEMMA OthersWalk ==
  ASSUME NEW e \in Drivers, Ticking(e), InTurn(e), Finishes(e),
         job'[e] = job[e], ran'[e] = ran[e], on'[e] = on[e], answer'[e] = answer[e],
         tick'.driver = e => tick.driver = e /\ tick'.more = tick.more
  PROVE  (Ticking(e) /\ InTurn(e) /\ Finishes(e))'
<1>1. Ticking(e)'
  BY DEF Ticking, HasJob
<1>2. InTurn(e)'
  BY DEF InTurn, HasJob
<1>3. Finishes(e)'
  BY DEF Finishes, HasJob, Gives
<1>4. QED
  BY <1>1, <1>2, <1>3

\* The queue after a stage that adds a to the rest b.
LEMMA Appended ==
  ASSUME NEW N \in Nat, NEW last \in [1..N -> 1..N], NEW a \in Seq(1..N), NEW b \in Seq(1..N),
         NEW lo \in Int, NEW mid \in Int, NEW hi \in Int,
         Covers(a, lo, mid, last), Covers(b, mid + 1, hi, last)
  PROVE  Covers(a \o b, lo, hi, last)
<1>1. CASE a = <<>>
  <2>1. a \o b = b /\ mid = lo - 1
    BY <1>1 DEF Covers
  <2>2. mid + 1 = lo
    BY <2>1
  <2>3. QED
    BY <2>1, <2>2
<1>2. CASE a # <<>> /\ b = <<>>
  <2>1. a \o b = a /\ hi = (mid + 1) - 1
    BY <1>2 DEF Covers
  <2>2. hi = mid
    BY <2>1
  <2>3. QED
    BY <2>1, <2>2
<1>3. CASE a # <<>> /\ b # <<>>
  <2>1. /\ a[1] = lo /\ last[a[Len(a)]] = mid
        /\ \A k \in 1..(Len(a) - 1) : a[k + 1] = last[a[k]] + 1
        /\ b[1] = mid + 1 /\ last[b[Len(b)]] = hi
        /\ \A k \in 1..(Len(b) - 1) : b[k + 1] = last[b[k]] + 1
    BY <1>3 DEF Covers
  <2> DEFINE c == a \o b
  <2>2. /\ c \in Seq(1..N) /\ Len(c) = Len(a) + Len(b)
        /\ \A k \in 1..(Len(a) + Len(b)) : c[k] = IF k <= Len(a) THEN a[k] ELSE b[k - Len(a)]
    BY ConcatProperties
  <2> HIDE DEF c
  <2>3. PICK m \in Nat : m = Len(a) /\ m > 0
    BY <1>3, EmptySeq, LenProperties
  <2>4. PICK n \in Nat : n = Len(b) /\ n > 0
    BY <1>3, EmptySeq, LenProperties
  <2>a. m \in Nat /\ m > 0 /\ n \in Nat /\ n > 0
    BY <2>3, <2>4
  <2>5. \A k \in 1..(m + n) : c[k] = IF k <= m THEN a[k] ELSE b[k - m]
    BY <2>2, <2>3, <2>4
  <2>6. Len(c) = m + n /\ c # <<>>
    <3>1. Len(c) = m + n
      BY <2>2, <2>3, <2>4
    <3>2. Len(c) > 0
      BY <2>3, <2>4, <3>1
    <3>3. QED
      BY <3>1, <3>2, EmptySeq
  <2>7. c[1] = lo
    <3>1. 1 \in 1..(m + n) /\ 1 <= m
      BY <2>a
    <3>2. c[1] = a[1]
      BY <2>5, <3>1
    <3>3. QED
      BY <2>1, <3>2
  <2>8. c[m + n] = b[n]
    <3>1. m + n \in 1..(m + n) /\ ~(m + n <= m) /\ (m + n) - m = n
      BY <2>a
    <3>2. QED
      BY <2>5, <3>1
  <2>9. ASSUME NEW k \in 1..(m + n - 1) PROVE c[k + 1] = last[c[k]] + 1
    <3>0. k \in 1..(m + n) /\ k + 1 \in 1..(m + n)
      BY <2>3, <2>4
    <3>1. CASE k < m
      <4>1. k <= m /\ k + 1 <= m /\ k \in 1..(m - 1)
        BY <3>1
      <4>2. c[k] = a[k] /\ c[k + 1] = a[k + 1]
        BY <2>5, <3>0, <4>1
      <4>3. QED
        BY <2>1, <2>3, <4>1, <4>2
    <3>2. CASE k = m
      <4>1. k <= m /\ ~(k + 1 <= m) /\ (k + 1) - m = 1
        BY <3>2
      <4>2. c[k] = a[m] /\ c[k + 1] = b[1]
        BY <2>5, <3>0, <3>2, <4>1
      <4>3. QED
        BY <2>1, <2>3, <4>2
    <3>3. CASE k > m
      <4>1. ~(k <= m) /\ ~(k + 1 <= m) /\ (k + 1) - m = (k - m) + 1 /\ k - m \in 1..(n - 1)
        BY <3>3
      <4>2. c[k] = b[k - m] /\ c[k + 1] = b[(k + 1) - m]
        BY <2>5, <3>0, <4>1
      <4>3. QED
        BY <2>1, <2>4, <4>1, <4>2
    <3>4. QED
      BY <3>1, <3>2, <3>3
  <2>10. Covers(c, lo, hi, last)
    BY <2>1, <2>4, <2>6, <2>7, <2>8, <2>9 DEF Covers
  <2>11. QED
    BY <2>10 DEF c
<1>4. QED
  BY <1>1, <1>2, <1>3

LEMMA Rest ==
  ASSUME NEW N \in Nat, NEW last \in [1..N -> 1..N], NEW s \in Seq(1..N), s # <<>>,
         NEW lo \in Int, NEW hi \in Int, Covers(s, lo, hi, last)
  PROVE  /\ Head(s) = lo /\ lo \in 1..N /\ Tail(s) \in Seq(1..N)
         /\ Covers(Tail(s), last[lo] + 1, hi, last)
<1>1. /\ s[1] = lo /\ last[s[Len(s)]] = hi
      /\ \A k \in 1..(Len(s) - 1) : s[k + 1] = last[s[k]] + 1
  BY DEF Covers
<1>2. /\ Head(s) = s[1] /\ Tail(s) \in Seq(1..N) /\ Len(s) \in Nat \ {0}
      /\ Len(Tail(s)) = Len(s) - 1
      /\ \A k \in 1..Len(Tail(s)) : Tail(s)[k] = s[k + 1]
  BY HeadTailProperties, EmptySeq
<1>3. lo \in 1..N /\ last[lo] \in Int
  BY <1>1, <1>2
<1>4. CASE Len(s) = 1
  <2>1. Tail(s) = <<>>
    <3>1. Len(Tail(s)) = 0 /\ 0 \notin Nat \ {0}
      BY <1>2, <1>4
    <3>2. QED
      BY <1>2, <3>1, EmptySeq
  <2>2. hi = (last[lo] + 1) - 1
    BY <1>1, <1>2, <1>3, <1>4
  <2>3. QED
    BY <1>1, <1>2, <1>3, <2>1, <2>2 DEF Covers
<1>5. CASE Len(s) # 1
  <2> DEFINE t == Tail(s)
  <2>1. t # <<>> /\ Len(t) \in Nat \ {0} /\ Len(t) = Len(s) - 1
    <3>1. PICK m \in Nat : m = Len(s) /\ m # 0
      BY <1>2
    <3>2. m - 1 # 0 /\ m - 1 \in Nat /\ Len(t) = m - 1
      BY <1>2, <1>5, <3>1
    <3>3. t # <<>>
      BY <3>2, EmptySeq
    <3>4. QED
      BY <3>1, <3>2, <3>3
  <2>2. t[1] = last[lo] + 1 /\ t[Len(t)] = s[Len(s)]
    <3>1. t[1] = s[1 + 1] /\ t[Len(t)] = s[Len(t) + 1] /\ 1 \in 1..(Len(s) - 1) /\ Len(t) + 1 = Len(s)
      BY <1>2, <2>1
    <3>2. QED
      BY <1>1, <3>1
  <2>3. ASSUME NEW k \in 1..(Len(t) - 1) PROVE t[k + 1] = last[t[k]] + 1
    <3>1. t[k] = s[k + 1] /\ t[k + 1] = s[(k + 1) + 1] /\ k + 1 \in 1..(Len(s) - 1)
      BY <1>2, <2>1
    <3>2. QED
      BY <1>1, <3>1
  <2> HIDE DEF t
  <2>4. Covers(t, last[lo] + 1, hi, last)
    BY <1>1, <2>1, <2>2, <2>3 DEF Covers
  <2>5. QED
    BY <1>1, <1>2, <1>3, <2>4 DEF t
<1>6. QED
  BY <1>4, <1>5

\* What a started job is, and what it keeps of its script.
LEMMA JobTypes ==
  ASSUME NEW j \in AnyJob
  PROVE  \/ j = NoJob /\ j.script = "none"
         \/ /\ j.script \in DOMAIN Scripts /\ j.script # "none" /\ j \in JobOf(j.script)
<1>1. CASE j = NoJob
  BY <1>1 DEF NoJob
<1>2. ASSUME NEW name \in DOMAIN Scripts, j \in JobOf(name)
      PROVE  j.script \in DOMAIN Scripts /\ j.script # "none" /\ j \in JobOf(j.script)
  <2>1. j.script = name
    BY <1>2 DEF JobOf
  <2>2. name # "none"
    BY ScriptsAssumption
  <2>3. QED
    BY <1>2, <2>1, <2>2
<1>3. QED
  BY <1>1, <1>2 DEF AnyJob

LEMMA StageTypes ==
  ASSUME NEW name \in DOMAIN Scripts
  PROVE  LET st == Scripts[name].stage IN
         /\ Len(st) \in Nat /\ DOMAIN st = 1..Len(st)
         /\ Scripts[name].roots \in Seq(1..Len(st))
         /\ \A n \in 1..Len(st) :
              /\ st[n].touch \in BOOLEAN /\ st[n].submit \in BOOLEAN
              /\ st[n].verdict \in BOOLEAN /\ st[n].yield \in BOOLEAN
              /\ st[n].next \in Seq(1..Len(st))
              /\ st[n].submit => st[n].touch
         /\ \E last \in [1..Len(st) -> 1..Len(st)] :
              /\ Covers(Scripts[name].roots, 1, Len(st), last)
              /\ \A n \in 1..Len(st) : Covers(st[n].next, n + 1, last[n], last)
<1> DEFINE st == Scripts[name].stage
<1>1. Len(st) \in Nat /\ DOMAIN st = 1..Len(st)
  BY NumberedAssumption
<1>2. /\ Scripts[name].roots \in Seq(DOMAIN st)
      /\ \A n \in DOMAIN st :
           /\ st[n].touch \in BOOLEAN /\ st[n].submit \in BOOLEAN
           /\ st[n].verdict \in BOOLEAN /\ st[n].yield \in BOOLEAN
           /\ st[n].next \in Seq(DOMAIN st)
           /\ st[n].submit => st[n].touch
  BY ScriptsAssumption
<1>3. \E last \in [1..Len(st) -> 1..Len(st)] :
        /\ Covers(Scripts[name].roots, 1, Len(st), last)
        /\ \A n \in DOMAIN st : Covers(st[n].next, n + 1, last[n], last)
  BY NumberedAssumption
<1> HIDE DEF st
<1>4. \E last \in [1..Len(st) -> 1..Len(st)] :
        /\ Covers(Scripts[name].roots, 1, Len(st), last)
        /\ \A n \in 1..Len(st) : Covers(st[n].next, n + 1, last[n], last)
  BY <1>1, <1>3
<1>5. /\ Scripts[name].roots \in Seq(1..Len(st))
      /\ \A n \in 1..Len(st) :
           /\ st[n].touch \in BOOLEAN /\ st[n].submit \in BOOLEAN
           /\ st[n].verdict \in BOOLEAN /\ st[n].yield \in BOOLEAN
           /\ st[n].next \in Seq(1..Len(st))
           /\ st[n].submit => st[n].touch
  BY <1>1, <1>2
<1>6. QED
  BY <1>1, <1>4, <1>5 DEF st

\* Nothing started, nothing in flight.
LEMMA InitWalks == Init => Inv /\ Owned
<1> SUFFICES ASSUME Init PROVE Inv /\ Owned
  OBVIOUS
<1>1. MaxStages \in Nat /\ 0 \in 0..MaxStages
  BY ScriptsAssumption
<1>2. Typed
  <2>1. tick \in [driver : Drivers \cup {"none"}, stages : 0..MaxStages, more : BOOLEAN]
    BY <1>1 DEF Init, Idle
  <2>2. dev \in DeviceType
    BY DEF Init, DeviceType
  <2>3. ran \in [Drivers -> Seq(Nat)]
    BY EmptySeq DEF Init
  <2>4. QED
    BY <2>1, <2>2, <2>3 DEF Init, Typed, AnyJob, Answered
<1>3. ASSUME NEW d \in Drivers PROVE Ticking(d) /\ InTurn(d) /\ Finishes(d)
  <2>1. ~HasJob(d) /\ ran[d] = <<>> /\ tick.driver # d
    BY ScriptsAssumption DEF Init, HasJob, NoJob, Idle
  <2>2. <<>> = [k \in 1..Len(<<>>) |-> k]
    OBVIOUS
  <2>3. QED
    BY <2>1, <2>2 DEF Ticking, InTurn, Finishes
<1>4. Owned
  BY DEF Init, Owned
<1>5. QED
  BY <1>2, <1>3, <1>4 DEF Inv, Walks

\* A job starts at its first stage; a job in flight before it is parked.
LEMMA JobStartWalks ==
  ASSUME Inv, Owned, NEW d \in Drivers, NEW s \in Outcomes, JobStart(d, s)
  PROVE  Inv' /\ Owned'
<1> DEFINE p == IF pending(d) THEN 1 ELSE 0
           j == IF s = "unknown" THEN NoJob ELSE NewJob(s)
           a == IF s = "unknown" THEN "FAIL" ELSE "STARTED"
           o == s # "unknown"
<1>1. /\ tick = Idle /\ tick' = tick
      /\ dev' = DevAfterFree(d)
      /\ job' = [job EXCEPT ![d] = j]
      /\ on' = [on EXCEPT ![d] = o]
      /\ ran' = [ran EXCEPT ![d] = <<>>]
      /\ answer' = [answer EXCEPT ![d] = a]
      /\ parked' = [parked EXCEPT ![d] = AfterFree(d) + p]
  BY DEF JobStart, Started
<1>2. Typed /\ Walks
  BY DEF Inv
<1>3. s # "unknown" => s \in DOMAIN Scripts /\ NewJob(s) \in JobOf(s) /\ NewJob(s).q = Scripts[s].roots
                       /\ ~NewJob(s).finished /\ NewJob(s).script = s /\ s # "none"
  <2>1. s # "unknown" => s \in DOMAIN Scripts /\ s # "none"
    BY ScriptsAssumption DEF Outcomes
  <2>2. s \in DOMAIN Scripts => Scripts[s].roots \in Seq(DOMAIN Scripts[s].stage)
    BY ScriptsAssumption
  <2>3. QED
    BY <2>1, <2>2 DEF NewJob, JobOf
<1>4. j \in AnyJob
  BY <1>3 DEF AnyJob
<1>5. p \in Nat /\ a \in Answered /\ a # "VERDICT" /\ o \in BOOLEAN
  BY DEF Answered
<1>6. DevAfterFree(d) \in DeviceType /\ AfterFree(d) \in Nat /\ (DevAfterFree(d).submitted => dev.submitted /\ AfterFree(d) = parked[d])
  BY <1>2, FreeTypes
<1>7. Typed'
  <2>1. parked' \in [Drivers -> Nat]
    BY <1>1, <1>2, <1>5, <1>6 DEF Typed
  <2>2. ran' \in [Drivers -> Seq(Nat)]
    BY <1>1, <1>2, EmptySeq DEF Typed
  <2> HIDE DEF j, a, o, p
  <2>3. job' \in [Drivers -> AnyJob] /\ on' \in [Drivers -> BOOLEAN] /\ answer' \in [Drivers -> Answered]
    BY <1>1, <1>2, <1>4, <1>5 DEF Typed
  <2>4. QED
    BY <1>1, <1>2, <1>6, <2>1, <2>2, <2>3 DEF Typed
<1>8. tick.driver # d
  BY <1>1, ScriptsAssumption DEF Idle
<1>9. job'[d] = j /\ ran'[d] = <<>> /\ answer'[d] = a
  BY <1>1, <1>2 DEF Typed
<1>10. Ticking(d)' /\ InTurn(d)' /\ Finishes(d)'
  <2>1. Ticking(d)'
    BY <1>1, <1>8 DEF Ticking
  <2>2. InTurn(d)'
    <3>1. <<>> = [k \in 1..Len(<<>>) |-> k] /\ Len(<<>>) + 1 = 1
      OBVIOUS
    <3>2. CASE s = "unknown"
      BY <1>9, <3>1, <3>2 DEF InTurn, HasJob, NoJob
    <3>3. CASE s # "unknown"
      <4>1. job'[d].script = s /\ job'[d].q = Scripts[s].roots
        BY <1>3, <1>9, <3>3
      <4>2. \E last \in [1..Len(Scripts[s].stage) -> 1..Len(Scripts[s].stage)] :
              /\ Covers(Scripts[s].roots, 1, Len(Scripts[s].stage), last)
              /\ \A n \in 1..Len(Scripts[s].stage) :
                   Covers(Scripts[s].stage[n].next, n + 1, last[n], last)
        BY <1>3, <3>3, StageTypes
      <4>3. QED
        BY <1>9, <3>1, <4>1, <4>2 DEF InTurn
    <3>4. QED
      BY <3>2, <3>3
  <2>3. Finishes(d)'
    <3>1. CASE s = "unknown"
      BY <1>9, <3>1 DEF Finishes, HasJob, NoJob
    <3>2. CASE s # "unknown"
      <4>1. ~job'[d].finished /\ ran'[d] = <<>> /\ answer'[d] # "VERDICT"
        BY <1>3, <1>5, <1>9, <3>2
      <4>2. 1..(Len(<<>>) - 1) = {}
        OBVIOUS
      <4>3. QED
        BY <4>1, <4>2 DEF Finishes
    <3>3. QED
      BY <3>1, <3>2
  <2>4. QED
    BY <2>1, <2>2, <2>3
<1>11. ASSUME NEW e \in Drivers, e # d PROVE (Ticking(e) /\ InTurn(e) /\ Finishes(e))'
  <2>1. job'[e] = job[e] /\ ran'[e] = ran[e] /\ on'[e] = on[e] /\ answer'[e] = answer[e]
    BY <1>1, <1>2, <1>11 DEF Typed
  <2>2. QED
    BY <1>1, <1>2, <2>1, OthersWalk DEF Walks
<1>12. Walks'
  BY <1>10, <1>11 DEF Walks
<1>13. Owned'
  <2> SUFFICES ASSUME dev'.submitted PROVE \E e \in Drivers : pending(e)' \/ parked'[e] > 0
    BY DEF Owned
  <2>1. dev.submitted /\ AfterFree(d) = parked[d]
    BY <1>1, <1>6
  <2>2. PICK e \in Drivers : pending(e) \/ parked[e] > 0
    BY <2>1 DEF Owned
  <2>3. CASE e = d
    <3>1. AfterFree(d) + p > 0
      BY <1>6, <2>1, <2>2, <2>3
    <3>2. parked'[d] = AfterFree(d) + p
      BY <1>1, <1>2 DEF Typed
    <3>3. QED
      BY <3>1, <3>2
  <2>4. CASE e # d
    <3>1. job'[e] = job[e] /\ parked'[e] = parked[e]
      BY <1>1, <1>2, <2>4 DEF Typed
    <3>2. QED
      BY <2>2, <3>1 DEF pending, HasJob
  <2>5. QED
    BY <2>3, <2>4
<1>14. QED
  BY <1>7, <1>12, <1>13 DEF Inv

\* A tick of a driver without a job ends the host's ticking of it.
LEMMA TickNoJobWalks ==
  ASSUME Inv, Owned, NEW d \in Drivers, TickNoJob(d)
  PROVE  Inv' /\ Owned'
<1>1. /\ tick = Idle /\ tick' = tick /\ dev' = DevAfterFree(d)
      /\ job' = job /\ ran' = ran /\ ~HasJob(d)
      /\ on' = [on EXCEPT ![d] = FALSE]
      /\ answer' = [answer EXCEPT ![d] = "FAIL"]
      /\ parked' = [parked EXCEPT ![d] = AfterFree(d)]
  BY DEF TickNoJob
<1>2. Typed /\ Walks
  BY DEF Inv
<1>3. /\ DevAfterFree(d) \in DeviceType /\ AfterFree(d) \in Nat
      /\ DevAfterFree(d).submitted => dev.submitted /\ AfterFree(d) = parked[d]
  BY <1>2, FreeTypes
<1>4. Typed'
  <2>1. "FAIL" \in Answered
    BY DEF Answered
  <2>2. QED
    BY <1>1, <1>2, <1>3, <2>1 DEF Typed
<1>5. tick.driver # d
  BY <1>1, ScriptsAssumption DEF Idle
<1>6. Ticking(d)' /\ InTurn(d)' /\ Finishes(d)'
  BY <1>1, <1>2, <1>5 DEF Walks, Ticking, InTurn, Finishes, HasJob
<1>7. ASSUME NEW e \in Drivers, e # d PROVE (Ticking(e) /\ InTurn(e) /\ Finishes(e))'
  <2>1. on'[e] = on[e] /\ answer'[e] = answer[e] /\ job'[e] = job[e] /\ ran'[e] = ran[e]
    BY <1>1, <1>2, <1>7 DEF Typed
  <2>2. QED
    BY <1>1, <1>2, <2>1, OthersWalk DEF Walks
<1>8. Walks'
  BY <1>6, <1>7 DEF Walks
<1>9. Owned'
  <2> SUFFICES ASSUME dev'.submitted PROVE \E e \in Drivers : pending(e)' \/ parked'[e] > 0
    BY DEF Owned
  <2>1. dev.submitted /\ parked' = parked
    BY <1>1, <1>2, <1>3 DEF Typed
  <2>2. QED
    BY <1>1, <2>1 DEF Owned, pending, HasJob
<1>10. QED
  BY <1>4, <1>8, <1>9 DEF Inv

\* A tick frees what is parked, drains a submit left by a verdict, and runs stages
\* only where no verdict is in.
LEMMA TickWalks ==
  ASSUME Inv, Owned, NEW d \in Drivers, Tick(d)
  PROVE  Inv' /\ Owned'
<1> DEFINE name == job[d].script
<1>1. /\ tick = Idle /\ on[d] /\ HasJob(d)
      /\ tick' = [driver |-> d, stages |-> 0, more |-> ~job[d].finished]
      /\ parked' = [parked EXCEPT ![d] = AfterFree(d)]
      /\ dev' = IF Drains(d) THEN DevSync(DevAfterFree(d)) ELSE DevAfterFree(d)
      /\ job' = [job EXCEPT ![d].pending = @ /\ ~Drains(d)]
      /\ on' = on /\ ran' = ran /\ answer' = answer
  BY DEF Tick
<1>2. Typed /\ Walks
  BY DEF Inv
<1>3. /\ DevAfterFree(d) \in DeviceType /\ AfterFree(d) \in Nat
      /\ DevAfterFree(d).submitted => dev.submitted /\ AfterFree(d) = parked[d]
  BY <1>2, FreeTypes
<1>4. dev' \in DeviceType /\ (dev'.submitted => ~Drains(d) /\ dev.submitted /\ AfterFree(d) = parked[d])
  BY <1>1, <1>3, SyncTypes
<1>5. name \in DOMAIN Scripts /\ job[d] \in JobOf(name) /\ job[d] \in AnyJob
  <2>1. job[d] \in AnyJob
    BY <1>2 DEF Typed
  <2>2. QED
    BY <1>1, <2>1, JobTypes DEF HasJob
<1>6. PICK b \in BOOLEAN : b <=> job[d].pending /\ ~Drains(d)
  OBVIOUS
<1>7. /\ job' = [job EXCEPT ![d] = [job[d] EXCEPT !.pending = b]]
      /\ [job[d] EXCEPT !.pending = b] \in JobOf(name)
      /\ [job[d] EXCEPT !.pending = b].q = job[d].q
      /\ [job[d] EXCEPT !.pending = b].finished = job[d].finished
      /\ [job[d] EXCEPT !.pending = b].script = name
      /\ [job[d] EXCEPT !.pending = b].pending = b
  <2>1. job[d].pending \in BOOLEAN
    BY <1>5 DEF JobOf
  <2>2. (job[d].pending /\ ~Drains(d)) = b
    BY <1>6, <2>1
  <2>3. job' = [job EXCEPT ![d] = [job[d] EXCEPT !.pending = b]]
    BY <1>1, <2>2
  <2>4. QED
    BY <1>5, <2>3 DEF JobOf
<1>8. /\ job'[d] = [job[d] EXCEPT !.pending = b]
      /\ \A e \in Drivers : e # d => job'[e] = job[e]
  BY <1>2, <1>7 DEF Typed
<1>9. PICK f \in BOOLEAN : f <=> job[d].finished
  BY <1>5 DEF JobOf
<1>10. PICK m \in BOOLEAN : m <=> ~f
  OBVIOUS
<1>11. tick' = [driver |-> d, stages |-> 0, more |-> m]
  <2>1. job[d].finished \in BOOLEAN
    BY <1>5 DEF JobOf
  <2>2. (~job[d].finished) = m
    BY <1>9, <1>10, <2>1
  <2>3. QED
    BY <1>1, <2>2
<1>12. Typed'
  <2>1. job' \in [Drivers -> AnyJob]
    <3>1. [job[d] EXCEPT !.pending = b] \in AnyJob
      BY <1>5, <1>7 DEF AnyJob
    <3>2. QED
      BY <1>2, <1>7, <3>1 DEF Typed
  <2>2. tick' \in [driver : Drivers \cup {"none"}, stages : 0..MaxStages, more : BOOLEAN]
    <3>1. 0 \in 0..MaxStages
      BY ScriptsAssumption
    <3>2. QED
      BY <1>11, <3>1
  <2>3. QED
    BY <1>1, <1>2, <1>3, <1>4, <2>1, <2>2 DEF Typed
<1>13. Ticking(d)' /\ InTurn(d)' /\ Finishes(d)'
  <2>1. /\ job'[d].script = job[d].script /\ job'[d].q = job[d].q
        /\ job'[d].finished = job[d].finished /\ job'[d].pending = b
    BY <1>7, <1>8
  <2>2. Ticking(d)'
    <3>1. tick'.driver = d /\ tick'.more = m
      BY <1>11
    <3>2. QED
      BY <1>1, <1>9, <1>10, <2>1, <3>1 DEF Ticking, HasJob
  <2>3. InTurn(d)'
    BY <1>1, <1>2, <2>1 DEF Walks, InTurn, HasJob
  <2>4. Finishes(d)'
    <3>1. Finishes(d)
      BY <1>2 DEF Walks
    <3>2. b => job[d].pending
      BY <1>6
    <3>3. QED
      BY <1>1, <2>1, <3>1, <3>2 DEF Finishes, HasJob, Gives
  <2>5. QED
    BY <2>2, <2>3, <2>4
<1>14. ASSUME NEW e \in Drivers, e # d PROVE (Ticking(e) /\ InTurn(e) /\ Finishes(e))'
  <2>1. on'[e] = on[e] /\ answer'[e] = answer[e] /\ job'[e] = job[e] /\ ran'[e] = ran[e]
    BY <1>1, <1>8, <1>14
  <2>2. tick'.driver # e
    BY <1>11, <1>14
  <2>3. QED
    BY <1>2, <2>1, <2>2, OthersWalk DEF Walks
<1>15. Walks'
  BY <1>13, <1>14 DEF Walks
<1>16. Owned'
  <2> SUFFICES ASSUME dev'.submitted PROVE \E e \in Drivers : pending(e)' \/ parked'[e] > 0
    BY DEF Owned
  <2>1. dev.submitted /\ ~Drains(d) /\ parked' = parked
    BY <1>1, <1>2, <1>4 DEF Typed
  <2>2. PICK e \in Drivers : pending(e) \/ parked[e] > 0
    BY <2>1 DEF Owned
  <2>3. job'[e].script = job[e].script /\ (job[e].pending => job'[e].pending)
    <3>1. CASE e = d
      BY <1>6, <1>7, <1>8, <2>1, <3>1
    <3>2. CASE e # d
      BY <1>8, <3>2
    <3>3. QED
      BY <3>1, <3>2
  <2>4. QED
    BY <2>1, <2>2, <2>3 DEF pending, HasJob
<1>17. QED
  BY <1>12, <1>15, <1>16 DEF Inv

\* The next stage is the next in number, none before it gave the verdict, and a
\* stage that leaves nothing of its job in flight leaves no submit of it.
LEMMA RunStageWalks ==
  ASSUME Inv, Owned, NEW d \in Drivers, RunStage(d)
  PROVE  /\ Inv' /\ Owned'
         /\ dev'.recordedBusy => dev.recordedBusy \/ (dev.submitted /\ ~pending(d))
<1> DEFINE name == job[d].script
           q == job[d].q
           n == Head(q)
           N == Len(Scripts[name].stage)
           st == Scripts[name].stage[n]
           inFlight == st.submit \/ (job[d].pending /\ ~st.touch)
           finished == job[d].finished \/ st.verdict
           synced == IF Syncs(st, job[d].pending) THEN DevSync(dev) ELSE dev
<1>1. /\ tick.driver = d /\ tick.more /\ q # <<>> /\ tick.stages < MaxStages
      /\ job' = [job EXCEPT ![d].q = Requeue(st.next, Tail(@)),
                            ![d].pending = inFlight, ![d].finished = finished]
      /\ dev' = IF st.submit THEN DevSubmit(synced) ELSE synced
      /\ tick' = [tick EXCEPT !.stages = @ + 1, !.more = ~Stops(st.yield, inFlight, finished)]
      /\ ran' = [ran EXCEPT ![d] = Append(@, n)]
      /\ parked' = parked /\ on' = on /\ answer' = answer
  BY DEF RunStage
<1>2. Typed /\ Ticking(d) /\ InTurn(d) /\ Finishes(d)
  BY DEF Inv, Walks
<1>3. HasJob(d) /\ on[d] /\ ~job[d].finished
  BY <1>1, <1>2 DEF Ticking
<1>4. name \in DOMAIN Scripts /\ job[d] \in JobOf(name)
  <2>1. job[d] \in AnyJob
    BY <1>2 DEF Typed
  <2>2. QED
    BY <1>3, <2>1, JobTypes DEF HasJob
<1>5. /\ N \in Nat /\ DOMAIN Scripts[name].stage = 1..N /\ q \in Seq(1..N)
      /\ job[d].pending \in BOOLEAN /\ job[d].finished \in BOOLEAN
  BY <1>4, StageTypes DEF JobOf
<1>6. PICK last \in [1..N -> 1..N] :
        /\ Covers(q, Len(ran[d]) + 1, N, last)
        /\ \A i \in 1..N : Covers(Scripts[name].stage[i].next, i + 1, last[i], last)
  BY <1>2, <1>3 DEF InTurn
<1>7. ran[d] \in Seq(Nat) /\ Len(ran[d]) \in Nat
  <2>1. ran[d] \in Seq(Nat)
    BY <1>2 DEF Typed
  <2>2. QED
    BY <2>1, LenProperties
<1>8. /\ n = Len(ran[d]) + 1 /\ n \in 1..N /\ Tail(q) \in Seq(1..N)
      /\ Covers(Tail(q), last[n] + 1, N, last)
  <2>1. Len(ran[d]) + 1 \in Int /\ N \in Int
    BY <1>5, <1>7
  <2>2. /\ n = Len(ran[d]) + 1 /\ Len(ran[d]) + 1 \in 1..N /\ Tail(q) \in Seq(1..N)
        /\ Covers(Tail(q), last[Len(ran[d]) + 1] + 1, N, last)
    BY <1>1, <1>5, <1>6, <2>1, Rest
  <2>3. QED
    BY <2>2
<1>9. /\ st.touch \in BOOLEAN /\ st.submit \in BOOLEAN /\ st.verdict \in BOOLEAN
      /\ st.yield \in BOOLEAN /\ st.next \in Seq(1..N) /\ (st.submit => st.touch)
      /\ Covers(st.next, n + 1, last[n], last)
  BY <1>4, <1>6, <1>8, StageTypes
<1> DEFINE rest == st.next \o Tail(q)
<1>10. rest \in Seq(1..N) /\ Covers(rest, n + 1, N, last)
  <2>1. n + 1 \in Int /\ last[n] \in Int /\ N \in Int
    BY <1>5, <1>8
  <2>2. rest \in Seq(1..N)
    BY <1>8, <1>9, ConcatProperties
  <2>3. QED
    BY <1>5, <1>8, <1>9, <2>1, <2>2, Appended
<1>11. PICK p \in BOOLEAN : p <=> inFlight
  OBVIOUS
<1>12. PICK f \in BOOLEAN : f <=> finished
  OBVIOUS
<1>13. inFlight \in BOOLEAN /\ finished \in BOOLEAN
  BY <1>5, <1>9
<1>14. job' = [job EXCEPT ![d] = [job[d] EXCEPT !.q = rest, !.pending = p, !.finished = f]]
  <2>1. inFlight = p /\ finished = f
    BY <1>11, <1>12, <1>13
  <2>2. job' = [job EXCEPT ![d].q = rest, ![d].pending = p, ![d].finished = f]
    BY <1>1, <2>1 DEF Requeue
  <2> HIDE DEF rest
  <2>3. QED
    BY <1>2, <2>2 DEF Typed
<1>15. /\ \A e \in Drivers : e # d => job'[e] = job[e] /\ ran'[e] = ran[e]
       /\ job'[d] = [job[d] EXCEPT !.q = rest, !.pending = p, !.finished = f]
       /\ ran'[d] = Append(ran[d], n)
  <2> HIDE DEF rest, n
  <2>1. QED
    BY <1>1, <1>2, <1>14 DEF Typed
<1>16. /\ job'[d] \in AnyJob /\ job'[d].script = name /\ job'[d].q = rest
       /\ job'[d].pending = p /\ job'[d].finished = f
  <2>1. rest \in Seq(DOMAIN Scripts[name].stage)
    BY <1>5, <1>10
  <2>2. PICK c \in DOMAIN Scripts : c = name
    BY <1>4
  <2>3. PICK j \in JobOf(c) : j = job[d]
    BY <1>4, <2>2
  <2>4. PICK s \in Seq(DOMAIN Scripts[c].stage) : s = rest
    BY <2>1, <2>2
  <2> DEFINE i == [j EXCEPT !.q = s, !.pending = p, !.finished = f]
  <2>5. i \in AnyJob /\ i.script = c /\ i.q = s /\ i.pending = p /\ i.finished = f
    BY DEF JobOf, AnyJob
  <2>6. job'[d] = i
    BY <1>15, <2>3, <2>4
  <2> HIDE DEF i, rest, name
  <2>7. QED
    BY <2>2, <2>4, <2>5, <2>6
<1>17. PICK m \in BOOLEAN : m <=> ~Stops(st.yield, inFlight, finished)
  OBVIOUS
<1>18. m => ~f
  BY <1>12, <1>17 DEF Stops
<1>19. /\ tick' \in [driver : Drivers \cup {"none"}, stages : 0..MaxStages, more : BOOLEAN]
       /\ tick'.driver = d /\ tick'.more = m
  <2>1. PICK z \in 0..MaxStages : z = tick.stages + 1
    <3>1. tick.stages \in 0..MaxStages /\ MaxStages \in Nat
      BY <1>2, ScriptsAssumption DEF Typed
    <3>2. PICK k \in 0..MaxStages : k = tick.stages
      BY <3>1
    <3>3. k < MaxStages
      BY <1>1, <3>2
    <3>4. k + 1 \in 0..MaxStages
      BY <3>1, <3>3
    <3>5. QED
      BY <3>2, <3>4
  <2>2. (~Stops(st.yield, inFlight, finished)) = m
    BY <1>17
  <2>3. tick' = [tick EXCEPT !.stages = z, !.more = m]
    BY <1>1, <2>1, <2>2
  <2>4. QED
    BY <1>1, <1>2, <2>3 DEF Typed
<1>20. /\ synced \in DeviceType /\ (synced.submitted => dev.submitted /\ ~(st.touch /\ job[d].pending))
       /\ synced.recordedBusy <=> dev.recordedBusy
  <2>1. dev \in DeviceType
    BY <1>2 DEF Typed
  <2>2. DevSync(dev).recordedBusy <=> dev.recordedBusy
    BY <2>1 DEF DevSync, DeviceType
  <2>3. QED
    BY <1>5, <1>9, <2>1, <2>2, SyncTypes DEF Syncs
<1> HIDE DEF synced
<1>21. /\ dev' \in DeviceType
       /\ dev'.recordedBusy => dev.recordedBusy \/ (st.submit /\ synced.submitted)
       /\ ~st.submit => dev' = synced
  BY <1>1, <1>20, SubmitTypes
<1>22. Append(ran[d], n) \in Seq(Nat) /\ Append(ran[d], n) = [k \in 1..(Len(ran[d]) + 1) |-> k]
       /\ Len(Append(ran[d], n)) = Len(ran[d]) + 1
  <2>1. PICK l \in Nat : l = Len(ran[d])
    BY <1>7
  <2>2. n \in Nat /\ n = l + 1
    BY <1>8, <2>1
  <2> HIDE DEF n
  <2>3. /\ Append(ran[d], n) \in Seq(Nat) /\ Len(Append(ran[d], n)) = l + 1
        /\ \A k \in 1..l : Append(ran[d], n)[k] = ran[d][k]
        /\ Append(ran[d], n)[l + 1] = n
    BY <1>7, <2>1, <2>2
  <2>4. ran[d] = [k \in 1..l |-> k]
    BY <1>2, <2>1 DEF InTurn
  <2>5. ASSUME NEW k \in 1..(l + 1) PROVE Append(ran[d], n)[k] = k
    BY <2>1, <2>2, <2>3, <2>4
  <2>6. Append(ran[d], n) \in [1..(l + 1) -> Nat]
    BY <2>3, LenProperties
  <2>7. Append(ran[d], n) = [k \in 1..(l + 1) |-> k]
    BY <2>5, <2>6
  <2>8. QED
    BY <2>1, <2>3, <2>7
<1>23. Typed'
  <2>1. job' \in [Drivers -> AnyJob]
    <3>1. [job[d] EXCEPT !.q = rest, !.pending = p, !.finished = f] \in AnyJob
      BY <1>15, <1>16
    <3> HIDE DEF rest
    <3>2. QED
      BY <1>2, <1>14, <3>1 DEF Typed
  <2>2. ran' \in [Drivers -> Seq(Nat)]
    <3> HIDE DEF n
    <3>1. ran' = [ran EXCEPT ![d] = Append(ran[d], n)]
      BY <1>1, <1>2 DEF Typed
    <3>2. QED
      BY <1>2, <1>22, <3>1 DEF Typed
  <2>3. QED
    BY <1>1, <1>2, <1>19, <1>21, <2>1, <2>2 DEF Typed
<1>24. Ticking(d)'
  BY <1>1, <1>3, <1>16, <1>18, <1>19 DEF Ticking, HasJob
<1>25. InTurn(d)'
  <2>1. ran'[d] = [k \in 1..Len(ran'[d]) |-> k] /\ Len(ran'[d]) + 1 = n + 1
    BY <1>8, <1>15, <1>22
  <2> HIDE DEF rest, n
  <2>2. \E l \in [1..N -> 1..N] :
          /\ Covers(job'[d].q, Len(ran'[d]) + 1, N, l)
          /\ \A i \in 1..N : Covers(Scripts[name].stage[i].next, i + 1, l[i], l)
    BY <1>6, <1>10, <1>16, <2>1
  <2>3. QED
    BY <1>16, <2>1, <2>2 DEF InTurn
<1>26. Finishes(d)'
  <2>1. PICK l \in Nat : l = Len(ran[d])
    BY <1>7
  <2>2. Len(ran'[d]) = l + 1 /\ ran'[d] # <<>>
    <3>1. Len(ran'[d]) = l + 1 /\ ran'[d] \in Seq(Nat)
      BY <1>15, <1>22, <2>1
    <3>2. Len(ran'[d]) # 0
      BY <2>1, <3>1
    <3>3. QED
      BY <3>1, <3>2, EmptySeq
  <2>3. ran[d] = [k \in 1..l |-> k] /\ ran'[d] = [k \in 1..(l + 1) |-> k]
    BY <1>2, <1>15, <1>22, <2>1 DEF InTurn
  <2>4. Gives(d, l + 1)' <=> st.verdict
    <3>1. ran'[d][l + 1] = n
      BY <1>8, <2>1, <2>3
    <3>2. QED
      BY <1>16, <3>1 DEF Gives
  <2>5. ASSUME NEW k \in 1..l PROVE ~Gives(d, k)'
    <3>1. ran'[d][k] = ran[d][k]
      BY <2>1, <2>3, <2>5
    <3>2. ~Gives(d, k)
      <4>1. CASE k = l
        <5>1. l # 0
          BY <2>1, <2>5
        <5>2. ran[d] # <<>>
          BY <1>7, <2>1, <5>1, EmptySeq
        <5>3. QED
          BY <1>2, <1>3, <2>1, <4>1, <5>2 DEF Finishes
      <4>2. CASE k # l
        <5>1. k \in 1..(l - 1)
          BY <2>1, <2>5, <4>2
        <5>2. QED
          BY <1>2, <1>3, <2>1, <5>1 DEF Finishes
      <4>3. QED
        BY <4>1, <4>2
    <3>3. QED
      BY <1>16, <3>1, <3>2 DEF Gives
  <2>6. answer'[d] # "VERDICT"
    BY <1>1, <1>2, <1>3 DEF Finishes
  <2>7. f <=> st.verdict
    BY <1>3, <1>12
  <2>8. \A k \in 1..(Len(ran'[d]) - 1) : ~Gives(d, k)'
    <3>1. Len(ran'[d]) - 1 = l
      BY <2>1, <2>2
    <3>2. QED
      BY <2>5, <3>1
  <2>9. /\ ~job'[d].finished => ~Gives(d, Len(ran[d]))'
        /\ job'[d].finished => Gives(d, Len(ran[d]))'
    <3>1. job'[d].finished <=> st.verdict
      BY <1>16, <2>7
    <3>2. Gives(d, Len(ran[d]))' <=> Gives(d, l + 1)'
      BY <2>2 DEF Gives
    <3>4. Gives(d, Len(ran[d]))' <=> st.verdict
      BY <2>4, <3>2
    <3>3. QED
      BY <3>1, <3>4
  <2>10. QED
    BY <2>2, <2>6, <2>8, <2>9 DEF Finishes
<1>27. ASSUME NEW e \in Drivers, e # d PROVE (Ticking(e) /\ InTurn(e) /\ Finishes(e))'
  <2>1. on'[e] = on[e] /\ answer'[e] = answer[e] /\ job'[e] = job[e] /\ ran'[e] = ran[e]
    BY <1>1, <1>15, <1>27
  <2>2. tick'.driver # e
    BY <1>19, <1>27
  <2>3. QED
    BY <2>1, <2>2, OthersWalk DEF Inv, Walks
<1>28. Walks'
  BY <1>24, <1>25, <1>26, <1>27 DEF Walks
<1>29. Owned'
  <2> SUFFICES ASSUME dev'.submitted PROVE \E e \in Drivers : pending(e)' \/ parked'[e] > 0
    BY DEF Owned
  <2>0. HasJob(d)'
    BY <1>3, <1>16 DEF HasJob
  <2>1. CASE st.submit
    <3>1. pending(d)'
      BY <1>11, <1>16, <2>0, <2>1 DEF pending
    <3>2. QED
      BY <3>1
  <2>2. CASE ~st.submit
    <3>1. dev.submitted /\ ~(st.touch /\ job[d].pending)
      BY <1>20, <1>21, <2>2
    <3>2. PICK e \in Drivers : pending(e) \/ parked[e] > 0
      BY <3>1 DEF Owned
    <3>3. CASE e = d
      <4>1. pending(d) => pending(d)'
        BY <1>11, <1>16, <2>0, <3>1 DEF pending
      <4>2. QED
        BY <1>1, <3>2, <3>3, <4>1
    <3>4. CASE e # d
      BY <1>1, <1>15, <3>2, <3>4 DEF pending, HasJob
    <3>5. QED
      BY <3>3, <3>4
  <2>3. QED
    BY <2>1, <2>2
<1>30. dev'.recordedBusy => dev.recordedBusy \/ (dev.submitted /\ ~pending(d))
  BY <1>9, <1>20, <1>21 DEF pending
<1>31. QED
  BY <1>23, <1>28, <1>29, <1>30 DEF Inv

\* The tick ends: a queue run empty with nothing in flight finishes the job, and
\* a finished job with nothing in flight is answered.
LEMMA TickEndWalks ==
  ASSUME Inv, Owned, NEW d \in Drivers, TickEnd(d)
  PROVE  Inv' /\ Owned'
<1> DEFINE name == job[d].script
           finished == job[d].finished \/ (job[d].q = <<>> /\ ~job[d].pending)
           over == Answers(finished, job[d].pending)
           a == IF over THEN "VERDICT" ELSE "RUNNING"
<1>1. /\ tick.driver = d
      /\ job' = [job EXCEPT ![d].finished = finished]
      /\ answer' = [answer EXCEPT ![d] = a]
      /\ on' = [on EXCEPT ![d] = ~over]
      /\ tick' = Idle
      /\ parked' = parked /\ dev' = dev /\ ran' = ran
  BY DEF TickEnd
<1>2. Typed /\ Ticking(d) /\ InTurn(d) /\ Finishes(d)
  BY DEF Inv, Walks
<1>3. name \in DOMAIN Scripts /\ job[d] \in JobOf(name) /\ HasJob(d) /\ on[d]
  <2>1. job[d] \in AnyJob
    BY <1>2 DEF Typed
  <2>2. HasJob(d) /\ on[d]
    BY <1>1, <1>2 DEF Ticking
  <2>3. QED
    BY <2>1, <2>2, JobTypes DEF HasJob
<1>4. PICK f \in BOOLEAN : f <=> finished
  OBVIOUS
<1>5. /\ job' = [job EXCEPT ![d] = [job[d] EXCEPT !.finished = f]]
      /\ [job[d] EXCEPT !.finished = f] \in JobOf(name)
      /\ [job[d] EXCEPT !.finished = f].q = job[d].q
      /\ [job[d] EXCEPT !.finished = f].pending = job[d].pending
      /\ [job[d] EXCEPT !.finished = f].script = name
      /\ [job[d] EXCEPT !.finished = f].finished = f
  <2>1. job[d].finished \in BOOLEAN
    BY <1>3 DEF JobOf
  <2>2. finished = f
    BY <1>4, <2>1
  <2>3. job' = [job EXCEPT ![d] = [job[d] EXCEPT !.finished = f]]
    BY <1>1, <2>2
  <2>4. QED
    BY <1>3, <2>3 DEF JobOf
<1>6. /\ job'[d] = [job[d] EXCEPT !.finished = f]
      /\ \A e \in Drivers : e # d => job'[e] = job[e]
  BY <1>2, <1>5 DEF Typed
<1>7. a \in Answered /\ (~over) \in BOOLEAN
  BY DEF Answered
<1>8. Typed'
  <2>1. job' \in [Drivers -> AnyJob]
    <3>1. [job[d] EXCEPT !.finished = f] \in AnyJob
      BY <1>3, <1>5 DEF AnyJob
    <3>2. QED
      BY <1>2, <1>5, <3>1 DEF Typed
  <2>2. tick' \in [driver : Drivers \cup {"none"}, stages : 0..MaxStages, more : BOOLEAN]
    <3>1. 0 \in 0..MaxStages
      BY ScriptsAssumption
    <3>2. QED
      BY <1>1, <3>1 DEF Idle
  <2> HIDE DEF over, a
  <2>3. on' \in [Drivers -> BOOLEAN] /\ answer' \in [Drivers -> Answered]
    BY <1>1, <1>2, <1>7 DEF Typed
  <2>4. QED
    BY <1>1, <1>2, <2>1, <2>2, <2>3 DEF Typed
<1>9. tick'.driver \notin Drivers
  BY <1>1, ScriptsAssumption DEF Idle
<1>10. Ticking(d)' /\ InTurn(d)' /\ Finishes(d)'
  <2>1. /\ job'[d].script = job[d].script /\ job'[d].q = job[d].q
        /\ job'[d].finished = f /\ job'[d].pending = job[d].pending
    BY <1>5, <1>6
  <2>2. Ticking(d)'
    BY <1>9 DEF Ticking
  <2>3. InTurn(d)'
    BY <1>1, <1>2, <2>1 DEF InTurn, HasJob
  <2>4. answer'[d] = "VERDICT" => f /\ ~job[d].pending /\ ~on'[d]
    <3>1. answer'[d] = a /\ on'[d] <=> ~over
      <4> HIDE DEF over, a
      <4>1. QED
        BY <1>1, <1>2 DEF Typed
    <3>2. answer'[d] = "VERDICT" => over
      <4>1. answer'[d] = a
        <5> HIDE DEF over, a
        <5>1. QED
          BY <1>1, <1>2 DEF Typed
      <4>2. QED
        BY <4>1
    <3>3. on'[d] <=> ~over
      <4> HIDE DEF over, a
      <4>1. QED
        BY <1>1, <1>2 DEF Typed
    <3>4. QED
      BY <1>4, <3>2, <3>3 DEF Answers
  <2>5. Finishes(d)'
    <3>1. ran' = ran /\ (job[d].finished => f) /\ (f => job[d].finished \/ job[d].q = <<>>)
      BY <1>1, <1>4
    <3>2. QED
      BY <1>2, <1>3, <2>1, <2>4, <3>1 DEF Finishes, HasJob, Gives
  <2>6. QED
    BY <2>2, <2>3, <2>5
<1>11. ASSUME NEW e \in Drivers, e # d PROVE (Ticking(e) /\ InTurn(e) /\ Finishes(e))'
  <2>1. on'[e] = on[e] /\ answer'[e] = answer[e] /\ job'[e] = job[e] /\ ran'[e] = ran[e]
    <3> HIDE DEF over, a
    <3>1. QED
      BY <1>1, <1>2, <1>6, <1>11 DEF Typed
  <2>2. QED
    BY <1>9, <2>1, OthersWalk DEF Inv, Walks
<1>12. Walks'
  BY <1>10, <1>11 DEF Walks
<1>13. Owned'
  <2>1. \A e \in Drivers : job'[e].script = job[e].script /\ job'[e].pending = job[e].pending
    BY <1>5, <1>6
  <2>2. QED
    BY <1>1, <2>1 DEF Owned, pending, HasJob
<1>14. QED
  BY <1>8, <1>12, <1>13 DEF Inv

\* Nothing is left of any job, nor of any submit.
LEMMA RdCloseWalks ==
  ASSUME Inv, Owned, RdClose
  PROVE  Inv' /\ Owned' /\ (dev'.recordedBusy <=> dev.recordedBusy)
<1> DEFINE v == IF \E d \in Drivers : parked[d] > 0 THEN DevSync(dev) ELSE dev
<1>1. /\ tick = Idle /\ tick' = tick /\ on' = on
      /\ job' = [d \in Drivers |-> NoJob] /\ parked' = [d \in Drivers |-> 0]
      /\ dev' = [v EXCEPT !.submitted = FALSE]
      /\ ran' = [d \in Drivers |-> <<>>] /\ answer' = [d \in Drivers |-> "CLOSED"]
  BY DEF RdClose
<1>2. Typed
  BY DEF Inv
<1>3. v \in DeviceType /\ (v.recordedBusy <=> dev.recordedBusy)
  <2>1. dev \in DeviceType
    BY <1>2 DEF Typed
  <2>2. DevSync(dev).recordedBusy <=> dev.recordedBusy
    BY <2>1 DEF DevSync, DeviceType
  <2>3. QED
    BY <2>1, <2>2, SyncTypes
<1> HIDE DEF v
<1>4. dev' \in DeviceType /\ ~dev'.submitted /\ (dev'.recordedBusy <=> dev.recordedBusy)
  BY <1>1, <1>3 DEF DeviceType
<1>5. Typed'
  <2>1. "CLOSED" \in Answered /\ NoJob \in AnyJob /\ <<>> \in Seq(Nat)
    BY EmptySeq DEF Answered, AnyJob
  <2>2. QED
    BY <1>1, <1>2, <1>4, <2>1 DEF Typed
<1>6. ASSUME NEW d \in Drivers PROVE (Ticking(d) /\ InTurn(d) /\ Finishes(d))'
  <2>1. tick'.driver # d
    BY <1>1, ScriptsAssumption DEF Idle
  <2>2. job'[d].script = "none" /\ ran'[d] = <<>>
    BY <1>1 DEF NoJob
  <2>3. <<>> = [k \in 1..Len(<<>>) |-> k]
    OBVIOUS
  <2>4. QED
    BY <2>1, <2>2, <2>3 DEF Ticking, InTurn, Finishes, HasJob
<1>7. Walks' /\ Owned'
  BY <1>4, <1>6 DEF Walks, Owned
<1>8. QED
  BY <1>4, <1>5, <1>7 DEF Inv

\* A frame changes no job.
LEMMA FrameWalks ==
  ASSUME Inv, Owned, NextFrame
  PROVE  Inv' /\ Owned' /\ (dev'.recordedBusy <=> dev.recordedBusy)
<1>1. /\ dev' = [dev EXCEPT !.fresh = FALSE]
      /\ job' = job /\ parked' = parked /\ tick' = tick /\ on' = on /\ ran' = ran /\ answer' = answer
  BY DEF NextFrame
<1>2. Typed
  BY DEF Inv
<1>3. dev' \in DeviceType /\ (dev'.submitted <=> dev.submitted) /\ (dev'.recordedBusy <=> dev.recordedBusy)
  BY <1>1, <1>2 DEF Typed, DeviceType
<1>4. Typed'
  BY <1>1, <1>2, <1>3 DEF Typed
<1>5. Walks'
  BY <1>1, OthersWalk DEF Inv, Walks
<1>6. Owned'
  BY <1>1, <1>3 DEF Owned, pending, HasJob
<1>7. QED
  BY <1>3, <1>4, <1>5, <1>6 DEF Inv

LEMMA StepWalks == Inv /\ Owned /\ [Next]_vars => Inv' /\ Owned'
<1> SUFFICES ASSUME Inv, Owned, [Next]_vars PROVE Inv' /\ Owned'
  OBVIOUS
<1>1. ASSUME NEW d \in Drivers, TickNoJob(d) \/ Tick(d) \/ RunStage(d) \/ TickEnd(d)
      PROVE  Inv' /\ Owned'
  BY <1>1, TickNoJobWalks, TickWalks, RunStageWalks, TickEndWalks
<1>2. CASE UNCHANGED vars
  <2>1. Typed'
    BY <1>2 DEF vars, Inv, Typed
  <2>2. Walks'
    BY <1>2, OthersWalk DEF vars, Inv, Walks
  <2>3. Owned'
    BY <1>2 DEF vars, Owned, pending, HasJob
  <2>4. QED
    BY <2>1, <2>2, <2>3 DEF Inv
<1>3. QED
  BY <1>1, <1>2, JobStartWalks, RdCloseWalks, FrameWalks DEF Next, HostTick

\* The inductive invariant of the jobs, whatever the drivers and the scripts.
THEOREM JobsInvariance == Spec => [](Inv /\ Owned)
<1>1. Inv /\ Owned /\ [Next]_vars => (Inv /\ Owned)'
  BY StepWalks
<1>2. QED
  BY <1>1, InitWalks, PTL DEF Spec

\* The types of the job slots, the parked jobs, the tick and the answers, whatever
\* the host starts, ticks, replaces and closes (jobs.h, main.cpp's entry points).
THEOREM JobsAreTyped == Spec => []TypeOK
<1>1. Inv => TypeOK
  <2> SUFFICES ASSUME Inv PROVE TypeOK
    OBVIOUS
  <2>1. Typed
    BY DEF Inv
  <2>2. ASSUME NEW d \in Drivers, HasJob(d)
        PROVE  /\ job[d].script \in DOMAIN Scripts
               /\ job[d].q \in Seq(DOMAIN Scripts[job[d].script].stage)
               /\ job[d].pending \in BOOLEAN /\ job[d].finished \in BOOLEAN
    <3>1. job[d] \in AnyJob
      BY <2>1 DEF Typed
    <3>2. job[d].script \in DOMAIN Scripts /\ job[d] \in JobOf(job[d].script)
      BY <2>2, <3>1, JobTypes DEF HasJob
    <3>3. QED
      BY <3>2 DEF JobOf
  <2>3. QED
    BY <2>1, <2>2 DEF Typed, TypeOK, Answered
<1>2. QED
  BY <1>1, JobsInvariance, PTL

\* The stages of every job run in the order its script numbers them, nothing runs
\* after the stage that gave the verdict, no verdict is answered with a submit in
\* flight, and a job answered without one ran every stage (jobs.h 13-16, 70-74).
THEOREM ScriptsRunInOrder == Spec => []VerdictOfTheScript
<1>1. Inv => VerdictOfTheScript
  <2> SUFFICES ASSUME Inv, NEW d \in Drivers
               PROVE  /\ ran[d] = [k \in 1..Len(ran[d]) |-> k]
                      /\ HasJob(d) /\ answer[d] = "VERDICT" =>
                           /\ ~pending(d)
                           /\ IF \E k \in 1..Len(ran[d]) : Gives(d, k)
                              THEN \A k \in 1..(Len(ran[d]) - 1) : ~Gives(d, k)
                              ELSE {ran[d][k] : k \in 1..Len(ran[d])} = DOMAIN Scripts[job[d].script].stage
    BY DEF VerdictOfTheScript, RunsInOrder, VerdictIsFinal, Gives
  <2>1. Typed /\ InTurn(d) /\ Finishes(d)
    BY DEF Inv, Walks
  <2>2. ran[d] = [k \in 1..Len(ran[d]) |-> k]
    BY <2>1 DEF InTurn
  <2>3. ASSUME HasJob(d), answer[d] = "VERDICT"
        PROVE  /\ ~pending(d) /\ job[d].finished
               /\ \A k \in 1..(Len(ran[d]) - 1) : ~Gives(d, k)
    BY <2>1, <2>3 DEF Finishes, pending
  <2>4. ASSUME HasJob(d), answer[d] = "VERDICT", ~\E k \in 1..Len(ran[d]) : Gives(d, k)
        PROVE  {ran[d][k] : k \in 1..Len(ran[d])} = DOMAIN Scripts[job[d].script].stage
    <3> DEFINE N == Len(Scripts[job[d].script].stage)
    <3>1. job[d] \in AnyJob /\ ran[d] \in Seq(Nat)
      BY <2>1 DEF Typed
    <3>2. job[d].script \in DOMAIN Scripts
      BY <2>4, <3>1, JobTypes DEF HasJob
    <3>3. N \in Nat /\ DOMAIN Scripts[job[d].script].stage = 1..N
      BY <3>2, StageTypes
    <3>4. job[d].q = <<>>
      <4>1. job[d].q = <<>> \/ (ran[d] # <<>> /\ Gives(d, Len(ran[d])))
        BY <2>1, <2>4 DEF Finishes
      <4>2. ran[d] # <<>> => Len(ran[d]) \in 1..Len(ran[d])
        BY <3>1, EmptySeq
      <4>3. QED
        BY <2>4, <4>1, <4>2
    <3>5. \E last \in [1..N -> 1..N] : Covers(job[d].q, Len(ran[d]) + 1, N, last)
      BY <2>1, <2>4 DEF InTurn
    <3>6. N = (Len(ran[d]) + 1) - 1
      BY <3>4, <3>5 DEF Covers
    <3>7. N = Len(ran[d])
      BY <3>1, <3>6, LenProperties
    <3> HIDE DEF N
    <3>8. {ran[d][k] : k \in 1..Len(ran[d])} = 1..N
      BY <2>2, <3>7
    <3>9. QED
      BY <3>3, <3>8
  <2>5. QED
    BY <2>2, <2>3, <2>4
<1>2. QED
  BY <1>1, JobsInvariance, PTL

\* A step of SubmitsAreOwned: no submit is recorded over but one that was parked, and
\* none is left without an owner.
OwnsStep ==
  /\ dev'.recordedBusy => dev.recordedBusy \/ \E d \in Drivers : parked[d] > 0
  /\ dev'.submitted => \E d \in Drivers : pending(d)' \/ parked'[d] > 0

\* With one driver on the device (main.cpp 141-147): a submit in flight always has
\* a job or a parked job that will sync it, and the only submit a stage records
\* over is that of a parked job.
THEOREM OneDriverOwnsItsSubmits ==
  ASSUME NEW g, Drivers = {g}
  PROVE  Spec => SubmitsAreOwned
<1>1. Inv /\ Owned /\ [Next]_vars => [OwnsStep]_vars
  <2> SUFFICES ASSUME Inv, Owned, Next
               PROVE  /\ dev'.recordedBusy => dev.recordedBusy \/ \E d \in Drivers : parked[d] > 0
                      /\ dev'.submitted => \E d \in Drivers : pending(d)' \/ parked'[d] > 0
    BY DEF OwnsStep
  <2>1. dev'.submitted => \E d \in Drivers : pending(d)' \/ parked'[d] > 0
    BY StepWalks DEF Owned
  <2>2. dev'.recordedBusy => dev.recordedBusy \/ (dev.submitted /\ ~pending(g))
    <3>1. Typed
      BY DEF Inv
    <3>2. DevAfterFree(g) \in DeviceType /\ (DevAfterFree(g).recordedBusy <=> dev.recordedBusy)
      BY <3>1, FreeTypes
    <3>3. DevSync(DevAfterFree(g)).recordedBusy <=> dev.recordedBusy
      BY <3>2 DEF DevSync, DeviceType
    <3>4. ASSUME NEW s \in Outcomes, JobStart(g, s) PROVE dev'.recordedBusy <=> dev.recordedBusy
      BY <3>2, <3>4 DEF JobStart, Started
    <3>5. CASE TickNoJob(g)
      BY <3>2, <3>5 DEF TickNoJob
    <3>6. CASE Tick(g)
      BY <3>2, <3>3, <3>6 DEF Tick
    <3>7. CASE RunStage(g)
      BY <3>7, RunStageWalks
    <3>8. CASE TickEnd(g)
      BY <3>8 DEF TickEnd
    <3>9. QED
      BY <3>4, <3>5, <3>6, <3>7, <3>8, RdCloseWalks, FrameWalks DEF Next, HostTick
  <2>3. dev.submitted /\ ~pending(g) => \E d \in Drivers : parked[d] > 0
    BY DEF Owned
  <2>4. QED
    BY <2>1, <2>2, <2>3
<1>2. Spec => [][OwnsStep]_vars
  BY <1>1, JobsInvariance, PTL DEF Spec
<1>3. QED
  BY <1>2 DEF SubmitsAreOwned, OwnsStep
=============================================================================

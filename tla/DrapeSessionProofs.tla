------------------------- MODULE DrapeSessionProofs -------------------------
(***************************************************************************)
(* Proofs about DrapeSession, for every configuration, every length of the *)
(* operations and every stage cap: that it implements DrapeQueue, and its  *)
(* safety properties, from one inductive invariant that says how the head  *)
(* of the queue, the sim and the counters of the operation go together.    *)
(***************************************************************************)
EXTENDS DrapeSession, SequenceTheorems, TLAPS

Phases == {"Idle", "Solved", "Scanned"}
SimT == [phase : Phases, failed : BOOLEAN, steps : Nat, pass : Nat, grav : Int,
         nFit : BOOLEAN, settle : Nat, fitActive : BOOLEAN,
         settling : BOOLEAN, fitSteps : Nat, pull : BOOLEAN, age : Nat]
OpT == [remaining : Nat, asked : 0..MaxSteps, from : Nat, converged : BOOLEAN,
        fitDone : Nat, settleDone : Nat, saved : Int]
DevT == [pending : BOOLEAN, fresh : BOOLEAN, sameFrameSync : BOOLEAN]
ResT == [op : {"none", "forward", "fit", "backward"}, ok : BOOLEAN, clean : BOOLEAN,
         asked : Nat, done : Int]
SceneT == [name : {"none", "mesh", "sphere"}, set : BOOLEAN, nFit : BOOLEAN, settle : Nat]
BwdT == [on : BOOLEAN, n : Nat, idx : Nat]

Queued == [fn : {"enqueueForward", "enqueueFit"}, n : 1..MaxSteps]
            \cup [fn : {"enqueueBackward"}, n : {0}]
StageNames == {"forwardStage", "fitStage", "backwardStage"}
Staged == [fn : StageNames, n : {0}]

\* A stage that continues is only ever the head of the queue.
QueueOK(w) == w \in Seq(Queued \cup Staged) /\ \A k \in 2..Len(w) : w[k] \in Queued
HeadIs(w, fn) == w # <<>> /\ w[1].fn = fn
At(fn) == HeadIs(q, fn)

\* A sim between passes has one left.
PassOK(s) == s.pass <= SelfPasses /\ (s.phase = "Scanned" => s.pass < SelfPasses)

\* The types of what the host sees, and of what the stages work on; without a
\* session nothing is queued or in flight.
HostTypes ==
  /\ cfg \in Gravities /\ dirty \in BOOLEAN /\ sess \in BOOLEAN
  /\ scene \in SceneT
  /\ tick \in [in : BOOLEAN, stages : 0..MaxStages, more : BOOLEAN]
  /\ ticked \in BOOLEAN /\ on \in BOOLEAN
  /\ ~sess => q = <<>> /\ ~dev.pending

StageTypes ==
  /\ sim \in SimT /\ PassOK(sim) /\ op \in OpT /\ dev \in DevT /\ res \in ResT
  /\ bwd \in BwdT /\ bwd.idx <= bwd.n
  /\ QueueOK(q)

\* What the head of the queue says of the sim: which operation is under way, that
\* it is neither over nor failed, and that between two of them no step is.
UnderWay ==
  /\ sim.fitActive <=> At("fitStage")
  /\ bwd.on <=> At("backwardStage")
  /\ At("forwardStage") \/ At("fitStage") => op.remaining > 0 /\ ~sim.failed
  /\ ~At("forwardStage") /\ ~At("fitStage") => sim.phase = "Idle" \/ sim.failed

\* The counters: what a forward and a backward have done and have left.
Counters ==
  /\ At("forwardStage") => sim.steps + op.remaining = op.from + op.asked
  /\ At("backwardStage") => sim.phase = "Idle" /\ sim.steps = bwd.n /\ bwd.idx > 0

\* The fit's counters, and those of the last fit that ended DONE.
FitCounters ==
  /\ At("fitStage") => /\ sim.steps = op.from + op.fitDone + op.settleDone
                       /\ sim.settling => op.settleDone + op.remaining = sim.settle
                       /\ ~sim.settling => op.settleDone = 0
                       /\ op.converged => sim.settling \/ sim.settle = 0
  /\ ~At("fitStage") /\ res.op = "fit" /\ res.ok =>
       op.settleDone = sim.settle /\ res.done = op.fitDone + op.settleDone

\* What the fit borrows: the pull while it settles.
Pull ==
  /\ sim.settling => sim.fitActive
  /\ sim.pull <=> ~sim.settling

Gravity == IF sim.fitActive THEN sim.grav = 0 /\ op.saved = cfg ELSE sim.grav = cfg

\* An operation under way, and what it rests on.
Working ==
  /\ UnderWay /\ Counters /\ FitCounters /\ Pull
  /\ ~LiveConfig => Gravity

Inv == HostTypes /\ StageTypes /\ OwnSteps /\ (sess => Working)
-----------------------------------------------------------------------------
(* The solver's steps.                                                     *)

LEMMA TouchTypes ==
  ASSUME NEW d \in DevT
  PROVE  /\ Touch(d) \in DevT /\ ~Touch(d).pending /\ Touch(d).fresh = d.fresh
         /\ ~d.fresh => Touch(d).sameFrameSync = d.sameFrameSync
  BY DEF Touch, DevT

LEMMA SubmitTypes ==
  ASSUME NEW d \in DevT, NEW out \in RunOutcomes
  PROVE  /\ Submit(d, out) \in DevT
         /\ ~d.fresh => /\ Submit(d, out).sameFrameSync = d.sameFrameSync
                        /\ Submit(d, out).fresh => /\ Submit(d, out).pending
                                                   /\ out \in {"submitted", "failedInFlight"}
  BY TouchTypes DEF Submit, DevT

\* What one phase of a step does to the sim: nothing but its own counters.
Kept(s, t) ==
  /\ t.grav = s.grav /\ t.nFit = s.nFit /\ t.settle = s.settle
  /\ t.fitActive = s.fitActive /\ t.settling = s.settling /\ t.pull = s.pull

Advanced(s, t, done) ==
  /\ t \in SimT /\ done \in BOOLEAN /\ Kept(s, t) /\ PassOK(t)
  /\ done => /\ s.phase # "Idle" /\ t.phase = "Idle" /\ t.steps = s.steps + 1
             /\ t.fitSteps = IF s.fitActive THEN s.fitSteps + 1 ELSE s.fitSteps
             /\ t.age = IF s.fitActive THEN s.age + 1 ELSE s.age
  /\ ~done => /\ t.phase # "Idle" /\ t.steps = s.steps /\ t.fitSteps = s.fitSteps
              /\ t.age = IF s.phase = "Idle" /\ RefreshesNow(s) THEN 0 ELSE s.age

LEMMA ScanAdvances ==
  ASSUME NEW s \in SimT, NEW d \in DevT, s.pass < SelfPasses, s.phase # "Idle", NEW a \in Scan(s, d)
  PROVE  Advanced(s, a.sim, a.done) /\ a.dev \in DevT /\ ~a.done
<1>1. PICK out \in Runs :
        a = [sim |-> [s EXCEPT !.phase = "Scanned", !.failed = @ \/ Fails(out)],
             dev |-> Submit(d, out), done |-> FALSE]
  BY DEF Scan
<1> DEFINE f == s.failed \/ Fails(out)
<1>2. f \in BOOLEAN
  BY DEF Fails
<1>3. a.sim = [s EXCEPT !.phase = "Scanned", !.failed = f] /\ a.dev = Submit(d, out) /\ a.done = FALSE
  BY <1>1
<1>4. Submit(d, out) \in DevT
  BY SessionAssumption, SubmitTypes
<1> HIDE DEF f
<1>5. /\ a.sim \in SimT /\ Kept(s, a.sim) /\ a.sim.phase = "Scanned" /\ a.sim.pass = s.pass
      /\ a.sim.steps = s.steps /\ a.sim.fitSteps = s.fitSteps /\ a.sim.age = s.age
  BY <1>2, <1>3 DEF SimT, Phases, Kept
<1>6. s.pass \in Nat /\ SelfPasses \in Nat
  BY SessionAssumption DEF SimT
<1>7. PassOK(a.sim)
  BY <1>5, <1>6 DEF PassOK
<1>8. QED
  BY <1>3, <1>4, <1>5, <1>7 DEF Advanced

\* The updates of the sim, each as an operator of its own, and what they keep.
FinishedSim(s, m, n, g) == [s EXCEPT !.phase = "Idle", !.steps = m, !.fitSteps = n, !.age = g]
ReadSim(s, f) == [s EXCEPT !.failed = f, !.pass = 0]

LEMMA FinishedSimKeeps ==
  ASSUME NEW s \in SimT, NEW m \in Nat, NEW n \in Nat, NEW g \in Nat
  PROVE  LET t == FinishedSim(s, m, n, g) IN
         /\ t \in SimT /\ Kept(s, t) /\ t.phase = "Idle" /\ t.pass = s.pass /\ t.steps = m
         /\ t.failed = s.failed /\ t.fitSteps = n /\ t.age = g
<1>1. PICK t : t = FinishedSim(s, m, n, g)
  OBVIOUS
<1>2. t \in SimT /\ t.phase = "Idle" /\ t.pass = s.pass /\ t.steps = m
  BY <1>1 DEF FinishedSim, SimT, Phases
<1>3. t.failed = s.failed /\ t.fitSteps = n /\ t.age = g
  BY <1>1 DEF FinishedSim, SimT
<1>4. Kept(s, t)
  BY <1>1 DEF FinishedSim, SimT, Kept
<1>5. QED
  BY <1>1, <1>2, <1>3, <1>4

LEMMA ReadSimKeeps ==
  ASSUME NEW s \in SimT, NEW f \in BOOLEAN
  PROVE  LET t == ReadSim(s, f) IN
         /\ t \in SimT /\ Kept(s, t) /\ t.phase = s.phase /\ t.pass = 0 /\ t.failed = f
         /\ t.steps = s.steps /\ t.fitSteps = s.fitSteps /\ t.age = s.age
<1>1. PICK t : t = ReadSim(s, f)
  OBVIOUS
<1>2. t \in SimT /\ t.phase = s.phase /\ t.pass = 0 /\ t.failed = f
  BY <1>1 DEF ReadSim, SimT
<1>3. t.steps = s.steps /\ t.fitSteps = s.fitSteps /\ t.age = s.age
  BY <1>1 DEF ReadSim, SimT
<1>4. Kept(s, t)
  BY <1>1 DEF ReadSim, SimT, Kept
<1>5. QED
  BY <1>1, <1>2, <1>3, <1>4

LEMMA FinishedAdvances ==
  ASSUME NEW s \in SimT, NEW d \in DevT, s.pass <= SelfPasses, s.phase # "Idle"
  PROVE  LET a == Finished(s, d) IN
         Advanced(s, a.sim, a.done) /\ a.dev = d /\ a.done /\ a.sim.failed = s.failed
<1>1. PICK n : n = IF s.fitActive THEN s.fitSteps + 1 ELSE s.fitSteps
  OBVIOUS
<1>2. PICK g : g = IF s.fitActive THEN s.age + 1 ELSE s.age
  OBVIOUS
<1>3. PICK m : m = s.steps + 1
  OBVIOUS
<1>4. n \in Nat /\ g \in Nat /\ m \in Nat
  BY <1>1, <1>2, <1>3 DEF SimT
<1>5. PICK t : t = FinishedSim(s, m, n, g)
  OBVIOUS
<1>6. /\ t \in SimT /\ Kept(s, t) /\ t.phase = "Idle" /\ t.pass = s.pass /\ t.steps = m
      /\ t.failed = s.failed /\ t.fitSteps = n /\ t.age = g
  <2>1. LET u == FinishedSim(s, m, n, g) IN
        /\ u \in SimT /\ Kept(s, u) /\ u.phase = "Idle" /\ u.pass = s.pass /\ u.steps = m
        /\ u.failed = s.failed /\ u.fitSteps = n /\ u.age = g
    BY <1>4, FinishedSimKeeps
  <2>2. QED
    BY <1>5, <2>1
<1>7. FinishStep(s) = t
  BY <1>1, <1>2, <1>3, <1>5 DEF FinishStep, FinishedSim
<1>8. Finished(s, d).sim = t /\ Finished(s, d).dev = d /\ Finished(s, d).done = TRUE
  BY <1>7 DEF Finished
<1>9. PassOK(t)
  BY <1>6 DEF PassOK
<1>10. QED
  BY <1>1, <1>2, <1>3, <1>6, <1>8, <1>9 DEF Advanced

LEMMA Advances ==
  ASSUME NEW s \in SimT, NEW d \in DevT, PassOK(s), NEW a \in advance(s, d)
  PROVE  Advanced(s, a.sim, a.done) /\ a.dev \in DevT
<1>1. CASE s.phase = "Idle"
  <2>1. PICK out \in Runs :
          a = [sim |-> [s EXCEPT !.phase = "Solved", !.failed = Fails(out),
                                 !.age = IF RefreshesNow(s) THEN 0 ELSE @],
               dev |-> Submit(d, out), done |-> FALSE]
    BY <1>1 DEF advance, Begin
  <2> DEFINE t == [s EXCEPT !.phase = "Solved", !.failed = Fails(out),
                            !.age = IF RefreshesNow(s) THEN 0 ELSE @]
  <2>2. a.sim = t /\ a.dev = Submit(d, out) /\ a.done = FALSE
    BY <2>1
  <2>3. Submit(d, out) \in DevT
    BY SessionAssumption, SubmitTypes
  <2>4. Fails(out) \in BOOLEAN
    BY DEF Fails
  <2>5. /\ t \in SimT /\ Kept(s, t) /\ t.phase = "Solved" /\ t.pass = s.pass
        /\ t.steps = s.steps /\ t.fitSteps = s.fitSteps
        /\ t.age = IF RefreshesNow(s) THEN 0 ELSE s.age
    BY <2>4 DEF SimT, Phases, Kept
  <2> HIDE DEF t
  <2>6. PassOK(t)
    BY <2>5 DEF PassOK
  <2>7. QED
    BY <1>1, <2>2, <2>3, <2>5, <2>6 DEF Advanced
<1>2. CASE s.phase = "Solved"
  <2>1. PICK short \in Shorts :
          a \in LET t == ReadSim(s, short) IN
                IF SelfCollision THEN Scan(t, Touch(d)) ELSE {Finished(t, Touch(d))}
    BY <1>2 DEF advance, Solved, ReadSim
  <2>a. PICK t : t = ReadSim(s, short)
    OBVIOUS
  <2>2. /\ t \in SimT /\ t.phase = "Solved" /\ t.pass = 0 /\ Kept(s, t)
        /\ t.steps = s.steps /\ t.fitSteps = s.fitSteps /\ t.age = s.age
    <3>1. short \in BOOLEAN
      BY DEF Shorts
    <3>2. QED
      BY <1>2, <2>a, <3>1, ReadSimKeeps
  <2>3. Touch(d) \in DevT
    BY TouchTypes
  <2>4. a \in IF SelfCollision THEN Scan(t, Touch(d)) ELSE {Finished(t, Touch(d))}
    BY <2>1, <2>a
  <2>5. t.pass < SelfPasses /\ t.pass <= SelfPasses /\ t.phase # "Idle"
    BY <2>2, SessionAssumption
  <2>6. Advanced(t, a.sim, a.done) /\ a.dev \in DevT
    <3>1. CASE SelfCollision
      BY <2>2, <2>3, <2>4, <2>5, <3>1, ScanAdvances
    <3>2. CASE ~SelfCollision
      BY <2>2, <2>3, <2>4, <2>5, <3>2, FinishedAdvances
    <3>3. QED
      BY <3>1, <3>2
  <2>7. QED
    BY <1>2, <2>2, <2>6 DEF Advanced, Kept
<1>3. CASE s.phase = "Scanned"
  <2> DEFINE t == [s EXCEPT !.pass = @ + 1]
  <2>1. /\ t \in SimT /\ t.phase = "Scanned" /\ t.pass = s.pass + 1 /\ Kept(s, t)
        /\ t.steps = s.steps /\ t.fitSteps = s.fitSteps /\ t.age = s.age
    BY <1>3 DEF SimT, Kept
  <2>2. a = Finished(t, Touch(d)) \/ (t.pass < SelfPasses /\ a \in Scan(t, Touch(d)))
    BY <1>3 DEF advance, Scanned, MorePasses
  <2> HIDE DEF t
  <2>3. t.pass <= SelfPasses
    <3>1. s.pass < SelfPasses /\ s.pass \in Nat /\ SelfPasses \in Nat
      BY <1>3, SessionAssumption DEF PassOK, SimT
    <3>2. QED
      BY <2>1, <3>1
  <2>4. Touch(d) \in DevT
    BY TouchTypes
  <2>5. Advanced(t, a.sim, a.done) /\ a.dev \in DevT
    BY <2>1, <2>2, <2>3, <2>4, FinishedAdvances, ScanAdvances
  <2>6. QED
    BY <1>3, <2>1, <2>5 DEF Advanced, Kept
<1>4. QED
  BY <1>1, <1>2, <1>3 DEF SimT, Phases

-----------------------------------------------------------------------------
(* The forward's stages.                                                   *)

CountedOp(o, r) == [o EXCEPT !.remaining = r]

SameCounts(o, p) ==
  /\ p.asked = o.asked /\ p.from = o.from /\ p.converged = o.converged
  /\ p.fitDone = o.fitDone /\ p.settleDone = o.settleDone /\ p.saved = o.saved

LEMMA CountedOpKeeps ==
  ASSUME NEW o \in OpT, NEW r \in Nat
  PROVE  LET p == CountedOp(o, r) IN p \in OpT /\ SameCounts(o, p) /\ p.remaining = r
<1>1. PICK p : p = CountedOp(o, r)
  OBVIOUS
<1>2. p \in OpT /\ p.remaining = r
  BY <1>1 DEF CountedOp, OpT
<1>3. SameCounts(o, p)
  BY <1>1 DEF CountedOp, OpT, SameCounts
<1>4. QED
  BY <1>1, <1>2, <1>3

\* What a verdict says of the sim it is given on.
LEMMA Verdicts ==
  ASSUME NEW name \in {"forward", "fit"}, NEW s \in SimT, NEW o \in OpT, NEW enough \in BOOLEAN,
         Verdict(name, s, o, enough)
  PROVE  /\ res' \in ResT /\ res'.op = name
         /\ res'.asked = o.asked /\ res'.done = s.steps - o.from
         /\ res'.ok => ~s.failed
         /\ res'.clean => ~s.failed /\ (enough => res'.ok)
<1>1. PICK fin \in BOOLEAN :
        res' = [op |-> name, ok |-> ~s.failed /\ fin /\ enough, clean |-> ~s.failed /\ fin,
                asked |-> o.asked, done |-> s.steps - o.from]
  BY DEF Verdict
<1>2. o.asked \in Nat /\ s.steps - o.from \in Int /\ s.failed \in BOOLEAN
  BY DEF OpT, SimT
<1>3. PICK d \in Int : d = s.steps - o.from
  BY <1>2
<1>4. res' = [op |-> name, ok |-> ~s.failed /\ fin /\ enough, clean |-> ~s.failed /\ fin,
              asked |-> o.asked, done |-> d]
  BY <1>1, <1>3
<1>5. res' \in ResT
  BY <1>2, <1>4 DEF ResT
<1>6. QED
  BY <1>2, <1>3, <1>4, <1>5

\* A stage of a forward that has steps left, or of one that starts on a sim that
\* failed before it.
LEMMA ForwardStages ==
  ASSUME q # <<>>, dev \in DevT, NEW s \in SimT, NEW o \in OpT, PassOK(s), o.remaining > 0,
         s.steps + o.remaining = o.from + o.asked, ForwardStage(s, o)
  PROVE  /\ sim' \in SimT /\ Kept(s, sim') /\ PassOK(sim') /\ dev' \in DevT
         /\ op' \in OpT /\ SameCounts(o, op')
         /\ \/ /\ Again("forwardStage") /\ UNCHANGED res
               /\ op'.remaining > 0 /\ ~sim'.failed
               /\ sim'.steps + op'.remaining = op'.from + op'.asked
            \/ /\ Pop /\ res' \in ResT /\ res'.op = "forward"
               /\ res'.clean => res'.ok /\ res'.done = res'.asked
               /\ sim'.phase = "Idle" \/ sim'.failed
<1>1. PICK a \in IF o.remaining > 0 /\ ~s.failed THEN advance(s, dev)
                  ELSE {[sim |-> s, dev |-> dev, done |-> FALSE]} :
        LET p == [o EXCEPT !.remaining = IF a.done THEN @ - 1 ELSE @] IN
        /\ sim' = a.sim /\ dev' = a.dev /\ op' = p
        /\ IF Continues(a.sim, p)
           THEN Again("forwardStage") /\ UNCHANGED res
           ELSE Pop /\ Verdict("forward", a.sim, p, a.sim.steps - p.from = p.asked)
  BY DEF ForwardStage
<1>2. PICK r : r = IF a.done THEN o.remaining - 1 ELSE o.remaining
  OBVIOUS
<1>3. o.remaining \in Nat /\ r \in Nat /\ s.steps \in Nat /\ o.from \in Nat /\ o.asked \in Nat
  BY <1>2 DEF OpT, SimT
<1>4. PICK p : p = CountedOp(o, r)
  OBVIOUS
<1>5. /\ sim' = a.sim /\ dev' = a.dev /\ op' = p
      /\ IF Continues(a.sim, p)
         THEN Again("forwardStage") /\ UNCHANGED res
         ELSE Pop /\ Verdict("forward", a.sim, p, a.sim.steps - p.from = p.asked)
  BY <1>1, <1>2, <1>4 DEF CountedOp
<1>6. p \in OpT /\ SameCounts(o, p) /\ p.remaining = r
  <2>1. CountedOp(o, r) \in OpT /\ SameCounts(o, CountedOp(o, r)) /\ CountedOp(o, r).remaining = r
    BY <1>3, CountedOpKeeps
  <2>2. QED
    BY <1>4, <2>1
<1>7. /\ a.sim \in SimT /\ Kept(s, a.sim) /\ PassOK(a.sim) /\ a.dev \in DevT
      /\ a.sim.steps + r = o.from + o.asked
      /\ r > 0 \/ a.sim.phase = "Idle"
  <2>1. CASE s.failed
    <3>1. a.sim = s /\ a.dev = dev /\ a.done = FALSE
      BY <1>1, <2>1
    <3>2. QED
      BY <1>2, <3>1 DEF Kept
  <2>2. CASE ~s.failed
    <3>1. a \in advance(s, dev)
      BY <1>1, <2>2
    <3>2. Advanced(s, a.sim, a.done) /\ a.dev \in DevT
      BY <3>1, Advances
    <3>3. CASE a.done
      BY <1>2, <1>3, <3>2, <3>3 DEF Advanced
    <3>4. CASE ~a.done
      BY <1>2, <1>3, <3>2, <3>4 DEF Advanced
    <3>5. QED
      BY <3>3, <3>4
  <2>3. QED
    BY <2>1, <2>2
<1>8. CASE Continues(a.sim, p)
  BY <1>5, <1>6, <1>7, <1>8 DEF Continues, SameCounts
<1>9. CASE ~Continues(a.sim, p)
  <2>1. Pop /\ Verdict("forward", a.sim, p, a.sim.steps - p.from = p.asked)
    BY <1>5, <1>9
  <2>2. r = 0 \/ a.sim.failed
    BY <1>3, <1>6, <1>9 DEF Continues
  <2>3. a.sim.phase = "Idle" \/ a.sim.failed
    BY <1>3, <1>7, <2>2
  <2>4. ~a.sim.failed => a.sim.steps - p.from = p.asked
    <3>1. a.sim.steps \in Nat
      BY <1>7 DEF SimT
    <3>2. QED
      BY <1>3, <1>6, <1>7, <2>2, <3>1 DEF SameCounts
  <2>5. /\ res' \in ResT /\ res'.op = "forward"
        /\ res'.clean => res'.ok /\ res'.done = res'.asked
    <3>1. PICK e \in BOOLEAN : e <=> (a.sim.steps - p.from = p.asked)
      OBVIOUS
    <3>2. Verdict("forward", a.sim, p, e)
      BY <2>1, <3>1 DEF Verdict
    <3>3. /\ res' \in ResT /\ res'.op = "forward" /\ res'.asked = p.asked
          /\ res'.done = a.sim.steps - p.from
          /\ res'.clean => ~a.sim.failed /\ (e => res'.ok)
      BY <1>6, <1>7, <3>2, Verdicts
    <3>4. QED
      BY <2>4, <3>1, <3>3
  <2>6. QED
    BY <1>5, <1>6, <1>7, <2>1, <2>3, <2>5
<1>10. QED
  BY <1>8, <1>9

-----------------------------------------------------------------------------
(* The fit's stages.                                                       *)

SettledOp(o) == [o EXCEPT !.remaining = @ - 1, !.settleDone = @ + 1]
FittedOp(o, small) == [o EXCEPT !.remaining = @ - 1, !.fitDone = @ + 1, !.converged = @ \/ small]

SameStart(o, p) == p.asked = o.asked /\ p.from = o.from /\ p.saved = o.saved

LEMMA SettledOpKeeps ==
  ASSUME NEW o \in OpT, o.remaining > 0
  PROVE  LET p == SettledOp(o) IN
         /\ p \in OpT /\ SameStart(o, p) /\ p.remaining = o.remaining - 1
         /\ p.converged = o.converged /\ p.fitDone = o.fitDone /\ p.settleDone = o.settleDone + 1
<1>1. PICK r \in Nat : r = o.remaining - 1
  BY DEF OpT
<1>2. PICK n \in Nat : n = o.settleDone + 1
  BY DEF OpT
<1>3. PICK p : p = [o EXCEPT !.remaining = r, !.settleDone = n]
  OBVIOUS
<1>4. SettledOp(o) = p
  BY <1>1, <1>2, <1>3 DEF SettledOp
<1>5. p \in OpT /\ p.remaining = r /\ p.settleDone = n
  BY <1>3 DEF OpT
<1>6. SameStart(o, p) /\ p.converged = o.converged /\ p.fitDone = o.fitDone
  BY <1>3 DEF OpT, SameStart
<1>7. QED
  BY <1>1, <1>2, <1>4, <1>5, <1>6

LEMMA FittedOpKeeps ==
  ASSUME NEW o \in OpT, NEW small \in BOOLEAN, o.remaining > 0
  PROVE  LET p == FittedOp(o, small) IN
         /\ p \in OpT /\ SameStart(o, p) /\ p.remaining = o.remaining - 1
         /\ p.converged = (o.converged \/ small)
         /\ p.fitDone = o.fitDone + 1 /\ p.settleDone = o.settleDone
<1>1. PICK r \in Nat : r = o.remaining - 1
  BY DEF OpT
<1>2. PICK n \in Nat : n = o.fitDone + 1
  BY DEF OpT
<1>3. PICK c \in BOOLEAN : c = (o.converged \/ small)
  OBVIOUS
<1>4. PICK p : p = [o EXCEPT !.remaining = r, !.fitDone = n, !.converged = c]
  OBVIOUS
<1>5. FittedOp(o, small) = p
  BY <1>1, <1>2, <1>3, <1>4 DEF FittedOp
<1>6. p \in OpT /\ p.remaining = r /\ p.fitDone = n /\ p.converged = c
  BY <1>4 DEF OpT
<1>7. SameStart(o, p) /\ p.settleDone = o.settleDone
  BY <1>4 DEF OpT, SameStart
<1>8. QED
  BY <1>1, <1>2, <1>3, <1>5, <1>6, <1>7

\* The counters after a step of the fit, or of its settle.
LEMMA StepsCount ==
  ASSUME NEW s \in SimT, NEW o \in OpT, o.remaining > 0, NEW p \in Stepped(s, o)
  PROVE  /\ p \in OpT /\ SameStart(o, p) /\ p.remaining = o.remaining - 1
         /\ s.settling => /\ p.fitDone = o.fitDone /\ p.settleDone = o.settleDone + 1
                          /\ p.converged = o.converged
         /\ ~s.settling => /\ p.fitDone = o.fitDone + 1 /\ p.settleDone = o.settleDone
                           /\ p.converged => o.converged \/ CycleEnd(s)
<1>1. CASE s.settling
  <2>1. p = SettledOp(o)
    BY <1>1 DEF Stepped, SettledOp
  <2>2. QED
    BY <1>1, <2>1, SettledOpKeeps
<1>2. CASE ~s.settling
  <2>1. PICK small \in {FALSE} \cup {CycleEnd(s)} : p = FittedOp(o, small)
    BY <1>2 DEF Stepped, FittedOp
  <2>2. small \in BOOLEAN /\ (small => CycleEnd(s))
    BY DEF CycleEnd
  <2>3. QED
    BY <1>2, <2>1, <2>2, FittedOpKeeps
<1>3. QED
  BY <1>1, <1>2

\* How the sim's steps and the fit's counters go together while it runs, and the
\* pull with them.
FitCount(s, o) ==
  /\ s.steps = o.from + o.fitDone + o.settleDone
  /\ s.settling => o.settleDone + o.remaining = s.settle
  /\ ~s.settling => o.settleDone = 0
  /\ s.pull <=> ~s.settling

SettlingSim(s) == [s EXCEPT !.pull = FALSE, !.settling = TRUE]

LEMMA SettlingSimKeeps ==
  ASSUME NEW s \in SimT
  PROVE  LET t == SettlingSim(s) IN
         /\ t \in SimT /\ ~t.pull /\ t.settling /\ t.grav = s.grav /\ t.nFit = s.nFit
         /\ t.settle = s.settle /\ t.fitActive = s.fitActive /\ t.phase = s.phase
         /\ t.failed = s.failed /\ t.steps = s.steps /\ t.pass = s.pass
         /\ t.fitSteps = s.fitSteps /\ t.age = s.age
<1>1. PICK t : t = SettlingSim(s)
  OBVIOUS
<1>2. t \in SimT /\ ~t.pull /\ t.settling
  BY <1>1 DEF SettlingSim, SimT
<1>3. t.grav = s.grav /\ t.nFit = s.nFit /\ t.settle = s.settle /\ t.fitActive = s.fitActive
  BY <1>1 DEF SettlingSim, SimT
<1>4. /\ t.phase = s.phase /\ t.failed = s.failed /\ t.steps = s.steps /\ t.pass = s.pass
      /\ t.fitSteps = s.fitSteps /\ t.age = s.age
  BY <1>1 DEF SettlingSim, SimT
<1>5. QED
  BY <1>1, <1>2, <1>3, <1>4

\* The phase of a stage of the fit: what it does to the sim and to the counters.
FitPhase(s, o, a, p) ==
  /\ a \in IF o.remaining > 0 /\ ~s.failed THEN advance(s, dev)
            ELSE {[sim |-> s, dev |-> dev, done |-> FALSE]}
  /\ p \in IF a.done THEN Stepped(a.sim, o) ELSE {o}

Phased(s, o, a, p) ==
  /\ a.sim \in SimT /\ Kept(s, a.sim) /\ PassOK(a.sim) /\ a.dev \in DevT
  /\ p \in OpT /\ SameStart(o, p) /\ FitCount(a.sim, p)
  /\ a.done \in BOOLEAN
  /\ ~a.done => p = o
  /\ a.done => /\ a.sim.phase = "Idle" /\ a.sim.steps > p.from
               /\ p \in Stepped(a.sim, o)
  /\ s.failed => a.sim = s /\ ~a.done
  /\ ~s.failed => Advanced(s, a.sim, a.done)

LEMMA FitPhases ==
  ASSUME dev \in DevT, NEW s \in SimT, NEW o \in OpT, PassOK(s), o.remaining > 0, FitCount(s, o),
         NEW a, NEW p, FitPhase(s, o, a, p)
  PROVE  Phased(s, o, a, p)
<1> USE DEF Phased
<1>1. CASE s.failed
  <2>1. a.sim = s /\ a.dev = dev /\ a.done = FALSE
    BY <1>1 DEF FitPhase
  <2>2. p = o
    BY <2>1 DEF FitPhase
  <2>3. QED
    BY <1>1, <2>1, <2>2 DEF Kept, SameStart
<1>2. CASE ~s.failed
  <2>1. a \in advance(s, dev)
    BY <1>2 DEF FitPhase
  <2>2. Advanced(s, a.sim, a.done) /\ a.dev \in DevT
    BY <2>1, Advances
  <2>3. a.sim \in SimT /\ Kept(s, a.sim) /\ PassOK(a.sim) /\ a.done \in BOOLEAN
    BY <2>2 DEF Advanced
  <2>4. CASE ~a.done
    <3>1. p = o
      BY <2>4 DEF FitPhase
    <3>2. FitCount(a.sim, p)
      BY <2>2, <2>4, <3>1 DEF FitCount, Advanced, Kept
    <3>3. QED
      BY <1>2, <2>2, <2>3, <2>4, <3>1, <3>2 DEF SameStart
  <2>5. CASE a.done
    <3>1. p \in Stepped(a.sim, o)
      BY <2>5 DEF FitPhase
    <3>2. /\ p \in OpT /\ SameStart(o, p) /\ p.remaining = o.remaining - 1
          /\ a.sim.settling => p.fitDone = o.fitDone /\ p.settleDone = o.settleDone + 1
          /\ ~a.sim.settling => p.fitDone = o.fitDone + 1 /\ p.settleDone = o.settleDone
      BY <2>3, <3>1, StepsCount
    <3>3. /\ a.sim.steps = s.steps + 1 /\ a.sim.phase = "Idle" /\ a.sim.settling = s.settling
          /\ a.sim.settle = s.settle /\ a.sim.pull = s.pull
      BY <2>2, <2>5 DEF Advanced, Kept
    <3>4. /\ o.from \in Nat /\ o.fitDone \in Nat /\ o.settleDone \in Nat /\ o.remaining \in Nat
          /\ s.settle \in Nat /\ s.steps \in Nat /\ s.settling \in BOOLEAN
      BY DEF OpT, SimT
    <3>5. FitCount(a.sim, p) /\ a.sim.steps > p.from
      <4>1. CASE s.settling
        BY <3>2, <3>3, <3>4, <4>1 DEF FitCount, SameStart
      <4>2. CASE ~s.settling
        BY <3>2, <3>3, <3>4, <4>2 DEF FitCount, SameStart
      <4>3. QED
        BY <4>1, <4>2
    <3>6. QED
      BY <1>2, <2>2, <2>3, <2>5, <3>1, <3>2, <3>3, <3>5
  <2>6. QED
    BY <2>3, <2>4, <2>5
<1>3. QED
  BY <1>1, <1>2

\* What that phase leaves, once the settle has started if it was to.
FitTurn(s, o, a, p, t, r, d) ==
  LET settle == StartsSettle(a.sim, p)
      pulled == IF settle THEN setFitPull(a.sim, a.dev, FALSE) ELSE a
  IN /\ t = [pulled.sim EXCEPT !.settling = @ \/ settle]
     /\ r = IF settle THEN [p EXCEPT !.remaining = SettleSteps(a.sim, p)] ELSE p
     /\ d = pulled.dev

Turned(s, o, a, p, t, r, d) ==
  /\ t \in SimT /\ PassOK(t) /\ d \in DevT /\ r \in OpT /\ SameStart(o, r)
  /\ t.grav = s.grav /\ t.nFit = s.nFit /\ t.settle = s.settle /\ t.fitActive = s.fitActive
  /\ FitCount(t, r)
  /\ r.remaining = 0 /\ ~t.failed =>
       t.phase = "Idle" /\ t.steps > r.from /\ r.settleDone = t.settle
  /\ t.phase = a.sim.phase /\ t.failed = a.sim.failed /\ t.age = a.sim.age
  /\ t.fitSteps = a.sim.fitSteps /\ t.steps = a.sim.steps
  /\ t.settling <=> s.settling \/ StartsSettle(a.sim, p)
  /\ r.converged = p.converged /\ r.fitDone = p.fitDone

LEMMA FitTurns ==
  ASSUME dev \in DevT, NEW s \in SimT, NEW o \in OpT, PassOK(s), o.remaining > 0, FitCount(s, o),
         NEW a, NEW p, FitPhase(s, o, a, p), NEW t, NEW r, NEW d, FitTurn(s, o, a, p, t, r, d)
  PROVE  Turned(s, o, a, p, t, r, d)
<1> USE DEF Turned
<1>1. /\ a.sim \in SimT /\ Kept(s, a.sim) /\ PassOK(a.sim) /\ a.dev \in DevT
      /\ p \in OpT /\ SameStart(o, p) /\ FitCount(a.sim, p) /\ a.done \in BOOLEAN
      /\ ~a.done => p = o
      /\ a.done => a.sim.phase = "Idle" /\ a.sim.steps > p.from
      /\ a.sim.settling \in BOOLEAN /\ a.sim.settle \in Nat /\ p.remaining \in Nat
  <2>1. /\ a.sim \in SimT /\ Kept(s, a.sim) /\ PassOK(a.sim) /\ a.dev \in DevT
        /\ p \in OpT /\ SameStart(o, p) /\ FitCount(a.sim, p) /\ a.done \in BOOLEAN
        /\ ~a.done => p = o
        /\ a.done => a.sim.phase = "Idle" /\ a.sim.steps > p.from
    BY FitPhases DEF Phased
  <2>2. a.sim.settling \in BOOLEAN /\ a.sim.settle \in Nat /\ p.remaining \in Nat
    BY <2>1 DEF SimT, OpT
  <2>3. QED
    BY <2>1, <2>2
<1>2. CASE StartsSettle(a.sim, p)
  <2>1. /\ ~a.sim.settling /\ ~a.sim.failed /\ a.sim.settle > 0
    BY <1>2 DEF StartsSettle
  <2>2. t = SettlingSim(a.sim)
    BY <1>2 DEF FitTurn, setFitPull, SettlingSim
  <2>3. /\ t \in SimT /\ ~t.pull /\ t.settling /\ t.grav = a.sim.grav /\ t.nFit = a.sim.nFit
        /\ t.settle = a.sim.settle /\ t.fitActive = a.sim.fitActive /\ t.phase = a.sim.phase
        /\ t.failed = a.sim.failed /\ t.steps = a.sim.steps /\ t.pass = a.sim.pass
        /\ t.fitSteps = a.sim.fitSteps /\ t.age = a.sim.age
    BY <1>1, <2>2, SettlingSimKeeps
  <2>4. PICK n \in Nat : n = a.sim.settle
    BY <1>1
  <2>5. r = CountedOp(p, n)
    BY <1>2, <2>4 DEF FitTurn, SettleSteps, CountedOp
  <2>6. r \in OpT /\ SameCounts(p, r) /\ r.remaining = n
    <3>1. CountedOp(p, n) \in OpT /\ SameCounts(p, CountedOp(p, n)) /\ CountedOp(p, n).remaining = n
      BY <1>1, CountedOpKeeps
    <3>2. QED
      BY <2>5, <3>1
  <2>7. d \in DevT
    BY <1>1, <1>2, TouchTypes DEF FitTurn, setFitPull
  <2>8. PassOK(t)
    BY <1>1, <2>3 DEF PassOK
  <2>9. FitCount(t, r)
    <3>1. t.steps = r.from + r.fitDone + r.settleDone
      BY <1>1, <2>3, <2>6 DEF FitCount, SameCounts
    <3>2. r.settleDone = 0
      BY <1>1, <2>1, <2>6 DEF FitCount, SameCounts
    <3>3. r.remaining = t.settle
      BY <2>3, <2>4, <2>6
    <3>4. t.settle \in Nat /\ t.pull = FALSE /\ t.settling = TRUE
      BY <2>3 DEF SimT
    <3>5. QED
      BY <3>1, <3>2, <3>3, <3>4 DEF FitCount
  <2>10. r.remaining # 0
    BY <2>1, <2>4, <2>6
  <2>11. SameStart(o, r) /\ r.converged = p.converged /\ r.fitDone = p.fitDone
    BY <1>1, <2>6 DEF SameStart, SameCounts
  <2>12. /\ t.grav = s.grav /\ t.nFit = s.nFit /\ t.settle = s.settle /\ t.fitActive = s.fitActive
    BY <1>1, <2>3 DEF Kept
  <2>13. QED
    BY <1>2, <2>3, <2>6, <2>7, <2>8, <2>9, <2>10, <2>11, <2>12
<1>3. CASE ~StartsSettle(a.sim, p)
  <2>1. r = p /\ d = a.dev
    BY <1>3 DEF FitTurn
  <2>2. t = a.sim
    <3>1. t = [a.sim EXCEPT !.settling = @]
      BY <1>1, <1>3 DEF FitTurn
    <3>2. QED
      BY <1>1, <3>1 DEF SimT
  <2>3. r.remaining = 0 /\ ~t.failed => t.phase = "Idle" /\ t.steps > r.from /\ r.settleDone = t.settle
    <3>1. SUFFICES ASSUME p.remaining = 0, ~a.sim.failed
                   PROVE  a.sim.phase = "Idle" /\ a.sim.steps > p.from /\ p.settleDone = a.sim.settle
      BY <2>1, <2>2
    <3>2. a.done
      BY <1>1, <3>1
    <3>3. a.sim.settling \/ a.sim.settle = 0
      BY <1>1, <1>3, <3>1 DEF StartsSettle, FitOver
    <3>4. p.settleDone = a.sim.settle
      <4>1. p.settleDone \in Nat
        BY <1>1 DEF OpT
      <4>2. QED
        BY <1>1, <3>1, <3>3, <4>1 DEF FitCount
    <3>5. QED
      BY <1>1, <3>2, <3>4
  <2>4. t.settling <=> s.settling \/ StartsSettle(a.sim, p)
    BY <1>1, <1>3, <2>2 DEF Kept
  <2>5. QED
    BY <1>1, <2>1, <2>2, <2>3, <2>4 DEF Kept
<1>4. QED
  BY <1>2, <1>3

\* The end of the fit: what it borrowed goes back.
EndedSim(s, g) == [s EXCEPT !.settling = FALSE, !.fitActive = FALSE, !.grav = g]
PulledSim(s) == [s EXCEPT !.pull = TRUE]

LEMMA EndedSimKeeps ==
  ASSUME NEW s \in SimT, NEW g \in Int
  PROVE  LET t == EndedSim(s, g) IN
         /\ t \in SimT /\ ~t.settling /\ ~t.fitActive /\ t.grav = g /\ t.nFit = s.nFit
         /\ t.settle = s.settle /\ t.pull = s.pull /\ t.phase = s.phase
         /\ t.failed = s.failed /\ t.steps = s.steps /\ t.pass = s.pass /\ t.age = s.age
<1>1. PICK t : t = EndedSim(s, g)
  OBVIOUS
<1>2. t \in SimT /\ ~t.settling /\ ~t.fitActive /\ t.grav = g
  BY <1>1 DEF EndedSim, SimT
<1>3. t.settle = s.settle /\ t.pull = s.pull /\ t.phase = s.phase /\ t.nFit = s.nFit
  BY <1>1 DEF EndedSim, SimT
<1>4. t.failed = s.failed /\ t.steps = s.steps /\ t.pass = s.pass /\ t.age = s.age
  BY <1>1 DEF EndedSim, SimT
<1>5. QED
  BY <1>1, <1>2, <1>3, <1>4

LEMMA PulledSimKeeps ==
  ASSUME NEW s \in SimT
  PROVE  LET t == PulledSim(s) IN
         /\ t \in SimT /\ t.pull /\ t.nFit = s.nFit
         /\ t.settle = s.settle /\ t.phase = s.phase
         /\ t.failed = s.failed /\ t.steps = s.steps /\ t.pass = s.pass /\ t.age = s.age
<1>1. PICK t : t = PulledSim(s)
  OBVIOUS
<1>2. t \in SimT /\ t.pull /\ t.settle = s.settle /\ t.phase = s.phase
  BY <1>1 DEF PulledSim, SimT
<1>3. t.failed = s.failed /\ t.steps = s.steps /\ t.pass = s.pass /\ t.age = s.age /\ t.nFit = s.nFit
  BY <1>1 DEF PulledSim, SimT
<1>4. QED
  BY <1>1, <1>2, <1>3

LEMMA FitEnds ==
  ASSUME NEW s \in SimT, NEW o \in OpT, NEW d \in DevT, PassOK(s), FitCount(s, o), EndFit(s, o, d),
         o.remaining = 0 /\ ~s.failed =>
           s.phase = "Idle" /\ s.steps > o.from /\ o.settleDone = s.settle
  PROVE  /\ sim' \in SimT /\ PassOK(sim') /\ dev' \in DevT
         /\ ~sim'.settling /\ ~sim'.fitActive /\ sim'.pull /\ sim'.grav = o.saved
         /\ sim'.nFit = s.nFit /\ sim'.settle = s.settle /\ sim'.age = s.age
         /\ sim'.phase = s.phase /\ sim'.failed = s.failed
         /\ Pop /\ res' \in ResT /\ res'.op = "fit"
         /\ o.remaining = 0 \/ s.failed =>
              /\ sim'.phase = "Idle" \/ sim'.failed
              /\ res'.clean => res'.ok /\ res'.done > 0
              /\ res'.ok => o.settleDone = s.settle /\ res'.done = o.fitDone + o.settleDone
<1>1. PICK t : t = IF s.settling THEN PulledSim(s) ELSE s
  OBVIOUS
<1>2. /\ t \in SimT /\ t.pull /\ t.nFit = s.nFit /\ t.settle = s.settle /\ t.phase = s.phase
      /\ t.failed = s.failed /\ t.steps = s.steps /\ t.pass = s.pass /\ t.age = s.age
  <2>1. CASE s.settling
    <3>1. t = PulledSim(s)
      BY <1>1, <2>1
    <3>2. QED
      BY <3>1, PulledSimKeeps
  <2>2. CASE ~s.settling
    <3>1. t = s
      BY <1>1, <2>2
    <3>2. s.pull
      BY <2>2 DEF FitCount
    <3>3. QED
      BY <3>1, <3>2
  <2>3. QED
    BY <2>1, <2>2
<1>3. /\ sim' = EndedSim(t, o.saved)
      /\ dev' = IF s.settling THEN Touch(d) ELSE d
      /\ Pop /\ Verdict("fit", s, o, s.steps > o.from)
  <2>1. CASE s.settling
    BY <1>1, <2>1 DEF EndFit, PullBack, setFitPull, PulledSim, EndedSim, Restored
  <2>2. CASE ~s.settling
    BY <1>1, <2>2 DEF EndFit, PullBack, setFitPull, EndedSim, Restored
  <2>3. QED
    BY <2>1, <2>2
<1>4. o.saved \in Int
  BY DEF OpT
<1>5. /\ sim' \in SimT /\ ~sim'.settling /\ ~sim'.fitActive /\ sim'.grav = o.saved
      /\ sim'.nFit = t.nFit /\ sim'.settle = t.settle /\ sim'.pull = t.pull /\ sim'.phase = t.phase
      /\ sim'.failed = t.failed /\ sim'.steps = t.steps /\ sim'.pass = t.pass /\ sim'.age = t.age
  <2>1. LET u == EndedSim(t, o.saved) IN
        /\ u \in SimT /\ ~u.settling /\ ~u.fitActive /\ u.grav = o.saved
        /\ u.nFit = t.nFit /\ u.settle = t.settle /\ u.pull = t.pull /\ u.phase = t.phase
        /\ u.failed = t.failed /\ u.steps = t.steps /\ u.pass = t.pass /\ u.age = t.age
    BY <1>2, <1>4, EndedSimKeeps
  <2>2. QED
    BY <1>3, <2>1
<1>6. dev' \in DevT
  BY <1>3, TouchTypes
<1>7. PassOK(sim')
  BY <1>2, <1>5 DEF PassOK
<1>8. PICK e \in BOOLEAN : e <=> s.steps > o.from
  OBVIOUS
<1>9. Verdict("fit", s, o, e)
  BY <1>3, <1>8 DEF Verdict
<1>10. /\ res' \in ResT /\ res'.op = "fit" /\ res'.done = s.steps - o.from
       /\ res'.ok => ~s.failed
       /\ res'.clean => ~s.failed /\ (e => res'.ok)
  BY <1>9, Verdicts
<1>11. /\ s.steps \in Nat /\ o.from \in Nat /\ o.fitDone \in Nat /\ o.settleDone \in Nat
       /\ s.steps = o.from + o.fitDone + o.settleDone
  BY DEF SimT, OpT, FitCount
<1>12. o.remaining = 0 \/ s.failed =>
         /\ sim'.phase = "Idle" \/ sim'.failed
         /\ res'.clean => res'.ok /\ res'.done > 0
         /\ res'.ok => o.settleDone = s.settle /\ res'.done = o.fitDone + o.settleDone
  BY <1>2, <1>5, <1>8, <1>10, <1>11
<1>13. QED
  BY <1>2, <1>3, <1>5, <1>6, <1>7, <1>10, <1>12

\* A stage of a fit leaves it under way, or ends it with its verdict.
FitGoesOn(s, o) ==
  /\ Again("fitStage") /\ UNCHANGED res
  /\ op'.remaining > 0 /\ ~sim'.failed /\ FitCount(sim', op')
  /\ op'.converged => sim'.settling \/ sim'.settle = 0
  /\ sim'.fitActive = s.fitActive /\ sim'.grav = s.grav

FitGivesVerdict(o) ==
  /\ Pop /\ res' \in ResT /\ res'.op = "fit"
  /\ sim'.phase = "Idle" \/ sim'.failed
  /\ res'.clean => res'.ok /\ res'.done > 0
  /\ res'.ok => op'.settleDone = sim'.settle /\ res'.done = op'.fitDone + op'.settleDone
  /\ ~sim'.settling /\ ~sim'.fitActive /\ sim'.pull /\ sim'.grav = o.saved

FitStaged(s, o) ==
  /\ sim' \in SimT /\ PassOK(sim') /\ dev' \in DevT /\ op' \in OpT /\ op'.saved = o.saved
  /\ sim'.nFit = s.nFit /\ sim'.settle = s.settle
  /\ FitGoesOn(s, o) \/ FitGivesVerdict(o)

LEMMA FitStagesSplit ==
  ASSUME NEW s, NEW o, FitStage(s, o)
  PROVE  \E a, p, t, r, d :
           /\ FitPhase(s, o, a, p) /\ FitTurn(s, o, a, p, t, r, d)
           /\ op' = r
           /\ IF Continues(t, r)
              THEN sim' = t /\ dev' = d /\ Again("fitStage") /\ UNCHANGED res
              ELSE EndFit(t, r, d)
<1>1. PICK a \in IF o.remaining > 0 /\ ~s.failed THEN advance(s, dev)
                  ELSE {[sim |-> s, dev |-> dev, done |-> FALSE]} :
      \E p \in IF a.done THEN Stepped(a.sim, o) ELSE {o} :
        LET settle == StartsSettle(a.sim, p)
            pulled == IF settle THEN setFitPull(a.sim, a.dev, FALSE) ELSE a
            t == [pulled.sim EXCEPT !.settling = @ \/ settle]
            r == IF settle THEN [p EXCEPT !.remaining = SettleSteps(a.sim, p)] ELSE p
        IN
          /\ op' = r
          /\ IF Continues(t, r)
             THEN sim' = t /\ dev' = pulled.dev /\ Again("fitStage") /\ UNCHANGED res
             ELSE EndFit(t, r, pulled.dev)
  BY Zenon DEF FitStage
<1>2. PICK p \in IF a.done THEN Stepped(a.sim, o) ELSE {o} :
        LET settle == StartsSettle(a.sim, p)
            pulled == IF settle THEN setFitPull(a.sim, a.dev, FALSE) ELSE a
            t == [pulled.sim EXCEPT !.settling = @ \/ settle]
            r == IF settle THEN [p EXCEPT !.remaining = SettleSteps(a.sim, p)] ELSE p
        IN
          /\ op' = r
          /\ IF Continues(t, r)
             THEN sim' = t /\ dev' = pulled.dev /\ Again("fitStage") /\ UNCHANGED res
             ELSE EndFit(t, r, pulled.dev)
  BY <1>1
<1> DEFINE settle == StartsSettle(a.sim, p)
           pulled == IF settle THEN setFitPull(a.sim, a.dev, FALSE) ELSE a
           t == [pulled.sim EXCEPT !.settling = @ \/ settle]
           r == IF settle THEN [p EXCEPT !.remaining = SettleSteps(a.sim, p)] ELSE p
<1>3. FitPhase(s, o, a, p)
  BY <1>1, <1>2 DEF FitPhase
<1>4. FitTurn(s, o, a, p, t, r, pulled.dev)
  BY DEF FitTurn
<1>5. /\ op' = r
      /\ IF Continues(t, r)
         THEN sim' = t /\ dev' = pulled.dev /\ Again("fitStage") /\ UNCHANGED res
         ELSE EndFit(t, r, pulled.dev)
  BY <1>2
<1> HIDE DEF settle, pulled, t, r
<1>6. QED
  BY <1>3, <1>4, <1>5, Zenon

LEMMA FitStages ==
  ASSUME dev \in DevT, NEW s \in SimT, NEW o \in OpT, PassOK(s), o.remaining > 0, FitCount(s, o),
         FitStage(s, o)
  PROVE  FitStaged(s, o)
<1>1. PICK a, p, t, r, d :
        /\ FitPhase(s, o, a, p) /\ FitTurn(s, o, a, p, t, r, d)
        /\ op' = r
        /\ IF Continues(t, r)
           THEN sim' = t /\ dev' = d /\ Again("fitStage") /\ UNCHANGED res
           ELSE EndFit(t, r, d)
  BY FitStagesSplit
<1>2. Turned(s, o, a, p, t, r, d)
  BY <1>1, FitTurns
<1>3. /\ t \in SimT /\ PassOK(t) /\ d \in DevT /\ r \in OpT /\ r.saved = o.saved
      /\ t.grav = s.grav /\ t.nFit = s.nFit /\ t.settle = s.settle /\ t.fitActive = s.fitActive
      /\ FitCount(t, r)
      /\ r.remaining = 0 /\ ~t.failed =>
           t.phase = "Idle" /\ t.steps > r.from /\ r.settleDone = t.settle
  BY <1>2 DEF Turned, SameStart
<1>4. CASE Continues(t, r)
  <2>1. sim' = t /\ dev' = d /\ op' = r /\ Again("fitStage") /\ UNCHANGED res
    BY <1>1, <1>4
  <2>2. r.remaining > 0 /\ ~t.failed
    BY <1>4 DEF Continues
  <2>3. r.converged => t.settling \/ t.settle = 0
    <3>1. SUFFICES ASSUME r.converged, ~t.settling PROVE t.settle = 0
      OBVIOUS
    <3>2. /\ a.sim.settling = s.settling /\ a.sim.settle = t.settle /\ ~a.sim.failed
          /\ p.converged /\ ~s.settling /\ ~StartsSettle(a.sim, p)
      BY <1>1, <1>2, <2>2, <3>1, FitPhases DEF Turned, Phased, Kept
    <3>3. t.settle \in Nat
      BY <1>3 DEF SimT
    <3>4. QED
      BY <3>2, <3>3 DEF StartsSettle, FitOver
  <2>4. FitGoesOn(s, o)
    BY <1>3, <2>1, <2>2, <2>3 DEF FitGoesOn
  <2>5. QED
    BY <1>3, <2>1, <2>4 DEF FitStaged
<1>5. CASE ~Continues(t, r)
  <2>1. op' = r /\ EndFit(t, r, d)
    BY <1>1, <1>5
  <2>2. r.remaining = 0 \/ t.failed
    BY <1>3, <1>5 DEF Continues, OpT
  <2>3. /\ sim' \in SimT /\ PassOK(sim') /\ dev' \in DevT
        /\ ~sim'.settling /\ ~sim'.fitActive /\ sim'.pull /\ sim'.grav = r.saved
        /\ sim'.nFit = t.nFit /\ sim'.settle = t.settle
        /\ Pop /\ res' \in ResT /\ res'.op = "fit"
        /\ sim'.phase = "Idle" \/ sim'.failed
        /\ res'.clean => res'.ok /\ res'.done > 0
        /\ res'.ok => r.settleDone = t.settle /\ res'.done = r.fitDone + r.settleDone
    BY <1>3, <2>1, <2>2, FitEnds
  <2>4. FitGivesVerdict(o)
    BY <1>3, <2>1, <2>3 DEF FitGivesVerdict
  <2>5. QED
    BY <1>3, <2>1, <2>3, <2>4 DEF FitStaged
<1>6. QED
  BY <1>4, <1>5

-----------------------------------------------------------------------------
(* The queue.                                                              *)

LEMMA TailsQueue ==
  ASSUME NEW w, QueueOK(w), w # <<>>
  PROVE  QueueOK(Tail(w)) /\ \A fn \in StageNames : ~HeadIs(Tail(w), fn)
<1>1. /\ Tail(w) \in Seq(Queued \cup Staged) /\ Len(Tail(w)) = Len(w) - 1 /\ Len(w) \in Nat
      /\ \A k \in 1..Len(Tail(w)) : Tail(w)[k] = w[k + 1]
  BY HeadTailProperties DEF QueueOK
<1>2. \A k \in 1..Len(Tail(w)) : Tail(w)[k] \in Queued
  BY <1>1 DEF QueueOK
<1>3. Tail(w) # <<>> => Tail(w)[1] \in Queued
  <2>1. Tail(w) # <<>> => Len(Tail(w)) > 0
    BY <1>1, EmptySeq
  <2>2. QED
    BY <1>1, <1>2, <2>1
<1>4. \A e \in Queued : e.fn \notin StageNames
  BY DEF Queued, StageNames
<1>5. QED
  BY <1>1, <1>2, <1>3, <1>4 DEF QueueOK, HeadIs

LEMMA AgainsQueue ==
  ASSUME NEW w, QueueOK(w), w # <<>>, NEW fn \in StageNames, NEW v, v = <<[fn |-> fn, n |-> 0]>> \o Tail(w)
  PROVE  QueueOK(v) /\ v # <<>> /\ v[1] = [fn |-> fn, n |-> 0]
         /\ \A g \in StageNames : HeadIs(v, g) <=> g = fn
<1>1. /\ Tail(w) \in Seq(Queued \cup Staged) /\ Len(Tail(w)) = Len(w) - 1 /\ Len(w) \in Nat
      /\ \A k \in 1..Len(Tail(w)) : Tail(w)[k] = w[k + 1]
  BY HeadTailProperties DEF QueueOK
<1>2. PICK e : e = [fn |-> fn, n |-> 0]
  OBVIOUS
<1>3. e \in Queued \cup Staged /\ e.fn = fn
  BY <1>2 DEF Staged, StageNames
<1>4. /\ v \in Seq(Queued \cup Staged) /\ Len(v) = Len(Tail(w)) + 1 /\ v[1] = e
      /\ \A k \in 2..Len(v) : v[k] = Tail(w)[k - 1]
  <2>1. v = <<e>> \o Tail(w)
    BY <1>2
  <2>2. <<e>> \in Seq(Queued \cup Staged) /\ Len(<<e>>) = 1 /\ <<e>>[1] = e
    BY <1>3
  <2>3. QED
    BY <1>1, <2>1, <2>2, ConcatProperties
<1>5. v # <<>>
  BY <1>1, <1>4, EmptySeq
<1>6. \A k \in 2..Len(v) : v[k] \in Queued
  BY <1>1, <1>4 DEF QueueOK
<1>7. QED
  BY <1>2, <1>3, <1>4, <1>5, <1>6 DEF QueueOK, HeadIs

LEMMA AppendsQueue ==
  ASSUME NEW w, QueueOK(w), NEW e \in Queued, NEW v, v = Append(w, e)
  PROVE  QueueOK(v) /\ v # <<>> /\ \A fn \in StageNames : HeadIs(v, fn) <=> HeadIs(w, fn)
<1>1. /\ v \in Seq(Queued \cup Staged) /\ Len(v) = Len(w) + 1 /\ Len(w) \in Nat
      /\ \A k \in 1..Len(w) : v[k] = w[k]
      /\ v[Len(w) + 1] = e
  BY AppendProperties DEF QueueOK
<1>2. \A k \in 2..Len(v) : v[k] \in Queued
  BY <1>1 DEF QueueOK
<1>3. v # <<>>
  BY <1>1, EmptySeq
<1>4. e.fn \notin StageNames
  BY DEF Queued, StageNames
<1>5. \A fn \in StageNames : HeadIs(v, fn) <=> HeadIs(w, fn)
  <2>1. CASE w = <<>>
    <3>1. v[1] = e
      BY <1>1, <2>1
    <3>2. QED
      BY <1>3, <1>4, <2>1, <3>1 DEF HeadIs
  <2>2. CASE w # <<>>
    <3>1. Len(w) > 0
      BY <1>1, <2>2, EmptySeq DEF QueueOK
    <3>2. v[1] = w[1]
      BY <1>1, <3>1
    <3>3. QED
      BY <1>3, <2>2, <3>2 DEF HeadIs
  <2>3. QED
    BY <2>1, <2>2
<1>6. QED
  BY <1>1, <1>2, <1>3, <1>5 DEF QueueOK

-----------------------------------------------------------------------------
(* The stages keep the invariant.                                          *)

StageInv == StageTypes /\ OwnSteps /\ Working

\* A stage of a forward, on the counters it starts from or those it goes on with.
LEMMA ForwardKeeps ==
  ASSUME StageInv, UNCHANGED <<cfg, bwd>>, q # <<>>, ~sim.fitActive, ~bwd.on,
         NEW o \in OpT, o.fitDone = op.fitDone, o.settleDone = op.settleDone,
         o.remaining > 0, sim.steps + o.remaining = o.from + o.asked, ForwardStage(sim, o),
         NEW c \in Int, cfg = c
  PROVE  StageInv'
<1>1. /\ sim' \in SimT /\ Kept(sim, sim') /\ PassOK(sim') /\ dev' \in DevT
      /\ op' \in OpT /\ SameCounts(o, op')
      /\ \/ /\ Again("forwardStage") /\ UNCHANGED res
            /\ op'.remaining > 0 /\ ~sim'.failed
            /\ sim'.steps + op'.remaining = op'.from + op'.asked
         \/ /\ Pop /\ res' \in ResT /\ res'.op = "forward"
            /\ res'.clean => res'.ok /\ res'.done = res'.asked
            /\ sim'.phase = "Idle" \/ sim'.failed
  BY ForwardStages DEF StageInv, StageTypes
<1>2. /\ res \in ResT /\ bwd' = bwd /\ bwd \in BwdT /\ bwd.idx <= bwd.n /\ QueueOK(q) /\ cfg' = cfg
  BY DEF StageInv, StageTypes
<1>3. /\ ~sim'.fitActive /\ ~sim'.settling /\ sim'.pull /\ sim'.grav = sim.grav /\ sim'.settle = sim.settle
      /\ ~LiveConfig => sim.grav = cfg
  BY <1>1 DEF StageInv, Working, Pull, Gravity, Kept
<1>4. /\ Pull'
      /\ (~LiveConfig => Gravity)'
  BY <1>2, <1>3 DEF Pull, Gravity
<1>5. op'.fitDone = op.fitDone /\ op'.settleDone = op.settleDone
  BY <1>1 DEF SameCounts
<1>6. ~At("fitStage")
  BY DEF StageInv, Working, UnderWay
<1>7. CASE Again("forwardStage") /\ UNCHANGED res
  <2>1. QueueOK(q') /\ \A g \in StageNames : HeadIs(q', g) <=> g = "forwardStage"
    BY <1>2, <1>7, AgainsQueue DEF Again, StageNames
  <2>2. At("forwardStage")' /\ ~At("fitStage")' /\ ~At("backwardStage")'
    BY <2>1 DEF StageNames, At
  <2>3. op'.remaining > 0 /\ ~sim'.failed /\ sim'.steps + op'.remaining = op'.from + op'.asked
    <3>1. CASE Pop
      <4>1. QueueOK(q') /\ \A fn \in StageNames : ~HeadIs(q', fn)
        BY <1>2, <3>1, TailsQueue DEF Pop
      <4>2. QED
        BY <2>2, <4>1 DEF At, StageNames
    <3>2. QED
      BY <1>1, <3>1
  <2>4. UnderWay'
    BY <1>2, <1>3, <2>2, <2>3 DEF UnderWay
  <2>5. Counters'
    BY <2>2, <2>3 DEF Counters
  <2>6. FitCounters'
    BY <1>3, <1>5, <1>6, <1>7, <2>2 DEF FitCounters, StageInv, Working
  <2>7. OwnSteps'
    BY <1>7 DEF OwnSteps, StageInv
  <2>8. StageTypes'
    BY <1>1, <1>2, <1>7, <2>1 DEF StageTypes
  <2>9. QED
    BY <1>4, <2>4, <2>5, <2>6, <2>7, <2>8 DEF StageInv, Working
<1>8. CASE /\ Pop /\ res' \in ResT /\ res'.op = "forward"
           /\ res'.clean => res'.ok /\ res'.done = res'.asked
           /\ sim'.phase = "Idle" \/ sim'.failed
  <2>1. QueueOK(q') /\ \A fn \in StageNames : ~HeadIs(q', fn)
    BY <1>2, <1>8, TailsQueue DEF Pop
  <2>2. ~At("forwardStage")' /\ ~At("fitStage")' /\ ~At("backwardStage")'
    BY <2>1 DEF At, StageNames
  <2>3. UnderWay' /\ Counters' /\ FitCounters'
    BY <1>2, <1>3, <1>8, <2>2 DEF UnderWay, Counters, FitCounters
  <2>4. OwnSteps'
    BY <1>8 DEF OwnSteps
  <2>5. StageTypes'
    BY <1>1, <1>2, <1>8, <2>1 DEF StageTypes
  <2>6. QED
    BY <1>4, <2>3, <2>4, <2>5 DEF StageInv, Working
<1>9. QED
  BY <1>1, <1>7, <1>8

LEMMA ContinueForwardKeeps ==
  ASSUME StageInv, UNCHANGED cfg, cfg \in Int, ContinueForward
  PROVE  StageInv'
<1>1. /\ q # <<>> /\ HeadIs(q, "forwardStage") /\ ForwardStage(sim, op) /\ UNCHANGED bwd
  BY DEF ContinueForward, Stage, HeadIs
<1>2. At("forwardStage") /\ ~At("fitStage") /\ ~At("backwardStage")
  BY <1>1 DEF At, HeadIs
<1>3. /\ op \in OpT /\ ~sim.fitActive /\ ~bwd.on /\ op.remaining > 0
      /\ sim.steps + op.remaining = op.from + op.asked
  BY <1>2 DEF StageInv, StageTypes, Working, UnderWay, Counters
<1>4. QED
  BY <1>1, <1>3, ForwardKeeps

\* The counters a forward starts from.
ForwardOp(o, n, f) == [o EXCEPT !.remaining = n, !.asked = n, !.from = f]

LEMMA ForwardOpKeeps ==
  ASSUME NEW o \in OpT, NEW n \in 1..MaxSteps, NEW f \in Nat
  PROVE  LET p == ForwardOp(o, n, f) IN
         /\ p \in OpT /\ p.remaining = n /\ p.asked = n /\ p.from = f
         /\ p.fitDone = o.fitDone /\ p.settleDone = o.settleDone
<1>1. PICK p : p = ForwardOp(o, n, f)
  OBVIOUS
<1>2. n \in Nat /\ n \in 0..MaxSteps
  BY SessionAssumption
<1>3. p \in OpT /\ p.remaining = n /\ p.asked = n /\ p.from = f
  BY <1>1, <1>2 DEF ForwardOp, OpT
<1>4. p.fitDone = o.fitDone /\ p.settleDone = o.settleDone
  BY <1>1 DEF ForwardOp, OpT
<1>5. QED
  BY <1>1, <1>3, <1>4

\* The closures at the head of the queue.
LEMMA HeadsOfQueue ==
  ASSUME NEW w, QueueOK(w), w # <<>>
  PROVE  /\ w[1] \in Queued \cup Staged
         /\ w[1].fn \in {"enqueueForward", "enqueueFit"} => w[1].n \in 1..MaxSteps
         /\ w[1].fn \in {"enqueueForward", "enqueueFit", "enqueueBackward"} =>
              \A fn \in StageNames : ~HeadIs(w, fn)
<1>1. w[1] \in Queued \cup Staged
  <2>1. Len(w) \in Nat /\ Len(w) > 0
    BY EmptySeq DEF QueueOK
  <2>2. QED
    BY <2>1, ElementOfSeq DEF QueueOK
<1>2. QED
  BY <1>1 DEF Queued, Staged, StageNames, HeadIs

LEMMA StartForwardKeeps ==
  ASSUME StageInv, UNCHANGED cfg, cfg \in Int, StartForward
  PROVE  StageInv'
<1>1. /\ q # <<>> /\ q[1].fn = "enqueueForward" /\ UNCHANGED bwd /\ sim \in SimT /\ op \in OpT /\ QueueOK(q)
  BY DEF StartForward, Stage, StageInv, StageTypes
<1>2. PICK n \in 1..MaxSteps : n = q[1].n
  BY <1>1, HeadsOfQueue
<1>3. PICK f \in Nat : f = sim.steps
  BY <1>1 DEF SimT
<1>4. Starts(sim, n).from = f
  BY <1>1, <1>3 DEF Starts, OpT
<1>5. PICK o : o = ForwardOp(op, n, f)
  OBVIOUS
<1>6. ForwardStage(sim, o)
  BY <1>2, <1>4, <1>5 DEF StartForward, ForwardOp
<1>7. /\ o \in OpT /\ o.remaining = n /\ o.asked = n /\ o.from = f
      /\ o.fitDone = op.fitDone /\ o.settleDone = op.settleDone
  BY <1>1, <1>5, ForwardOpKeeps
<1>8. \A fn \in StageNames : ~HeadIs(q, fn)
  BY <1>1, HeadsOfQueue
<1>9. ~At("fitStage") /\ ~At("backwardStage")
  BY <1>8 DEF StageNames, At
<1>10. ~sim.fitActive /\ ~bwd.on
  BY <1>9 DEF StageInv, Working, UnderWay
<1>11. o.remaining > 0 /\ sim.steps + o.remaining = o.from + o.asked
  BY <1>3, <1>7
<1>12. QED
  BY <1>1, <1>6, <1>7, <1>10, <1>11, ForwardKeeps

\* A stage of a fit: the sim it works on has the fit under way, and the saved
\* pair is the host's.
LEMMA FitKeeps ==
  ASSUME StageInv, UNCHANGED <<cfg, bwd>>, q # <<>>, ~bwd.on, NEW c \in Int, cfg = c,
         NEW s \in SimT, PassOK(s), s.fitActive, s.settling => s.fitActive, NEW o \in OpT,
         o.remaining > 0, FitCount(s, o), ~LiveConfig => s.grav = 0 /\ o.saved = cfg,
         FitStage(s, o)
  PROVE  StageInv'
<1>1. FitStaged(s, o)
  BY FitStages DEF StageInv, StageTypes
<1>2. /\ res \in ResT /\ bwd' = bwd /\ bwd \in BwdT /\ bwd.idx <= bwd.n /\ QueueOK(q) /\ cfg' = cfg
  BY DEF StageInv, StageTypes
<1>3. /\ sim' \in SimT /\ PassOK(sim') /\ dev' \in DevT /\ op' \in OpT /\ op'.saved = o.saved
  BY <1>1 DEF FitStaged
<1>4. CASE FitGoesOn(s, o)
  <2>1. QueueOK(q') /\ \A g \in StageNames : HeadIs(q', g) <=> g = "fitStage"
    BY <1>2, <1>4, AgainsQueue DEF FitGoesOn, Again, StageNames
  <2>2. ~At("forwardStage")' /\ At("fitStage")' /\ ~At("backwardStage")'
    BY <2>1 DEF StageNames, At
  <2>3. /\ op'.remaining > 0 /\ ~sim'.failed /\ FitCount(sim', op')
        /\ op'.converged => sim'.settling \/ sim'.settle = 0
        /\ sim'.fitActive /\ sim'.grav = s.grav /\ res' = res
    BY <1>4 DEF FitGoesOn
  <2>4. UnderWay' /\ Counters'
    BY <1>2, <2>2, <2>3 DEF UnderWay, Counters
  <2>5. FitCounters' /\ Pull'
    BY <2>2, <2>3 DEF FitCounters, FitCount, Pull
  <2>6. (~LiveConfig => Gravity)'
    BY <1>2, <1>3, <2>3 DEF Gravity
  <2>7. OwnSteps'
    BY <2>3 DEF OwnSteps, StageInv
  <2>8. StageTypes'
    BY <1>2, <1>3, <2>1, <2>3 DEF StageTypes
  <2>9. QED
    BY <2>4, <2>5, <2>6, <2>7, <2>8 DEF StageInv, Working
<1>5. CASE FitGivesVerdict(o)
  <2>1. QueueOK(q') /\ \A fn \in StageNames : ~HeadIs(q', fn)
    BY <1>2, <1>5, TailsQueue DEF Pop, FitGivesVerdict
  <2>2. ~At("forwardStage")' /\ ~At("fitStage")' /\ ~At("backwardStage")'
    BY <2>1 DEF At, StageNames
  <2>3. /\ res' \in ResT /\ res'.op = "fit"
        /\ sim'.phase = "Idle" \/ sim'.failed
        /\ res'.clean => res'.ok /\ res'.done > 0
        /\ res'.ok => op'.settleDone = sim'.settle /\ res'.done = op'.fitDone + op'.settleDone
        /\ ~sim'.settling /\ ~sim'.fitActive /\ sim'.pull /\ sim'.grav = o.saved
    BY <1>5 DEF FitGivesVerdict
  <2>4. UnderWay' /\ Counters' /\ FitCounters' /\ Pull'
    BY <1>2, <2>2, <2>3 DEF UnderWay, Counters, FitCounters, Pull
  <2>5. (~LiveConfig => Gravity)'
    BY <1>2, <2>3 DEF Gravity
  <2>6. OwnSteps'
    BY <2>3 DEF OwnSteps
  <2>7. StageTypes'
    BY <1>2, <1>3, <2>1, <2>3 DEF StageTypes
  <2>8. QED
    BY <2>4, <2>5, <2>6, <2>7 DEF StageInv, Working
<1>6. QED
  BY <1>1, <1>4, <1>5 DEF FitStaged

LEMMA ContinueFitKeeps ==
  ASSUME StageInv, UNCHANGED cfg, cfg \in Int, ContinueFit
  PROVE  StageInv'
<1>1. /\ q # <<>> /\ HeadIs(q, "fitStage") /\ FitStage(sim, op) /\ UNCHANGED bwd
  BY DEF ContinueFit, Stage, HeadIs
<1>2. At("fitStage") /\ ~At("backwardStage")
  BY <1>1 DEF At, HeadIs
<1>3. /\ sim \in SimT /\ PassOK(sim) /\ op \in OpT /\ sim.fitActive /\ ~bwd.on /\ op.remaining > 0
      /\ ~LiveConfig => sim.grav = 0 /\ op.saved = cfg
  BY <1>2 DEF StageInv, StageTypes, Working, UnderWay, Gravity
<1>4. FitCount(sim, op)
  BY <1>2 DEF StageInv, Working, FitCounters, FitCount, Pull
<1>5. QED
  BY <1>1, <1>3, <1>4, FitKeeps

\* What a fit starts from: the sim without gravity, and its counters.
FittingSim(s) == [s EXCEPT !.grav = 0, !.fitActive = TRUE, !.settling = FALSE, !.fitSteps = 0]
FitOp(o, n, f, g) == [o EXCEPT !.remaining = n, !.asked = n, !.from = f, !.converged = FALSE,
                               !.fitDone = 0, !.settleDone = 0, !.saved = g]

LEMMA FittingSimKeeps ==
  ASSUME NEW s \in SimT
  PROVE  LET t == FittingSim(s) IN
         /\ t \in SimT /\ t.grav = 0 /\ t.fitActive /\ ~t.settling /\ t.pull = s.pull
         /\ t.phase = s.phase /\ t.pass = s.pass /\ t.steps = s.steps /\ t.failed = s.failed
         /\ t.nFit = s.nFit /\ t.settle = s.settle /\ t.fitSteps = 0
<1>1. PICK z \in Nat : z = 0 /\ z \in Int
  OBVIOUS
<1>2. PICK t : t = [s EXCEPT !.grav = z, !.fitActive = TRUE, !.settling = FALSE, !.fitSteps = z]
  OBVIOUS
<1>3. t \in SimT /\ t.grav = z /\ t.fitActive /\ ~t.settling
  BY <1>1, <1>2 DEF SimT
<1>4. t.phase = s.phase /\ t.pass = s.pass /\ t.steps = s.steps
  BY <1>2 DEF SimT
<1>5. t.pull = s.pull /\ t.failed = s.failed
  BY <1>2 DEF SimT
<1>6. t.nFit = s.nFit /\ t.settle = s.settle
  BY <1>2 DEF SimT
<1>7. t.fitSteps = z
  BY <1>2 DEF SimT
<1>8. FittingSim(s) = t
  BY <1>1, <1>2 DEF FittingSim
<1>9. QED
  BY <1>1, <1>3, <1>4, <1>5, <1>6, <1>7, <1>8

LEMMA FitOpKeeps ==
  ASSUME NEW o \in OpT, NEW n \in 1..MaxSteps, NEW f \in Nat, NEW g \in Int
  PROVE  LET p == FitOp(o, n, f, g) IN
         /\ p \in OpT /\ p.remaining = n /\ p.from = f /\ p.fitDone = 0 /\ p.settleDone = 0
         /\ p.saved = g /\ ~p.converged
<1>1. PICK p : p = FitOp(o, n, f, g)
  OBVIOUS
<1>2. n \in Nat /\ n \in 0..MaxSteps
  BY SessionAssumption
<1>3. p \in OpT /\ p.remaining = n /\ p.from = f
  BY <1>1, <1>2 DEF FitOp, OpT
<1>4. p.fitDone = 0 /\ p.settleDone = 0 /\ p.saved = g /\ ~p.converged
  BY <1>1 DEF FitOp, OpT
<1>5. QED
  BY <1>1, <1>3, <1>4

LEMMA StartFitKeeps ==
  ASSUME StageInv, UNCHANGED cfg, cfg \in Int, StartFit
  PROVE  StageInv'
<1>1. /\ q # <<>> /\ q[1].fn = "enqueueFit" /\ UNCHANGED bwd
      /\ sim \in SimT /\ op \in OpT /\ QueueOK(q) /\ PassOK(sim)
  BY DEF StartFit, Stage, StageInv, StageTypes
<1>2. \A fn \in StageNames : ~HeadIs(q, fn)
  BY <1>1, HeadsOfQueue
<1>3. ~At("forwardStage") /\ ~At("fitStage") /\ ~At("backwardStage")
  BY <1>2 DEF StageNames, At
<1>4. /\ ~sim.fitActive /\ ~bwd.on /\ ~sim.settling /\ sim.pull
      /\ ~LiveConfig => sim.grav = cfg
  BY <1>3 DEF StageInv, Working, UnderWay, Pull, Gravity
<1>5. CASE ~sim.nFit
  <2>1. res' = Refused("fit") /\ Pop /\ UNCHANGED <<sim, op, dev, bwd, cfg>>
    BY <1>1, <1>5 DEF StartFit
  <2>2. QueueOK(q') /\ \A fn \in StageNames : ~HeadIs(q', fn)
    BY <1>1, <2>1, TailsQueue DEF Pop
  <2>3. ~At("forwardStage")' /\ ~At("fitStage")' /\ ~At("backwardStage")'
    BY <2>2 DEF At, StageNames
  <2>4. res' \in ResT /\ ~res'.ok /\ ~res'.clean
    BY <2>1 DEF Refused, ResT
  <2>5. UnderWay' /\ Counters' /\ FitCounters' /\ Pull'
    BY <1>3, <2>1, <2>3, <2>4 DEF UnderWay, Counters, FitCounters, Pull, StageInv, Working
  <2>6. OwnSteps' /\ (~LiveConfig => Gravity)'
    BY <2>1, <2>4 DEF OwnSteps, Gravity, StageInv, Working
  <2>7. StageTypes'
    BY <2>1, <2>2, <2>4 DEF StageInv, StageTypes
  <2>8. QED
    BY <2>5, <2>6, <2>7 DEF StageInv, Working
<1>6. CASE sim.nFit
  <2>1. PICK n \in 1..MaxSteps : n = q[1].n
    BY <1>1, HeadsOfQueue
  <2>2. PICK f \in Nat : f = sim.steps
    BY <1>1 DEF SimT
  <2>3. PICK g \in Int : g = sim.grav
    BY <1>1 DEF SimT
  <2>4. PICK o : o = FitOp(op, n, f, g)
    OBVIOUS
  <2>5. PICK s : s = FittingSim(sim)
    OBVIOUS
  <2>6. [Starts(sim, n) EXCEPT !.saved = g] = o
    BY <1>1, <2>2, <2>4 DEF Starts, FitOp, OpT
  <2>7. FitStage(s, o)
    BY <1>6, <2>1, <2>3, <2>5, <2>6 DEF StartFit, FittingSim, FitGravity
  <2>8. /\ o \in OpT /\ o.remaining = n /\ o.from = f /\ o.fitDone = 0 /\ o.settleDone = 0
        /\ o.saved = g
    <3>1. LET p == FitOp(op, n, f, g) IN
          /\ p \in OpT /\ p.remaining = n /\ p.from = f /\ p.fitDone = 0 /\ p.settleDone = 0
          /\ p.saved = g
      BY <1>1, FitOpKeeps
    <3>2. QED
      BY <2>4, <3>1
  <2>9. /\ s \in SimT /\ s.grav = 0 /\ s.fitActive /\ ~s.settling /\ s.pull = sim.pull
        /\ s.phase = sim.phase /\ s.pass = sim.pass /\ s.steps = sim.steps
    BY <1>1, <2>5, FittingSimKeeps
  <2>10. PassOK(s)
    BY <1>1, <2>9 DEF PassOK
  <2>11. FitCount(s, o)
    BY <1>4, <2>2, <2>8, <2>9 DEF FitCount
  <2>12. o.remaining > 0
    BY <2>8
  <2>13. QED
    BY <1>1, <1>4, <2>3, <2>7, <2>8, <2>9, <2>10, <2>11, <2>12, FitKeeps
<1>7. QED
  BY <1>5, <1>6

\* What nativeSubmit comes to at step k: the end, at step 0, or that step's
\* backward in flight, or a failure.
NativeOK(r, n) ==
  /\ r.dev \in DevT /\ r.idx \in Nat /\ r.idx <= n /\ r.over \in BOOLEAN /\ r.ok \in BOOLEAN
  /\ r.over /\ r.ok => r.idx = 0
  /\ ~r.over => r.idx > 0

LEMMA NativeSubmits ==
  ASSUME NEW k \in Nat, NEW n \in Nat, k <= n, NEW d \in DevT, NEW r \in NativeSubmit(k, d)
  PROVE  NativeOK(r, n)
<1>1. CASE k < 1
  <2>1. r = [idx |-> k, dev |-> d, over |-> TRUE, ok |-> TRUE]
    BY <1>1 DEF NativeSubmit
  <2>2. QED
    BY <1>1, <2>1 DEF NativeOK
<1>2. CASE ~(k < 1)
  <2>1. PICK out \in Runs :
          r = [idx |-> k, dev |-> Submit(d, out), over |-> Fails(out), ok |-> ~Fails(out)]
    BY <1>2 DEF NativeSubmit
  <2>2. Submit(d, out) \in DevT
    BY SessionAssumption, SubmitTypes
  <2>3. r.idx = k /\ r.dev = Submit(d, out) /\ r.over = Fails(out) /\ r.ok = ~Fails(out)
    BY <2>1, Zenon
  <2>4. r.dev \in DevT /\ r.over \in BOOLEAN /\ r.ok \in BOOLEAN /\ ~(r.over /\ r.ok)
    <3>1. Fails(out) \in BOOLEAN
      BY DEF Fails
    <3>2. QED
      BY <2>2, <2>3, <3>1, Zenon
  <2>5. QED
    BY <1>2, <2>3, <2>4 DEF NativeOK
<1>3. QED
  BY <1>1, <1>2

LEMMA BackwardKeeps ==
  ASSUME StageInv, UNCHANGED cfg, q # <<>>, ~At("forwardStage"), ~At("fitStage"),
         sim.phase = "Idle", NEW n \in Nat, n = sim.steps, NEW r, NativeOK(r, n), BackwardStage(r, n)
  PROVE  StageInv'
<1>1. /\ QueueOK(q) /\ res \in ResT /\ ~sim.fitActive /\ sim' = sim /\ op' = op /\ cfg' = cfg
  BY DEF StageInv, StageTypes, Working, UnderWay, BackwardStage
<1>2. /\ dev' \in DevT /\ bwd' = [on |-> ~r.over, n |-> n, idx |-> r.idx]
  BY DEF BackwardStage, NativeOK
<1>3. /\ bwd' \in BwdT /\ bwd'.idx <= bwd'.n /\ bwd'.n = n /\ bwd'.idx = r.idx
      /\ bwd'.on <=> ~r.over
  BY <1>2 DEF NativeOK, BwdT
<1>4. Pull' /\ (~LiveConfig => Gravity)'
  BY <1>1 DEF Pull, Gravity, StageInv, Working
<1>5. CASE r.over
  <2>1. /\ Pop
        /\ res' = [op |-> "backward", ok |-> r.ok, clean |-> r.ok, asked |-> n, done |-> n - r.idx]
    BY <1>5 DEF BackwardStage
  <2>2. PICK d \in Int : d = n - r.idx
    BY DEF NativeOK
  <2>3. res' = [op |-> "backward", ok |-> r.ok, clean |-> r.ok, asked |-> n, done |-> d]
    BY <2>1, <2>2
  <2>4. r.ok \in BOOLEAN /\ (r.ok => d = n)
    BY <1>5, <2>2 DEF NativeOK
  <2>5. res' \in ResT /\ res'.op = "backward" /\ (res'.clean => res'.ok /\ res'.done = res'.asked)
    BY <2>3, <2>4 DEF ResT
  <2>6. QueueOK(q') /\ \A fn \in StageNames : ~HeadIs(q', fn)
    BY <1>1, <2>1, TailsQueue DEF Pop
  <2>7. ~At("forwardStage")' /\ ~At("fitStage")' /\ ~At("backwardStage")'
    BY <2>6 DEF At, StageNames
  <2>8. UnderWay' /\ Counters' /\ FitCounters'
    BY <1>1, <1>3, <1>5, <2>5, <2>7 DEF UnderWay, Counters, FitCounters
  <2>9. OwnSteps'
    BY <2>5 DEF OwnSteps
  <2>10. StageTypes'
    BY <1>1, <1>2, <1>3, <2>5, <2>6 DEF StageInv, StageTypes
  <2>11. QED
    BY <1>4, <2>8, <2>9, <2>10 DEF StageInv, Working
<1>6. CASE ~r.over
  <2>1. Again("backwardStage") /\ UNCHANGED res
    BY <1>6 DEF BackwardStage
  <2>2. QueueOK(q') /\ \A g \in StageNames : HeadIs(q', g) <=> g = "backwardStage"
    BY <1>1, <2>1, AgainsQueue DEF Again, StageNames
  <2>3. ~At("forwardStage")' /\ ~At("fitStage")' /\ At("backwardStage")'
    BY <2>2 DEF StageNames, At
  <2>4. r.idx > 0
    BY <1>6 DEF NativeOK
  <2>5. UnderWay' /\ Counters'
    BY <1>1, <1>3, <1>6, <2>3, <2>4 DEF UnderWay, Counters
  <2>6. FitCounters'
    BY <1>1, <2>1, <2>3 DEF FitCounters, StageInv, Working
  <2>7. OwnSteps'
    BY <2>1 DEF OwnSteps, StageInv
  <2>8. StageTypes'
    BY <1>1, <1>2, <1>3, <2>1, <2>2 DEF StageInv, StageTypes
  <2>9. QED
    BY <1>4, <2>5, <2>6, <2>7, <2>8 DEF StageInv, Working
<1>7. QED
  BY <1>5, <1>6

LEMMA StartBackwardKeeps ==
  ASSUME StageInv, UNCHANGED cfg, StartBackward
  PROVE  StageInv'
<1>1. /\ q # <<>> /\ q[1].fn = "enqueueBackward"
      /\ sim \in SimT /\ dev \in DevT /\ QueueOK(q)
  BY DEF StartBackward, Stage, StageInv, StageTypes
<1>2. \A fn \in StageNames : ~HeadIs(q, fn)
  BY <1>1, HeadsOfQueue
<1>3. ~At("forwardStage") /\ ~At("fitStage") /\ ~At("backwardStage")
  BY <1>2 DEF StageNames, At
<1>4. PICK n \in Nat : n = sim.steps
  BY <1>1 DEF SimT
<1>5. CASE res' = Refused("backward") /\ Pop /\ UNCHANGED <<sim, op, bwd, dev>>
  <2>1. QueueOK(q') /\ \A fn \in StageNames : ~HeadIs(q', fn)
    BY <1>1, <1>5, TailsQueue DEF Pop
  <2>2. ~At("forwardStage")' /\ ~At("fitStage")' /\ ~At("backwardStage")'
    BY <2>1 DEF At, StageNames
  <2>3. res' \in ResT /\ ~res'.ok /\ ~res'.clean
    BY <1>5 DEF Refused, ResT
  <2>4. UnderWay' /\ Counters' /\ FitCounters' /\ Pull'
    BY <1>3, <1>5, <2>2, <2>3 DEF UnderWay, Counters, FitCounters, Pull, StageInv, Working
  <2>5. OwnSteps' /\ (~LiveConfig => Gravity)'
    BY <1>5, <2>3 DEF OwnSteps, Gravity, StageInv, Working
  <2>6. StageTypes'
    BY <1>5, <2>1, <2>3 DEF StageInv, StageTypes
  <2>7. QED
    BY <2>4, <2>5, <2>6 DEF StageInv, Working
<1>6. CASE /\ sim.phase = "Idle"
           /\ BackwardStage([idx |-> sim.steps, dev |-> dev, over |-> TRUE, ok |-> FALSE], sim.steps)
  <2>1. PICK r : r = [idx |-> n, dev |-> dev, over |-> TRUE, ok |-> FALSE]
    OBVIOUS
  <2>2. BackwardStage(r, n)
    BY <1>4, <1>6, <2>1
  <2>3. NativeOK(r, n)
    BY <1>1, <2>1 DEF NativeOK
  <2>4. QED
    BY <1>1, <1>3, <1>4, <1>6, <2>2, <2>3, BackwardKeeps
<1>7. CASE sim.phase = "Idle" /\ \E r \in NativeSubmit(sim.steps, dev) : BackwardStage(r, sim.steps)
  <2>1. PICK r \in NativeSubmit(n, dev) : BackwardStage(r, n)
    BY <1>4, <1>7
  <2>2. NativeOK(r, n)
    BY <1>1, NativeSubmits
  <2>3. QED
    BY <1>1, <1>3, <1>4, <1>7, <2>1, <2>2, BackwardKeeps
<1>8. QED
  BY <1>5, <1>6, <1>7 DEF StartBackward, RefusesMidStep

LEMMA ContinueBackwardKeeps ==
  ASSUME StageInv, UNCHANGED cfg, ContinueBackward
  PROVE  StageInv'
<1>1. /\ q # <<>> /\ HeadIs(q, "backwardStage") /\ bwd \in BwdT /\ bwd.idx <= bwd.n
      /\ sim \in SimT /\ dev \in DevT
  BY DEF ContinueBackward, Stage, HeadIs, StageInv, StageTypes
<1>2. ~At("forwardStage") /\ ~At("fitStage") /\ At("backwardStage")
  BY <1>1 DEF At, HeadIs
<1>3. sim.phase = "Idle" /\ sim.steps = bwd.n /\ bwd.idx > 0
  BY <1>2 DEF StageInv, Working, Counters
<1>4. PICK n \in Nat : n = bwd.n
  BY <1>1 DEF BwdT
<1>5. PICK d \in DevT : d = Touch(dev)
  BY <1>1, TouchTypes
<1>6. CASE \E r \in NativeSubmit(bwd.idx - 1, Touch(dev)) : BackwardStage(r, bwd.n)
  <2>1. PICK k \in Nat : k = bwd.idx - 1 /\ k <= n
    BY <1>1, <1>3, <1>4 DEF BwdT
  <2>2. PICK r \in NativeSubmit(k, d) : BackwardStage(r, n)
    BY <1>4, <1>5, <1>6, <2>1
  <2>3. NativeOK(r, n)
    BY <2>1, NativeSubmits
  <2>4. QED
    BY <1>1, <1>2, <1>3, <1>4, <2>2, <2>3, BackwardKeeps
<1>7. CASE BackwardStage([idx |-> bwd.idx, dev |-> Touch(dev), over |-> TRUE, ok |-> FALSE], bwd.n)
  <2>1. PICK r : r = [idx |-> bwd.idx, dev |-> d, over |-> TRUE, ok |-> FALSE]
    OBVIOUS
  <2>2. BackwardStage(r, n)
    BY <1>4, <1>5, <1>7, <2>1
  <2>3. NativeOK(r, n)
    BY <1>1, <1>4, <2>1 DEF NativeOK, BwdT
  <2>4. QED
    BY <1>1, <1>2, <1>3, <1>4, <2>2, <2>3, BackwardKeeps
<1>8. QED
  BY <1>6, <1>7 DEF ContinueBackward

-----------------------------------------------------------------------------
(* The host calls and the frame keep the invariant.                        *)

NoStageAt(w) == \A fn \in StageNames : ~HeadIs(w, fn)

\* A sim no operation has under way.
AtRest(s) == ~s.fitActive /\ ~s.settling /\ s.pull /\ (s.phase = "Idle" \/ s.failed)

LEMMA BusyOrNoStage ==
  ASSUME Inv, ~session_busy
  PROVE  q = <<>> /\ ~dev.pending /\ NoStageAt(q)
  BY DEF Inv, HostTypes, session_busy, NoStageAt, HeadIs

\* Between two operations.
LEMMA RestWorks ==
  ASSUME NoStageAt(q'), AtRest(sim'), ~bwd'.on, ~LiveConfig => sim'.grav = cfg',
         res'.op = "fit" /\ res'.ok =>
           op'.settleDone = sim'.settle /\ res'.done = op'.fitDone + op'.settleDone
  PROVE  Working'
<1>1. ~At("forwardStage")' /\ ~At("fitStage")' /\ ~At("backwardStage")'
  BY DEF At, NoStageAt, StageNames
<1>2. QED
  BY <1>1 DEF AtRest, Working, UnderWay, Counters, FitCounters, Pull, Gravity

LEMMA WorkRests ==
  ASSUME Working, NoStageAt(q)
  PROVE  /\ AtRest(sim) /\ ~bwd.on /\ (~LiveConfig => sim.grav = cfg)
         /\ res.op = "fit" /\ res.ok =>
              op.settleDone = sim.settle /\ res.done = op.fitDone + op.settleDone
<1>1. ~At("forwardStage") /\ ~At("fitStage") /\ ~At("backwardStage")
  BY DEF At, NoStageAt, StageNames
<1>2. QED
  BY <1>1 DEF AtRest, Working, UnderWay, Counters, FitCounters, Pull, Gravity

LEMMA LoadedRests ==
  ASSUME NEW g \in Int, NEW sc \in SceneT
  PROVE  /\ Loaded(g, sc) \in SimT /\ PassOK(Loaded(g, sc)) /\ AtRest(Loaded(g, sc))
         /\ Loaded(g, sc).grav = g
<1>1. sc.nFit \in BOOLEAN /\ sc.settle \in Nat
  BY DEF SceneT
<1>2. Loaded(g, sc) \in SimT /\ AtRest(Loaded(g, sc)) /\ Loaded(g, sc).grav = g
  BY <1>1 DEF Loaded, SimT, Phases, AtRest
<1>3. PassOK(Loaded(g, sc))
  BY SessionAssumption DEF Loaded, PassOK
<1>4. QED
  BY <1>2, <1>3

LEMMA GravitiesAreInts ==
  Gravities \subseteq Int
  BY SessionAssumption

LEMMA LoadKeeps ==
  ASSUME Inv, NEW sc \in SceneT, LoadScene(sc), UNCHANGED <<cfg, op, dev>>, QueueOK(q'), NoStageAt(q')
  PROVE  (StageTypes /\ OwnSteps /\ Working)' /\ sess' = TRUE /\ dirty' = FALSE
<1>1. /\ cfg \in Int /\ cfg' = cfg /\ op' = op /\ dev' = dev /\ op \in OpT /\ dev \in DevT
  BY GravitiesAreInts DEF Inv, HostTypes, StageTypes
<1>2. /\ sim' = Loaded(cfg, sc) /\ bwd' = NoBackward /\ res' = NoResult
      /\ sess' = TRUE /\ dirty' = FALSE
  BY DEF LoadScene
<1>3. sim' \in SimT /\ PassOK(sim') /\ AtRest(sim') /\ sim'.grav = cfg
  BY <1>1, <1>2, LoadedRests
<1>4. bwd' \in BwdT /\ bwd'.idx <= bwd'.n /\ ~bwd'.on
  BY <1>2 DEF NoBackward, BwdT
<1>5. res' \in ResT /\ res'.op = "none"
  BY <1>2 DEF NoResult, ResT
<1>6. StageTypes'
  BY <1>1, <1>3, <1>4, <1>5 DEF StageTypes
<1>7. OwnSteps'
  BY <1>5 DEF OwnSteps
<1>8. Working'
  BY <1>1, <1>3, <1>4, <1>5, RestWorks
<1>9. QED
  BY <1>2, <1>6, <1>7, <1>8

LEMMA InitEstablishes ==
  ASSUME Init
  PROVE  Inv
<1>1. /\ cfg \in Gravities /\ cfg \in Int
      /\ scene = [name |-> "none", set |-> FALSE, nFit |-> FALSE, settle |-> 0]
      /\ dirty = FALSE /\ sess = FALSE /\ sim = Loaded(cfg, scene)
      /\ op = NoOp /\ bwd = NoBackward /\ q = <<>>
      /\ dev = [pending |-> FALSE, fresh |-> FALSE, sameFrameSync |-> FALSE]
      /\ res = NoResult /\ tick = NoTick /\ ticked = FALSE /\ on = FALSE
  BY GravitiesAreInts DEF Init
<1>2. scene \in SceneT
  BY <1>1 DEF SceneT
<1>3. sim \in SimT /\ PassOK(sim)
  BY <1>1, <1>2, LoadedRests
<1>4. op \in OpT
  BY <1>1, SessionAssumption DEF NoOp, OpT
<1>5. dev \in DevT /\ res \in ResT /\ res.op = "none" /\ bwd \in BwdT /\ bwd.idx <= bwd.n
  BY <1>1 DEF DevT, ResT, NoResult, BwdT, NoBackward
<1>6. tick \in [in : BOOLEAN, stages : 0..MaxStages, more : BOOLEAN]
  BY <1>1, SessionAssumption DEF NoTick
<1>7. QueueOK(q)
  BY <1>1 DEF QueueOK
<1>8. HostTypes
  BY <1>1, <1>2, <1>6 DEF HostTypes
<1>9. StageTypes
  BY <1>3, <1>4, <1>5, <1>7 DEF StageTypes
<1>10. QED
  BY <1>1, <1>5, <1>8, <1>9 DEF Inv, OwnSteps

LEMMA DrapeOpenKeeps ==
  ASSUME Inv, DrapeOpen
  PROVE  Inv'
<1>1. /\ q' = <<>> /\ sess' = FALSE /\ scene' = [scene EXCEPT !.set = FALSE]
      /\ UNCHANGED <<cfg, dirty, sim, op, bwd, dev, res, on, tick, ticked>> /\ ~dev.pending
  BY BusyOrNoStage DEF DrapeOpen, OpenRefused, Call
<1>2. scene' \in SceneT
  BY <1>1 DEF Inv, HostTypes, SceneT
<1>3. HostTypes'
  BY <1>1, <1>2 DEF Inv, HostTypes
<1>4. StageTypes' /\ OwnSteps'
  BY <1>1 DEF Inv, StageTypes, OwnSteps, QueueOK
<1>5. QED
  BY <1>1, <1>3, <1>4 DEF Inv

LEMMA DrapeSceneKeeps ==
  ASSUME Inv, NEW name \in {"mesh", "sphere"}, DrapeScene(name)
  PROVE  Inv'
<1>1. /\ scene' = [name |-> name, set |-> TRUE, nFit |-> FALSE, settle |-> 0]
      /\ UNCHANGED <<cfg, op, q, dev, on, tick, ticked>>
      /\ LoadScene(scene') \/ LoadFails
      /\ q = <<>> /\ ~dev.pending /\ NoStageAt(q)
  BY BusyOrNoStage DEF DrapeScene, Call
<1>2. scene' \in SceneT
  BY <1>1 DEF SceneT
<1>3. CASE LoadScene(scene')
  <2>1. QueueOK(q') /\ NoStageAt(q')
    BY <1>1 DEF Inv, StageTypes
  <2>2. (StageTypes /\ OwnSteps /\ Working)' /\ sess' = TRUE /\ dirty' = FALSE
    BY <1>1, <1>2, <1>3, <2>1, LoadKeeps
  <2>3. HostTypes'
    BY <1>1, <1>2, <2>2 DEF Inv, HostTypes
  <2>4. QED
    BY <2>2, <2>3 DEF Inv
<1>4. CASE LoadFails
  <2>1. sess' = FALSE /\ UNCHANGED <<dirty, sim, bwd, res>>
    BY <1>4 DEF LoadFails
  <2>2. HostTypes'
    BY <1>1, <1>2, <2>1 DEF Inv, HostTypes
  <2>3. StageTypes' /\ OwnSteps'
    BY <1>1, <2>1 DEF Inv, StageTypes, OwnSteps
  <2>4. QED
    BY <2>1, <2>2, <2>3 DEF Inv
<1>5. QED
  BY <1>1, <1>3, <1>4

LiveSim(s, g) == [s EXCEPT !.grav = g]
RewoundSim(s, z) == [s EXCEPT !.phase = "Idle", !.failed = FALSE, !.steps = z]

LEMMA LiveSimKeeps ==
  ASSUME NEW s \in SimT, NEW g \in Int
  PROVE  LET t == LiveSim(s, g) IN
         /\ t \in SimT /\ t.grav = g /\ t.fitActive = s.fitActive /\ t.settling = s.settling
         /\ t.pull = s.pull /\ t.phase = s.phase /\ t.failed = s.failed /\ t.pass = s.pass
         /\ t.steps = s.steps /\ t.settle = s.settle
<1>1. PICK t : t = LiveSim(s, g)
  OBVIOUS
<1>2. t \in SimT /\ t.grav = g /\ t.fitActive = s.fitActive /\ t.settling = s.settling
  BY <1>1 DEF LiveSim, SimT
<1>3. t.pull = s.pull /\ t.phase = s.phase /\ t.failed = s.failed
  BY <1>1 DEF LiveSim, SimT
<1>4. t.pass = s.pass /\ t.steps = s.steps /\ t.settle = s.settle
  BY <1>1 DEF LiveSim, SimT
<1>5. QED
  BY <1>1, <1>2, <1>3, <1>4

LEMMA RewoundSimKeeps ==
  ASSUME NEW s \in SimT, NEW z \in Nat
  PROVE  LET t == RewoundSim(s, z) IN
         /\ t \in SimT /\ t.phase = "Idle" /\ ~t.failed /\ t.grav = s.grav /\ t.pass = s.pass
         /\ t.fitActive = s.fitActive /\ t.settling = s.settling /\ t.pull = s.pull
         /\ t.settle = s.settle
<1>1. PICK t : t = RewoundSim(s, z)
  OBVIOUS
<1>2. t \in SimT /\ t.phase = "Idle" /\ ~t.failed
  BY <1>1 DEF RewoundSim, SimT, Phases
<1>3. t.grav = s.grav /\ t.pass = s.pass /\ t.fitActive = s.fitActive
  BY <1>1 DEF RewoundSim, SimT
<1>4. t.settling = s.settling /\ t.pull = s.pull /\ t.settle = s.settle
  BY <1>1 DEF RewoundSim, SimT
<1>5. QED
  BY <1>1, <1>2, <1>3, <1>4

LEMMA ConfigLiveKeeps ==
  ASSUME Inv, NEW g \in Gravities, ConfigLive(g)
  PROVE  Inv'
<1>1. /\ cfg' = g /\ sim' = IF sess THEN [sim EXCEPT !.grav = g] ELSE sim
      /\ UNCHANGED <<scene, dirty, sess, op, bwd, q, dev, res, on, tick, ticked>>
      /\ ~LiveConfig => ~session_busy
  BY DEF ConfigLive, Call, LiveKnobAllowed
<1>2. g \in Int /\ sim \in SimT
  BY GravitiesAreInts DEF Inv, StageTypes
<1>3. HostTypes'
  BY <1>1 DEF Inv, HostTypes
<1>4. CASE sess
  <2>1. sim' = LiveSim(sim, g)
    BY <1>1, <1>4 DEF LiveSim
  <2>2. /\ sim' \in SimT /\ sim'.grav = g /\ sim'.fitActive = sim.fitActive
        /\ sim'.settling = sim.settling /\ sim'.pull = sim.pull /\ sim'.phase = sim.phase
        /\ sim'.failed = sim.failed /\ sim'.pass = sim.pass
        /\ sim'.steps = sim.steps /\ sim'.settle = sim.settle
    <3>1. LET t == LiveSim(sim, g) IN
          /\ t \in SimT /\ t.grav = g /\ t.fitActive = sim.fitActive /\ t.settling = sim.settling
          /\ t.pull = sim.pull /\ t.phase = sim.phase /\ t.failed = sim.failed /\ t.pass = sim.pass
          /\ t.steps = sim.steps /\ t.settle = sim.settle
      BY <1>2, LiveSimKeeps
    <3>2. QED
      BY <2>1, <3>1
  <2>3. PassOK(sim')
    BY <2>2 DEF PassOK, Inv, StageTypes
  <2>4. StageTypes' /\ OwnSteps'
    BY <1>1, <2>2, <2>3 DEF Inv, StageTypes, OwnSteps
  <2>5. UnderWay' /\ Counters'
    BY <1>1, <1>4, <2>2 DEF Inv, Working, UnderWay, Counters, At
  <2>6. FitCounters' /\ Pull'
    BY <1>1, <1>4, <2>2 DEF Inv, Working, FitCounters, Pull, At
  <2>7. (~LiveConfig => Gravity)'
    <3>1. SUFFICES ASSUME ~LiveConfig PROVE Gravity'
      OBVIOUS
    <3>2. NoStageAt(q)
      BY <1>1, <3>1, BusyOrNoStage
    <3>3. AtRest(sim)
      BY <1>4, <3>2, WorkRests DEF Inv
    <3>4. QED
      BY <1>1, <2>2, <3>3 DEF AtRest, Gravity
  <2>8. QED
    BY <1>3, <2>4, <2>5, <2>6, <2>7 DEF Inv, Working
<1>5. CASE ~sess
  <2>1. StageTypes' /\ OwnSteps' /\ ~sess'
    BY <1>1, <1>5 DEF Inv, StageTypes, OwnSteps
  <2>2. QED
    BY <1>3, <2>1 DEF Inv
<1>6. QED
  BY <1>4, <1>5

\* What a step that touches neither the session nor its stages keeps.
SessionVars == <<cfg, sess, sim, op, bwd, q, res>>

LEMMA SessionUntouched ==
  ASSUME Inv, UNCHANGED SessionVars, HostTypes', dev' \in DevT
  PROVE  Inv'
<1>1. StageTypes' /\ OwnSteps'
  BY DEF Inv, StageTypes, OwnSteps, SessionVars
<1>2. (sess => Working)'
  BY DEF Inv, Working, UnderWay, Counters, FitCounters, Pull, Gravity, At, SessionVars
<1>3. QED
  BY <1>1, <1>2 DEF Inv

LEMMA ConfigUploadKeeps ==
  ASSUME Inv, ConfigUpload
  PROVE  Inv'
<1>1. /\ dirty' = TRUE
      /\ UNCHANGED <<cfg, scene, sess, sim, op, bwd, q, dev, res, on, tick, ticked>>
  BY DEF ConfigUpload, Call
<1>2. HostTypes' /\ dev' \in DevT
  BY <1>1 DEF Inv, HostTypes, StageTypes
<1>3. QED
  BY <1>1, <1>2, SessionUntouched DEF SessionVars

LEMMA FitSetKeeps ==
  ASSUME Inv, NEW n \in Settles, FitSet(n)
  PROVE  Inv'
<1>1. /\ dirty' = TRUE /\ scene' = [scene EXCEPT !.nFit = TRUE, !.settle = n]
      /\ UNCHANGED <<cfg, sess, sim, op, bwd, q, dev, res, on, tick, ticked>>
  BY DEF FitSet, Call
<1>2. n \in Nat
  BY SessionAssumption
<1>3. scene' \in SceneT
  BY <1>1, <1>2 DEF Inv, HostTypes, SceneT
<1>4. HostTypes' /\ dev' \in DevT
  BY <1>1, <1>3 DEF Inv, HostTypes, StageTypes
<1>5. QED
  BY <1>1, <1>4, SessionUntouched DEF SessionVars

LEMMA RewindKeeps ==
  ASSUME Inv, Rewind
  PROVE  Inv'
<1>1. /\ sess /\ q = <<>> /\ ~dev.pending /\ NoStageAt(q)
      /\ UNCHANGED <<cfg, scene, op, q, dev, on, tick, ticked>>
      /\ IF dirty THEN LoadScene(scene)
         ELSE /\ sim' = [sim EXCEPT !.phase = "Idle", !.failed = FALSE, !.steps = 0]
              /\ UNCHANGED <<sess, dirty, bwd, res>>
  BY BusyOrNoStage DEF Rewind, Call
<1>2. QueueOK(q') /\ NoStageAt(q')
  BY <1>1 DEF Inv, StageTypes
<1>3. CASE dirty
  <2>1. (StageTypes /\ OwnSteps /\ Working)' /\ sess' = TRUE /\ dirty' = FALSE
    BY <1>1, <1>2, <1>3, LoadKeeps DEF Inv, HostTypes
  <2>2. HostTypes'
    BY <1>1, <2>1 DEF Inv, HostTypes
  <2>3. QED
    BY <2>1, <2>2 DEF Inv
<1>4. CASE ~dirty
  <2>1. PICK z \in Nat : z = 0
    OBVIOUS
  <2>2. sim' = RewoundSim(sim, z) /\ UNCHANGED <<sess, dirty, bwd, res>>
    BY <1>1, <1>4, <2>1 DEF RewoundSim
  <2>3. sim \in SimT /\ PassOK(sim) /\ AtRest(sim) /\ ~bwd.on
    BY <1>1, WorkRests DEF Inv, StageTypes
  <2>4. /\ sim' \in SimT /\ sim'.phase = "Idle" /\ ~sim'.failed /\ sim'.grav = sim.grav
        /\ sim'.pass = sim.pass /\ sim'.fitActive = sim.fitActive
        /\ sim'.settling = sim.settling /\ sim'.pull = sim.pull /\ sim'.settle = sim.settle
    <3>1. LET t == RewoundSim(sim, z) IN
          /\ t \in SimT /\ t.phase = "Idle" /\ ~t.failed /\ t.grav = sim.grav
          /\ t.pass = sim.pass /\ t.fitActive = sim.fitActive
          /\ t.settling = sim.settling /\ t.pull = sim.pull /\ t.settle = sim.settle
      BY <2>3, RewoundSimKeeps
    <3>2. QED
      BY <2>2, <3>1
  <2>5. PassOK(sim') /\ AtRest(sim')
    BY <2>3, <2>4 DEF PassOK, AtRest
  <2>6. StageTypes' /\ OwnSteps' /\ HostTypes'
    BY <1>1, <1>2, <2>2, <2>4, <2>5 DEF Inv, StageTypes, OwnSteps, HostTypes
  <2>7. Working'
    <3>1. ~bwd'.on /\ (~LiveConfig => sim'.grav = cfg')
      BY <1>1, <2>2, <2>3, <2>4, WorkRests DEF Inv
    <3>2. res'.op = "fit" /\ res'.ok =>
            op'.settleDone = sim'.settle /\ res'.done = op'.fitDone + op'.settleDone
      BY <1>1, <2>2, <2>4, WorkRests DEF Inv
    <3>3. QED
      BY <1>2, <2>5, <3>1, <3>2, RestWorks
  <2>8. QED
    BY <2>6, <2>7 DEF Inv
<1>5. QED
  BY <1>3, <1>4

\* An operation queued behind others leaves the one under way alone.
LEMMA AppendKeeps ==
  ASSUME Inv, sess, NEW e \in Queued, q' = Append(q, e), on' = TRUE,
         UNCHANGED <<cfg, scene, dirty, sess, sim, op, bwd, dev, res, tick, ticked>>
  PROVE  Inv'
<1>1. QueueOK(q)
  BY DEF Inv, StageTypes
<1>2. QueueOK(q') /\ \A fn \in StageNames : HeadIs(q', fn) <=> HeadIs(q, fn)
  BY <1>1, AppendsQueue
<1>3. /\ At("forwardStage")' <=> At("forwardStage")
      /\ At("fitStage")' <=> At("fitStage")
      /\ At("backwardStage")' <=> At("backwardStage")
  BY <1>2 DEF At, StageNames
<1>4. HostTypes' /\ StageTypes' /\ OwnSteps'
  BY <1>2 DEF Inv, HostTypes, StageTypes, OwnSteps
<1>5. UnderWay' /\ Counters'
  BY <1>3 DEF Inv, Working, UnderWay, Counters
<1>6. FitCounters' /\ Pull' /\ (~LiveConfig => Gravity)'
  BY <1>3 DEF Inv, Working, FitCounters, Pull, Gravity
<1>7. QED
  BY <1>4, <1>5, <1>6 DEF Inv, Working

LEMMA QueueKeeps ==
  ASSUME Inv, sess, Reload, NEW e \in Queued, q' = Append(q, e), on' = TRUE,
         UNCHANGED <<cfg, scene, op, dev, tick, ticked>>
  PROVE  Inv'
<1>1. CASE dirty
  <2>1. ~session_busy /\ LoadScene(scene)
    BY <1>1 DEF Reload
  <2>2. q = <<>> /\ NoStageAt(q) /\ QueueOK(q)
    BY <2>1, BusyOrNoStage DEF Inv, StageTypes
  <2>3. QueueOK(q') /\ \A fn \in StageNames : HeadIs(q', fn) <=> HeadIs(q, fn)
    BY <2>2, AppendsQueue
  <2>4. NoStageAt(q')
    BY <2>2, <2>3 DEF NoStageAt
  <2>5. (StageTypes /\ OwnSteps /\ Working)' /\ sess' = TRUE /\ dirty' = FALSE
    BY <2>1, <2>3, <2>4, LoadKeeps DEF Inv, HostTypes
  <2>6. HostTypes'
    BY <2>5 DEF Inv, HostTypes
  <2>7. QED
    BY <2>5, <2>6 DEF Inv
<1>2. CASE ~dirty
  BY <1>2, AppendKeeps DEF Reload
<1>3. QED
  BY <1>1, <1>2

LEMMA QueueForwardKeeps ==
  ASSUME Inv, NEW n \in 1..MaxSteps, QueueForward(n) \/ QueueFit(n)
  PROVE  Inv'
<1>1. CASE QueueForward(n)
  <2>1. PICK e \in Queued : e = [fn |-> "enqueueForward", n |-> n]
    BY DEF Queued
  <2>2. /\ sess /\ Reload /\ q' = Append(q, e) /\ on' = TRUE
        /\ UNCHANGED <<cfg, scene, op, dev, tick, ticked>>
    BY <1>1, <2>1 DEF QueueForward, Call
  <2>3. QED
    BY <2>2, QueueKeeps
<1>2. CASE QueueFit(n)
  <2>1. PICK e \in Queued : e = [fn |-> "enqueueFit", n |-> n]
    BY DEF Queued
  <2>2. /\ sess /\ Reload /\ q' = Append(q, e) /\ on' = TRUE
        /\ UNCHANGED <<cfg, scene, op, dev, tick, ticked>>
    BY <1>2, <2>1 DEF QueueFit, Call
  <2>3. QED
    BY <2>2, QueueKeeps
<1>3. QED
  BY <1>1, <1>2

LEMMA QueueBackwardKeeps ==
  ASSUME Inv, QueueBackward
  PROVE  Inv'
<1>1. PICK e \in Queued : e = [fn |-> "enqueueBackward", n |-> 0]
  BY DEF Queued
<1>2. /\ sess /\ q' = Append(q, e) /\ on' = TRUE
      /\ UNCHANGED <<cfg, scene, dirty, sess, sim, op, bwd, dev, res, tick, ticked>>
  BY <1>1 DEF QueueBackward, Call
<1>3. QED
  BY <1>2, AppendKeeps

LEMMA RdCloseKeeps ==
  ASSUME Inv, RdClose
  PROVE  Inv'
<1>1. /\ q' = <<>> /\ sess' = FALSE /\ ~dev.pending
      /\ UNCHANGED <<cfg, scene, dirty, sim, op, bwd, dev, res, on, tick, ticked>>
  BY DEF RdClose, Call
<1>2. QueueOK(q')
  BY <1>1 DEF QueueOK
<1>3. HostTypes'
  BY <1>1 DEF Inv, HostTypes
<1>4. StageTypes' /\ OwnSteps'
  BY <1>1, <1>2 DEF Inv, StageTypes, OwnSteps
<1>5. QED
  BY <1>1, <1>3, <1>4 DEF Inv

LEMMA TicksKeep ==
  ASSUME Inv, TickNoSession \/ TickBegin \/ TickEnd \/ NextFrame \/ UNCHANGED vars
  PROVE  Inv'
<1>1. dev \in DevT /\ MaxStages \in Nat
  BY SessionAssumption DEF Inv, StageTypes
<1>2. CASE TickNoSession
  <2>1. HostTypes' /\ dev' \in DevT /\ UNCHANGED SessionVars
    BY <1>1, <1>2 DEF TickNoSession, Inv, HostTypes, SessionVars, host
  <2>2. QED
    BY <2>1, SessionUntouched
<1>3. CASE TickBegin
  <2>1. tick' \in [in : BOOLEAN, stages : 0..MaxStages, more : BOOLEAN] /\ ticked' = TRUE
    BY <1>1, <1>3 DEF TickBegin
  <2>2. HostTypes' /\ dev' \in DevT /\ UNCHANGED SessionVars
    BY <1>1, <1>3, <2>1 DEF TickBegin, Inv, HostTypes, SessionVars, host
  <2>3. QED
    BY <2>2, SessionUntouched
<1>4. CASE TickEnd
  <2>1. tick' \in [in : BOOLEAN, stages : 0..MaxStages, more : BOOLEAN]
    BY <1>1, <1>4 DEF TickEnd, NoTick
  <2>2. on' \in BOOLEAN
    BY <1>4 DEF TickEnd, Running
  <2>3. HostTypes' /\ dev' \in DevT /\ UNCHANGED SessionVars
    BY <1>1, <1>4, <2>1, <2>2 DEF TickEnd, Inv, HostTypes, SessionVars, host
  <2>4. QED
    BY <2>3, SessionUntouched
<1>5. CASE NextFrame
  <2>1. /\ dev' = [dev EXCEPT !.fresh = FALSE] /\ ticked' = FALSE
        /\ UNCHANGED <<host, sim, op, bwd, q, res, tick, on>>
    BY <1>5 DEF NextFrame
  <2>2. dev' \in DevT /\ dev'.pending = dev.pending
    BY <1>1, <2>1 DEF DevT
  <2>3. HostTypes' /\ UNCHANGED SessionVars
    BY <2>1, <2>2 DEF Inv, HostTypes, SessionVars, host
  <2>4. QED
    BY <2>2, <2>3, SessionUntouched
<1>6. CASE UNCHANGED vars
  <2>1. HostTypes' /\ dev' \in DevT /\ UNCHANGED SessionVars
    BY <1>1, <1>6 DEF vars, Inv, HostTypes, SessionVars
  <2>2. QED
    BY <2>1, SessionUntouched
<1>7. QED
  BY <1>2, <1>3, <1>4, <1>5, <1>6

LEMMA RunStageKeeps ==
  ASSUME Inv, RunStage
  PROVE  Inv'
<1>1. /\ tick.in /\ tick.stages < MaxStages
      /\ StartForward \/ ContinueForward \/ StartFit \/ ContinueFit \/ StartBackward \/ ContinueBackward
      /\ tick' = [tick EXCEPT !.stages = @ + 1, !.more = ~Stops(dev')]
      /\ UNCHANGED <<host, ticked, on>>
  BY DEF RunStage
<1>2. q # <<>>
  BY <1>1 DEF StartForward, ContinueForward, StartFit, ContinueFit, StartBackward, ContinueBackward, Stage
<1>3. sess /\ StageInv /\ cfg \in Int
  BY <1>2, GravitiesAreInts DEF Inv, HostTypes, StageInv
<1>4. UNCHANGED <<cfg, scene, dirty, sess>>
  BY <1>1 DEF host
<1>5. StageInv'
  BY <1>1, <1>3, <1>4, StartForwardKeeps, ContinueForwardKeeps, StartFitKeeps, ContinueFitKeeps,
     StartBackwardKeeps, ContinueBackwardKeeps
<1>6. tick' \in [in : BOOLEAN, stages : 0..MaxStages, more : BOOLEAN]
  <2>1. PICK m \in BOOLEAN : m <=> ~Stops(dev')
    OBVIOUS
  <2>2. Stops(dev') \in BOOLEAN
    BY <1>5 DEF StageInv, StageTypes, DevT, Stops
  <2>3. tick' = [tick EXCEPT !.stages = @ + 1, !.more = m]
    BY <1>1, <2>1, <2>2
  <2>4. tick \in [in : BOOLEAN, stages : 0..MaxStages, more : BOOLEAN]
    BY DEF Inv, HostTypes
  <2>5. PICK k \in 0..MaxStages : k = tick.stages + 1
    BY <1>1, <2>4, SessionAssumption
  <2>6. tick' = [tick EXCEPT !.stages = k, !.more = m]
    BY <2>3, <2>5
  <2>7. QED
    BY <2>4, <2>6
<1>7. HostTypes'
  BY <1>1, <1>3, <1>4, <1>6 DEF Inv, HostTypes
<1>8. QED
  BY <1>5, <1>7 DEF Inv, StageInv

LEMMA StepPreserves ==
  ASSUME Inv, [Next]_vars
  PROVE  Inv'
<1>1. CASE HostCall
  BY <1>1, DrapeOpenKeeps, DrapeSceneKeeps, ConfigLiveKeeps, ConfigUploadKeeps, FitSetKeeps,
     RewindKeeps, QueueForwardKeeps, QueueBackwardKeeps, RdCloseKeeps DEF HostCall
<1>2. CASE HostTick
  BY <1>2, TicksKeep, RunStageKeeps DEF HostTick
<1>3. CASE NextFrame \/ UNCHANGED vars
  BY <1>3, TicksKeep
<1>4. QED
  BY <1>1, <1>2, <1>3 DEF Next

-----------------------------------------------------------------------------
(* The safety properties.                                                  *)

\* The inductive invariant: the head of the queue says which operation the sim
\* and the counters are in (drape_session.h, the stages; main.cpp, the calls).
THEOREM Invariance == Spec => []Inv
<1>1. Init => Inv
  BY InitEstablishes
<1>2. Inv /\ [Next]_vars => Inv'
  BY StepPreserves
<1>3. QED
  BY <1>1, <1>2, PTL DEF Spec

\* The types of the session, its sim, its queue and its device, whatever the
\* host calls and the stages do (drape_session.h, drape_sim.h).
THEOREM SessionIsTyped == Spec => []TypeOK
<1>1. Inv => TypeOK
  <2> SUFFICES ASSUME Inv PROVE TypeOK
    OBVIOUS
  <2>1. HostTypes /\ StageTypes
    BY DEF Inv
  <2>2. /\ cfg \in Gravities /\ dirty \in BOOLEAN /\ sess \in BOOLEAN
        /\ tick.stages \in 0..MaxStages
    BY <2>1 DEF HostTypes
  <2>3. /\ sim.phase \in {"Idle", "Solved", "Scanned"} /\ sim.failed \in BOOLEAN
        /\ sim.steps \in Nat /\ sim.fitSteps \in Nat
        /\ sim.fitActive \in BOOLEAN /\ sim.settling \in BOOLEAN /\ sim.pull \in BOOLEAN
    BY <2>1 DEF StageTypes, SimT, Phases
  <2>4. sim.pass \in 0..SelfPasses
    <3>1. sim.pass \in Nat /\ sim.pass <= SelfPasses /\ SelfPasses \in Nat
      BY <2>1, SessionAssumption DEF StageTypes, SimT, PassOK
    <3>2. QED
      BY <3>1
  <2>5. op.remaining \in Nat /\ op.from \in Nat /\ op.asked \in 0..MaxSteps
    BY <2>1 DEF StageTypes, OpT
  <2>6. bwd.on \in BOOLEAN /\ bwd.idx \in 0..bwd.n
    BY <2>1 DEF StageTypes, BwdT
  <2>7. \A k \in 1..Len(q) : q[k].n \in 0..MaxSteps
    <3>1. SUFFICES ASSUME NEW k \in 1..Len(q) PROVE q[k].n \in 0..MaxSteps
      OBVIOUS
    <3>2. q[k] \in Queued \cup Staged
      BY <2>1, ElementOfSeq DEF StageTypes, QueueOK
    <3>3. MaxSteps \in Nat
      BY SessionAssumption
    <3>4. QED
      BY <3>2, <3>3 DEF Queued, Staged
  <2>8. QED
    BY <2>2, <2>3, <2>4, <2>5, <2>6, <2>7 DEF TypeOK
<1>2. QED
  BY <1>1, Invariance, PTL

\* What the session answers is true of what its operation did: DONE exactly when
\* nothing failed and the steps asked for were made, by that operation and by no
\* other, and the settle of a fit that is DONE was made whole (drape_session.h,
\* finishForward, finishFit).
THEOREM VerdictsAreHonest == Spec => []HonestVerdict
<1>1. Inv => HonestVerdict
  <2> SUFFICES ASSUME Inv PROVE HonestVerdict
    OBVIOUS
  <2>1. OwnSteps
    BY DEF Inv
  <2>2. SettleIsWhole
    <3>1. SUFFICES ASSUME res.op = "fit", res.ok, ~session_busy, sess
                   PROVE  op.settleDone = sim.settle /\ res.done = op.fitDone + op.settleDone
      BY DEF SettleIsWhole
    <3>2. QED
      BY <3>1, BusyOrNoStage, WorkRests DEF Inv
  <2>3. QED
    BY <2>1, <2>2 DEF HonestVerdict
<1>2. QED
  BY <1>1, Invariance, PTL

\* A backward under way differentiates the forward it was started on: whatever
\* the host queues behind it, no step is begun, rewound or loaded under it
\* (drape_session.h, enqueueBackward; main.cpp, session_busy).
THEOREM BackwardsAreUndisturbed == Spec => []BackwardSeesWholeForward
<1>1. Inv => BackwardSeesWholeForward
  BY DEF Inv, Working, UnderWay, Counters, BackwardSeesWholeForward
<1>2. QED
  BY <1>1, Invariance, PTL

\* The fit pull is off only while the settle runs, whatever fails: each way out
\* of the fit turns it on again (drape_session.h, fitStage and finishFit).
THEOREM PullComesBack == Spec => []PullRestored
<1>1. Inv => PullRestored
  BY DEF Inv, Working, Pull, PullRestored
<1>2. QED
  BY <1>1, Invariance, PTL

\* Unless the host sets a live knob while the queue runs, what the fit borrows
\* comes back: gravity and damp are zero for the whole fit and the host's own
\* whenever the session is at rest (drape_session.h, enqueueFit and finishFit).
THEOREM BorrowedComesBack ==
  ASSUME ~LiveConfig
  PROVE  Spec => []FitReturnsWhatItBorrows
<1>1. Inv => FitReturnsWhatItBorrows
  <2> SUFFICES ASSUME Inv PROVE FitReturnsWhatItBorrows
    OBVIOUS
  <2>1. FitIsWeightless
    BY DEF Inv, Working, Gravity, FitIsWeightless
  <2>2. ConfigInForce
    BY BusyOrNoStage, WorkRests DEF Inv, ConfigInForce
  <2>3. PullRestored
    BY DEF Inv, Working, Pull, PullRestored
  <2>4. QED
    BY <2>1, <2>2, <2>3 DEF FitReturnsWhatItBorrows
<1>2. QED
  BY <1>1, Invariance, PTL
-----------------------------------------------------------------------------
(* The session implements DrapeQueue.                                      *)

Operations == {"forward", "fit", "backward"}
Ops(w) == [k \in 1..Len(w) |-> OperationOf(w[k].fn)]

LEMMA OpsTypes ==
  ASSUME NEW w \in Seq(Queued \cup Staged)
  PROVE  /\ Ops(w) \in Seq(Operations) /\ Len(Ops(w)) = Len(w)
         /\ \A k \in 1..Len(w) : Ops(w)[k] = OperationOf(w[k].fn)
<1>1. \A k \in 1..Len(w) : OperationOf(w[k].fn) \in Operations
  BY DEF OperationOf, Operations
<1>2. Len(w) \in Nat
  OBVIOUS
<1>3. PICK g : g = [k \in 1..Len(w) |-> OperationOf(w[k].fn)]
  OBVIOUS
<1>4. g \in [1..Len(w) -> Operations] /\ \A k \in 1..Len(w) : g[k] = OperationOf(w[k].fn)
  BY <1>1, <1>3
<1>5. g \in Seq(Operations) /\ Len(g) = Len(w)
  BY <1>2, <1>4
<1>6. QED
  BY <1>3, <1>4, <1>5 DEF Ops

LEMMA OpsAppend ==
  ASSUME NEW w \in Seq(Queued \cup Staged), NEW e \in Queued
  PROVE  /\ Ops(Append(w, e)) = Append(Ops(w), OperationOf(e.fn))
         /\ OperationOf(e.fn) \in Operations
<1>1. OperationOf(e.fn) \in Operations
  BY DEF OperationOf, Operations
<1>2. PICK v : v = Append(w, e)
  OBVIOUS
<1>3. /\ v \in Seq(Queued \cup Staged) /\ Len(v) = Len(w) + 1 /\ Len(w) \in Nat
      /\ \A k \in 1..Len(w) : v[k] = w[k]
      /\ v[Len(w) + 1] = e
  BY <1>2, AppendProperties
<1>4. PICK o \in Operations : o = OperationOf(e.fn)
  BY <1>1
<1>5. PICK t : t = Append(Ops(w), o)
  OBVIOUS
<1>6. /\ t \in Seq(Operations) /\ Len(t) = Len(w) + 1
      /\ \A k \in 1..Len(w) : t[k] = Ops(w)[k]
      /\ t[Len(w) + 1] = o
  BY <1>5, OpsTypes, AppendProperties
<1>7. /\ Ops(v) \in Seq(Operations) /\ Len(Ops(v)) = Len(v)
      /\ \A k \in 1..Len(v) : Ops(v)[k] = OperationOf(v[k].fn)
  BY <1>3, OpsTypes
<1>8. \A k \in 1..Len(w) : Ops(w)[k] = OperationOf(w[k].fn)
  BY OpsTypes
<1>9. \A k \in 1..Len(v) : Ops(v)[k] = t[k]
  BY <1>3, <1>4, <1>6, <1>7, <1>8
<1>10. Ops(v) = t
  BY <1>3, <1>6, <1>7, <1>9, SeqEqual
<1>11. QED
  BY <1>1, <1>2, <1>4, <1>5, <1>10

LEMMA OpsTail ==
  ASSUME NEW w \in Seq(Queued \cup Staged), w # <<>>
  PROVE  /\ Ops(w) # <<>> /\ Head(Ops(w)) = OperationOf(w[1].fn)
         /\ Ops(Tail(w)) = Tail(Ops(w))
<1>1. Len(w) \in Nat /\ Len(w) > 0
  BY EmptySeq
<1>2. /\ Ops(w) \in Seq(Operations) /\ Len(Ops(w)) = Len(w)
      /\ \A k \in 1..Len(w) : Ops(w)[k] = OperationOf(w[k].fn)
  BY OpsTypes
<1>3. Ops(w) # <<>>
  BY <1>1, <1>2, EmptySeq
<1>4. Head(Ops(w)) = OperationOf(w[1].fn)
  BY <1>1, <1>2
<1>5. PICK v : v = Tail(w)
  OBVIOUS
<1>6. /\ v \in Seq(Queued \cup Staged) /\ Len(v) = Len(w) - 1
      /\ \A k \in 1..Len(v) : v[k] = w[k + 1]
  BY <1>5, HeadTailProperties
<1>7. PICK t : t = Tail(Ops(w))
  OBVIOUS
<1>8. /\ t \in Seq(Operations) /\ Len(t) = Len(w) - 1
      /\ \A k \in 1..Len(t) : t[k] = Ops(w)[k + 1]
  BY <1>2, <1>3, <1>7, HeadTailProperties
<1>9. /\ Ops(v) \in Seq(Operations) /\ Len(Ops(v)) = Len(v)
      /\ \A k \in 1..Len(v) : Ops(v)[k] = OperationOf(v[k].fn)
  BY <1>6, OpsTypes
<1>10. \A k \in 1..Len(v) : Ops(v)[k] = t[k]
  BY <1>1, <1>2, <1>6, <1>8, <1>9
<1>11. Ops(v) = t
  BY <1>6, <1>8, <1>9, <1>10, SeqEqual
<1>12. QED
  BY <1>3, <1>4, <1>5, <1>7, <1>11

\* A stage that continues stands for the operation it is a stage of.
LEMMA OpsAgain ==
  ASSUME NEW w \in Seq(Queued \cup Staged), w # <<>>, NEW fn \in StageNames,
         OperationOf(w[1].fn) = OperationOf(fn)
  PROVE  Ops(<<[fn |-> fn, n |-> 0]>> \o Tail(w)) = Ops(w)
<1>1. Len(w) \in Nat /\ Len(w) > 0
  BY EmptySeq
<1>2. /\ Tail(w) \in Seq(Queued \cup Staged) /\ Len(Tail(w)) = Len(w) - 1
      /\ \A k \in 1..Len(Tail(w)) : Tail(w)[k] = w[k + 1]
  BY HeadTailProperties
<1>3. PICK e : e = [fn |-> fn, n |-> 0]
  OBVIOUS
<1>4. e \in Queued \cup Staged /\ e.fn = fn
  BY <1>3 DEF Staged
<1>5. PICK v : v = <<e>> \o Tail(w)
  OBVIOUS
<1>6. /\ v \in Seq(Queued \cup Staged) /\ Len(v) = Len(w) /\ v[1] = e
      /\ \A k \in 2..Len(v) : v[k] = w[k]
  <2>1. <<e>> \in Seq(Queued \cup Staged) /\ Len(<<e>>) = 1 /\ <<e>>[1] = e
    BY <1>4
  <2>2. /\ v \in Seq(Queued \cup Staged) /\ Len(v) = Len(Tail(w)) + 1 /\ v[1] = e
        /\ \A k \in 2..Len(v) : v[k] = Tail(w)[k - 1]
    BY <1>1, <1>2, <1>5, <2>1, ConcatProperties
  <2>3. QED
    BY <1>1, <1>2, <2>2
<1>7. /\ Ops(v) \in Seq(Operations) /\ Len(Ops(v)) = Len(v)
      /\ \A k \in 1..Len(v) : Ops(v)[k] = OperationOf(v[k].fn)
  BY <1>6, OpsTypes
<1>8. /\ Ops(w) \in Seq(Operations) /\ Len(Ops(w)) = Len(w)
      /\ \A k \in 1..Len(w) : Ops(w)[k] = OperationOf(w[k].fn)
  BY OpsTypes
<1>9. \A k \in 1..Len(v) : Ops(v)[k] = Ops(w)[k]
  <2>1. SUFFICES ASSUME NEW k \in 1..Len(v) PROVE OperationOf(v[k].fn) = OperationOf(w[k].fn)
    BY <1>6, <1>7, <1>8
  <2>2. CASE k = 1
    BY <1>4, <1>6, <2>2
  <2>3. CASE k # 1
    <3>1. k \in 2..Len(v)
      BY <1>1, <1>6, <2>3
    <3>2. QED
      BY <1>6, <3>1
  <2>4. QED
    BY <2>2, <2>3
<1>10. Ops(v) = Ops(w)
  BY <1>6, <1>7, <1>8, <1>9, SeqEqual
<1>11. QED
  BY <1>3, <1>5, <1>10

\* What a stage is to the queue: it goes on at the head of it, or it ends its
\* operation with a verdict of its own.
Ends(name) == Pop /\ res'.op = name /\ res'.ok \in BOOLEAN
GoesOn(fn) == Again(fn) /\ UNCHANGED res

LEMMA VerdictIsOwn ==
  ASSUME NEW name, NEW s, NEW o, NEW enough, Verdict(name, s, o, enough)
  PROVE  res'.op = name /\ res'.ok \in BOOLEAN
<1>1. PICK fin \in BOOLEAN :
        res' = [op |-> name, ok |-> ~s.failed /\ fin /\ enough, clean |-> ~s.failed /\ fin,
                asked |-> o.asked, done |-> s.steps - o.from]
  BY DEF Verdict
<1>2. res'.op = name /\ res'.ok = (~s.failed /\ fin /\ enough)
  BY <1>1, Zenon
<1>3. (~s.failed /\ fin /\ enough) \in BOOLEAN
  OBVIOUS
<1>4. QED
  BY <1>2, <1>3, Zenon

LEMMA ForwardOutcome ==
  ASSUME NEW s, NEW o, ForwardStage(s, o)
  PROVE  GoesOn("forwardStage") \/ Ends("forward")
<1>1. PICK a \in IF o.remaining > 0 /\ ~s.failed THEN advance(s, dev)
                  ELSE {[sim |-> s, dev |-> dev, done |-> FALSE]} :
        LET p == [o EXCEPT !.remaining = IF a.done THEN @ - 1 ELSE @] IN
        /\ sim' = a.sim /\ dev' = a.dev /\ op' = p
        /\ IF Continues(a.sim, p)
           THEN Again("forwardStage") /\ UNCHANGED res
           ELSE Pop /\ Verdict("forward", a.sim, p, a.sim.steps - p.from = p.asked)
  BY Zenon DEF ForwardStage
<1> DEFINE p == [o EXCEPT !.remaining = IF a.done THEN @ - 1 ELSE @]
<1>2. \/ Again("forwardStage") /\ UNCHANGED res
      \/ Pop /\ Verdict("forward", a.sim, p, a.sim.steps - p.from = p.asked)
  BY <1>1, Zenon
<1> HIDE DEF p
<1>3. QED
  BY <1>2, VerdictIsOwn DEF GoesOn, Ends

LEMMA FitOutcome ==
  ASSUME NEW s, NEW o, FitStage(s, o)
  PROVE  GoesOn("fitStage") \/ Ends("fit")
<1>1. PICK a, p, t, r, d :
        /\ FitPhase(s, o, a, p) /\ FitTurn(s, o, a, p, t, r, d)
        /\ op' = r
        /\ IF Continues(t, r)
           THEN sim' = t /\ dev' = d /\ Again("fitStage") /\ UNCHANGED res
           ELSE EndFit(t, r, d)
  BY FitStagesSplit
<1>2. \/ Again("fitStage") /\ UNCHANGED res
      \/ Pop /\ Verdict("fit", t, r, t.steps > r.from)
  BY <1>1 DEF EndFit
<1>3. QED
  BY <1>2, VerdictIsOwn DEF GoesOn, Ends

LEMMA BackwardOutcome ==
  ASSUME NEW r, NEW n, r.ok \in BOOLEAN, BackwardStage(r, n)
  PROVE  GoesOn("backwardStage") \/ Ends("backward")
<1>1. CASE r.over
  <2>1. /\ Pop
        /\ res' = [op |-> "backward", ok |-> r.ok, clean |-> r.ok, asked |-> n, done |-> n - r.idx]
    BY <1>1 DEF BackwardStage
  <2>2. QED
    BY <2>1 DEF Ends
<1>2. CASE ~r.over
  BY <1>2 DEF BackwardStage, GoesOn
<1>3. QED
  BY <1>1, <1>2

\* The session's step, seen as the queue's.
Todo == Ops(q)
LastVerdict == [op |-> res.op, ok |-> res.ok]

LEMMA GoesOnStutters ==
  ASSUME QueueOK(q), q # <<>>, NEW fn \in StageNames, OperationOf(q[1].fn) = OperationOf(fn), GoesOn(fn)
  PROVE  UNCHANGED <<Todo, LastVerdict>>
<1>1. q' = <<[fn |-> fn, n |-> 0]>> \o Tail(q) /\ res' = res
  BY DEF GoesOn, Again
<1>2. Ops(q') = Ops(q)
  BY <1>1, OpsAgain DEF QueueOK
<1>3. QED
  BY <1>1, <1>2 DEF Todo, LastVerdict

LEMMA EndsFinish ==
  ASSUME QueueOK(q), q # <<>>, NEW name, OperationOf(q[1].fn) = name, Ends(name)
  PROVE  /\ Todo # <<>> /\ Todo' = Tail(Todo)
         /\ \E ok \in BOOLEAN : LastVerdict' = [op |-> Head(Todo), ok |-> ok]
<1>1. q' = Tail(q) /\ res'.op = name /\ res'.ok \in BOOLEAN
  BY DEF Ends, Pop
<1>2. Ops(q) # <<>> /\ Head(Ops(q)) = name /\ Ops(Tail(q)) = Tail(Ops(q))
  BY OpsTail DEF QueueOK
<1>3. Todo # <<>> /\ Todo' = Tail(Todo)
  BY <1>1, <1>2 DEF Todo
<1>4. LastVerdict' = [op |-> Head(Todo), ok |-> res'.ok]
  BY <1>1, <1>2 DEF Todo, LastVerdict
<1>5. QED
  BY <1>1, <1>3, <1>4

LEMMA StagesRefine ==
  ASSUME QueueOK(q),
         StartForward \/ ContinueForward \/ StartFit \/ ContinueFit \/ StartBackward \/ ContinueBackward
  PROVE  \/ UNCHANGED <<Todo, LastVerdict>>
         \/ /\ Todo # <<>> /\ Todo' = Tail(Todo)
            /\ \E ok \in BOOLEAN : LastVerdict' = [op |-> Head(Todo), ok |-> ok]
<1>1. CASE StartForward \/ ContinueForward
  <2>1. q # <<>> /\ OperationOf(q[1].fn) = "forward"
    BY <1>1 DEF StartForward, ContinueForward, Stage, OperationOf
  <2>2. GoesOn("forwardStage") \/ Ends("forward")
    BY <1>1, ForwardOutcome DEF StartForward, ContinueForward
  <2>3. OperationOf("forwardStage") = "forward" /\ "forwardStage" \in StageNames
    BY DEF OperationOf, StageNames
  <2>4. QED
    BY <2>1, <2>2, <2>3, GoesOnStutters, EndsFinish
<1>2. CASE StartFit \/ ContinueFit
  <2>1. q # <<>> /\ OperationOf(q[1].fn) = "fit"
    BY <1>2 DEF StartFit, ContinueFit, Stage, OperationOf
  <2>2. GoesOn("fitStage") \/ Ends("fit")
    <3>1. CASE ContinueFit
      BY <3>1, FitOutcome DEF ContinueFit
    <3>2. CASE StartFit /\ ~sim.nFit
      <4>1. res' = Refused("fit") /\ Pop
        BY <3>2, Zenon DEF StartFit
      <4>2. QED
        BY <4>1 DEF Refused, Ends
    <3>3. CASE StartFit /\ sim.nFit
      <4>1. PICK s : s = [sim EXCEPT !.grav = FitGravity(sim), !.fitActive = TRUE,
                                     !.settling = FALSE, !.fitSteps = 0]
        OBVIOUS
      <4>2. PICK o : o = [Starts(sim, q[1].n) EXCEPT !.saved = sim.grav]
        OBVIOUS
      <4>3. FitStage(s, o)
        BY <3>3, <4>1, <4>2 DEF StartFit
      <4>4. QED
        BY <4>3, FitOutcome
    <3>4. QED
      BY <1>2, <3>1, <3>2, <3>3
  <2>3. OperationOf("fitStage") = "fit" /\ "fitStage" \in StageNames
    BY DEF OperationOf, StageNames
  <2>4. QED
    BY <2>1, <2>2, <2>3, GoesOnStutters, EndsFinish
<1>3. CASE StartBackward \/ ContinueBackward
  <2>1. q # <<>> /\ OperationOf(q[1].fn) = "backward"
    BY <1>3 DEF StartBackward, ContinueBackward, Stage, OperationOf
  <2>2. GoesOn("backwardStage") \/ Ends("backward")
    <3>1. ASSUME NEW k, NEW d, NEW n, NEW r \in NativeSubmit(k, d), BackwardStage(r, n)
          PROVE  GoesOn("backwardStage") \/ Ends("backward")
      <4>1. r.ok \in BOOLEAN
        <5>1. CASE k < 1
          <6>1. r = [idx |-> k, dev |-> d, over |-> TRUE, ok |-> TRUE]
            BY <5>1, Zenon DEF NativeSubmit
          <6>2. QED
            BY <6>1
        <5>2. CASE ~(k < 1)
          <6>1. PICK out \in Runs :
                  r = [idx |-> k, dev |-> Submit(d, out), over |-> Fails(out), ok |-> ~Fails(out)]
            BY <5>2 DEF NativeSubmit
          <6>2. r.ok = ~Fails(out)
            BY <6>1, Zenon
          <6>3. QED
            BY <6>2, Zenon
        <5>3. QED
          BY <5>1, <5>2
      <4>2. QED
        BY <3>1, <4>1, BackwardOutcome
    <3>2. ASSUME NEW k, NEW d, NEW n,
                 BackwardStage([idx |-> k, dev |-> d, over |-> TRUE, ok |-> FALSE], n)
          PROVE  GoesOn("backwardStage") \/ Ends("backward")
      <4>1. PICK r : r = [idx |-> k, dev |-> d, over |-> TRUE, ok |-> FALSE]
        OBVIOUS
      <4>2. r.ok \in BOOLEAN /\ BackwardStage(r, n)
        BY <3>2, <4>1
      <4>3. QED
        BY <4>2, BackwardOutcome
    <3>3. CASE res' = Refused("backward") /\ Pop
      BY <3>3 DEF Refused, Ends
    <3>4. CASE StartBackward
      BY <3>1, <3>2, <3>3, <3>4, Zenon DEF StartBackward
    <3>5. CASE ContinueBackward
      BY <3>1, <3>2, <3>5, Zenon DEF ContinueBackward
    <3>6. QED
      BY <1>3, <3>4, <3>5
  <2>3. OperationOf("backwardStage") = "backward" /\ "backwardStage" \in StageNames
    BY DEF OperationOf, StageNames
  <2>4. QED
    BY <2>1, <2>2, <2>3, GoesOnStutters, EndsFinish
<1>4. QED
  BY <1>1, <1>2, <1>3

LEMMA NoQueueNoTodo ==
  ASSUME QueueOK(q), q = <<>>
  PROVE  Todo = <<>>
<1>1. Ops(q) \in Seq(Operations) /\ Len(Ops(q)) = 0
  BY OpsTypes DEF QueueOK
<1>2. QED
  BY <1>1, EmptySeq DEF Todo

LEMMA LoadForgets ==
  ASSUME NEW sc, LoadScene(sc)
  PROVE  LastVerdict' = Queue!NoVerdict
  BY DEF LoadScene, NoResult, LastVerdict, Queue!NoVerdict

LEMMA QueuesRefine ==
  ASSUME Inv, NEW e \in Queued, q' = Append(q, e), Reload \/ UNCHANGED res
  PROVE  /\ \E o \in Operations : Todo' = Append(Todo, o)
         /\ UNCHANGED LastVerdict \/ (Todo = <<>> /\ LastVerdict' = Queue!NoVerdict)
<1>1. QueueOK(q)
  BY DEF Inv, StageTypes
<1>2. Ops(q') = Append(Ops(q), OperationOf(e.fn)) /\ OperationOf(e.fn) \in Operations
  BY <1>1, OpsAppend DEF QueueOK
<1>3. CASE UNCHANGED res
  BY <1>2, <1>3 DEF Todo, LastVerdict
<1>4. CASE dirty /\ Reload
  <2>1. ~session_busy /\ LoadScene(scene)
    BY <1>4 DEF Reload
  <2>2. Todo = <<>>
    BY <1>1, <2>1, BusyOrNoStage, NoQueueNoTodo
  <2>3. LastVerdict' = Queue!NoVerdict
    BY <2>1, LoadForgets
  <2>4. QED
    BY <1>2, <2>2, <2>3 DEF Todo
<1>5. QED
  BY <1>3, <1>4 DEF Reload

LEMMA QueueStep ==
  ASSUME Inv, [Next]_vars
  PROVE  [Queue!Next]_(Queue!vars)
<1> DEFINE Stutters == UNCHANGED <<Todo, LastVerdict>>
           Finishes == /\ Todo # <<>> /\ Todo' = Tail(Todo)
                       /\ \E ok \in BOOLEAN : LastVerdict' = [op |-> Head(Todo), ok |-> ok]
           Queues == /\ \E o \in Operations : Todo' = Append(Todo, o)
                     /\ UNCHANGED LastVerdict \/ (Todo = <<>> /\ LastVerdict' = Queue!NoVerdict)
           Loads == Todo = <<>> /\ LastVerdict' = Queue!NoVerdict /\ UNCHANGED Todo
           Drops == Todo' = <<>> /\ UNCHANGED LastVerdict
<1>1. SUFFICES Stutters \/ Finishes \/ Queues \/ Loads \/ Drops
  <2>1. CASE Stutters
    BY <2>1 DEF Queue!vars, Todo, Ops, LastVerdict
  <2>2. CASE Finishes
    BY <2>2 DEF Queue!Next, Queue!Finish, Todo, Ops, LastVerdict
  <2>3. CASE Queues
    BY <2>3 DEF Queue!Next, Queue!Queue, Queue!Operations, Operations, Todo, Ops, LastVerdict
  <2>4. CASE Loads
    BY <2>4 DEF Queue!Next, Queue!Load, Todo, Ops, LastVerdict
  <2>5. CASE Drops
    BY <2>5 DEF Queue!Next, Queue!Drop, Todo, Ops, LastVerdict
  <2>6. QED
    BY <2>1, <2>2, <2>3, <2>4, <2>5
<1>2. QueueOK(q)
  BY DEF Inv, StageTypes
<1>3. UNCHANGED <<q, res>> => Stutters
  BY DEF Todo, LastVerdict
<1>4. ASSUME q = <<>>, UNCHANGED q, NEW sc, LoadScene(sc)
      PROVE  Loads
  BY <1>2, <1>4, NoQueueNoTodo, LoadForgets DEF Todo
<1>5. CASE DrapeOpen
  <2>1. q = <<>> /\ q' = <<>> /\ UNCHANGED res
    BY <1>5, BusyOrNoStage DEF DrapeOpen, OpenRefused
  <2>2. QED
    BY <1>3, <2>1
<1>6. CASE \E name \in {"mesh", "sphere"} : DrapeScene(name)
  <2>1. q = <<>> /\ UNCHANGED q /\ (LoadScene(scene') \/ LoadFails)
    BY <1>6, BusyOrNoStage DEF DrapeScene
  <2>2. CASE LoadScene(scene')
    BY <1>4, <2>1, <2>2
  <2>3. CASE LoadFails
    BY <1>3, <2>1, <2>3 DEF LoadFails
  <2>4. QED
    BY <2>1, <2>2, <2>3
<1>7. CASE \/ \E g \in Gravities : ConfigLive(g)
           \/ ConfigUpload
           \/ \E n \in Settles : FitSet(n)
  BY <1>3, <1>7 DEF ConfigLive, ConfigUpload, FitSet
<1>8. CASE Rewind
  <2>1. q = <<>> /\ UNCHANGED q /\ (LoadScene(scene) \/ UNCHANGED res)
    BY <1>8, BusyOrNoStage DEF Rewind
  <2>2. CASE LoadScene(scene)
    BY <1>4, <2>1, <2>2
  <2>3. CASE UNCHANGED res
    BY <1>3, <2>1, <2>3
  <2>4. QED
    BY <2>1, <2>2, <2>3
<1>9. CASE \E n \in 1..MaxSteps : QueueForward(n) \/ QueueFit(n)
  <2>1. PICK n \in 1..MaxSteps : QueueForward(n) \/ QueueFit(n)
    BY <1>9
  <2>2. PICK fn \in {"enqueueForward", "enqueueFit"} : q' = Append(q, [fn |-> fn, n |-> n]) /\ Reload
    BY <2>1 DEF QueueForward, QueueFit
  <2>3. PICK e \in Queued : e = [fn |-> fn, n |-> n]
    BY DEF Queued
  <2>4. Queues
    BY <2>2, <2>3, QueuesRefine
  <2>5. QED
    BY <2>4
<1>10. CASE QueueBackward
  <2>1. PICK e \in Queued : e = [fn |-> "enqueueBackward", n |-> 0]
    BY DEF Queued
  <2>2. q' = Append(q, e) /\ UNCHANGED res
    BY <1>10, <2>1 DEF QueueBackward
  <2>3. Queues
    BY <2>2, QueuesRefine
  <2>4. QED
    BY <2>3
<1>11. CASE RdClose
  <2>1. q' = <<>> /\ UNCHANGED res
    BY <1>11 DEF RdClose
  <2>2. Ops(q') = <<>>
    <3>1. q' \in Seq(Queued \cup Staged) /\ Len(q') = 0
      BY <2>1
    <3>2. Ops(q') \in Seq(Operations) /\ Len(Ops(q')) = 0
      BY <3>1, OpsTypes
    <3>3. QED
      BY <3>2, EmptySeq
  <2>3. QED
    BY <2>1, <2>2 DEF Todo, LastVerdict
<1>12. CASE RunStage
  BY <1>2, <1>12, StagesRefine DEF RunStage
<1>13. CASE TickNoSession \/ TickBegin \/ TickEnd \/ NextFrame \/ UNCHANGED vars
  BY <1>3, <1>13 DEF TickNoSession, TickBegin, TickEnd, NextFrame, vars
<1>14. QED
  BY <1>5, <1>6, <1>7, <1>8, <1>9, <1>10, <1>11, <1>12, <1>13 DEF Next, HostCall, HostTick

\* The session implements DrapeQueue, in every behaviour of it and for every
\* configuration: the operations end in the order they were queued, each with
\* one verdict, its own; none is passed over (drape_session.h, the stages' next();
\* main.cpp, the drape_queue_ calls).
THEOREM SessionKeepsItsQueue == Spec => Queue!Safety
<1>1. Init => Queue!Init
  <2> SUFFICES ASSUME Init PROVE Queue!Init
    OBVIOUS
  <2>1. q = <<>> /\ res = NoResult
    BY DEF Init
  <2>2. Todo = <<>>
    BY <2>1, InitEstablishes, NoQueueNoTodo DEF Inv, StageTypes
  <2>3. LastVerdict = Queue!NoVerdict
    BY <2>1 DEF LastVerdict, NoResult, Queue!NoVerdict
  <2>4. QED
    BY <2>2, <2>3 DEF Queue!Init, Todo, Ops, LastVerdict
<1>2. Inv /\ [Next]_vars => [Queue!Next]_(Queue!vars)
  BY QueueStep
<1>3. QED
  BY <1>1, <1>2, Invariance, PTL DEF Spec, Queue!Safety
-----------------------------------------------------------------------------
(* Rule 4.                                                                 *)

\* No submit is made whose operation has failed: a run that fails once its list
\* is submitted does not occur, nor a short readback before a scan.
NoStrandedSubmit ==
  "failedInFlight" \notin Runs /\ (SelfCollision => "positions" \notin ShortReads)

\* The device as a stage leaves it: what it submitted is in flight still.
KeptFrame(d) == d \in DevT /\ ~d.sameFrameSync /\ (d.fresh => d.pending)

\* A submit of this frame has ended the tick that made it.
Frame ==
  /\ ~dev.sameFrameSync
  /\ tick.in => ticked
  /\ dev.fresh => ticked /\ (tick.in => ~tick.more)

LEMMA SubmitKeepsFrame ==
  ASSUME "failedInFlight" \notin Runs, NEW d \in DevT, ~d.fresh, ~d.sameFrameSync, NEW out \in Runs
  PROVE  KeptFrame(Submit(d, out)) /\ (Submit(d, out).fresh => ~Fails(out))
<1>1. out \in RunOutcomes /\ out # "failedInFlight"
  BY SessionAssumption
<1>2. QED
  BY <1>1, SubmitTypes DEF KeptFrame, Fails

\* A phase that submitted leaves its step under way and not failed.
UnderWayIfFresh(a) == KeptFrame(a.dev) /\ (a.dev.fresh => ~a.done /\ ~a.sim.failed)

LEMMA ScanKeepsFrame ==
  ASSUME "failedInFlight" \notin Runs, NEW s \in SimT, ~s.failed,
         NEW d \in DevT, ~d.fresh, ~d.sameFrameSync, NEW a \in Scan(s, d)
  PROVE  UnderWayIfFresh(a)
<1>1. PICK out \in Runs :
        a = [sim |-> [s EXCEPT !.phase = "Scanned", !.failed = @ \/ Fails(out)],
             dev |-> Submit(d, out), done |-> FALSE]
  BY DEF Scan
<1>2. PICK f \in BOOLEAN : f <=> Fails(out)
  OBVIOUS
<1>3. Fails(out) \in BOOLEAN /\ s.failed \in BOOLEAN
  BY DEF Fails, SimT
<1>4. a = [sim |-> [s EXCEPT !.phase = "Scanned", !.failed = f],
           dev |-> Submit(d, out), done |-> FALSE]
  <2>1. (s.failed \/ Fails(out)) = f
    BY <1>2, <1>3
  <2>2. QED
    BY <1>1, <2>1
<1>5. a.sim = [s EXCEPT !.phase = "Scanned", !.failed = f] /\ a.dev = Submit(d, out) /\ a.done = FALSE
  BY <1>4
<1>6. a.sim.failed = f
  BY <1>5 DEF SimT
<1>7. QED
  BY <1>2, <1>5, <1>6, SubmitKeepsFrame DEF UnderWayIfFresh

LEMMA AdvanceKeepsFrame ==
  ASSUME NoStrandedSubmit, NEW s \in SimT, ~s.failed, PassOK(s),
         NEW d \in DevT, ~d.fresh, ~d.sameFrameSync, NEW a \in advance(s, d)
  PROVE  UnderWayIfFresh(a)
<1>1. PICK e \in DevT : e = Touch(d) /\ ~e.fresh /\ ~e.sameFrameSync
  BY TouchTypes
<1>2. CASE s.phase = "Idle"
  <2>1. PICK out \in Runs :
          a = [sim |-> [s EXCEPT !.phase = "Solved", !.failed = Fails(out),
                                 !.age = IF RefreshesNow(s) THEN 0 ELSE @],
               dev |-> Submit(d, out), done |-> FALSE]
    BY <1>2 DEF advance, Begin
  <2>2. PICK f \in BOOLEAN : f = Fails(out)
    <3>1. Fails(out) \in BOOLEAN
      BY DEF Fails
    <3>2. QED
      BY <3>1
  <2>3. PICK g \in Nat : g = IF RefreshesNow(s) THEN 0 ELSE s.age
    BY DEF SimT
  <2>4. a.sim = [s EXCEPT !.phase = "Solved", !.failed = f, !.age = g]
        /\ a.dev = Submit(d, out) /\ a.done = FALSE
    BY <2>1, <2>2, <2>3
  <2>5. a.sim.failed = f
    BY <2>4 DEF SimT
  <2>6. QED
    BY <2>2, <2>4, <2>5, SubmitKeepsFrame DEF UnderWayIfFresh, NoStrandedSubmit
<1>3. CASE s.phase = "Solved"
  <2>1. PICK short \in Shorts :
          a \in LET t == ReadSim(s, short) IN
                IF SelfCollision THEN Scan(t, Touch(d)) ELSE {Finished(t, Touch(d))}
    BY <1>3 DEF advance, Solved, ReadSim
  <2>2. PICK t : t = ReadSim(s, short)
    OBVIOUS
  <2>3. short \in BOOLEAN /\ (SelfCollision => ~short)
    BY DEF Shorts, NoStrandedSubmit
  <2>4. t \in SimT /\ t.failed = short
    BY <2>2, <2>3, ReadSimKeeps
  <2>5. CASE SelfCollision
    <3>1. a \in Scan(t, e)
      BY <1>1, <2>1, <2>2, <2>5
    <3>2. QED
      BY <1>1, <2>3, <2>4, <2>5, <3>1, ScanKeepsFrame DEF NoStrandedSubmit
  <2>6. CASE ~SelfCollision
    <3>1. a.dev = e
      BY <1>1, <2>1, <2>2, <2>6 DEF Finished
    <3>2. QED
      BY <1>1, <3>1 DEF UnderWayIfFresh, KeptFrame
  <2>7. QED
    BY <2>5, <2>6
<1>4. CASE s.phase = "Scanned"
  <2>1. PICK n \in Nat : n = s.pass + 1
    BY DEF SimT
  <2>2. PICK t : t = [s EXCEPT !.pass = n]
    OBVIOUS
  <2>3. t \in SimT /\ t.failed = s.failed
    BY <2>2 DEF SimT
  <2>4. a = Finished(t, e) \/ a \in Scan(t, e)
    BY <1>1, <1>4, <2>1, <2>2 DEF advance, Scanned
  <2>5. CASE a = Finished(t, e)
    BY <1>1, <2>5 DEF UnderWayIfFresh, KeptFrame, Finished
  <2>6. CASE a \in Scan(t, e)
    BY <1>1, <2>3, <2>6, ScanKeepsFrame DEF NoStrandedSubmit
  <2>7. QED
    BY <2>4, <2>5, <2>6
<1>5. QED
  BY <1>2, <1>3, <1>4 DEF SimT, Phases

LEMMA ForwardKeepsFrame ==
  ASSUME NoStrandedSubmit, dev \in DevT, ~dev.fresh, ~dev.sameFrameSync,
         NEW s \in SimT, PassOK(s), NEW o, ForwardStage(s, o)
  PROVE  KeptFrame(dev')
<1>1. PICK a \in IF o.remaining > 0 /\ ~s.failed THEN advance(s, dev)
                  ELSE {[sim |-> s, dev |-> dev, done |-> FALSE]} :
        dev' = a.dev
  BY DEF ForwardStage
<1>2. CASE o.remaining > 0 /\ ~s.failed
  BY <1>1, <1>2, AdvanceKeepsFrame DEF UnderWayIfFresh
<1>3. CASE ~(o.remaining > 0 /\ ~s.failed)
  BY <1>1, <1>3 DEF KeptFrame
<1>4. QED
  BY <1>2, <1>3

LEMMA FitKeepsFrame ==
  ASSUME NoStrandedSubmit, dev \in DevT, ~dev.fresh, ~dev.sameFrameSync,
         NEW s \in SimT, PassOK(s), NEW o \in OpT, o.remaining > 0, FitCount(s, o),
         o.converged => s.settling \/ s.settle = 0, FitStage(s, o)
  PROVE  KeptFrame(dev')
<1>1. PICK a, p, t, r, d :
        /\ FitPhase(s, o, a, p) /\ FitTurn(s, o, a, p, t, r, d)
        /\ op' = r
        /\ IF Continues(t, r)
           THEN sim' = t /\ dev' = d /\ Again("fitStage") /\ UNCHANGED res
           ELSE EndFit(t, r, d)
  BY FitStagesSplit
<1>2. Turned(s, o, a, p, t, r, d) /\ Phased(s, o, a, p)
  BY <1>1, FitTurns, FitPhases
<1>3. a.sim \in SimT /\ a.dev \in DevT /\ a.done \in BOOLEAN /\ t.failed = a.sim.failed
  BY <1>2 DEF Turned, Phased
<1>4. UnderWayIfFresh(a)
  <2>1. CASE s.failed
    BY <1>1, <2>1 DEF FitPhase, UnderWayIfFresh, KeptFrame
  <2>2. CASE ~s.failed
    <3>1. a \in advance(s, dev)
      BY <1>1, <2>2 DEF FitPhase
    <3>2. QED
      BY <2>2, <3>1, AdvanceKeepsFrame
  <2>3. QED
    BY <2>1, <2>2
<1>5. a.dev.fresh => p = o /\ ~a.sim.failed /\ ~StartsSettle(a.sim, p)
  <2>1. SUFFICES ASSUME a.dev.fresh PROVE p = o /\ ~a.sim.failed /\ ~StartsSettle(a.sim, p)
    OBVIOUS
  <2>2. p = o /\ ~a.sim.failed
    BY <1>2, <1>4, <2>1 DEF UnderWayIfFresh, Phased
  <2>3. a.sim.settling = s.settling /\ a.sim.settle = s.settle
    BY <1>2 DEF Phased, Kept
  <2>4. o.remaining \in Nat /\ s.settle \in Nat
    BY DEF OpT, SimT
  <2>5. QED
    BY <2>2, <2>3, <2>4 DEF StartsSettle, FitOver
<1>6. KeptFrame(d) /\ (d.fresh => Continues(t, r))
  <2>1. CASE StartsSettle(a.sim, p)
    <3>1. ~a.dev.fresh
      BY <1>5, <2>1
    <3>2. d = Touch(a.dev)
      BY <1>1, <2>1 DEF FitTurn, setFitPull
    <3>3. QED
      BY <1>3, <1>4, <3>1, <3>2, TouchTypes DEF KeptFrame, UnderWayIfFresh
  <2>2. CASE ~StartsSettle(a.sim, p)
    <3>1. d = a.dev /\ r = p
      BY <1>1, <2>2 DEF FitTurn
    <3>2. QED
      BY <1>3, <1>4, <1>5, <3>1 DEF UnderWayIfFresh, Continues
  <2>3. QED
    BY <2>1, <2>2
<1>7. CASE Continues(t, r)
  BY <1>1, <1>6, <1>7
<1>8. CASE ~Continues(t, r)
  <2>1. ~d.fresh /\ d \in DevT /\ ~d.sameFrameSync
    BY <1>6, <1>8 DEF KeptFrame
  <2>2. dev' = d \/ dev' = Touch(d)
    BY <1>1, <1>8 DEF EndFit, setFitPull
  <2>3. QED
    BY <2>1, <2>2, TouchTypes DEF KeptFrame
<1>9. QED
  BY <1>7, <1>8

\* The sim and the counters a fit starts on.
FitStarts(s, o) ==
  /\ s \in SimT /\ PassOK(s) /\ o \in OpT /\ o.remaining > 0 /\ FitCount(s, o)
  /\ ~o.converged /\ ~s.settling /\ s.fitActive /\ s.nFit = sim.nFit /\ s.settle = sim.settle
  /\ s.fitSteps = 0 /\ s.grav = 0 /\ o.saved = sim.grav
  /\ s.phase = "Idle" \/ s.failed

LEMMA FitStartStages ==
  ASSUME StageInv, StartFit, sim.nFit
  PROVE  \E s, o : FitStarts(s, o) /\ FitStage(s, o)
<1>1. /\ q # <<>> /\ q[1].fn = "enqueueFit"
      /\ sim \in SimT /\ op \in OpT /\ QueueOK(q) /\ PassOK(sim)
  BY DEF StartFit, Stage, StageInv, StageTypes
<1>2. NoStageAt(q)
  BY <1>1, HeadsOfQueue DEF NoStageAt
<1>3. AtRest(sim)
  BY <1>2, WorkRests DEF StageInv
<1>4. PICK n \in 1..MaxSteps : n = q[1].n
  BY <1>1, HeadsOfQueue
<1>5. PICK f \in Nat : f = sim.steps
  BY <1>1 DEF SimT
<1>6. PICK g \in Int : g = sim.grav
  BY <1>1 DEF SimT
<1>7. PICK o : o = FitOp(op, n, f, g)
  OBVIOUS
<1>8. PICK s : s = FittingSim(sim)
  OBVIOUS
<1>9. [Starts(sim, n) EXCEPT !.saved = g] = o
  BY <1>1, <1>5, <1>7 DEF Starts, FitOp, OpT
<1>10. FitStage(s, o)
  BY <1>4, <1>6, <1>8, <1>9 DEF StartFit, FittingSim, FitGravity
<1>11. /\ o \in OpT /\ o.remaining = n /\ o.from = f /\ o.fitDone = 0 /\ o.settleDone = 0
       /\ o.saved = g /\ ~o.converged
  <2>1. LET p == FitOp(op, n, f, g) IN
        /\ p \in OpT /\ p.remaining = n /\ p.from = f /\ p.fitDone = 0 /\ p.settleDone = 0
        /\ p.saved = g /\ ~p.converged
    BY <1>1, FitOpKeeps
  <2>2. QED
    BY <1>7, <2>1
<1>12. /\ s \in SimT /\ s.grav = 0 /\ s.fitActive /\ ~s.settling /\ s.pull = sim.pull
       /\ s.phase = sim.phase /\ s.pass = sim.pass /\ s.steps = sim.steps /\ s.failed = sim.failed
       /\ s.nFit = sim.nFit /\ s.settle = sim.settle /\ s.fitSteps = 0
  BY <1>1, <1>8, FittingSimKeeps
<1>13. PassOK(s)
  BY <1>1, <1>12 DEF PassOK
<1>14. FitCount(s, o)
  BY <1>3, <1>5, <1>11, <1>12 DEF FitCount, AtRest
<1>15. o.remaining > 0
  BY <1>11
<1>16. FitStarts(s, o)
  BY <1>3, <1>6, <1>11, <1>12, <1>13, <1>14, <1>15 DEF FitStarts, AtRest
<1>17. QED
  BY <1>10, <1>16, Zenon

LEMMA StageKeepsFrame ==
  ASSUME NoStrandedSubmit, StageInv, ~dev.fresh, ~dev.sameFrameSync,
         StartForward \/ ContinueForward \/ StartFit \/ ContinueFit \/ StartBackward \/ ContinueBackward
  PROVE  KeptFrame(dev')
<1>1. sim \in SimT /\ PassOK(sim) /\ op \in OpT /\ dev \in DevT /\ QueueOK(q)
  BY DEF StageInv, StageTypes
<1>2. UNCHANGED dev => KeptFrame(dev')
  BY <1>1 DEF KeptFrame
<1>3. CASE StartForward \/ ContinueForward
  <2>1. PICK o : ForwardStage(sim, o)
    BY <1>3 DEF StartForward, ContinueForward
  <2>2. QED
    BY <1>1, <2>1, ForwardKeepsFrame
<1>4. CASE StartFit
  <2>1. CASE ~sim.nFit
    BY <1>2, <1>4, <2>1 DEF StartFit
  <2>2. CASE sim.nFit
    <3>1. PICK s, o : FitStarts(s, o) /\ FitStage(s, o)
      BY <1>4, <2>2, FitStartStages
    <3>2. QED
      BY <1>1, <3>1, FitKeepsFrame DEF FitStarts
  <2>3. QED
    BY <2>1, <2>2
<1>5. CASE ContinueFit
  <2>1. q # <<>> /\ HeadIs(q, "fitStage") /\ FitStage(sim, op)
    BY <1>5 DEF ContinueFit, Stage, HeadIs
  <2>2. /\ FitCount(sim, op) /\ op.remaining > 0
        /\ op.converged => sim.settling \/ sim.settle = 0
    BY <2>1 DEF StageInv, Working, UnderWay, FitCounters, FitCount, Pull, At
  <2>3. QED
    BY <1>1, <2>1, <2>2, FitKeepsFrame
<1>6. CASE StartBackward \/ ContinueBackward
  <2>1. ASSUME NEW k, NEW d \in DevT, ~d.fresh, ~d.sameFrameSync, NEW n, NEW r \in NativeSubmit(k, d),
               BackwardStage(r, n)
        PROVE  KeptFrame(dev')
    <3>1. dev' = d \/ \E out \in Runs : dev' = Submit(d, out)
      BY <2>1 DEF NativeSubmit, BackwardStage
    <3>2. QED
      BY <2>1, <3>1, SubmitKeepsFrame DEF KeptFrame, NoStrandedSubmit
  <2>2. PICK e \in DevT : e = Touch(dev) /\ ~e.fresh /\ ~e.sameFrameSync
    BY <1>1, TouchTypes
  <2>3. ASSUME NEW r, NEW n, r.dev = dev \/ r.dev = e, BackwardStage(r, n)
        PROVE  KeptFrame(dev')
    BY <1>1, <2>2, <2>3 DEF BackwardStage, KeptFrame
  <2>4. CASE StartBackward
    <3>1. CASE \E r \in NativeSubmit(sim.steps, dev) : BackwardStage(r, sim.steps)
      BY <1>1, <2>1, <3>1
    <3>2. CASE BackwardStage([idx |-> sim.steps, dev |-> dev, over |-> TRUE, ok |-> FALSE], sim.steps)
      <4>1. PICK r : r = [idx |-> sim.steps, dev |-> dev, over |-> TRUE, ok |-> FALSE]
        OBVIOUS
      <4>2. r.dev = dev /\ BackwardStage(r, sim.steps)
        BY <3>2, <4>1
      <4>3. QED
        BY <2>3, <4>2
    <3>3. QED
      BY <1>2, <2>4, <3>1, <3>2 DEF StartBackward
  <2>5. CASE ContinueBackward
    <3>1. CASE \E r \in NativeSubmit(bwd.idx - 1, Touch(dev)) : BackwardStage(r, bwd.n)
      BY <2>1, <2>2, <3>1
    <3>2. CASE BackwardStage([idx |-> bwd.idx, dev |-> Touch(dev), over |-> TRUE, ok |-> FALSE], bwd.n)
      <4>1. PICK r : r = [idx |-> bwd.idx, dev |-> Touch(dev), over |-> TRUE, ok |-> FALSE]
        OBVIOUS
      <4>2. r.dev = e /\ BackwardStage(r, bwd.n)
        BY <2>2, <3>2, <4>1
      <4>3. QED
        BY <2>3, <4>2
    <3>3. QED
      BY <2>5, <3>1, <3>2 DEF ContinueBackward
  <2>6. QED
    BY <1>6, <2>4, <2>5
<1>7. QED
  BY <1>3, <1>4, <1>5, <1>6

LEMMA FrameStep ==
  ASSUME NoStrandedSubmit, Inv, Frame, [Next]_vars
  PROVE  Frame'
<1>1. dev \in DevT /\ tick.in \in BOOLEAN /\ ticked \in BOOLEAN
  BY DEF Inv, HostTypes, StageTypes
<1>2. UNCHANGED <<dev, tick, ticked>> => Frame'
  BY DEF Frame
<1>3. CASE HostCall
  BY <1>2, <1>3 DEF HostCall, Call, DrapeOpen, DrapeScene, ConfigLive, ConfigUpload, FitSet, Rewind,
     QueueForward, QueueFit, QueueBackward, RdClose
<1>4. CASE TickNoSession \/ UNCHANGED vars
  BY <1>2, <1>4 DEF TickNoSession, vars
<1>5. CASE TickBegin
  <2>1. ticked' = TRUE /\ UNCHANGED dev /\ ~ticked
    BY <1>5 DEF TickBegin
  <2>2. QED
    BY <2>1 DEF Frame
<1>6. CASE TickEnd
  <2>1. ~tick'.in /\ UNCHANGED <<dev, ticked>>
    BY <1>6 DEF TickEnd, NoTick
  <2>2. QED
    BY <2>1 DEF Frame
<1>7. CASE NextFrame
  <2>1. ~tick.in /\ UNCHANGED tick /\ dev' = [dev EXCEPT !.fresh = FALSE]
    BY <1>7 DEF NextFrame
  <2>2. ~dev'.fresh /\ dev'.sameFrameSync = dev.sameFrameSync
    BY <1>1, <2>1 DEF DevT
  <2>3. QED
    BY <2>1, <2>2 DEF Frame
<1>8. CASE RunStage
  <2>1. /\ tick.in /\ tick.more /\ UNCHANGED <<ticked>>
        /\ StartForward \/ ContinueForward \/ StartFit \/ ContinueFit \/ StartBackward \/ ContinueBackward
        /\ tick' = [tick EXCEPT !.stages = @ + 1, !.more = ~Stops(dev')]
    BY <1>8 DEF RunStage
  <2>2. ~dev.fresh /\ ~dev.sameFrameSync /\ ticked
    BY <2>1 DEF Frame
  <2>3. q # <<>>
    BY <2>1 DEF StartForward, ContinueForward, StartFit, ContinueFit, StartBackward, ContinueBackward, Stage
  <2>4. StageInv
    BY <2>3 DEF Inv, HostTypes, StageInv
  <2>5. KeptFrame(dev')
    BY <2>1, <2>2, <2>4, StageKeepsFrame
  <2>6. dev'.fresh => ~tick'.more
    <3>1. SUFFICES ASSUME dev'.fresh PROVE ~tick'.more
      OBVIOUS
    <3>2. Stops(dev') = TRUE
      BY <2>5, <3>1 DEF KeptFrame, Stops, DevT
    <3>3. tick' = [tick EXCEPT !.stages = @ + 1, !.more = FALSE]
      BY <2>1, <3>2
    <3>4. tick \in [in : BOOLEAN, stages : 0..MaxStages, more : BOOLEAN]
      BY DEF Inv, HostTypes
    <3>5. PICK k : k = tick.stages + 1
      OBVIOUS
    <3>6. tick' = [tick EXCEPT !.stages = k, !.more = FALSE]
      BY <3>3, <3>5
    <3>7. QED
      BY <3>4, <3>6
  <2>7. QED
    BY <2>1, <2>2, <2>5, <2>6 DEF Frame, KeptFrame
<1>9. QED
  BY <1>3, <1>4, <1>5, <1>6, <1>7, <1>8 DEF Next, HostTick

\* Rule 4 (main.cpp 174): whatever the host queues, the session never waits for
\* a submit in the frame that made it, where no operation fails with its list
\* submitted. Where one may (a run that fails after its submit, a short readback
\* before a scan) the next operation's first upload waits for that submit.
THEOREM SubmitsEndTheirTick ==
  ASSUME NoStrandedSubmit
  PROVE  Spec => []RuleFour
<1>1. Init => Frame
  BY DEF Init, Frame, NoTick
<1>2. Inv /\ Frame /\ [Next]_vars => Frame'
  BY FrameStep
<1>3. Frame => RuleFour
  BY DEF Frame, RuleFour
<1>4. QED
  BY <1>1, <1>2, <1>3, Invariance, PTL DEF Spec

-----------------------------------------------------------------------------
(* The stop test.                                                          *)

\* The remainder of the step after: a cycle goes round.
LEMMA SmallMultiple ==
  ASSUME NEW R \in Nat \ {0}, NEW d \in Int, R * d < R, 0 - R < R * d
  PROVE  d = 0
<1>1. CASE d >= 1
  BY <1>1, Z3
<1>2. CASE d <= 0 - 1
  BY <1>2, Z3
<1>. QED BY <1>1, <1>2

LEMMA DivMod ==
  ASSUME NEW n \in Nat, NEW R \in Nat \ {0}
  PROVE  n = R * (n \div R) + (n % R) /\ n % R \in 0..(R - 1) /\ n \div R \in Int
 OBVIOUS

LEMMA TimesMinus ==
  ASSUME NEW R \in Int, NEW j \in Int, NEW k \in Int
  PROVE  R * (j - k) = R * j - R * k
 OBVIOUS

LEMMA ModIs ==
  ASSUME NEW n \in Nat, NEW R \in Nat \ {0}, NEW k \in Int, NEW m \in 0..(R - 1), n = R * k + m
  PROVE  n % R = m
<1>1. PICK j \in Int : j = n \div R
  BY DivMod
<1>2. PICK i \in 0..(R - 1) : i = n % R
  BY DivMod
<1>3. n = R * j + i
  BY <1>1, <1>2, DivMod
<1>4. PICK d \in Int : d = j - k
  OBVIOUS
<1>5. R * d = R * j - R * k
  BY <1>4, TimesMinus
<1>6. PICK a \in Int, b \in Int, c \in Int : a = R * j /\ b = R * k /\ c = R * d
  OBVIOUS
<1>7. c = m - i
  BY <1>3, <1>5, <1>6
<1>8. d = 0
  BY <1>6, <1>7, SmallMultiple
<1>9. R * d = 0
  BY <1>8
<1>10. QED
  BY <1>2, <1>6, <1>7, <1>9

LEMMA ModNext ==
  ASSUME NEW n \in Nat, NEW R \in Nat \ {0}
  PROVE  /\ n % R \in 0..(R - 1)
         /\ (n % R) + 1 = R => (n + 1) % R = 0
         /\ (n % R) + 1 # R => (n + 1) % R = (n % R) + 1
<1>1. PICK j \in Int : j = n \div R
  BY DivMod
<1>2. PICK i \in 0..(R - 1) : i = n % R
  BY DivMod
<1>3. n = R * j + i
  BY <1>1, <1>2, DivMod
<1>4. i + 1 = R => (n + 1) % R = 0
  <2> SUFFICES ASSUME i + 1 = R PROVE (n + 1) % R = 0
    OBVIOUS
  <2>1. n + 1 = R * j + R
    BY <1>3
  <2>2. R * (j + 1) = R * j + R
    OBVIOUS
  <2>3. n + 1 = R * (j + 1) + 0
    BY <2>1, <2>2
  <2>4. PICK x \in Nat, k \in Int, m \in 0..(R - 1) : x = n + 1 /\ k = j + 1 /\ m = 0
    OBVIOUS
  <2>5. x = R * k + m
    BY <2>3, <2>4
  <2>6. x % R = m
    BY <2>5, ModIs
  <2>7. QED
    BY <2>4, <2>6
<1>5. i + 1 # R => (n + 1) % R = i + 1
  <2> SUFFICES ASSUME i + 1 # R PROVE (n + 1) % R = i + 1
    OBVIOUS
  <2>1. n + 1 = R * j + (i + 1) /\ i + 1 \in 0..(R - 1)
    BY <1>3
  <2>2. PICK x \in Nat, m \in 0..(R - 1) : x = n + 1 /\ m = i + 1
    BY <2>1
  <2>3. x = R * j + m
    BY <2>1, <2>2
  <2>4. x % R = m
    BY <2>3, ModIs
  <2>5. QED
    BY <2>2, <2>4
<1>6. QED
  BY <1>2, <1>4, <1>5

\* How far the fit is into its refresh cycle: as many steps toward the current
\* targets as the cycle has, once a step of it has begun.
AgeOK(s) ==
  /\ s.phase # "Idle" => s.age = s.fitSteps % Refresh
  /\ s.phase = "Idle" => s.fitSteps % Refresh = 0 \/ s.age = s.fitSteps % Refresh

LEMMA AdvanceAges ==
  ASSUME NEW s \in SimT, s.fitActive, ~s.settling, s.nFit, AgeOK(s),
         NEW t, NEW done, Advanced(s, t, done)
  PROVE  AgeOK(t) /\ (done /\ CycleEnd(t) => t.age = Refresh)
<1>1. /\ t \in SimT /\ done \in BOOLEAN
      /\ s.fitSteps \in Nat /\ s.age \in Nat /\ Refresh \in Nat \ {0}
  BY SessionAssumption DEF Advanced, SimT
<1>2. CASE ~done
  <2>1. t.phase # "Idle" /\ t.fitSteps = s.fitSteps
    BY <1>2 DEF Advanced
  <2>2. t.age = s.fitSteps % Refresh
    BY <1>2 DEF Advanced, RefreshesNow, AgeOK
  <2>3. QED
    BY <1>2, <2>1, <2>2 DEF AgeOK
<1>3. CASE done
  <2>1. s.phase # "Idle" /\ t.phase = "Idle" /\ t.fitSteps = s.fitSteps + 1 /\ t.age = s.age + 1
    BY <1>3 DEF Advanced
  <2>2. PICK n \in Nat : n = s.fitSteps
    BY <1>1
  <2>3. PICK m \in 0..(Refresh - 1) : m = n % Refresh
    BY <1>1, ModNext
  <2>4. s.age = m
    BY <2>1, <2>2, <2>3 DEF AgeOK
  <2>5. PICK k : k = (n + 1) % Refresh
    OBVIOUS
  <2>6. /\ m + 1 = Refresh => k = 0
        /\ m + 1 # Refresh => k = m + 1
    BY <1>1, <2>3, <2>5, ModNext
  <2>7. t.fitSteps % Refresh = k
    BY <2>1, <2>2, <2>5
  <2>8. k = 0 \/ t.age = k
    BY <2>1, <2>4, <2>6
  <2>9. k = 0 => t.age = Refresh
    BY <1>1, <2>1, <2>3, <2>4, <2>6
  <2>10. QED
    BY <2>1, <2>7, <2>8, <2>9 DEF AgeOK, CycleEnd
<1>4. QED
  BY <1>1, <1>2, <1>3

\* A stage of a fit: its ages, and its verdict on the stop.
Cycled(s, o) ==
  /\ sim'.fitActive /\ ~sim'.settling => AgeOK(sim')
  /\ ~o.converged /\ op'.converged => sim'.age = Refresh
  /\ o.converged => op'.fitDone = o.fitDone \/ s.settle = 0

LEMMA FitCycles ==
  ASSUME dev \in DevT, NEW s \in SimT, NEW o \in OpT, PassOK(s), o.remaining > 0, FitCount(s, o),
         s.fitActive, s.nFit, ~s.failed /\ ~s.settling => AgeOK(s), o.converged => s.settling \/ s.settle = 0,
         FitStage(s, o)
  PROVE  Cycled(s, o) /\ (s.phase = "Idle" \/ s.failed => op'.converged = o.converged)
<1>1. PICK a, p, t, r, d :
        /\ FitPhase(s, o, a, p) /\ FitTurn(s, o, a, p, t, r, d)
        /\ op' = r
        /\ IF Continues(t, r)
           THEN sim' = t /\ dev' = d /\ Again("fitStage") /\ UNCHANGED res
           ELSE EndFit(t, r, d)
  BY FitStagesSplit
<1>2. Turned(s, o, a, p, t, r, d) /\ Phased(s, o, a, p)
  BY <1>1, FitTurns, FitPhases
<1>3. /\ a.sim \in SimT /\ Kept(s, a.sim) /\ a.done \in BOOLEAN /\ p \in OpT
      /\ ~a.done => p = o
      /\ a.done => p \in Stepped(a.sim, o)
      /\ s.failed => a.sim = s /\ ~a.done
      /\ ~s.failed => Advanced(s, a.sim, a.done)
  BY <1>2 DEF Phased
<1>4. /\ t \in SimT /\ r \in OpT /\ PassOK(t) /\ FitCount(t, r)
      /\ t.phase = a.sim.phase /\ t.failed = a.sim.failed /\ t.age = a.sim.age
      /\ t.fitSteps = a.sim.fitSteps
      /\ t.settling <=> s.settling \/ StartsSettle(a.sim, p)
      /\ r.converged = p.converged /\ r.fitDone = p.fitDone
      /\ r.remaining = 0 /\ ~t.failed =>
           t.phase = "Idle" /\ t.steps > r.from /\ r.settleDone = t.settle
  BY <1>2 DEF Turned
<1>5. a.sim.settling = s.settling
  BY <1>3 DEF Kept
<1>6. ~s.failed /\ ~s.settling => AgeOK(a.sim) /\ (a.done /\ CycleEnd(a.sim) => a.sim.age = Refresh)
  BY <1>3, AdvanceAges
<1>7. /\ a.done /\ s.settling => p.fitDone = o.fitDone /\ p.converged = o.converged
      /\ a.done /\ ~s.settling => (p.converged => o.converged \/ CycleEnd(a.sim))
  BY <1>3, <1>5, StepsCount
<1>8. ~o.converged /\ r.converged => ~s.failed /\ ~s.settling /\ a.done /\ a.sim.age = Refresh
  BY <1>3, <1>4, <1>6, <1>7
<1>9. o.converged => r.fitDone = o.fitDone \/ s.settle = 0
  BY <1>3, <1>4, <1>7
<1>10. s.phase = "Idle" \/ s.failed => r.converged = o.converged
  <2>1. s.phase = "Idle" \/ s.failed => ~a.done
    BY <1>3 DEF Advanced
  <2>2. QED
    BY <1>3, <1>4, <2>1
<1>11. sim'.age = t.age /\ (sim'.fitActive /\ ~sim'.settling => AgeOK(sim'))
  <2>1. CASE Continues(t, r)
    <3>1. sim' = t /\ ~t.failed
      BY <1>1, <2>1 DEF Continues
    <3>2. ~t.settling => ~s.settling /\ ~s.failed
      BY <1>3, <1>4, <3>1
    <3>3. ~t.settling => AgeOK(t)
      BY <1>4, <1>6, <3>2 DEF AgeOK
    <3>4. QED
      BY <3>1, <3>3
  <2>2. CASE ~Continues(t, r)
    <3>1. EndFit(t, r, d)
      BY <1>1, <2>2
    <3>2. d \in DevT
      BY <1>2 DEF Turned
    <3>3. sim'.age = t.age /\ ~sim'.fitActive
      BY <1>4, <3>1, <3>2, FitEnds
    <3>4. QED
      BY <3>3
  <2>3. QED
    BY <2>1, <2>2
<1>12. QED
  BY <1>1, <1>4, <1>8, <1>9, <1>10, <1>11 DEF Cycled

\* A fit under way is in its cycle.
Cycles ==
  sess /\ sim.fitActive => sim.nFit /\ (~sim.settling => AgeOK(sim))

\* What a step may do to the stop test.
StopsAtACycle ==
  /\ ~op.converged /\ op'.converged => sim'.age = Refresh
  /\ op.converged /\ op'.converged => op'.fitDone = op.fitDone \/ sim.settle = 0

LEMMA LoadCycles ==
  ASSUME NEW sc, LoadScene(sc)
  PROVE  ~sim'.fitActive
  BY DEF LoadScene, Loaded

LEMMA LiveSimCycles ==
  ASSUME NEW s \in SimT, NEW g \in Int
  PROVE  LET t == LiveSim(s, g) IN
         /\ t.fitActive = s.fitActive /\ t.settling = s.settling /\ t.phase = s.phase
         /\ t.nFit = s.nFit /\ t.settle = s.settle /\ t.fitSteps = s.fitSteps /\ t.age = s.age
<1>1. PICK t : t = LiveSim(s, g)
  OBVIOUS
<1>2. t.fitActive = s.fitActive /\ t.settling = s.settling /\ t.phase = s.phase
  BY <1>1 DEF LiveSim, SimT
<1>3. t.nFit = s.nFit /\ t.settle = s.settle /\ t.fitSteps = s.fitSteps /\ t.age = s.age
  BY <1>1 DEF LiveSim, SimT
<1>4. QED
  BY <1>1, <1>2, <1>3

LEMMA CallsCycle ==
  ASSUME Inv, Cycles, HostCall
  PROVE  Cycles'
<1>1. sim \in SimT /\ (sess /\ sim.fitActive => sim.nFit /\ (~sim.settling => AgeOK(sim)))
  BY DEF Inv, HostTypes, StageTypes, Cycles
<1>2. ASSUME sim' = sim, sess' => sess
      PROVE  Cycles'
  BY <1>1, <1>2, Zenon DEF Cycles
<1>3. ASSUME NEW sc, LoadScene(sc)
      PROVE  Cycles'
  <2>1. ~sim'.fitActive
    BY <1>3, LoadCycles
  <2>2. QED
    BY <2>1, Zenon DEF Cycles
<1>4. CASE DrapeOpen
  BY <1>2, <1>4 DEF DrapeOpen
<1>5. CASE \E name \in {"mesh", "sphere"} : DrapeScene(name)
  <2>1. PICK sc : LoadScene(sc) \/ LoadFails
    BY <1>5 DEF DrapeScene
  <2>2. CASE LoadScene(sc)
    BY <1>3, <2>2
  <2>3. CASE LoadFails
    BY <1>2, <2>3 DEF LoadFails
  <2>4. QED
    BY <2>1, <2>2, <2>3
<1>6. CASE \E g \in Gravities : ConfigLive(g)
  <2>1. PICK g \in Gravities : ConfigLive(g)
    BY <1>6
  <2>2. sess' = sess /\ (~sess => sim' = sim) /\ (sess => sim' = LiveSim(sim, g))
    BY <2>1 DEF ConfigLive, LiveSim
  <2>3. CASE ~sess
    BY <1>1, <1>2, <2>2, <2>3
  <2>4. CASE sess
    <3>1. LET t == LiveSim(sim, g) IN
          /\ t.fitActive = sim.fitActive /\ t.settling = sim.settling /\ t.phase = sim.phase
          /\ t.nFit = sim.nFit /\ t.settle = sim.settle /\ t.fitSteps = sim.fitSteps
          /\ t.age = sim.age
      BY <1>1, GravitiesAreInts, LiveSimCycles
    <3>2. PICK t : /\ sim' = t
                   /\ t.fitActive = sim.fitActive /\ t.settling = sim.settling /\ t.phase = sim.phase
                   /\ t.nFit = sim.nFit /\ t.fitSteps = sim.fitSteps /\ t.age = sim.age
      BY <2>2, <2>4, <3>1
    <3>3. AgeOK(t) <=> AgeOK(sim)
      BY <3>2 DEF AgeOK
    <3>4. t.fitActive => t.nFit /\ (~t.settling => AgeOK(t))
      BY <1>1, <2>4, <3>2, <3>3
    <3>5. QED
      BY <1>1, <2>2, <3>2, <3>4, Zenon DEF Cycles
  <2>5. QED
    BY <2>3, <2>4
<1>7. CASE ConfigUpload \/ QueueBackward \/ RdClose \/ \E n \in Settles : FitSet(n)
  <2>1. ConfigUpload \/ QueueBackward \/ RdClose => sim' = sim /\ (sess' => sess)
    BY DEF ConfigUpload, QueueBackward, RdClose
  <2>2. (\E n \in Settles : FitSet(n)) => sim' = sim /\ sess' = sess
    BY DEF FitSet
  <2>3. QED
    BY <1>2, <1>7, <2>1, <2>2
<1>8. CASE Rewind
  <2>1. \/ LoadScene(scene)
        \/ sim' = [sim EXCEPT !.phase = "Idle", !.failed = FALSE, !.steps = 0] /\ NoStageAt(q)
    BY <1>8, BusyOrNoStage DEF Rewind
  <2>2. CASE LoadScene(scene)
    BY <1>3, <2>2
  <2>3. CASE sim' = [sim EXCEPT !.phase = "Idle", !.failed = FALSE, !.steps = 0] /\ NoStageAt(q)
    <3>1. sess /\ ~sim.fitActive
      BY <1>8, <2>3, WorkRests DEF Inv, AtRest, Rewind
    <3>2. sim'.fitActive = sim.fitActive
      BY <1>1, <2>3 DEF SimT
    <3>3. QED
      BY <3>1, <3>2, Zenon DEF Cycles
  <2>4. QED
    BY <2>1, <2>2, <2>3
<1>9. CASE \E n \in 1..MaxSteps : QueueForward(n) \/ QueueFit(n)
  <2>1. LoadScene(scene) \/ (sess' = sess /\ sim' = sim)
    BY <1>9 DEF QueueForward, QueueFit, Reload
  <2>2. QED
    BY <1>2, <1>3, <2>1
<1>10. QED
  BY <1>4, <1>5, <1>6, <1>7, <1>8, <1>9 DEF HostCall

LEMMA CallsKeepCounts ==
  ASSUME HostCall
  PROVE  op' = op
<1>1. DrapeOpen => op' = op
  BY DEF DrapeOpen
<1>2. (\E name \in {"mesh", "sphere"} : DrapeScene(name)) => op' = op
  BY DEF DrapeScene
<1>3. (\E g \in Gravities : ConfigLive(g)) => op' = op
  BY DEF ConfigLive
<1>4. ConfigUpload \/ QueueBackward \/ RdClose => op' = op
  BY DEF ConfigUpload, QueueBackward, RdClose
<1>5. (\E n \in Settles : FitSet(n)) => op' = op
  BY DEF FitSet
<1>6. Rewind => op' = op
  BY DEF Rewind
<1>7. (\E n \in 1..MaxSteps : QueueForward(n) \/ QueueFit(n)) => op' = op
  BY DEF QueueForward, QueueFit
<1>8. QED
  BY <1>1, <1>2, <1>3, <1>4, <1>5, <1>6, <1>7 DEF HostCall

LEMMA StagesCycle ==
  ASSUME Inv, Cycles, RunStage
  PROVE  Cycles' /\ StopsAtACycle
<1>1. /\ UNCHANGED <<cfg, scene, dirty, sess>>
      /\ StartForward \/ ContinueForward \/ StartFit \/ ContinueFit \/ StartBackward \/ ContinueBackward
  BY DEF RunStage, host
<1>2. q # <<>>
  BY <1>1 DEF StartForward, ContinueForward, StartFit, ContinueFit, StartBackward, ContinueBackward, Stage
<1>3. /\ sess /\ StageInv /\ sim \in SimT /\ PassOK(sim) /\ op \in OpT /\ dev \in DevT /\ QueueOK(q)
  BY <1>2 DEF Inv, HostTypes, StageInv, StageTypes
<1>4. ASSUME UNCHANGED <<sim, op>>
      PROVE  Cycles' /\ StopsAtACycle
  <2>1. Cycles'
    BY <1>1, <1>4, Zenon DEF Cycles
  <2>2. QED
    BY <1>4, <2>1 DEF StopsAtACycle
<1>5. ASSUME NEW s, NEW o, s.nFit, FitStaged(s, o), Cycled(s, o)
      PROVE  Cycles'
  <2>1. sim'.nFit
    BY <1>5 DEF FitStaged
  <2>2. sim'.fitActive /\ ~sim'.settling => AgeOK(sim')
    BY <1>5 DEF Cycled
  <2>3. QED
    BY <2>1, <2>2, Zenon DEF Cycles
<1>6. CASE StartForward \/ ContinueForward
  <2>1. PICK o : /\ o \in OpT /\ o.remaining > 0 /\ sim.steps + o.remaining = o.from + o.asked
                 /\ o.converged = op.converged /\ o.fitDone = op.fitDone
                 /\ ForwardStage(sim, o) /\ ~sim.fitActive
    <3>1. CASE ContinueForward
      <4>1. HeadIs(q, "forwardStage") /\ ForwardStage(sim, op)
        BY <3>1 DEF ContinueForward, Stage, HeadIs
      <4>2. At("forwardStage") /\ ~At("fitStage")
        BY <4>1 DEF At, HeadIs
      <4>3. ~sim.fitActive /\ Counters /\ op.remaining > 0
        BY <1>2, <1>3, <4>2 DEF StageInv, Working, UnderWay, Inv
      <4>4. op.remaining > 0 /\ sim.steps + op.remaining = op.from + op.asked
        BY <4>2, <4>3 DEF Counters
      <4>5. QED
        BY <1>3, <4>1, <4>3, <4>4
    <3>2. CASE StartForward
      <4>1. q[1].fn = "enqueueForward"
        BY <3>2 DEF StartForward, Stage
      <4>2. NoStageAt(q)
        BY <1>2, <1>3, <4>1, HeadsOfQueue DEF NoStageAt
      <4>3. PICK n \in 1..MaxSteps : n = q[1].n
        BY <1>2, <1>3, <4>1, HeadsOfQueue
      <4>4. PICK f \in Nat : f = sim.steps
        BY <1>3 DEF SimT
      <4>5. Starts(sim, n).from = f
        BY <1>3, <4>4 DEF Starts, OpT
      <4>6. PICK o : o = ForwardOp(op, n, f)
        OBVIOUS
      <4>7. ForwardStage(sim, o)
        BY <3>2, <4>3, <4>5, <4>6 DEF StartForward, ForwardOp
      <4>8. /\ o \in OpT /\ o.remaining = n /\ o.asked = n /\ o.from = f
            /\ o.fitDone = op.fitDone
        BY <1>3, <4>6, ForwardOpKeeps
      <4>9. o.converged = op.converged
        BY <1>3, <4>6 DEF ForwardOp, OpT
      <4>10. ~sim.fitActive
        BY <1>3, <4>2, WorkRests DEF StageInv, AtRest
      <4>11. o.remaining > 0 /\ sim.steps + o.remaining = o.from + o.asked
        BY <4>4, <4>8
      <4>12. QED
        BY <4>7, <4>8, <4>9, <4>10, <4>11
    <3>3. QED
      BY <1>6, <3>1, <3>2
  <2>2. Kept(sim, sim') /\ SameCounts(o, op')
    BY <1>2, <1>3, <2>1, ForwardStages
  <2>3. /\ sim'.fitActive = sim.fitActive /\ sim'.nFit = sim.nFit /\ sim'.settle = sim.settle
        /\ op'.converged = op.converged /\ op'.fitDone = op.fitDone
    BY <2>1, <2>2 DEF Kept, SameCounts
  <2>4. ~sim'.fitActive
    BY <2>1, <2>3
  <2>5. Cycles'
    BY <2>4, Zenon DEF Cycles
  <2>6. QED
    BY <2>3, <2>5 DEF StopsAtACycle
<1>7. CASE ContinueFit
  <2>1. HeadIs(q, "fitStage") /\ FitStage(sim, op)
    BY <1>7 DEF ContinueFit, Stage, HeadIs
  <2>2. /\ FitCount(sim, op) /\ op.remaining > 0 /\ ~sim.failed /\ sim.fitActive
        /\ op.converged => sim.settling \/ sim.settle = 0
    BY <1>3, <2>1 DEF StageInv, Working, UnderWay, FitCounters, FitCount, Pull, At
  <2>3. sim.nFit /\ (~sim.settling => AgeOK(sim))
    BY <1>3, <2>2 DEF Cycles
  <2>4. Cycled(sim, op)
    BY <1>3, <2>1, <2>2, <2>3, FitCycles
  <2>5. FitStaged(sim, op)
    BY <1>3, <2>1, <2>2, FitStages
  <2>6. Cycles'
    BY <1>5, <2>3, <2>4, <2>5
  <2>7. StopsAtACycle
    BY <2>4 DEF Cycled, StopsAtACycle
  <2>8. QED
    BY <2>6, <2>7
<1>8. CASE StartFit /\ ~sim.nFit
  <2>1. UNCHANGED <<sim, op>>
    BY <1>8 DEF StartFit
  <2>2. QED
    BY <1>4, <2>1
<1>9. CASE StartFit /\ sim.nFit
  <2>1. q[1].fn = "enqueueFit"
    BY <1>9 DEF StartFit, Stage
  <2>2. PICK s, o : FitStarts(s, o) /\ FitStage(s, o)
    BY <1>2, <1>3, <1>9, <2>1, FitStartStages
  <2>3. /\ s \in SimT /\ PassOK(s) /\ o \in OpT /\ o.remaining > 0 /\ FitCount(s, o)
        /\ ~o.converged /\ ~s.settling /\ s.fitActive /\ s.nFit = sim.nFit /\ s.settle = sim.settle
        /\ s.fitSteps = 0 /\ (s.phase = "Idle" \/ s.failed)
    BY <2>2 DEF FitStarts
  <2>4. 0 % Refresh = 0
    <3>1. Refresh \in Nat \ {0}
      BY SessionAssumption
    <3>2. QED
      BY <3>1
  <2>5. ~s.failed => AgeOK(s)
    BY <2>3, <2>4 DEF AgeOK
  <2>6. Cycled(s, o) /\ ~op'.converged
    BY <1>3, <1>9, <2>2, <2>3, <2>5, FitCycles
  <2>7. FitStaged(s, o)
    BY <1>3, <2>2, <2>3, FitStages
  <2>8. Cycles'
    BY <1>5, <1>9, <2>3, <2>6, <2>7
  <2>9. StopsAtACycle
    BY <2>6 DEF StopsAtACycle
  <2>10. QED
    BY <2>8, <2>9
<1>10. CASE StartBackward \/ ContinueBackward
  <2>1. UNCHANGED <<sim, op>>
    BY <1>10 DEF StartBackward, ContinueBackward, BackwardStage
  <2>2. QED
    BY <1>4, <2>1
<1>11. QED
  BY <1>1, <1>6, <1>7, <1>8, <1>9, <1>10

LEMMA CyclesStep ==
  ASSUME Inv, Cycles, [Next]_vars
  PROVE  Cycles' /\ StopsAtACycle
<1>1. ASSUME scene' = scene, sim' = sim, sess' = sess, op' = op
      PROVE  Cycles' /\ StopsAtACycle
  <2>1. Cycles'
    BY <1>1, Zenon DEF Cycles
  <2>2. QED
    BY <1>1, <2>1 DEF StopsAtACycle
<1>2. CASE HostCall
  <2>1. Cycles' /\ op' = op
    BY <1>2, CallsCycle, CallsKeepCounts
  <2>2. QED
    BY <2>1 DEF StopsAtACycle
<1>3. CASE RunStage
  BY <1>3, StagesCycle
<1>4. CASE TickNoSession \/ TickBegin \/ TickEnd \/ NextFrame
  <2>1. scene' = scene /\ sim' = sim /\ sess' = sess /\ op' = op
    BY <1>4 DEF TickNoSession, TickBegin, TickEnd, NextFrame, host
  <2>2. QED
    BY <1>1, <2>1
<1>5. CASE UNCHANGED vars
  <2>1. scene' = scene /\ sim' = sim /\ sess' = sess /\ op' = op
    BY <1>5 DEF vars
  <2>2. QED
    BY <1>1, <2>1
<1>6. QED
  BY <1>2, <1>3, <1>4, <1>5 DEF Next, HostTick

\* The stop test (drape_session.h 293-298): only a step that ends a refresh cycle,
\* all of it made toward the same targets, finds the fit converged, and no step
\* of a fit with a settle is made after it.
THEOREM FitStopsAtACycle == Spec => ConvergesAtACycle
<1>1. Init => Cycles
  BY DEF Init, Cycles
<1>2. Inv /\ Cycles /\ [Next]_vars
        => Cycles' /\ [/\ ~op.converged /\ op'.converged => sim'.age = Refresh
                       /\ op.converged /\ op'.converged
                            => op'.fitDone = op.fitDone \/ sim.settle = 0]_vars
  BY CyclesStep DEF StopsAtACycle
<1>3. QED
  BY <1>1, <1>2, Invariance, PTL DEF Spec, ConvergesAtACycle
=============================================================================

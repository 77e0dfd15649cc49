------------------------ MODULE DrapeOptimizeProofs ------------------------
(***************************************************************************)
(* Proofs about DrapeOptimize and its driver Lbfgsb, for every cap on      *)
(* iterations and trials and every length of a forward.                    *)
(*                                                                         *)
(* Two layers.  Of any host: the driver keeps within its caps, and an      *)
(* optimize that runs has one entry of its own in the queue, the one the   *)
(* driver waits for, with its backward right before its collector.  Of a   *)
(* host that leaves a running optimize alone, until the readback of a      *)
(* point fails: phase by phase, which points the driver's vectors and      *)
(* scalars are of.                                                         *)
(***************************************************************************)
EXTENDS DrapeOptimize, SequenceTheorems, TLAPS

-----------------------------------------------------------------------------
(* The driver.                                                             *)

DrvType ==
  [phase : Phases, await : Awaits, err : BOOLEAN, k : 0..MaxIterations, nfev : Nat,
   X : Nat, G : Nat, XP : Nat, GP : Nat, XLO : Nat, GLO : Nat,
   fx : Nat, dg : Nat, pg : Int, lsIter : -1..MaxLinesearch,
   lo : {"START", "CURRENT", "BUF"}, iLo : Nat, fxLo : Nat, dgLo : Nat, fxOff : BOOLEAN]

\* No point is beyond the next one to evaluate.
Points(d) ==
  LET n == d.nfev + 1 IN
  /\ d.X <= n /\ d.G <= n /\ d.XP <= n /\ d.GP <= n /\ d.XLO <= n /\ d.GLO <= n
  /\ d.fx <= n /\ d.dg <= n /\ d.iLo <= n /\ d.fxLo <= n /\ d.dgLo <= n

\* A driver within its caps; Inside is what holds in the middle of a step, too.
Inside(d) ==
  /\ d \in DrvType /\ Points(d)
  /\ d.err => d.await = "DONE"
  /\ d.await = "ACCEPT" => d.k < MaxIterations

Driver(d) ==
  /\ Inside(d)
  /\ d.await = "TRIAL" \/ (d.await = "NONE" /\ d.phase \in {"TRIAL", "POST"}) => d.lsIter < MaxLinesearch

\* The current point is evaluated: X, G, the norm and f are of it.
Evald(d) == d.X = d.G /\ d.pg = d.X /\ d.X <= d.nfev /\ (d.fx = d.X \/ d.fxOff)

\* The best point of a line search is where lo_ says.
LoHolds(d) ==
  /\ d.lo # "CURRENT"
  /\ d.lo = "START" => d.iLo = 0 /\ d.XP = d.GP /\ d.XP <= d.nfev
  /\ d.lo = "BUF" => d.XLO = d.iLo /\ d.GLO = d.iLo /\ d.fxLo = d.iLo /\ d.iLo <= d.nfev

LoPoint(d) == IF d.lo = "START" THEN d.XP ELSE d.iLo

\* What the vectors and the scalars are of while the phase ph is submitted.
At(d, ph) ==
  /\ ph # "NONE"
  /\ ph = "INIT" => d.X = 1 /\ d.nfev = 0
  /\ ph = "X0" => d.X = d.G /\ d.fx = d.X /\ d.X <= d.nfev
  /\ ph \in {"PREP", "DIR", "DIR_RESET", "PATHO"} => Evald(d) /\ d.XP = d.X /\ d.GP = d.X
  /\ ph = "TRIAL" => LoHolds(d) /\ d.X = d.nfev + 1
  /\ ph = "POST" => LoHolds(d) /\ d.X = d.G /\ d.fx = d.X /\ d.X <= d.nfev
  /\ ph = "RESTORE" => /\ LoHolds(d) /\ d.X = d.G /\ d.X <= d.nfev /\ (d.fx = d.X \/ d.fxOff)
                       /\ d.X = LoPoint(d)

Exact(d) ==
  ~d.err =>
    /\ d.await \in {"DONE", "ACCEPT"} => Evald(d)
    /\ d.await = "NONE" => At(d, d.phase)
    /\ d.await = "EVAL0" => d.phase = "NONE" /\ d.X = 1 /\ d.nfev = 0
    /\ d.await = "TRIAL" => d.phase = "NONE" /\ LoHolds(d) /\ d.X = d.nfev + 1

\* A result of start or next says what the driver awaits; n evaluations are done.
Status(r, n) ==
  /\ Driver(r.d) /\ r.d.nfev = n /\ r.s \in {"BUSY", "NEED_EVAL", "TRY", "ACCEPT", "CONVERGED", "FAIL"}
  /\ r.s = "BUSY" => r.d.await = "NONE"
  /\ r.s \in {"NEED_EVAL", "TRY"} => r.d.await \in {"EVAL0", "TRIAL"}
  /\ r.s = "ACCEPT" => r.d.await = "ACCEPT"

-----------------------------------------------------------------------------
(* The session.                                                            *)

OptFns == {"opt_started", "opt_stage", "opt_collect"}

EntryType == [fn : OptFns \cup {"forward", "backward"}, n : 0..MaxSteps]
OptType == [on : BOOLEAN, done : BOOLEAN, ok : BOOLEAN, steps : 0..MaxSteps, misread : BOOLEAN]
SimType == [x : Nat, steps : Nat, failed : BOOLEAN, mid : BOOLEAN]
SesType == [ok : BOOLEAN, x : Nat, steps : Nat]

Typed ==
  /\ q \in Seq(EntryType) /\ opt \in OptType /\ sim \in SimType /\ ses \in SesType
  /\ opt.on => Driver(drv)

\* The driver waits for the entry at i, and only for it.
Waits(i) ==
  /\ q[i].fn \in OptFns /\ \A k \in 1..Len(q) : q[k].fn \in OptFns => k = i
  /\ q[i].fn = "opt_started" => drv.err \/ drv.await = "NONE"
  /\ q[i].fn = "opt_stage" => drv.await = "NONE"
  /\ q[i].fn = "opt_collect" =>
       /\ drv.await \in {"EVAL0", "TRIAL"} /\ sim.x \in {0, drv.X}
       /\ i > 1 => q[i - 1].fn = "backward"
       /\ i = 1 => (ses.ok => ses.x \in {0, drv.X})

OptsAreWaited ==
  /\ OptRunning => \E i \in 1..Len(q) : Waits(i)
  /\ ~OptRunning => \A k \in 1..Len(q) : q[k].fn \notin OptFns

\* Left alone, the queue is what is left of the evaluation, and the session's
\* state is that of the driver's point, if it has been read back each time.
Alone ==
  OptRunning =>
    /\ opt.steps > 0 /\ Len(q) \in 1..3 /\ q[Len(q)].fn \in OptFns
    /\ q[Len(q)].fn # "opt_collect" => Len(q) = 1
    /\ q[Len(q)].fn = "opt_collect" =>
         /\ ~opt.misread => sim.x = drv.X
         /\ Len(q) = 3 => /\ q[1].fn = "forward" /\ q[1].n = opt.steps
                          /\ sim.steps = 0 /\ ~sim.failed /\ ~sim.mid
         /\ Len(q) = 2 => (~sim.mid /\ "wholeStep" \notin ForwardFails /\ sim.steps > 0
                             => sim.steps = opt.steps)
         /\ Len(q) = 1 => (ses.ok => /\ ~opt.misread => ses.x = drv.X
                                     /\ "wholeStep" \notin ForwardFails => ses.steps = opt.steps)

IInv ==
  /\ Typed /\ OptsAreWaited
  /\ ~HostMixes => Alone /\ (opt.on /\ ~opt.misread => Exact(drv))

-----------------------------------------------------------------------------
(* What each operator of the driver changes.                               *)

LEMMA FailIs ==
  ASSUME NEW d, Inside(d)
  PROVE  Status(Fail(d), d.nfev) /\ Exact(Fail(d).d)
<1>1. PICK f : f = [d EXCEPT !.err = TRUE, !.await = "DONE", !.phase = "NONE"]
  OBVIOUS
<1>2. /\ f \in DrvType /\ f.err /\ f.await = "DONE" /\ f.phase = "NONE" /\ f.k = d.k /\ f.nfev = d.nfev
      /\ f.X = d.X /\ f.G = d.G /\ f.XP = d.XP /\ f.GP = d.GP /\ f.XLO = d.XLO /\ f.GLO = d.GLO
      /\ f.fx = d.fx /\ f.dg = d.dg /\ f.iLo = d.iLo /\ f.fxLo = d.fxLo /\ f.dgLo = d.dgLo
  BY <1>1 DEF Inside, DrvType, Phases, Awaits
<1>3. Driver(f) /\ Exact(f)
  BY <1>2 DEF Driver, Inside, Points, Exact
<1>4. Fail(d) = [d |-> f, s |-> "FAIL"]
  BY <1>1 DEF Fail, R
<1>5. QED
  BY <1>2, <1>3, <1>4 DEF Status

LEMMA MayFailIs ==
  ASSUME NEW d, Inside(d), NEW r \in MayFail(d) \cup {Fail(d)}
  PROVE  Status(r, d.nfev) /\ r.s # "ACCEPT" /\ Exact(r.d)
<1>1. r = Fail(d)
  BY DEF MayFail
<1>2. Fail(d).s = "FAIL"
  BY DEF Fail, R
<1>3. QED
  BY <1>1, <1>2, FailIs

\* A phase that is submitted, or a submit that fails.
LEMMA SubmitIs ==
  ASSUME NEW d, Inside(d), d.await = "NONE", NEW ph \in Phases,
         ph \in {"TRIAL", "POST"} => d.lsIter < MaxLinesearch,
         NEW r \in Submit(d, ph)
  PROVE  Status(r, d.nfev) /\ r.s # "ACCEPT" /\ (At(d, ph) => Exact(r.d))
<1>1. CASE r \in MayFail(d)
  BY <1>1, MayFailIs
<1>2. CASE r = R([d EXCEPT !.phase = ph], "BUSY")
  <2>1. PICK f : f = [d EXCEPT !.phase = ph]
    OBVIOUS
  <2>2. /\ f \in DrvType /\ f.err = d.err /\ f.await = "NONE" /\ f.phase = ph /\ f.k = d.k /\ f.nfev = d.nfev
        /\ f.X = d.X /\ f.G = d.G /\ f.XP = d.XP /\ f.GP = d.GP /\ f.XLO = d.XLO /\ f.GLO = d.GLO
        /\ f.fx = d.fx /\ f.dg = d.dg /\ f.iLo = d.iLo /\ f.fxLo = d.fxLo /\ f.dgLo = d.dgLo
        /\ f.pg = d.pg /\ f.lsIter = d.lsIter /\ f.lo = d.lo /\ f.fxOff = d.fxOff
    BY <2>1 DEF Inside, DrvType
  <2>3. Driver(f)
    BY <2>2 DEF Driver, Inside, Points
  <2>4. At(d, ph) => Exact(f)
    BY <2>2 DEF Exact, At, Evald, LoHolds, LoPoint
  <2>5. r.d = f /\ r.s = "BUSY"
    BY <1>2, <2>1 DEF R
  <2>6. QED
    BY <2>2, <2>3, <2>4, <2>5 DEF Status
<1>3. QED
  BY <1>1, <1>2 DEF Submit

\* The end of an iteration.
LEMMA AcceptIs ==
  ASSUME NEW d, Inside(d), d.await = "NONE", NEW r \in Accept(d)
  PROVE  Status(r, d.nfev) /\ (Evald(d) => Exact(r.d))
<1>1. ASSUME NEW a \in {"DONE", "ACCEPT"}, NEW s \in {"CONVERGED", "ACCEPT"}, a = "ACCEPT" => d.k < MaxIterations,
             s = "ACCEPT" => a = "ACCEPT", r = R([d EXCEPT !.await = a], s)
      PROVE  Status(r, d.nfev) /\ (Evald(d) => Exact(r.d))
  <2>1. PICK f : f = [d EXCEPT !.await = a]
    OBVIOUS
  <2>2. /\ f \in DrvType /\ f.err = d.err /\ f.await = a /\ f.phase = d.phase /\ f.k = d.k /\ f.nfev = d.nfev
        /\ f.X = d.X /\ f.G = d.G /\ f.XP = d.XP /\ f.GP = d.GP /\ f.XLO = d.XLO /\ f.GLO = d.GLO
        /\ f.fx = d.fx /\ f.dg = d.dg /\ f.iLo = d.iLo /\ f.fxLo = d.fxLo /\ f.dgLo = d.dgLo
        /\ f.pg = d.pg /\ f.lsIter = d.lsIter /\ f.lo = d.lo /\ f.fxOff = d.fxOff
    BY <2>1 DEF Inside, DrvType, Awaits
  <2>3. Driver(f)
    BY <1>1, <2>2 DEF Driver, Inside, Points
  <2>4. Evald(d) => Exact(f)
    BY <2>2 DEF Exact, Evald
  <2>5. r.d = f /\ r.s = s
    BY <1>1, <2>1 DEF R
  <2>6. QED
    BY <1>1, <2>2, <2>3, <2>4, <2>5 DEF Status
<1>2. CASE r = R([d EXCEPT !.await = "DONE"], "CONVERGED")
  BY <1>1, <1>2
<1>3. CASE ~AtCap(d) /\ r = R([d EXCEPT !.await = "ACCEPT"], "ACCEPT")
  <2>1. d.k < MaxIterations
    BY <1>3, LbfgsbAssumption DEF AtCap, Inside, DrvType
  <2>2. QED
    BY <1>1, <1>3, <2>1
<1>4. QED
  BY <1>2, <1>3 DEF Accept

\* The head of an iteration.
LEMMA AppendTailIs ==
  ASSUME NEW d, Inside(d), NEW f, f = appendTail(d)
  PROVE  /\ Inside(f) /\ f.await = d.await /\ f.k = d.k /\ f.nfev = d.nfev
         /\ Evald(d) => Evald(f) /\ f.XP = f.X /\ f.GP = f.X
<1>1. /\ f \in DrvType /\ f.err = d.err /\ f.await = d.await /\ f.phase = d.phase /\ f.k = d.k /\ f.nfev = d.nfev
      /\ f.X = d.X /\ f.G = d.G /\ f.XP = d.X /\ f.GP = d.G /\ f.XLO = d.XLO /\ f.GLO = d.GLO
      /\ f.fx = d.fx /\ f.dg = d.dg /\ f.iLo = d.iLo /\ f.fxLo = d.fxLo /\ f.dgLo = d.dgLo
      /\ f.pg = d.pg /\ f.lsIter = d.lsIter /\ f.lo = d.lo /\ f.fxOff = d.fxOff
  BY DEF appendTail, Inside, DrvType
<1>2. QED
  BY <1>1 DEF Inside, Points, Evald

\* A new current point, with what the bracket has taken put in the buffers.
LEMMA TrialIs ==
  ASSUME NEW d, Inside(d), d.await = "NONE", d.lsIter < MaxLinesearch, NEW r \in Trial(d)
  PROVE  /\ Status(r, d.nfev) /\ r.s # "ACCEPT"
         /\ LoHolds(d) \/ (d.lo = "CURRENT" /\ d.iLo = d.X /\ d.G = d.X /\ d.fxLo = d.X /\ d.X <= d.nfev)
              => Exact(r.d)
<1>1. PICK n \in Nat : n = d.nfev + 1
  BY DEF Inside, DrvType
<1>2. PICK f : f = [SaveLo(d) EXCEPT !.X = n]
  OBVIOUS
<1>3. /\ f \in DrvType /\ f.err = d.err /\ f.await = "NONE" /\ f.phase = d.phase /\ f.k = d.k /\ f.nfev = d.nfev
      /\ f.X = n /\ f.G = d.G /\ f.XP = d.XP /\ f.GP = d.GP
      /\ f.XLO = (IF d.lo = "CURRENT" THEN d.X ELSE d.XLO) /\ f.GLO = (IF d.lo = "CURRENT" THEN d.G ELSE d.GLO)
      /\ f.fx = d.fx /\ f.dg = d.dg /\ f.iLo = d.iLo /\ f.fxLo = d.fxLo /\ f.dgLo = d.dgLo
      /\ f.pg = d.pg /\ f.lsIter = d.lsIter /\ f.lo = (IF d.lo = "CURRENT" THEN "BUF" ELSE d.lo) /\ f.fxOff = d.fxOff
  <2>1. CASE d.lo = "CURRENT"
    BY <1>1, <1>2, <2>1 DEF SaveLo, Inside, DrvType
  <2>2. CASE d.lo # "CURRENT"
    BY <1>1, <1>2, <2>2 DEF SaveLo, Inside, DrvType
  <2>3. QED
    BY <2>1, <2>2
<1>4. Inside(f)
  BY <1>1, <1>3 DEF Inside, Points
<1>5. r \in Submit(f, "TRIAL")
  BY <1>1, <1>2 DEF Trial
<1>6. LoHolds(d) \/ (d.lo = "CURRENT" /\ d.iLo = d.X /\ d.G = d.X /\ d.fxLo = d.X /\ d.X <= d.nfev)
        => At(f, "TRIAL")
  BY <1>1, <1>3 DEF At, LoHolds
<1>7. QED
  BY <1>3, <1>4, <1>5, <1>6, SubmitIs DEF Phases

\* A line search begins at an evaluated point.
LEMMA LineSearchStartIs ==
  ASSUME NEW d, Inside(d), d.await = "NONE", NEW after \in BOOLEAN, NEW r \in LineSearchStart(d, after)
  PROVE  /\ Status(r, d.nfev) /\ r.s # "ACCEPT"
         /\ Evald(d) /\ d.XP = d.X /\ d.GP = d.X => Exact(r.d)
<1>1. CASE r \in Submit(d, "PATHO")
  <2>1. Evald(d) /\ d.XP = d.X /\ d.GP = d.X => At(d, "PATHO")
    BY DEF At
  <2>2. QED
    BY <1>1, <2>1, SubmitIs DEF Phases
<1>2. CASE r = Fail(d)
  BY <1>2, MayFailIs
<1>3. PICK f : f = [d EXCEPT !.lo = "START", !.iLo = 0, !.lsIter = -1, !.fxLo = d.fx, !.dgLo = d.dg]
  OBVIOUS
<1>4. /\ f \in DrvType /\ f.err = d.err /\ f.await = "NONE" /\ f.phase = d.phase /\ f.k = d.k /\ f.nfev = d.nfev
      /\ f.X = d.X /\ f.G = d.G /\ f.XP = d.XP /\ f.GP = d.GP /\ f.XLO = d.XLO /\ f.GLO = d.GLO
      /\ f.fx = d.fx /\ f.dg = d.dg /\ f.iLo = 0 /\ f.fxLo = d.fx /\ f.dgLo = d.dg
      /\ f.pg = d.pg /\ f.lsIter = -1 /\ f.lo = "START" /\ f.fxOff = d.fxOff
  <2>1. PICK m \in -1..MaxLinesearch, z \in Nat : m = -1 /\ z = 0
    BY LbfgsbAssumption
  <2>2. f = [d EXCEPT !.lo = "START", !.iLo = z, !.lsIter = m, !.fxLo = d.fx, !.dgLo = d.dg]
    BY <1>3, <2>1
  <2>3. QED
    BY <2>1, <2>2 DEF Inside, DrvType
<1>5. -1 < MaxLinesearch
  BY LbfgsbAssumption
<1>6. Inside(f)
  BY <1>4, <1>5 DEF Inside, Points, DrvType
<1>7. Evald(d) /\ d.XP = d.X /\ d.GP = d.X => LoHolds(f)
  BY <1>4 DEF Evald, LoHolds
<1>8. CASE r \in Trial(f)
  BY <1>4, <1>5, <1>6, <1>7, <1>8, TrialIs
<1>9. QED
  BY <1>1, <1>2, <1>3, <1>8 DEF LineSearchStart

\* The point that x_lo is at is restored.
LEMMA RestoreLoIs ==
  ASSUME NEW d, Inside(d), d.await = "NONE", NEW r \in RestoreLo(d)
  PROVE  /\ Status(r, d.nfev)
         /\ (d.lo = "CURRENT" => Evald(d)) /\ (d.lo # "CURRENT" => LoHolds(d) /\ (d.fxOff \/ d.fx = LoPoint(d)))
              => Exact(r.d)
<1>1. CASE d.lo = "CURRENT"
  BY <1>1, AcceptIs DEF RestoreLo
<1>2. CASE d.lo # "CURRENT"
  <2>1. PICK x \in Nat, g1 \in Nat : /\ x = (IF d.lo = "START" THEN d.XP ELSE d.XLO)
                                    /\ g1 = (IF d.lo = "START" THEN d.GP ELSE d.GLO)
    BY DEF Inside, DrvType
  <2>2. PICK f : f = RestoreFrom(d)
    OBVIOUS
  <2>3. f = [d EXCEPT !.X = x, !.G = g1]
    BY <2>1, <2>2 DEF RestoreFrom
  <2>4. /\ f \in DrvType /\ f.err = d.err /\ f.await = "NONE" /\ f.phase = d.phase /\ f.k = d.k /\ f.nfev = d.nfev
        /\ f.X = x /\ f.G = g1 /\ f.XP = d.XP /\ f.GP = d.GP /\ f.XLO = d.XLO /\ f.GLO = d.GLO
        /\ f.fx = d.fx /\ f.dg = d.dg /\ f.iLo = d.iLo /\ f.fxLo = d.fxLo /\ f.dgLo = d.dgLo
        /\ f.pg = d.pg /\ f.lsIter = d.lsIter /\ f.lo = d.lo /\ f.fxOff = d.fxOff
    BY <2>3 DEF Inside, DrvType
  <2>5. Inside(f)
    BY <2>1, <2>4 DEF Inside, Points
  <2>6. LoHolds(d) /\ (d.fxOff \/ d.fx = LoPoint(d)) => At(f, "RESTORE")
    <3>1. d.lo \in {"START", "CURRENT", "BUF"}
      BY DEF Inside, DrvType
    <3>2. QED
      BY <1>2, <2>1, <2>4, <3>1 DEF At, LoHolds, LoPoint
  <2>7. r \in Submit(f, "RESTORE")
    BY <1>2, <2>2 DEF RestoreLo
  <2>8. QED
    BY <1>2, <2>4, <2>5, <2>6, <2>7, SubmitIs DEF Phases
<1>3. QED
  BY <1>1, <1>2

\* The line search after an evaluation.
Tried(d) == LoHolds(d) /\ d.X = d.G /\ d.fx = d.X /\ d.X <= d.nfev /\ d.pg = d.X

LEMMA OutOfStepsIs ==
  ASSUME NEW d, Inside(d), d.await = "NONE", NEW better \in BOOLEAN, NEW r \in OutOfSteps(d, better)
  PROVE  Status(r, d.nfev) /\ (Tried(d) => Exact(r.d))
<1>1. CASE better
  BY <1>1, AcceptIs DEF OutOfSteps, Tried, Evald
<1>2. CASE ~better /\ d.iLo = 0
  BY <1>2, MayFailIs DEF OutOfSteps
<1>3. CASE ~better /\ d.iLo # 0
  <2>1. PICK f : f = LoValues(d)
    OBVIOUS
  <2>2. /\ f \in DrvType /\ f.err = d.err /\ f.await = "NONE" /\ f.phase = d.phase /\ f.k = d.k /\ f.nfev = d.nfev
        /\ f.X = d.X /\ f.G = d.G /\ f.XP = d.XP /\ f.GP = d.GP /\ f.XLO = d.XLO /\ f.GLO = d.GLO
        /\ f.fx = d.fxLo /\ f.dg = d.dgLo /\ f.iLo = d.iLo /\ f.fxLo = d.fxLo /\ f.dgLo = d.dgLo
        /\ f.pg = d.pg /\ f.lsIter = d.lsIter /\ f.lo = d.lo /\ f.fxOff = d.fxOff
    BY <2>1 DEF LoValues, Inside, DrvType
  <2>3. Inside(f)
    BY <2>2 DEF Inside, Points
  <2>4. Tried(d) => f.lo # "CURRENT" /\ LoHolds(f) /\ f.fx = LoPoint(f)
    <3>1. d.lo \in {"START", "CURRENT", "BUF"}
      BY DEF Inside, DrvType
    <3>2. QED
      BY <1>3, <2>2, <3>1 DEF Tried, LoHolds, LoPoint
  <2>5. r \in RestoreLo(f)
    BY <1>3, <2>1 DEF OutOfSteps
  <2>6. QED
    BY <2>2, <2>3, <2>4, <2>5, RestoreLoIs
<1>4. QED
  BY <1>1, <1>2, <1>3

LEMMA BodyAIs ==
  ASSUME NEW d, Inside(d), d.await = "NONE", d.lsIter < MaxLinesearch,
         NEW better \in BOOLEAN, NEW atMax \in BOOLEAN, NEW r \in BodyA(d, better, atMax)
  PROVE  Status(r, d.nfev) /\ (Tried(d) => Exact(r.d))
<1>1. PICK b : b = (IF better THEN TakeLo(d) ELSE d)
  OBVIOUS
<1>2. /\ b \in DrvType /\ b.err = d.err /\ b.await = "NONE" /\ b.phase = d.phase /\ b.k = d.k /\ b.nfev = d.nfev
      /\ b.X = d.X /\ b.G = d.G /\ b.XP = d.XP /\ b.GP = d.GP /\ b.XLO = d.XLO /\ b.GLO = d.GLO
      /\ b.fx = d.fx /\ b.dg = d.dg /\ b.pg = d.pg /\ b.lsIter = d.lsIter /\ b.fxOff = d.fxOff
      /\ better => b.lo = "CURRENT" /\ b.iLo = d.X /\ b.fxLo = d.fx /\ b.dgLo = d.dg
      /\ ~better => b.lo = d.lo /\ b.iLo = d.iLo /\ b.fxLo = d.fxLo /\ b.dgLo = d.dgLo
  <2>1. CASE better
    BY <1>1, <2>1 DEF TakeLo, Inside, DrvType
  <2>2. CASE ~better
    BY <1>1, <2>2 DEF Inside
  <2>3. QED
    BY <2>1, <2>2
<1>3. Inside(b)
  BY <1>2 DEF Inside, Points
<1>4. Tried(d) => /\ b.lo = "CURRENT" => b.iLo = b.X /\ b.G = b.X /\ b.fxLo = b.X /\ b.X <= b.nfev
                  /\ b.lo # "CURRENT" => LoHolds(b)
                  /\ b.fx = b.X /\ b.G = b.X /\ b.pg = b.X /\ b.X <= b.nfev
  BY <1>2 DEF Tried, LoHolds
<1>5. CASE r \in Trial(b)
  BY <1>2, <1>3, <1>4, <1>5, TrialIs
<1>6. CASE r = Fail(b)
  BY <1>2, <1>3, <1>6, MayFailIs
<1>7. CASE r \in RestoreLo([b EXCEPT !.fxOff = b.lo # "CURRENT"])
  <2>1. PICK off \in BOOLEAN : off = (b.lo # "CURRENT")
    OBVIOUS
  <2>2. PICK f : f = [b EXCEPT !.fxOff = off]
    OBVIOUS
  <2>3. /\ f \in DrvType /\ f.err = b.err /\ f.await = "NONE" /\ f.phase = b.phase /\ f.k = b.k /\ f.nfev = b.nfev
        /\ f.X = b.X /\ f.G = b.G /\ f.XP = b.XP /\ f.GP = b.GP /\ f.XLO = b.XLO /\ f.GLO = b.GLO
        /\ f.fx = b.fx /\ f.dg = b.dg /\ f.iLo = b.iLo /\ f.fxLo = b.fxLo /\ f.dgLo = b.dgLo
        /\ f.pg = b.pg /\ f.lsIter = b.lsIter /\ f.lo = b.lo /\ f.fxOff = off
    BY <1>2, <2>2 DEF DrvType
  <2>4. Inside(f)
    BY <1>2, <1>3, <2>3 DEF Inside, Points
  <2>5. Tried(d) => /\ f.lo = "CURRENT" => Evald(f)
                    /\ f.lo # "CURRENT" => LoHolds(f) /\ f.fxOff
    BY <1>4, <2>1, <2>3 DEF Evald, LoHolds
  <2>6. r \in RestoreLo(f)
    BY <1>7, <2>1, <2>2
  <2>7. QED
    BY <1>2, <2>3, <2>4, <2>5, <2>6, RestoreLoIs
<1>8. QED
  BY <1>1, <1>5, <1>6, <1>7 DEF BodyA

LEMMA AfterEvalIs ==
  ASSUME NEW d, Inside(d), d.await = "NONE", d.lsIter < MaxLinesearch, NEW r \in AfterEval(d)
  PROVE  Status(r, d.nfev) /\ (Tried(d) => Exact(r.d))
<1>1. PICK m \in -1..MaxLinesearch : m = d.lsIter + 1
  BY LbfgsbAssumption DEF Inside, DrvType
<1>2. PICK e : e = [d EXCEPT !.lsIter = @ + 1]
  OBVIOUS
<1>3. e = [d EXCEPT !.lsIter = m]
  BY <1>1, <1>2 DEF Inside, DrvType
<1>4. /\ e \in DrvType /\ e.err = d.err /\ e.await = "NONE" /\ e.phase = d.phase /\ e.k = d.k /\ e.nfev = d.nfev
      /\ e.X = d.X /\ e.G = d.G /\ e.XP = d.XP /\ e.GP = d.GP /\ e.XLO = d.XLO /\ e.GLO = d.GLO
      /\ e.fx = d.fx /\ e.dg = d.dg /\ e.iLo = d.iLo /\ e.fxLo = d.fxLo /\ e.dgLo = d.dgLo
      /\ e.pg = d.pg /\ e.lsIter = m /\ e.lo = d.lo /\ e.fxOff = d.fxOff
  BY <1>3 DEF Inside, DrvType
<1>5. CASE r \in Accept(d)
  BY <1>5, AcceptIs DEF Tried, Evald
<1>6. Inside(e) /\ (Tried(d) => Tried(e))
  BY <1>4 DEF Inside, Points, Tried, LoHolds
<1>7. ASSUME NEW better \in BOOLEAN, e.lsIter >= MaxLinesearch, r \in OutOfSteps(e, better)
      PROVE  Status(r, d.nfev) /\ (Tried(d) => Exact(r.d))
  BY <1>4, <1>7, <1>6, OutOfStepsIs
<1>8. ASSUME NEW better \in BOOLEAN, NEW atMax \in BOOLEAN, ~(e.lsIter >= MaxLinesearch), r \in BodyA(e, better, atMax)
      PROVE  Status(r, d.nfev) /\ (Tried(d) => Exact(r.d))
  <2>1. e.lsIter < MaxLinesearch
    BY <1>4, <1>8, LbfgsbAssumption
  <2>2. QED
    BY <1>4, <1>8, <1>6, <2>1, BodyAIs
<1>9. QED
  BY <1>2, <1>5, <1>7, <1>8 DEF AfterEval

LEMMA DirectionIs ==
  ASSUME NEW d, Inside(d), d.await = "NONE", NEW reset \in BOOLEAN, ~reset => d.k < MaxIterations,
         NEW r \in Direction(d, reset)
  PROVE  Status(r, d.nfev) /\ r.s # "ACCEPT" /\ (Evald(d) => Exact(r.d))
<1>1. ASSUME NEW e, Inside(e), e.await = "NONE", e.nfev = d.nfev, Evald(d) => Evald(e),
             NEW ph \in {"DIR", "DIR_RESET"}, r \in Submit(appendTail(e), ph)
      PROVE  Status(r, d.nfev) /\ r.s # "ACCEPT" /\ (Evald(d) => Exact(r.d))
  <2>1. PICK f : f = appendTail(e)
    OBVIOUS
  <2>2. /\ Inside(f) /\ f.await = "NONE" /\ f.nfev = d.nfev
        /\ Evald(e) => Evald(f) /\ f.XP = f.X /\ f.GP = f.X
    BY <1>1, <2>1, AppendTailIs
  <2>3. Evald(d) => At(f, ph)
    BY <1>1, <2>2 DEF At
  <2>4. r \in Submit(f, ph)
    BY <1>1, <2>1
  <2>5. QED
    BY <1>1, <2>2, <2>3, <2>4, SubmitIs DEF Phases
<1>2. CASE reset
  BY <1>1, <1>2 DEF Direction
<1>3. CASE ~reset
  <2>1. PICK m \in 0..MaxIterations : m = d.k + 1
    BY <1>3, LbfgsbAssumption DEF Inside, DrvType
  <2>2. PICK e : e = [d EXCEPT !.k = @ + 1]
    OBVIOUS
  <2>3. e = [d EXCEPT !.k = m]
    BY <2>1, <2>2 DEF Inside, DrvType
  <2>4. /\ e \in DrvType /\ e.err = d.err /\ e.await = "NONE" /\ e.phase = d.phase /\ e.k = m /\ e.nfev = d.nfev
        /\ e.X = d.X /\ e.G = d.G /\ e.XP = d.XP /\ e.GP = d.GP /\ e.XLO = d.XLO /\ e.GLO = d.GLO
        /\ e.fx = d.fx /\ e.dg = d.dg /\ e.iLo = d.iLo /\ e.fxLo = d.fxLo /\ e.dgLo = d.dgLo
        /\ e.pg = d.pg /\ e.lsIter = d.lsIter /\ e.lo = d.lo /\ e.fxOff = d.fxOff
    BY <2>3 DEF Inside, DrvType
  <2>5. Inside(e) /\ (Evald(d) => Evald(e))
    BY <2>4 DEF Inside, Points, Evald
  <2>6. r \in Submit(appendTail(e), "DIR")
    BY <1>3, <2>2 DEF Direction
  <2>7. QED
    BY <1>1, <2>4, <2>5, <2>6
<1>4. QED
  BY <1>2, <1>3

\* The directional derivative of a line search.
LEMMA SlopeIs ==
  ASSUME NEW d, Inside(d), NEW e, e = [d EXCEPT !.dg = d.G]
  PROVE  /\ Inside(e) /\ e.await = d.await /\ e.nfev = d.nfev /\ e.XP = d.XP /\ e.GP = d.GP /\ e.X = d.X
         /\ Evald(d) => Evald(e)
<1>1. /\ e \in DrvType /\ e.err = d.err /\ e.await = d.await /\ e.phase = d.phase /\ e.k = d.k /\ e.nfev = d.nfev
      /\ e.X = d.X /\ e.G = d.G /\ e.XP = d.XP /\ e.GP = d.GP /\ e.XLO = d.XLO /\ e.GLO = d.GLO
      /\ e.fx = d.fx /\ e.dg = d.G /\ e.iLo = d.iLo /\ e.fxLo = d.fxLo /\ e.dgLo = d.dgLo
      /\ e.pg = d.pg /\ e.lsIter = d.lsIter /\ e.lo = d.lo /\ e.fxOff = d.fxOff
  BY DEF Inside, DrvType
<1>2. QED
  BY <1>1 DEF Inside, Points, Evald

\* The projected gradient read back.
Normed(d, k, dg) == [d EXCEPT !.pg = pgOf(d), !.k = k, !.dg = dg]

LEMMA NormIs ==
  ASSUME NEW d, Inside(d), NEW k \in 0..MaxIterations, NEW dg \in Nat, dg <= d.nfev + 1,
         NEW e, e = Normed(d, k, dg)
  PROVE  /\ Inside(e) \/ d.await = "ACCEPT"
         /\ e.await = d.await /\ e.phase = d.phase /\ e.lsIter = d.lsIter /\ e.nfev = d.nfev /\ e.err = d.err
         /\ d.X = d.G => e.pg = e.X
         /\ e.X = d.X /\ e.G = d.G /\ e.fx = d.fx /\ e.fxOff = d.fxOff
         /\ LoHolds(d) => LoHolds(e)
<1>1. PICK p \in Int : p = pgOf(d)
  BY DEF pgOf, Inside, DrvType
<1>2. d.X = d.G => p = d.X
  BY <1>1 DEF pgOf
<1>3. /\ e \in DrvType /\ e.err = d.err /\ e.await = d.await /\ e.phase = d.phase /\ e.k = k /\ e.nfev = d.nfev
      /\ e.X = d.X /\ e.G = d.G /\ e.XP = d.XP /\ e.GP = d.GP /\ e.XLO = d.XLO /\ e.GLO = d.GLO
      /\ e.fx = d.fx /\ e.dg = dg /\ e.iLo = d.iLo /\ e.fxLo = d.fxLo /\ e.dgLo = d.dgLo
      /\ e.pg = p /\ e.lsIter = d.lsIter /\ e.lo = d.lo /\ e.fxOff = d.fxOff
  BY <1>1 DEF Inside, DrvType, Normed
<1>4. QED
  BY <1>2, <1>3 DEF Inside, Points, LoHolds

\* What follows a phase that is over.
LEMMA AfterPhaseIs ==
  ASSUME NEW d, Driver(d), d.await = "NONE", NEW r \in AfterPhase(d)
  PROVE  Status(r, d.nfev) /\ (Exact(d) => Exact(r.d))
<1>1. /\ Inside(d) /\ ~d.err /\ d \in DrvType /\ d.phase \in Phases
      /\ Exact(d) => At(d, d.phase)
  BY DEF Driver, Inside, Exact, DrvType
<1>2. CASE r \in MayFail(d) \cup {Fail(d)}
  BY <1>1, <1>2, MayFailIs
<1>3. ASSUME NEW ph \in {"NONE"}, NEW a \in {"EVAL0", "TRIAL"}, NEW s \in {"NEED_EVAL", "TRY"},
             a = "TRIAL" => d.phase = "TRIAL", a = "EVAL0" => d.phase = "INIT",
             r = R([d EXCEPT !.phase = ph, !.await = a], s)
      PROVE  Status(r, d.nfev) /\ (Exact(d) => Exact(r.d))
  <2>1. PICK f : f = [d EXCEPT !.phase = ph, !.await = a]
    OBVIOUS
  <2>2. /\ f \in DrvType /\ f.err = d.err /\ f.await = a /\ f.phase = ph /\ f.k = d.k /\ f.nfev = d.nfev
        /\ f.X = d.X /\ f.G = d.G /\ f.XP = d.XP /\ f.GP = d.GP /\ f.XLO = d.XLO /\ f.GLO = d.GLO
        /\ f.fx = d.fx /\ f.dg = d.dg /\ f.iLo = d.iLo /\ f.fxLo = d.fxLo /\ f.dgLo = d.dgLo
        /\ f.pg = d.pg /\ f.lsIter = d.lsIter /\ f.lo = d.lo /\ f.fxOff = d.fxOff
    BY <1>1, <2>1 DEF DrvType, Phases, Awaits
  <2>3. Driver(f)
    BY <1>1, <1>3, <2>2 DEF Driver, Inside, Points
  <2>4. Exact(d) => Exact(f)
    BY <1>1, <1>3, <2>2 DEF Exact, At, LoHolds
  <2>5. r.d = f /\ r.s = s
    BY <1>3, <2>1 DEF R
  <2>6. QED
    BY <2>2, <2>3, <2>4, <2>5 DEF Status
<1>4. CASE d.phase = "INIT"
  <2>1. r = R([d EXCEPT !.phase = "NONE", !.await = "EVAL0"], "NEED_EVAL")
    BY <1>4 DEF AfterPhase
  <2>2. QED
    BY <1>3, <1>4, <2>1
<1>5. CASE d.phase = "TRIAL"
  <2>1. r = R([d EXCEPT !.phase = "NONE", !.await = "TRIAL"], "TRY")
    BY <1>5 DEF AfterPhase
  <2>2. QED
    BY <1>3, <1>5, <2>1
<1>6. CASE d.phase = "X0"
  <2>1. PICK one \in 0..MaxIterations, dg \in Nat : one = 1 /\ dg = d.dg /\ dg <= d.nfev + 1
    BY <1>1, LbfgsbAssumption DEF Inside, Points, DrvType
  <2>2. PICK e : e = [d EXCEPT !.pg = pgOf(d), !.k = 1]
    OBVIOUS
  <2>3. e = Normed(d, one, dg)
    BY <1>1, <2>1, <2>2 DEF DrvType, Normed
  <2>4. /\ Inside(e) /\ e.await = "NONE" /\ e.nfev = d.nfev
        /\ Exact(d) => Evald(e)
    <3>1. /\ Inside(e) /\ e.await = "NONE" /\ e.nfev = d.nfev /\ e.phase = d.phase /\ e.lsIter = d.lsIter
          /\ d.X = d.G => e.pg = e.X
          /\ e.X = d.X /\ e.G = d.G /\ e.fx = d.fx /\ e.fxOff = d.fxOff
          /\ LoHolds(d) => LoHolds(e)
      BY <1>1, <2>1, <2>3, NormIs
    <3>2. QED
      BY <1>1, <1>6, <3>1 DEF At, Evald
  <2>5. CASE r = R([e EXCEPT !.await = "DONE"], "CONVERGED")
    BY <2>4, <2>5, AcceptIs DEF Accept
  <2>6. CASE r \in Submit(appendTail(e), "PREP")
    <3>1. PICK f : f = appendTail(e)
      OBVIOUS
    <3>2. /\ Inside(f) /\ f.await = "NONE" /\ f.nfev = d.nfev
          /\ Exact(d) => At(f, "PREP")
      BY <2>4, <3>1, AppendTailIs DEF At
    <3>3. QED
      BY <2>6, <3>1, <3>2, SubmitIs DEF Phases
  <2>7. CASE r \in MayFail(e)
    BY <2>4, <2>7, MayFailIs
  <2>8. QED
    BY <1>6, <2>2, <2>5, <2>6, <2>7 DEF AfterPhase
<1>7. ASSUME d.phase \in {"PREP", "DIR", "DIR_RESET", "PATHO"}, NEW after \in BOOLEAN,
             r \in LineSearchStart([d EXCEPT !.dg = d.G], after)
      PROVE  Status(r, d.nfev) /\ (Exact(d) => Exact(r.d))
  <2>1. PICK e : e = [d EXCEPT !.dg = d.G]
    OBVIOUS
  <2>2. /\ Inside(e) /\ e.await = "NONE" /\ e.nfev = d.nfev
        /\ Exact(d) => Evald(e) /\ e.XP = e.X /\ e.GP = e.X
    BY <1>1, <1>7, <2>1, SlopeIs DEF At
  <2>3. QED
    BY <1>7, <2>1, <2>2, LineSearchStartIs
<1>8. CASE d.phase = "DIR"
  <2>1. CASE r \in Direction(d, TRUE)
    BY <1>1, <1>8, <2>1, DirectionIs DEF At
  <2>2. QED
    BY <1>2, <1>7, <1>8, <2>1 DEF AfterPhase
<1>9. CASE d.phase \in {"PREP", "DIR_RESET"}
  BY <1>2, <1>7, <1>9 DEF AfterPhase
<1>10. CASE d.phase = "PATHO"
  BY <1>2, <1>7, <1>10 DEF AfterPhase
<1>11. CASE d.phase = "POST"
  <2>1. PICK k \in 0..MaxIterations, dg \in Nat : k = d.k /\ dg = d.G /\ dg <= d.nfev + 1
    BY <1>1 DEF Inside, Points, DrvType
  <2>2. PICK e : e = [d EXCEPT !.dg = d.G, !.pg = pgOf(d)]
    OBVIOUS
  <2>3. e = Normed(d, k, dg)
    BY <1>1, <2>1, <2>2 DEF DrvType, Normed
  <2>4. /\ Inside(e) /\ e.await = "NONE" /\ e.nfev = d.nfev /\ e.lsIter < MaxLinesearch
        /\ Exact(d) => Tried(e)
    <3>1. /\ Inside(e) /\ e.await = "NONE" /\ e.nfev = d.nfev /\ e.phase = d.phase /\ e.lsIter = d.lsIter
          /\ d.X = d.G => e.pg = e.X
          /\ e.X = d.X /\ e.G = d.G /\ e.fx = d.fx /\ e.fxOff = d.fxOff
          /\ LoHolds(d) => LoHolds(e)
      BY <1>1, <2>1, <2>3, NormIs
    <3>2. QED
      BY <1>1, <1>11, <3>1 DEF At, Tried, Driver
  <2>5. r \in AfterEval(e) \cup MayFail(d)
    BY <1>11, <2>2 DEF AfterPhase
  <2>6. QED
    BY <1>2, <2>4, <2>5, AfterEvalIs
<1>12. CASE d.phase = "RESTORE"
  <2>1. PICK k \in 0..MaxIterations, dg \in Nat : k = d.k /\ dg = d.dg /\ dg <= d.nfev + 1
    BY <1>1 DEF Inside, Points, DrvType
  <2>2. PICK e : e = [d EXCEPT !.pg = pgOf(d)]
    OBVIOUS
  <2>3. e = Normed(d, k, dg)
    BY <1>1, <2>1, <2>2 DEF DrvType, Normed
  <2>4. /\ Inside(e) /\ e.await = "NONE" /\ e.nfev = d.nfev
        /\ Exact(d) => Evald(e)
    <3>1. /\ Inside(e) /\ e.await = "NONE" /\ e.nfev = d.nfev /\ e.phase = d.phase /\ e.lsIter = d.lsIter
          /\ d.X = d.G => e.pg = e.X
          /\ e.X = d.X /\ e.G = d.G /\ e.fx = d.fx /\ e.fxOff = d.fxOff
          /\ LoHolds(d) => LoHolds(e)
      BY <1>1, <2>1, <2>3, NormIs
    <3>2. QED
      BY <1>1, <1>12, <3>1 DEF At, Evald
  <2>5. r \in Accept(e) \cup MayFail(d)
    BY <1>12, <2>2 DEF AfterPhase
  <2>6. QED
    BY <1>2, <2>4, <2>5, AcceptIs
<1>13. CASE d.phase = "NONE"
  BY <1>2, <1>13 DEF AfterPhase
<1>14. QED
  BY <1>1, <1>4, <1>5, <1>6, <1>8, <1>9, <1>10, <1>11, <1>12, <1>13 DEF Phases

\* next, on a driver that waits for no evaluation: it asks for one at most.
LEMMA NextIs ==
  ASSUME NEW d, Driver(d), d.await \in {"NONE", "ACCEPT"}, NEW r \in next(d)
  PROVE  /\ Status(r, d.nfev) /\ (Exact(d) => Exact(r.d))
         /\ d.await = "ACCEPT" => r.s # "ACCEPT"
<1>1. CASE d.await = "NONE"
  <2>1. r \in AfterPhase(d)
    BY <1>1 DEF next
  <2>2. QED
    BY <1>1, <2>1, AfterPhaseIs
<1>2. CASE d.await = "ACCEPT"
  <2>1. PICK e : e = [d EXCEPT !.await = "NONE"]
    OBVIOUS
  <2>2. /\ e \in DrvType /\ e.err = d.err /\ e.await = "NONE" /\ e.phase = d.phase /\ e.k = d.k /\ e.nfev = d.nfev
        /\ e.X = d.X /\ e.G = d.G /\ e.XP = d.XP /\ e.GP = d.GP /\ e.XLO = d.XLO /\ e.GLO = d.GLO
        /\ e.fx = d.fx /\ e.dg = d.dg /\ e.iLo = d.iLo /\ e.fxLo = d.fxLo /\ e.dgLo = d.dgLo
        /\ e.pg = d.pg /\ e.lsIter = d.lsIter /\ e.lo = d.lo /\ e.fxOff = d.fxOff
    BY <2>1 DEF Driver, Inside, DrvType, Awaits
  <2>3. Inside(e) /\ (Evald(d) => Evald(e)) /\ e.k < MaxIterations
    BY <1>2, <2>2 DEF Driver, Inside, Points, Evald
  <2>4. Exact(d) => Evald(d)
    BY <1>2 DEF Exact, Driver, Inside
  <2>5. r \in Direction(e, FALSE)
    BY <1>2, <2>1 DEF next
  <2>6. QED
    BY <1>2, <2>2, <2>3, <2>4, <2>5, DirectionIs
<1>3. QED
  BY <1>1, <1>2

\* next, once the gradient at x is there.
LEMMA EvaluatedIs ==
  ASSUME NEW d, Driver(d), d.await \in {"EVAL0", "TRIAL"}, NEW x \in Nat, x <= d.nfev + 1,
         NEW r \in next(setGradient(d, x))
  PROVE  /\ Status(r, d.nfev + 1) /\ r.s # "ACCEPT"
         /\ Exact(d) /\ x = d.X => Exact(r.d)
<1>1. PICK n \in Nat : n = d.nfev + 1
  BY DEF Driver, Inside, DrvType
<1>2. d \in DrvType /\ Inside(d) /\ ~d.err
  BY DEF Driver, Inside
<1>3. PICK f : f = Evaluated(setGradient(d, x))
  OBVIOUS
<1>4. f = [d EXCEPT !.G = x, !.await = "NONE", !.fx = x, !.nfev = n, !.fxOff = FALSE]
  BY <1>1, <1>2, <1>3 DEF Evaluated, setGradient, DrvType
<1>5. /\ f \in DrvType /\ f.err = d.err /\ f.await = "NONE" /\ f.phase = d.phase /\ f.k = d.k /\ f.nfev = n
      /\ f.X = d.X /\ f.G = x /\ f.XP = d.XP /\ f.GP = d.GP /\ f.XLO = d.XLO /\ f.GLO = d.GLO
      /\ f.fx = x /\ f.dg = d.dg /\ f.iLo = d.iLo /\ f.fxLo = d.fxLo /\ f.dgLo = d.dgLo
      /\ f.pg = d.pg /\ f.lsIter = d.lsIter /\ f.lo = d.lo /\ ~f.fxOff
  BY <1>2, <1>4 DEF DrvType, Awaits
<1>6. Inside(f)
  BY <1>1, <1>2, <1>5 DEF Inside, Points, DrvType
<1>7. setGradient(d, x).await = d.await
  BY <1>2 DEF setGradient, DrvType
<1>8. CASE d.await = "EVAL0"
  <2>1. Exact(d) /\ x = d.X => At(f, "X0")
    BY <1>1, <1>2, <1>5, <1>8 DEF Exact, At
  <2>2. r \in Submit(f, "X0")
    BY <1>3, <1>7, <1>8 DEF next
  <2>3. QED
    BY <1>1, <1>5, <1>6, <2>1, <2>2, SubmitIs DEF Phases
<1>9. CASE d.await = "TRIAL"
  <2>1. Exact(d) /\ x = d.X => At(f, "POST")
    BY <1>1, <1>2, <1>5, <1>9 DEF Exact, At, LoHolds, DrvType
  <2>2. r \in Submit(f, "POST")
    BY <1>3, <1>7, <1>9 DEF next
  <2>3. f.lsIter < MaxLinesearch
    BY <1>5, <1>9 DEF Driver
  <2>4. QED
    BY <1>1, <1>5, <1>6, <2>1, <2>2, <2>3, SubmitIs DEF Phases
<1>10. QED
  BY <1>8, <1>9

\* start.
LEMMA StartIs ==
  ASSUME NEW r \in Start
  PROVE  Driver(r.d) /\ Exact(r.d) /\ r.d.nfev = 0 /\ (r.d.err \/ r.d.await = "NONE")
<1>1. PICK d : d = [phase |-> "NONE", await |-> "NONE", err |-> FALSE, k |-> 0, nfev |-> 0,
          X |-> 1, G |-> 0, XP |-> 0, GP |-> 0, XLO |-> 0, GLO |-> 0,
          fx |-> 0, dg |-> 0, pg |-> 0, lsIter |-> -1,
          lo |-> "START", iLo |-> 0, fxLo |-> 0, dgLo |-> 0, fxOff |-> FALSE]
  OBVIOUS
<1>2. /\ 0 \in 0..MaxIterations /\ -1 \in -1..MaxLinesearch
  BY LbfgsbAssumption
<1>3. /\ d \in DrvType /\ d.err = FALSE /\ d.await = "NONE" /\ d.nfev = 0 /\ d.X = 1 /\ d.G = 0
      /\ d.XP = 0 /\ d.GP = 0 /\ d.XLO = 0 /\ d.GLO = 0 /\ d.fx = 0 /\ d.dg = 0 /\ d.iLo = 0
      /\ d.fxLo = 0 /\ d.dgLo = 0
  BY <1>1, <1>2 DEF DrvType, Phases, Awaits
<1>4. Inside(d) /\ At(d, "INIT")
  BY <1>3 DEF Inside, Points, At
<1>5. r \in Submit(d, "INIT")
  BY <1>1 DEF Start
<1>6. Status(r, 0) /\ Exact(r.d)
  BY <1>3, <1>4, <1>5, SubmitIs DEF Phases
<1>7. r.d.err \/ r.d.await = "NONE"
  <2>1. CASE r.s = "BUSY"
    BY <1>6, <2>1 DEF Status
  <2>2. CASE r = Fail(d)
    BY <1>3, <2>2 DEF Fail, R, DrvType
  <2>3. QED
    BY <1>5, <2>1, <2>2 DEF Submit, MayFail, R
<1>8. QED
  BY <1>6, <1>7 DEF Status

-----------------------------------------------------------------------------
(* The queue.                                                              *)

NoOpts(s) == \A k \in 1..Len(s) : s[k].fn \notin OptFns

LEMMA RestIs ==
  ASSUME q \in Seq(EntryType), q # <<>>
  PROVE  /\ Rest \in Seq(EntryType) /\ Len(q) \in Nat \ {0} /\ Len(Rest) \in Nat /\ Len(q) = Len(Rest) + 1
         /\ \A k \in 1..Len(Rest) : Rest[k] = q[k + 1]
         /\ q[1] \in EntryType
<1>1. Rest = Tail(q)
  BY TailIsSubSeq DEF Rest
<1>2. PICK n \in Nat \ {0} : n = Len(q)
  BY EmptySeq
<1>3. /\ Rest \in Seq(EntryType) /\ Len(Rest) = n - 1
      /\ \A k \in 1..Len(Rest) : Rest[k] = q[k + 1]
  BY <1>1, <1>2, HeadTailProperties
<1>4. q[1] \in EntryType
  BY <1>2, ElementOfSeq
<1>5. QED
  BY <1>2, <1>3, <1>4

\* The optimize's own stage is at the head: nothing else of it is queued.
LEMMA AtHead ==
  ASSUME IInv, q # <<>>, q[1].fn \in OptFns
  PROVE  /\ OptRunning /\ opt.on /\ Waits(1) /\ NoOpts(Rest) /\ Driver(drv)
         /\ ~HostMixes => Rest = <<>> /\ Len(q) = 1 /\ opt.steps > 0
         /\ ~HostMixes /\ ~opt.misread => Exact(drv)
<1>1. q \in Seq(EntryType)
  BY DEF IInv, Typed
<1>2. PICK n \in Nat \ {0} : n = Len(q)
  BY <1>1, RestIs
<1>3. OptRunning /\ opt.on
  BY <1>2 DEF IInv, OptsAreWaited, OptRunning
<1>4. PICK i \in 1..n : Waits(i)
  BY <1>2, <1>3 DEF IInv, OptsAreWaited
<1>5. i = 1
  BY <1>2, <1>4 DEF Waits
<1>6. PICK m \in Nat : m = Len(Rest) /\ n = m + 1
  BY <1>1, <1>2, RestIs
<1>7. NoOpts(Rest)
  <2>1. ASSUME NEW k \in 1..m PROVE Rest[k].fn \notin OptFns
    <3>1. Rest[k] = q[k + 1] /\ k + 1 \in 1..n /\ k + 1 # 1
      BY <1>1, <1>6, RestIs
    <3>2. QED
      BY <1>2, <1>4, <1>5, <3>1 DEF Waits
  <2>2. QED
    BY <1>6, <2>1 DEF NoOpts
<1>8. ASSUME ~HostMixes PROVE Rest = <<>> /\ Len(q) = 1 /\ opt.steps > 0
  <2>1. opt.steps > 0 /\ q[n].fn \in OptFns
    BY <1>2, <1>3, <1>8 DEF IInv, Alone
  <2>2. n = 1
    BY <1>2, <1>4, <1>5, <2>1 DEF Waits
  <2>3. m = 0
    BY <1>6, <2>2
  <2>4. Rest = <<>>
    BY <1>1, <1>6, <2>3, RestIs, EmptySeq
  <2>5. QED
    BY <1>2, <2>1, <2>2, <2>4
<1>9. Driver(drv) /\ (~HostMixes /\ ~opt.misread => Exact(drv))
  BY <1>3 DEF IInv, Typed
<1>10. QED
  BY <1>3, <1>4, <1>5, <1>7, <1>8, <1>9

\* The optimize ends, whichever way.
Finishes == \E ok \in BOOLEAN : opt' = [opt EXCEPT !.done = TRUE, !.ok = ok]

LEMMA FinishesIs == (opt_finish(TRUE) => Finishes) /\ (opt_finish(FALSE) => Finishes)
<1>1. ASSUME NEW ok \in BOOLEAN, opt' = [opt EXCEPT !.done = TRUE, !.ok = ok] PROVE Finishes
  BY <1>1 DEF Finishes
<1>2. opt_finish(TRUE) => Finishes
  BY <1>1 DEF opt_finish
<1>3. opt_finish(FALSE) => Finishes
  BY <1>1 DEF opt_finish
<1>4. QED
  BY <1>2, <1>3

LEMMA FinishIs ==
  ASSUME opt \in OptType, opt.on, Finishes
  PROVE  opt' \in OptType /\ opt'.on /\ opt'.done /\ opt'.misread = opt.misread
  BY DEF OptType, Finishes

\* An optimize that has ended leaves nothing of itself queued.
LEMMA FinishedIs ==
  ASSUME IInv, q # <<>>, q[1].fn \in OptFns, Finishes, q' = Rest,
         Driver(drv'), ~HostMixes /\ ~opt.misread => Exact(drv'), sim' = sim, ses' = ses
  PROVE  IInv'
<1>1. q \in Seq(EntryType) /\ opt \in OptType /\ sim \in SimType /\ ses \in SesType
  BY DEF IInv, Typed
<1>2. opt' \in OptType /\ opt'.on /\ opt'.done /\ opt'.misread = opt.misread
  BY <1>1, AtHead, FinishIs
<1>3. Typed'
  BY <1>1, <1>2, RestIs DEF Typed
<1>4. OptsAreWaited' /\ Alone'
  BY <1>2, AtHead DEF OptsAreWaited, Alone, OptRunning, NoOpts
<1>5. QED
  BY <1>2, <1>3, <1>4 DEF IInv

\* An evaluation is queued behind the others.
LEMMA EvaluationIs ==
  ASSUME opt.steps \in 0..MaxSteps, NEW s \in Seq(EntryType), NEW m \in Nat, m = Len(s)
  PROVE  LET t == s \o Evaluation IN
         /\ t \in Seq(EntryType) /\ Len(t) = m + 3 /\ \A k \in 1..m : t[k] = s[k]
         /\ t[m + 1].fn = "forward" /\ t[m + 1].n = opt.steps
         /\ t[m + 2].fn = "backward" /\ t[m + 3].fn = "opt_collect"
<1>1. 0 \in 0..MaxSteps
  BY OptimizeAssumption
<1>2. PICK a \in EntryType, b \in EntryType, c \in EntryType :
        /\ a = [fn |-> "forward", n |-> opt.steps] /\ b = [fn |-> "backward", n |-> 0]
        /\ c = [fn |-> "opt_collect", n |-> 0]
  <2>1. /\ [fn |-> "forward", n |-> opt.steps] \in EntryType /\ [fn |-> "backward", n |-> 0] \in EntryType
        /\ [fn |-> "opt_collect", n |-> 0] \in EntryType
    BY <1>1 DEF EntryType, OptFns
  <2>2. QED
    BY <2>1
<1>3. PICK e : e = <<a, b, c>>
  OBVIOUS
<1>4. e \in Seq(EntryType) /\ Len(e) = 3 /\ e[1] = a /\ e[2] = b /\ e[3] = c
  BY <1>3
<1>5. Evaluation = e
  BY <1>2, <1>3 DEF Evaluation
<1>6. PICK t : t = s \o e
  OBVIOUS
<1>7. /\ t \in Seq(EntryType) /\ Len(t) = m + 3
      /\ \A k \in 1..m + 3 : t[k] = IF k <= m THEN s[k] ELSE e[k - m]
  <2>1. /\ s \o e \in Seq(EntryType) /\ Len(s \o e) = Len(s) + Len(e)
        /\ \A k \in 1..Len(s) + Len(e) : (s \o e)[k] = IF k <= Len(s) THEN s[k] ELSE e[k - Len(s)]
    BY <1>4, ConcatProperties
  <2>2. PICK l \in Nat : l = Len(e) /\ l = 3
    BY <1>4
  <2>3. QED
    BY <1>6, <2>1, <2>2
<1>8. /\ \A k \in 1..m : t[k] = s[k]
      /\ t[m + 1] = e[1] /\ t[m + 2] = e[2] /\ t[m + 3] = e[3]
  <2>1. \A k \in 1..m : k \in 1..m + 3 /\ k <= m
    OBVIOUS
  <2>2. /\ m + 1 \in 1..m + 3 /\ ~(m + 1 <= m) /\ (m + 1) - m = 1
        /\ m + 2 \in 1..m + 3 /\ ~(m + 2 <= m) /\ (m + 2) - m = 2
        /\ m + 3 \in 1..m + 3 /\ ~(m + 3 <= m) /\ (m + 3) - m = 3
    OBVIOUS
  <2>3. QED
    BY <1>7, <2>1, <2>2
<1>9. QED
  BY <1>2, <1>4, <1>5, <1>6, <1>7, <1>8

\* A busy driver is asked again.
LEMMA BusyIs ==
  ASSUME NEW s \in Seq(EntryType), NEW m \in Nat, m = Len(s)
  PROVE  LET t == <<[fn |-> "opt_stage", n |-> 0]>> \o s IN
         /\ t \in Seq(EntryType) /\ Len(t) = m + 1 /\ \A k \in 1..m : t[k + 1] = s[k]
         /\ t[1].fn = "opt_stage"
<1>1. 0 \in 0..MaxSteps
  BY OptimizeAssumption
<1>2. PICK a \in EntryType : a = [fn |-> "opt_stage", n |-> 0]
  BY <1>1 DEF EntryType, OptFns
<1>3. PICK e : e = <<a>>
  OBVIOUS
<1>4. e \in Seq(EntryType) /\ Len(e) = 1 /\ e[1] = a
  BY <1>3
<1>5. PICK t : t = e \o s
  OBVIOUS
<1>6. /\ t \in Seq(EntryType) /\ Len(t) = m + 1
      /\ \A k \in 1..1 + m : t[k] = IF k <= 1 THEN e[k] ELSE s[k - 1]
  BY <1>4, <1>5, ConcatProperties
<1>7. t[1] = a
  BY <1>4, <1>6
<1>8. \A k \in 1..m : t[k + 1] = s[k]
  <2>1. ASSUME NEW k \in 1..m PROVE t[k + 1] = s[k]
    <3>1. k + 1 \in 1..1 + m /\ ~(k + 1 <= 1) /\ (k + 1) - 1 = k
      OBVIOUS
    <3>2. QED
      BY <1>6, <3>1
  <2>2. QED
    BY <2>1
<1>9. QED
  BY <1>2, <1>3, <1>5, <1>6, <1>7, <1>8

-----------------------------------------------------------------------------
(* What a stage of the optimize does with a result of the driver.          *)

LEMMA HandleKeeps ==
  ASSUME IInv, q # <<>>, q[1].fn \in OptFns, NEW r, NEW n, Status(r, n), r.s # "ACCEPT",
         ~HostMixes /\ ~opt.misread => Exact(r.d), Handle(r), ses' = ses
  PROVE  IInv' /\ drv'.nfev = n
<1>1. q \in Seq(EntryType) /\ opt \in OptType /\ sim \in SimType /\ ses \in SesType
  BY DEF IInv, Typed
<1>2. PICK m \in Nat : m = Len(Rest) /\ Len(q) = m + 1
  BY <1>1, RestIs
<1>3. Rest \in Seq(EntryType) /\ \A k \in 1..m : Rest[k].fn \notin OptFns
  BY <1>1, <1>2, RestIs, AtHead DEF NoOpts
<1>4. drv' = r.d /\ Driver(drv') /\ drv'.nfev = n /\ (~HostMixes /\ ~opt.misread => Exact(drv'))
  BY DEF Handle, Status
<1>5. ASSUME Finishes, q' = Rest, sim' = sim PROVE IInv'
  BY <1>4, <1>5, FinishedIs
<1>6. CASE r.s = "BUSY"
  <2>1. q' = Busy /\ opt' = opt /\ sim' = sim /\ drv'.await = "NONE"
    BY <1>4, <1>6 DEF Handle, Status
  <2>2. PICK M \in Nat : M = m + 1
    OBVIOUS
  <2>3. /\ q' \in Seq(EntryType) /\ Len(q') = M /\ q'[1].fn = "opt_stage"
        /\ \A k \in 1..m : q'[k + 1] = Rest[k]
    BY <1>2, <1>3, <2>1, <2>2, BusyIs DEF Busy
  <2>4. \A k \in 1..M : q'[k].fn \in OptFns => k = 1
    <3>1. ASSUME NEW k \in 1..M, k # 1 PROVE q'[k].fn \notin OptFns
      <4>1. PICK j \in 1..m : k = j + 1
        <5>1. k - 1 \in 1..m
          BY <2>2, <3>1
        <5>2. QED
          BY <5>1
      <4>2. QED
        BY <1>3, <2>3, <4>1
    <3>2. QED
      BY <3>1
  <2>5. Waits(1)'
    BY <2>1, <2>3, <2>4 DEF Waits, OptFns
  <2>6. opt.on /\ OptRunning' /\ 1 \in 1..M
    BY <2>1, <2>2, AtHead DEF OptRunning
  <2>7. OptsAreWaited'
    BY <2>3, <2>5, <2>6 DEF OptsAreWaited
  <2>8. Typed'
    BY <1>1, <1>4, <2>1, <2>3 DEF Typed
  <2>9. ~HostMixes => Alone'
    <3>1. ASSUME ~HostMixes PROVE M = 1 /\ opt.steps > 0
      BY <1>2, <2>2, <3>1, AtHead
    <3>2. QED
      BY <2>1, <2>3, <3>1 DEF Alone, OptFns
  <2>10. QED
    BY <1>4, <2>1, <2>7, <2>8, <2>9 DEF IInv
<1>7. ASSUME r.s \in {"NEED_EVAL", "TRY"}, NEW x \in readX(r.d), sim' = Rewound(x), q' = Rest \o Evaluation,
             opt' = [opt EXCEPT !.misread = @ \/ x = 0]
      PROVE  IInv'
  <2>1. drv'.await \in {"EVAL0", "TRIAL"} /\ drv'.X \in Nat
    BY <1>4, <1>7 DEF Status, Driver, Inside, DrvType
  <2>2. x \in {0, drv'.X} /\ x \in Nat
    BY <1>4, <2>1 DEF readX
  <2>3. PICK zero \in BOOLEAN : zero <=> opt.misread \/ x = 0
    OBVIOUS
  <2>4. opt' = [opt EXCEPT !.misread = zero]
    BY <1>1, <1>7, <2>3 DEF OptType
  <2>5. /\ opt' \in OptType /\ opt'.on = opt.on /\ opt'.done = opt.done /\ opt'.steps = opt.steps
        /\ opt'.misread = zero
    BY <1>1, <2>4 DEF OptType
  <2>6. ~opt'.misread => ~opt.misread /\ x = drv'.X
    BY <2>2, <2>3, <2>5
  <2>7. /\ sim' \in SimType /\ sim'.x = x /\ sim'.steps = 0 /\ ~sim'.failed /\ ~sim'.mid
    BY <1>7, <2>2 DEF Rewound, SimType
  <2>8. opt.steps \in 0..MaxSteps
    BY <1>1 DEF OptType
  <2>9. PICK a \in Nat, b \in Nat, c \in Nat : a = m + 1 /\ b = m + 2 /\ c = m + 3
    OBVIOUS
  <2>10. /\ q' \in Seq(EntryType) /\ Len(q') = c /\ \A k \in 1..m : q'[k] = Rest[k]
         /\ q'[a].fn = "forward" /\ q'[a].n = opt.steps /\ q'[b].fn = "backward" /\ q'[c].fn = "opt_collect"
    <3>1. PICK t : t = Rest \o Evaluation
      OBVIOUS
    <3>2. /\ t \in Seq(EntryType) /\ Len(t) = m + 3 /\ \A k \in 1..m : t[k] = Rest[k]
          /\ t[m + 1].fn = "forward" /\ t[m + 1].n = opt.steps
          /\ t[m + 2].fn = "backward" /\ t[m + 3].fn = "opt_collect"
      BY <1>2, <1>3, <2>8, <3>1, EvaluationIs
    <3>3. QED
      BY <1>7, <2>9, <3>1, <3>2
  <2>11. \A k \in 1..c : q'[k].fn \in OptFns => k = c
    <3>1. ASSUME NEW k \in 1..c, k # c PROVE q'[k].fn \notin OptFns
      <4>1. k \in 1..m \/ k = a \/ k = b
        BY <2>9, <3>1
      <4>2. QED
        BY <1>3, <2>10, <4>1 DEF OptFns
    <3>2. QED
      BY <3>1
  <2>12. c \in 1..c /\ c > 1 /\ c # 1 /\ c - 1 = b
    BY <2>9
  <2>13. Waits(c)'
    BY <2>1, <2>2, <2>7, <2>10, <2>11, <2>12 DEF Waits, OptFns
  <2>14. opt.on /\ OptRunning'
    BY <2>5, AtHead DEF OptRunning
  <2>15. OptsAreWaited'
    BY <2>10, <2>12, <2>13, <2>14 DEF OptsAreWaited
  <2>16. Typed'
    BY <1>1, <1>4, <1>7, <2>5, <2>7, <2>10 DEF Typed
  <2>17. ~HostMixes => Alone'
    <3>1. ASSUME ~HostMixes PROVE m = 0 /\ a = 1 /\ c = 3 /\ opt.steps > 0
      BY <1>2, <2>9, <3>1, AtHead
    <3>2. QED
      BY <2>5, <2>6, <2>7, <2>10, <3>1 DEF Alone, OptFns
  <2>18. QED
    BY <1>4, <2>6, <2>15, <2>16, <2>17 DEF IInv
<1>8. CASE r.s \in {"NEED_EVAL", "TRY"} /\ opt_finish(FALSE) /\ q' = Rest /\ sim' = sim
  <2>1. Finishes
    BY <1>8, FinishesIs, Zenon
  <2>2. QED
    BY <1>4, <1>5, <1>8, <2>1, Zenon
<1>9. CASE r.s = "CONVERGED"
  <2>1. opt' = [opt EXCEPT !.done = TRUE, !.ok = TRUE] /\ q' = Rest /\ sim' = sim
    BY <1>9 DEF Handle, opt_finish
  <2>2. Finishes
    BY <2>1 DEF Finishes
  <2>3. QED
    BY <1>4, <1>5, <2>1, <2>2, Zenon
<1>10. CASE r.s = "FAIL"
  <2>1. opt' = [opt EXCEPT !.done = TRUE, !.ok = FALSE] /\ q' = Rest /\ sim' = sim
    BY <1>10 DEF Handle, opt_finish
  <2>2. Finishes
    BY <2>1 DEF Finishes
  <2>3. QED
    BY <1>4, <1>5, <2>1, <2>2, Zenon
<1>11. CASE r.s \in {"NEED_EVAL", "TRY"}
  <2>1. PICK x \in readX(r.d) : opt_eval(x)
    BY <1>11 DEF Handle
  <2>2. \/ sim' = Rewound(x) /\ q' = Rest \o Evaluation /\ opt' = [opt EXCEPT !.misread = @ \/ x = 0]
        \/ opt_finish(FALSE) /\ q' = Rest /\ sim' = sim
    BY <2>1 DEF opt_eval
  <2>3. QED
    BY <1>4, <1>7, <1>8, <1>11, <2>2
<1>12. QED
  BY <1>4, <1>6, <1>9, <1>10, <1>11 DEF Status

\* opt_started, opt_stage and opt_collect.
LEMMA OptStartedKeeps ==
  ASSUME IInv, OptStarted
  PROVE  IInv' /\ drv'.nfev = drv.nfev
<1>1. q # <<>> /\ q[1].fn = "opt_started" /\ q[1].fn \in OptFns /\ ses' = ses
  BY DEF OptStarted, Stage, OptFns
<1>2. Driver(drv) /\ (drv.err \/ drv.await = "NONE") /\ (~HostMixes /\ ~opt.misread => Exact(drv))
  BY <1>1, AtHead DEF Waits
<1>3. PICK r : r = R(drv, IF drv.err THEN "FAIL" ELSE "BUSY")
  OBVIOUS
<1>4. r.d = drv /\ r.s = (IF drv.err THEN "FAIL" ELSE "BUSY")
  BY <1>3 DEF R
<1>5. Status(r, drv.nfev) /\ r.s # "ACCEPT"
  BY <1>2, <1>4 DEF Status
<1>6. Handle(r)
  BY <1>3, <1>5 DEF OptStarted, opt_handle
<1>7. QED
  BY <1>1, <1>2, <1>4, <1>5, <1>6, HandleKeeps

LEMMA OptStageKeeps ==
  ASSUME IInv, OptStage
  PROVE  IInv' /\ drv'.nfev = drv.nfev
<1>1. q # <<>> /\ q[1].fn = "opt_stage" /\ q[1].fn \in OptFns /\ ses' = ses
  BY DEF OptStage, Stage, OptFns
<1>2. Driver(drv) /\ drv.await = "NONE" /\ (~HostMixes /\ ~opt.misread => Exact(drv))
  BY <1>1, AtHead DEF Waits
<1>3. PICK r \in next(drv) : opt_handle(r)
  BY DEF OptStage
<1>4. Status(r, drv.nfev) /\ (Exact(drv) => Exact(r.d))
  BY <1>2, NextIs
<1>5. CASE r.s # "ACCEPT"
  <2>1. Handle(r)
    BY <1>3, <1>5 DEF opt_handle
  <2>2. QED
    BY <1>1, <1>2, <1>4, <1>5, <2>1, HandleKeeps
<1>6. CASE r.s = "ACCEPT"
  <2>1. PICK s \in next(r.d) : Handle(s)
    BY <1>3, <1>6 DEF opt_handle
  <2>2. Driver(r.d) /\ r.d.await = "ACCEPT" /\ r.d.nfev = drv.nfev
    BY <1>4, <1>6 DEF Status
  <2>3. Status(s, drv.nfev) /\ s.s # "ACCEPT" /\ (Exact(drv) => Exact(s.d))
    BY <1>4, <2>2, NextIs
  <2>4. QED
    BY <1>1, <1>2, <2>1, <2>3, HandleKeeps
<1>7. QED
  BY <1>5, <1>6

LEMMA OptCollectKeeps ==
  ASSUME IInv, OptCollect
  PROVE  /\ IInv'
         /\ ~HostMixes /\ drv'.nfev # drv.nfev => /\ ~opt.misread => ses.x = drv.X
                                                  /\ "wholeStep" \notin ForwardFails => ses.steps = opt.steps
<1>1. q # <<>> /\ q[1].fn = "opt_collect" /\ q[1].fn \in OptFns /\ ses' = ses
  BY DEF OptCollect, Stage, OptFns
<1>2. /\ Driver(drv) /\ drv.await \in {"EVAL0", "TRIAL"} /\ (ses.ok => ses.x \in {0, drv.X})
      /\ ~HostMixes /\ ~opt.misread => Exact(drv)
  BY <1>1, AtHead DEF Waits
<1>3. CASE opt_finish(FALSE) /\ q' = Rest /\ UNCHANGED <<drv, sim>>
  BY <1>1, <1>2, <1>3, FinishedIs, FinishesIs
<1>4. ASSUME Collects, NEW r \in next(setGradient(drv, ses.x)), opt_handle(r)
      PROVE  IInv' /\ (~HostMixes => /\ ~opt.misread => ses.x = drv.X
                                     /\ "wholeStep" \notin ForwardFails => ses.steps = opt.steps)
  <2>1. ses.ok
    BY <1>4 DEF Collects
  <2>2. ~HostMixes => /\ ~opt.misread => ses.x = drv.X
                      /\ "wholeStep" \notin ForwardFails => ses.steps = opt.steps
    BY <1>1, <2>1, AtHead DEF IInv, Alone
  <2>3. drv.X \in Nat /\ drv.nfev \in Nat /\ drv.X <= drv.nfev + 1
    BY <1>2 DEF Driver, Inside, Points, DrvType
  <2>4. PICK x \in Nat : x = ses.x /\ x <= drv.nfev + 1
    BY <1>2, <2>1, <2>3
  <2>5. r \in next(setGradient(drv, x))
    BY <1>4, <2>4
  <2>6. Status(r, drv.nfev + 1) /\ r.s # "ACCEPT" /\ (Exact(drv) /\ x = drv.X => Exact(r.d))
    BY <1>2, <2>4, <2>5, EvaluatedIs
  <2>7. Handle(r)
    BY <1>4, <2>6 DEF opt_handle
  <2>8. QED
    BY <1>1, <1>2, <2>2, <2>4, <2>6, <2>7, HandleKeeps
<1>5. QED
  BY <1>3, <1>4 DEF OptCollect

-----------------------------------------------------------------------------
(* The session's own operations, and the host's calls.                     *)

\* A forward or a backward at the head leaves the queue to the next entry.
LEMMA RestWaits ==
  ASSUME IInv, q # <<>>, q[1].fn \in {"forward", "backward"}, q' = Rest, opt' = opt, drv' = drv,
         sim'.x = sim.x, q[1].fn = "backward" => (ses'.ok => ses'.x = sim.x)
  PROVE  OptsAreWaited'
<1>1. q \in Seq(EntryType) /\ q[1].fn \notin OptFns
  BY DEF IInv, Typed, OptFns
<1>2. PICK n \in Nat \ {0}, m \in Nat : n = Len(q) /\ m = Len(Rest) /\ n = m + 1
  BY <1>1, RestIs
<1>3. \A k \in 1..m : q'[k] = q[k + 1]
  BY <1>1, <1>2, RestIs
<1>4. CASE ~OptRunning
  <2>1. \A k \in 1..m : k + 1 \in 1..n
    BY <1>2
  <2>2. QED
    BY <1>2, <1>3, <1>4, <2>1 DEF IInv, OptsAreWaited, OptRunning
<1>5. CASE OptRunning
  <2>1. PICK i \in 1..n : Waits(i)
    BY <1>2, <1>5 DEF IInv, OptsAreWaited
  <2>2. i # 1
    BY <1>1, <2>1 DEF Waits
  <2>3. PICK j \in 1..m : i = j + 1 /\ i - 1 = j /\ i > 1
    <3>1. i - 1 \in 1..m /\ i = (i - 1) + 1 /\ i > 1
      BY <1>2, <2>2
    <3>2. QED
      BY <3>1
  <2>4. q'[j] = q[i]
    BY <1>3, <2>3
  <2>5. \A k \in 1..m : q'[k].fn \in OptFns => k = j
    <3>1. ASSUME NEW k \in 1..m, q'[k].fn \in OptFns PROVE k = j
      <4>1. k + 1 \in 1..n /\ q[k + 1].fn \in OptFns
        BY <1>2, <1>3, <3>1
      <4>2. k + 1 = i
        BY <1>2, <2>1, <4>1 DEF Waits
      <4>3. QED
        BY <2>3, <4>2
    <3>2. QED
      BY <3>1
  <2>6. ASSUME q'[j].fn = "opt_collect"
        PROVE  /\ drv.await \in {"EVAL0", "TRIAL"} /\ sim.x \in {0, drv.X} /\ q[j].fn = "backward"
    BY <2>1, <2>3, <2>4, <2>6 DEF Waits
  <2>7. ASSUME q'[j].fn = "opt_collect", j > 1 PROVE q'[j - 1].fn = "backward"
    <3>1. j - 1 \in 1..m /\ (j - 1) + 1 = j
      BY <2>7
    <3>2. QED
      BY <1>3, <2>6, <2>7, <3>1
  <2>8. ASSUME q'[j].fn = "opt_collect", j = 1 PROVE ses'.ok => ses'.x \in {0, drv.X}
    BY <2>6, <2>8
  <2>9. Waits(j)'
    BY <1>2, <2>1, <2>4, <2>5, <2>6, <2>7, <2>8 DEF Waits
  <2>10. QED
    BY <1>2, <1>5, <2>9 DEF OptsAreWaited, OptRunning
<1>6. QED
  BY <1>4, <1>5

LEMMA ForwardKeeps ==
  ASSUME IInv, Forward
  PROVE  IInv' /\ drv' = drv
<1>1. /\ q \in Seq(EntryType) /\ opt \in OptType /\ sim \in SimType /\ ses \in SesType
      /\ q # <<>> /\ q[1].fn = "forward" /\ q' = Rest /\ opt' = opt /\ drv' = drv
  BY DEF IInv, Typed, Forward, Stage
<1>2. PICK n \in 0..MaxSteps : n = q[1].n
  BY <1>1, RestIs DEF EntryType
<1>3. /\ sim' \in SimType /\ sim'.x = sim.x /\ ses' \in SesType
      /\ \/ ~sim.failed /\ sim'.steps = sim.steps + n
         \/ ~sim.failed /\ sim'.failed /\ ("wholeStep" \notin ForwardFails => sim'.mid)
         \/ sim.failed
  <2>1. CASE /\ ~sim.failed
             /\ sim' = [sim EXCEPT !.steps = @ + q[1].n]
             /\ ses' = [ses EXCEPT !.ok = TRUE]
    <3>1. PICK s \in Nat : s = sim.steps + n
      BY <1>1, <1>2, OptimizeAssumption DEF SimType
    <3>2. sim' = [sim EXCEPT !.steps = s]
      BY <1>2, <2>1, <3>1
    <3>3. sim' \in SimType /\ sim'.x = sim.x /\ sim'.steps = s
      BY <1>1, <3>2 DEF SimType
    <3>4. ses' \in SesType
      BY <1>1, <2>1 DEF SesType
    <3>5. QED
      BY <2>1, <3>1, <3>3, <3>4
  <2>2. ASSUME ~sim.failed, ses' = [ses EXCEPT !.ok = FALSE],
               NEW how \in ForwardFails, NEW k \in 0..q[1].n - 1,
               sim' = [sim EXCEPT !.steps = @ + k + (IF how = "wholeStep" THEN 1 ELSE 0),
                                  !.failed = TRUE, !.mid = (how = "midStep")]
        PROVE  /\ sim' \in SimType /\ sim'.x = sim.x /\ ses' \in SesType
               /\ sim'.failed /\ ("wholeStep" \notin ForwardFails => sim'.mid)
    <3>1. PICK s \in Nat : s = sim.steps + k + (IF how = "wholeStep" THEN 1 ELSE 0)
      BY <1>1, <1>2, OptimizeAssumption DEF SimType
    <3>2. PICK b \in BOOLEAN : b <=> how = "midStep"
      OBVIOUS
    <3>3. sim' = [sim EXCEPT !.steps = s, !.failed = TRUE, !.mid = b]
      BY <2>2, <3>1, <3>2
    <3>4. sim' \in SimType /\ sim'.x = sim.x /\ sim'.failed /\ (sim'.mid <=> b)
      BY <1>1, <3>3 DEF SimType
    <3>5. "wholeStep" \notin ForwardFails => b
      BY <3>2, OptimizeAssumption
    <3>6. QED
      BY <1>1, <2>2, <3>4, <3>5 DEF SesType
  <2>3. CASE sim.failed /\ ses' = [ses EXCEPT !.ok = FALSE] /\ sim' = sim
    BY <1>1, <2>3 DEF SesType
  <2>4. QED
    BY <2>1, <2>2, <2>3 DEF Forward
<1>4. OptsAreWaited'
  BY <1>1, <1>3, RestWaits
<1>5. Typed'
  BY <1>1, <1>3, RestIs DEF IInv, Typed
<1>6. ASSUME ~HostMixes, OptRunning PROVE Alone'
  <2>1. PICK l \in Nat \ {0}, m \in Nat : l = Len(q) /\ m = Len(Rest) /\ l = m + 1
    BY <1>1, RestIs
  <2>2. /\ Alone /\ l \in 1..3 /\ q[l].fn \in OptFns /\ opt.steps > 0
    BY <1>6, <2>1 DEF IInv, Alone
  <2>3. l # 1
    BY <1>1, <2>2 DEF OptFns
  <2>4. q[l].fn = "opt_collect"
    BY <1>6, <2>1, <2>2, <2>3 DEF Alone
  <2>5. PICK i \in 1..l : Waits(i)
    BY <1>6, <2>1 DEF IInv, OptsAreWaited
  <2>6. i = l
    BY <2>1, <2>2, <2>5 DEF Waits
  <2>7. l # 2
    BY <1>1, <2>4, <2>5, <2>6 DEF Waits
  <2>8. l = 3 /\ m = 2
    BY <2>1, <2>2, <2>3, <2>7
  <2>9. q'[2] = q[3]
    BY <1>1, <2>1, <2>8, RestIs
  <2>10. (~opt.misread => sim.x = drv.X) /\ n = opt.steps /\ sim.steps = 0 /\ ~sim.failed
    BY <1>2, <1>6, <2>1, <2>2, <2>4, <2>8 DEF Alone
  <2>11. ~sim'.mid /\ "wholeStep" \notin ForwardFails => sim'.steps = opt.steps
    BY <1>2, <1>3, <2>10
  <2>12. QED
    BY <1>1, <1>3, <2>1, <2>2, <2>4, <2>8, <2>9, <2>10, <2>11 DEF Alone
<1>7. ~HostMixes => Alone'
  <2>1. ~OptRunning => Alone'
    BY <1>1 DEF Alone, OptRunning
  <2>2. QED
    BY <1>6, <2>1
<1>8. QED
  BY <1>1, <1>4, <1>5, <1>7 DEF IInv

LEMMA BackwardKeeps ==
  ASSUME IInv, Backward
  PROVE  IInv' /\ drv' = drv
<1>1. /\ q \in Seq(EntryType) /\ opt \in OptType /\ sim \in SimType /\ ses \in SesType
      /\ q # <<>> /\ q[1].fn = "backward" /\ q' = Rest /\ opt' = opt /\ drv' = drv /\ sim' = sim
  BY DEF IInv, Typed, Backward, Stage
<1>2. /\ ses' \in SesType
      /\ ses'.ok => ses'.x = sim.x /\ ses'.steps = sim.steps /\ ~sim.mid /\ sim.steps > 0
  <2>1. CASE ~sim.mid /\ sim.steps > 0 /\ ses' = [ok |-> TRUE, x |-> sim.x, steps |-> sim.steps]
    BY <1>1, <2>1 DEF SesType, SimType
  <2>2. CASE ses' = [ses EXCEPT !.ok = FALSE]
    BY <1>1, <2>2 DEF SesType
  <2>3. QED
    BY <2>1, <2>2 DEF Backward
<1>3. OptsAreWaited'
  BY <1>1, <1>2, RestWaits
<1>4. Typed'
  BY <1>1, <1>2, RestIs DEF IInv, Typed
<1>5. ASSUME ~HostMixes, OptRunning PROVE Alone'
  <2>1. PICK l \in Nat \ {0}, m \in Nat : l = Len(q) /\ m = Len(Rest) /\ l = m + 1
    BY <1>1, RestIs
  <2>2. /\ Alone /\ l \in 1..3 /\ q[l].fn \in OptFns /\ opt.steps > 0
    BY <1>5, <2>1 DEF IInv, Alone
  <2>3. l # 1
    BY <1>1, <2>2 DEF OptFns
  <2>4. q[l].fn = "opt_collect"
    BY <1>5, <2>1, <2>2, <2>3 DEF Alone
  <2>5. l # 3
    BY <1>1, <1>5, <2>1, <2>2, <2>4 DEF Alone
  <2>6. l = 2 /\ m = 1
    BY <2>1, <2>2, <2>3, <2>5
  <2>7. q'[1] = q[2]
    BY <1>1, <2>1, <2>6, RestIs
  <2>8. /\ ~opt.misread => sim.x = drv.X
        /\ ~sim.mid /\ "wholeStep" \notin ForwardFails /\ sim.steps > 0 => sim.steps = opt.steps
    BY <1>5, <2>1, <2>2, <2>4, <2>6 DEF Alone
  <2>9. QED
    BY <1>1, <1>2, <2>1, <2>2, <2>4, <2>6, <2>7, <2>8 DEF Alone
<1>6. ~HostMixes => Alone'
  <2>1. ~OptRunning => Alone'
    BY <1>1 DEF Alone, OptRunning
  <2>2. QED
    BY <1>5, <2>1
<1>7. QED
  BY <1>1, <1>3, <1>4, <1>6 DEF IInv

\* The host queues a forward or a backward behind whatever is queued.
LEMMA AppendKeeps ==
  ASSUME IInv, Mixes, NEW e \in EntryType, e.fn \in {"forward", "backward"}, q' = Append(q, e),
         drv' = drv, opt' = opt, sim' = sim, ses' = ses
  PROVE  IInv'
<1>1. q \in Seq(EntryType) /\ e.fn \notin OptFns
  BY DEF IInv, Typed, OptFns
<1>2. PICK n \in Nat, m \in Nat : n = Len(q) /\ m = n + 1
  BY <1>1
<1>3. q' \in Seq(EntryType) /\ Len(q') = m /\ q'[m] = e /\ \A k \in 1..n : q'[k] = q[k]
  BY <1>1, <1>2, AppendProperties
<1>4. \A k \in 1..m : q'[k].fn \in OptFns => k \in 1..n /\ q[k].fn \in OptFns
  <2>1. ASSUME NEW k \in 1..m, q'[k].fn \in OptFns PROVE k \in 1..n /\ q[k].fn \in OptFns
    <3>1. k # m
      BY <1>1, <1>3, <2>1
    <3>2. k \in 1..n
      BY <1>2, <3>1
    <3>3. QED
      BY <1>3, <2>1, <3>2
  <2>2. QED
    BY <2>1
<1>5. OptsAreWaited'
  <2>1. CASE ~OptRunning
    BY <1>2, <1>3, <1>4, <2>1 DEF IInv, OptsAreWaited, OptRunning
  <2>2. CASE OptRunning
    <3>1. PICK i \in 1..n : Waits(i)
      BY <1>2, <2>2 DEF IInv, OptsAreWaited
    <3>2. i \in 1..m /\ q'[i] = q[i] /\ (i > 1 => i - 1 \in 1..n)
      BY <1>2, <1>3
    <3>3. i > 1 => q'[i - 1] = q[i - 1]
      BY <1>3, <3>2
    <3>4. \A k \in 1..m : q'[k].fn \in OptFns => k = i
      BY <1>2, <1>4, <3>1 DEF Waits
    <3>5. Waits(i)'
      BY <1>3, <3>1, <3>2, <3>3, <3>4 DEF Waits
    <3>6. QED
      BY <1>3, <2>2, <3>2, <3>5 DEF OptsAreWaited, OptRunning
  <2>3. QED
    BY <2>1, <2>2
<1>6. Typed'
  BY <1>3 DEF IInv, Typed
<1>7. ~HostMixes => Alone'
  BY DEF Mixes, Alone, OptRunning
<1>8. QED
  BY <1>5, <1>6, <1>7 DEF IInv

\* A live config: the parameters are the host's own again.
LEMMA SetLiveKeeps ==
  ASSUME IInv, SetLive
  PROVE  IInv' /\ drv' = drv
<1>1. /\ q' = q /\ drv' = drv /\ opt' = opt /\ ses' = ses /\ sim \in SimType /\ Mixes
      /\ sim' = [sim EXCEPT !.x = 0]
  BY DEF IInv, Typed, SetLive
<1>2. sim' \in SimType /\ sim'.x = 0
  BY <1>1 DEF SimType
<1>3. Typed'
  BY <1>1, <1>2 DEF IInv, Typed
<1>4. \A i \in 1..Len(q) : Waits(i) => Waits(i)'
  BY <1>1, <1>2 DEF Waits
<1>5. OptsAreWaited'
  BY <1>1, <1>4 DEF IInv, OptsAreWaited, OptRunning
<1>6. ~HostMixes => Alone'
  BY <1>1 DEF Mixes, Alone, OptRunning
<1>7. QED
  BY <1>1, <1>3, <1>5, <1>6 DEF IInv

LEMMA QueueOptimizeKeeps ==
  ASSUME IInv, NEW n \in 1..MaxSteps, QueueOptimize(n)
  PROVE  IInv' /\ drv'.nfev = 0
<1>1. PICK r \in Start : drv' = r.d
  BY DEF QueueOptimize
<1>2. Driver(drv') /\ Exact(drv') /\ drv'.nfev = 0 /\ (drv'.err \/ drv'.await = "NONE")
  BY <1>1, StartIs
<1>3. PICK a \in EntryType : a = [fn |-> "opt_started", n |-> 0]
  <2>1. [fn |-> "opt_started", n |-> 0] \in EntryType
    BY OptimizeAssumption DEF EntryType, OptFns
  <2>2. QED
    BY <2>1
<1>4. q = <<>> /\ q' = <<a>> /\ sim' = sim /\ ses' = ses
  BY <1>3 DEF QueueOptimize, session_busy
<1>5. q' \in Seq(EntryType) /\ Len(q') = 1 /\ q'[1] = a
  BY <1>4
<1>6. opt' \in OptType /\ opt'.on /\ ~opt'.done /\ opt'.steps > 0
  <2>1. n \in 0..MaxSteps /\ n > 0 /\ opt' = [on |-> TRUE, done |-> FALSE, ok |-> FALSE, steps |-> n,
                                              misread |-> FALSE]
    BY DEF QueueOptimize
  <2>2. QED
    BY <2>1 DEF OptType
<1>7. Waits(1)'
  BY <1>2, <1>3, <1>5 DEF Waits, OptFns
<1>8. OptsAreWaited'
  BY <1>5, <1>6, <1>7 DEF OptsAreWaited, OptRunning
<1>9. Typed'
  BY <1>2, <1>4, <1>5, <1>6 DEF IInv, Typed
<1>10. Alone'
  BY <1>3, <1>5, <1>6 DEF Alone, OptFns
<1>11. QED
  BY <1>2, <1>8, <1>9, <1>10 DEF IInv

LEMMA HostCallKeeps ==
  ASSUME IInv, HostCall
  PROVE  IInv' /\ (drv' = drv \/ drv'.nfev = 0)
<1>1. ASSUME NEW n \in 1..MaxSteps, QueueForward(n) PROVE IInv' /\ drv' = drv
  <2>1. PICK e \in EntryType : e = [fn |-> "forward", n |-> n]
    <3>1. n \in 0..MaxSteps
      OBVIOUS
    <3>2. [fn |-> "forward", n |-> n] \in EntryType
      BY <3>1 DEF EntryType
    <3>3. QED
      BY <3>2
  <2>2. /\ Mixes /\ e.fn = "forward" /\ q' = Append(q, e)
        /\ drv' = drv /\ opt' = opt /\ sim' = sim /\ ses' = ses
    BY <1>1, <2>1 DEF QueueForward
  <2>3. QED
    BY <2>2, AppendKeeps
<1>2. CASE QueueBackward
  <2>1. PICK e \in EntryType : e = [fn |-> "backward", n |-> 0]
    <3>1. [fn |-> "backward", n |-> 0] \in EntryType
      BY OptimizeAssumption DEF EntryType
    <3>2. QED
      BY <3>1
  <2>2. /\ Mixes /\ e.fn = "backward" /\ q' = Append(q, e)
        /\ drv' = drv /\ opt' = opt /\ sim' = sim /\ ses' = ses
    BY <1>2, <2>1 DEF QueueBackward
  <2>3. QED
    BY <2>2, AppendKeeps
<1>3. QED
  BY <1>1, <1>2, SetLiveKeeps, QueueOptimizeKeeps DEF HostCall

-----------------------------------------------------------------------------
(* The theorems.                                                           *)

LEMMA InitEstablishes == Init => IInv
<1> SUFFICES ASSUME Init PROVE IInv
  OBVIOUS
<1>1. q = <<>> /\ Len(q) = 0 /\ opt.on = FALSE /\ q \in Seq(EntryType)
  BY DEF Init
<1>2. opt \in OptType /\ sim \in SimType /\ ses \in SesType
  BY OptimizeAssumption DEF Init, OptType, SimType, SesType
<1>3. QED
  BY <1>1, <1>2 DEF IInv, Typed, OptsAreWaited, Alone, OptRunning

LEMMA StepPreserves == IInv /\ [Next]_vars => IInv'
<1> SUFFICES ASSUME IInv, [Next]_vars PROVE IInv'
  OBVIOUS
<1>1. CASE Tick
  BY <1>1, OptStartedKeeps, OptStageKeeps, OptCollectKeeps, ForwardKeeps, BackwardKeeps DEF Tick
<1>2. CASE HostCall
  BY <1>2, HostCallKeeps
<1>3. CASE UNCHANGED vars
  BY <1>3 DEF vars, IInv, Typed, OptsAreWaited, Waits, Alone, OptRunning
<1>4. QED
  BY <1>1, <1>2, <1>3 DEF Next

\* The inductive invariant: whatever the host does, a running optimize has one
\* entry of its own queued, and the driver waits for that one (main.cpp opt_handle,
\* opt_eval); left alone, the queue is the rest of the evaluation the driver asked
\* for, and the driver's vectors are of the points its phase says, unless a point was
\* not read back (main.cpp 720).
THEOREM Invariance == Spec => []IInv
  BY InitEstablishes, StepPreserves, PTL DEF Spec

\* The driver keeps within its iteration and line search caps, and never names a
\* point beyond the next to evaluate (lbfgsb.cpp next), whatever the host queues
\* or configures meanwhile.
THEOREM OptimizeIsTyped == Spec => []TypeOK
<1>1. IInv => TypeOK
  <2> SUFFICES ASSUME IInv PROVE TypeOK
    OBVIOUS
  <2>1. ASSUME opt.on PROVE DriverOK(drv)
    <3>1. drv \in DrvType /\ Points(drv)
      BY <2>1 DEF IInv, Typed, Driver, Inside
    <3>2. QED
      BY <3>1 DEF DrvType, Points, DriverOK
  <2>2. \A k \in 1..Len(q) : q[k].n \in 0..MaxSteps
    <3>1. ASSUME NEW k \in 1..Len(q) PROVE q[k] \in EntryType
      BY ElementOfSeq DEF IInv, Typed
    <3>2. QED
      BY <3>1 DEF EntryType
  <2>3. QED
    BY <2>1, <2>2 DEF TypeOK, IInv, Typed, SimType, SesType
<1>2. QED
  BY <1>1, Invariance, PTL

\* Unless a point was not read back (main.cpp 720): an iterate the driver goes on
\* from, or ends with, is of one evaluated point, and through a line search the best
\* point is where lo_ says (lbfgsb.h 43, 151), when the host leaves the running
\* optimize alone: the collector would read what a backward the host mixes in left.
THEOREM VectorsStayOfOnePoint ==
  ASSUME ~HostMixes
  PROVE  Spec => []VectorsAreOfOnePoint
<1>1. IInv => VectorsAreOfOnePoint
  <2> SUFFICES ASSUME IInv, opt.on, ~opt.misread, drv \in DrvType, Driver(drv), Exact(drv)
               PROVE  VectorsAreOfOnePoint
    BY DEF IInv, Typed, Driver, Inside, VectorsAreOfOnePoint, IterateIsEvaluated, LineSearchKeepsLo
  <2>1. QED
    BY DEF VectorsAreOfOnePoint, IterateIsEvaluated, LineSearchKeepsLo, Exact, At, Evald, LoHolds,
           LoPoint, DrvType, Phases, Awaits, Driver, Inside
<1>2. QED
  BY <1>1, Invariance, PTL

\* The step of EvaluationIsOwn.
OwnEvaluation ==
  Evaluates => /\ ses.steps = opt.steps
               /\ ~opt.misread => ses.x = drv.X

\* The loss and gradient an evaluation gives the driver are of exactly the steps it
\* asked for, made anew (main.cpp 576-579), and of the point it asked for unless a
\* point was not read back, when the host leaves the optimize alone and no forward
\* fails on a short readback after whole steps.
THEOREM EvaluationsAreOwn ==
  ASSUME ~HostMixes, "wholeStep" \notin ForwardFails
  PROVE  Spec => EvaluationIsOwn
<1>1. IInv /\ [Next]_vars => [OwnEvaluation]_vars
  <2> SUFFICES ASSUME IInv, Next, opt.on, drv'.nfev = drv.nfev + 1
               PROVE  ses.steps = opt.steps /\ (~opt.misread => ses.x = drv.X)
    BY DEF OwnEvaluation, Evaluates
  <2>1. drv'.nfev # drv.nfev /\ drv'.nfev # 0
    BY DEF IInv, Typed, Driver, Inside, DrvType
  <2>2. CASE OptCollect
    BY <2>1, <2>2, OptCollectKeeps
  <2>3. CASE Tick /\ ~OptCollect
    BY <2>1, <2>3, OptStartedKeeps, OptStageKeeps, ForwardKeeps, BackwardKeeps DEF Tick
  <2>4. CASE HostCall
    BY <2>1, <2>4, HostCallKeeps
  <2>5. QED
    BY <2>2, <2>3, <2>4 DEF Next
<1>2. Spec => [][OwnEvaluation]_vars
  BY <1>1, Invariance, PTL DEF Spec
<1>3. QED
  BY <1>2 DEF EvaluationIsOwn, OwnEvaluation
=============================================================================

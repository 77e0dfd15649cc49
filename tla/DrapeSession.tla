---------------------------- MODULE DrapeSession ----------------------------
(***************************************************************************)
(* The drape session of drape.elf: the entry points of                     *)
(* guest/drape/main.cpp that load a scene, set a knob and queue a forward, *)
(* a fit or a backward; the stages they queue                              *)
(* (guest/drape/drape_session.h), each one phase of a solver step          *)
(* (drape_sim.h) or of the native backward (drape_backward.h); and         *)
(* drape_tick, which the host calls once a process frame while the session *)
(* does not answer IDLE.                                                   *)
(*                                                                         *)
(* Of the configuration only the live pair (gravity, damp) is kept, as one *)
(* value: it is what the fit phase replaces by zero and puts back.  The    *)
(* optimize and its L-BFGS-B are not here.                                 *)
(***************************************************************************)
EXTENDS Integers, Sequences

CONSTANTS
  Gravities,      \* values of the live pair (gravity, damp); 0 is the fit's
  Settles,        \* values of scene.fitSettle that drape_fit_set is given
  Refresh,        \* scene.fitRefresh
  SelfCollision,  \* cfg.selfCollision
  SelfPasses,     \* cfg.selfPasses
  Runs,           \* what a solver run, scan or backward may come to
  ShortReads,     \* the readbacks that may come back short: positions, gradients
  LiveConfig,     \* the host sets live knobs while the queue runs
  MaxStages,      \* stages a tick may run (4 on the cpu, 256 on rd)
  MaxSteps,       \* bound: steps per queued operation
  MaxOps          \* bound: host calls

\* AvbdRd::run and the like: submitted; instant (AvbdCpu, or iters < 1); failed
\* before the submit; or failed with the list submitted all the same.
RunOutcomes == {"submitted", "instant", "failed", "failedInFlight"}

ASSUME SessionAssumption ==
  /\ Gravities \subseteq Int \ {0} /\ Gravities # {}
  /\ Settles \subseteq Nat /\ Settles # {}
  /\ Refresh \in Nat \ {0} /\ SelfPasses \in Nat \ {0}
  /\ Runs \subseteq RunOutcomes /\ Runs # {}
  /\ SelfCollision \in BOOLEAN /\ ShortReads \subseteq {"positions", "gradients"} /\ LiveConfig \in BOOLEAN
  /\ MaxStages \in Nat \ {0} /\ MaxSteps \in Nat \ {0} /\ MaxOps \in Nat

VARIABLES
  cfg,      \* g_cfg: the live pair
  scene,    \* g_scene: its name, g_scene_set, nFit > 0 and fitSettle
  dirty,    \* g_dirty
  sess,     \* g_sess exists (and, loaded, has its sim)
  sim,      \* DrapeSimT: the step phase, what it recorded, the fit's flags
  op,       \* the session's operation counters (fwd*, fit*)
  bwd,      \* DrapeBackwardT: its frames, and the step it is at
  q,        \* g_q: the queued closures
  dev,      \* the solver's pending_, submitted in this frame, synced too early
  res,      \* res and okFlag of the last operation
  tick,     \* drape_tick: the stages run, and whether another may
  ticked,   \* the host has ticked in this frame
  on,       \* the host's _drape_status is neither IDLE nor FAIL
  ops       \* host calls so far

host == <<cfg, scene, dirty, sess>>
vars == <<cfg, scene, dirty, sess, sim, op, bwd, q, dev, res, tick, ticked, on, ops>>

NoTick == [in |-> FALSE, stages |-> 0, more |-> FALSE]

\* DrapeSimT::setup on a copy of the scene with the given live pair; age counts
\* the steps made toward the current fit targets.
Loaded(g, sc) ==
  [phase |-> "Idle", failed |-> FALSE, steps |-> 0, pass |-> 0, grav |-> g,
   nFit |-> sc.nFit, settle |-> sc.settle, fitActive |-> FALSE,
   settling |-> FALSE, fitSteps |-> 0, pull |-> TRUE, age |-> 0]

NoOp == [remaining |-> 0, asked |-> 0, from |-> 0, converged |-> FALSE,
         fitDone |-> 0, settleDone |-> 0, saved |-> 0]
NoBackward == [on |-> FALSE, n |-> 0, idx |-> 0]
NoResult == [op |-> "none", ok |-> TRUE, clean |-> TRUE, asked |-> 0, done |-> 0]

Init ==
  /\ cfg \in Gravities
  /\ scene = [name |-> "none", set |-> FALSE, nFit |-> FALSE, settle |-> 0]
  /\ dirty = FALSE /\ sess = FALSE
  /\ sim = Loaded(cfg, scene)
  /\ op = NoOp /\ bwd = NoBackward /\ q = <<>>
  /\ dev = [pending |-> FALSE, fresh |-> FALSE, sameFrameSync |-> FALSE]
  /\ res = NoResult
  /\ tick = NoTick /\ ticked = FALSE /\ on = FALSE /\ ops = 0

-----------------------------------------------------------------------------
(* The solver, as the stages see it.                                       *)

\* "if (pending_) sync()", with which every upload and readback begins.
Touch(d) ==
  IF d.pending THEN [d EXCEPT !.pending = FALSE, !.sameFrameSync = @ \/ d.fresh] ELSE d

Submit(d, out) ==
  IF out \in {"submitted", "failedInFlight"}
  THEN [Touch(d) EXCEPT !.pending = TRUE, !.fresh = TRUE] ELSE Touch(d)

Fails(out) == out \in {"failed", "failedInFlight"}
Shorts == {short \in BOOLEAN : short => "positions" \in ShortReads}

\* DrapeSimT::begin: new fit targets at the head of a refresh cycle, then run().
RefreshesNow(s) ==
  s.fitActive /\ ~s.settling /\ s.nFit /\ s.fitSteps % Refresh = 0

Begin(s, d) ==
  {[sim |-> [s EXCEPT !.phase = "Solved", !.failed = Fails(out),
                      !.age = IF RefreshesNow(s) THEN 0 ELSE @],
    dev |-> Submit(d, out), done |-> FALSE] : out \in Runs}

\* finishStep.
FinishStep(s) ==
  [s EXCEPT !.phase = "Idle", !.steps = @ + 1,
            !.fitSteps = IF s.fitActive THEN @ + 1 ELSE @,
            !.age = IF s.fitActive THEN @ + 1 ELSE @]

Finished(s, d) == [sim |-> FinishStep(s), dev |-> d, done |-> TRUE]

\* submitScan; a failed scan leaves an earlier failure in place.
Scan(s, d) ==
  {[sim |-> [s EXCEPT !.phase = "Scanned", !.failed = @ \/ Fails(out)],
    dev |-> Submit(d, out), done |-> FALSE] : out \in Runs}

\* solved(): the readback; a short one marks the failure and the step goes on.
Solved(s, d) ==
  UNION {LET t == [s EXCEPT !.failed = short, !.pass = 0] IN
         IF SelfCollision THEN Scan(t, Touch(d)) ELSE {Finished(t, Touch(d))}
           : short \in Shorts}

\* scanned(): another pass while the last one pushed.  Mutant: one too many.
MorePassesByOne(pass) == pass <= SelfPasses
MorePasses(pass) == pass < SelfPasses

Scanned(s, d) ==
  LET t == [s EXCEPT !.pass = @ + 1] IN
  {Finished(t, Touch(d))}
    \cup (IF MorePasses(t.pass) THEN Scan(t, Touch(d)) ELSE {})

advance(s, d) ==
  CASE s.phase = "Idle" -> Begin(s, d)
    [] s.phase = "Solved" -> Solved(s, d)
    [] OTHER -> Scanned(s, d)

\* setFitPull.
setFitPull(s, d, pulls) == [sim |-> [s EXCEPT !.pull = pulls], dev |-> Touch(d), done |-> FALSE]

-----------------------------------------------------------------------------
(* The host calls.                                                         *)

session_busy == sess /\ (q # <<>> \/ dev.pending)

Call == ~tick.in /\ ops < MaxOps /\ ops' = ops + 1 /\ UNCHANGED <<tick, ticked>>

\* load_scene on scene sc: load makes a new sim on the session's solver.
LoadScene(sc) ==
  /\ sess' = TRUE /\ dirty' = FALSE
  /\ sim' = Loaded(cfg, sc) /\ bwd' = NoBackward
  /\ res' = NoResult

\* load_scene when the scene's backend cannot be made: the session before it, if
\* there was one of another backend, is gone.
LoadFails ==
  /\ sess' = FALSE
  /\ UNCHANGED <<dirty, sim, bwd, res>>

\* drape_open: drop_session.
OpenRefused == session_busy

DrapeOpen ==
  /\ Call /\ ~OpenRefused
  /\ sess' = FALSE /\ q' = <<>>
  /\ scene' = [scene EXCEPT !.set = FALSE]
  /\ UNCHANGED <<cfg, dirty, sim, op, bwd, dev, res, on>>

\* drape_scene_mesh and drape_scene_sphere_demo.
DrapeScene(name) ==
  /\ Call /\ ~session_busy
  /\ scene' = [name |-> name, set |-> TRUE, nFit |-> FALSE, settle |-> 0]
  /\ LoadScene(scene') \/ LoadFails
  /\ UNCHANGED <<cfg, op, q, dev, on>>

\* drape_config with a knob that is not uploaded: setLive.
LiveKnobAllowed == LiveConfig \/ ~session_busy

ConfigLive(g) ==
  /\ Call /\ LiveKnobAllowed
  /\ cfg' = g
  /\ sim' = IF sess THEN [sim EXCEPT !.grav = g] ELSE sim
  /\ UNCHANGED <<scene, dirty, sess, op, bwd, q, dev, res, on>>

\* drape_config with a material or topology knob.
ConfigUpload ==
  /\ Call /\ dirty' = TRUE
  /\ UNCHANGED <<cfg, scene, sess, sim, op, bwd, q, dev, res, on>>

\* drape_fit_set.
FitSet(n) ==
  /\ Call /\ scene.set /\ scene.name = "mesh" /\ ~session_busy
  /\ scene' = [scene EXCEPT !.nFit = TRUE, !.settle = n]
  /\ dirty' = TRUE
  /\ UNCHANGED <<cfg, sess, sim, op, bwd, q, dev, res, on>>

\* A queued operation after a changed knob re-uploads first, or is BUSY.
Reload ==
  IF dirty THEN ~session_busy /\ LoadScene(scene)
  ELSE UNCHANGED <<sess, dirty, sim, bwd, res>>

\* drape_queue_forward(0): the rewind.
Rewind ==
  /\ Call /\ sess /\ scene.set /\ ~session_busy
  /\ IF dirty THEN LoadScene(scene)
     ELSE /\ sim' = [sim EXCEPT !.phase = "Idle", !.failed = FALSE, !.steps = 0]
          /\ UNCHANGED <<sess, dirty, bwd, res>>
  /\ UNCHANGED <<cfg, scene, op, q, dev, on>>

QueueForward(n) ==
  /\ Call /\ sess /\ scene.set /\ Reload
  /\ q' = Append(q, [fn |-> "enqueueForward", n |-> n])
  /\ on' = TRUE
  /\ UNCHANGED <<cfg, scene, op, dev>>

QueueFit(n) ==
  /\ Call /\ sess /\ scene.set /\ scene.nFit /\ Reload
  /\ q' = Append(q, [fn |-> "enqueueFit", n |-> n])
  /\ on' = TRUE
  /\ UNCHANGED <<cfg, scene, op, dev>>

QueueBackward ==
  /\ Call /\ sess
  /\ q' = Append(q, [fn |-> "enqueueBackward", n |-> 0])
  /\ on' = TRUE
  /\ UNCHANGED <<cfg, scene, dirty, sess, sim, op, bwd, dev, res>>

\* rd_close: refused while a submit is in flight; else the session, its queue
\* and the device go.
RdClose ==
  /\ Call /\ sess /\ ~dev.pending
  /\ sess' = FALSE /\ q' = <<>>
  /\ UNCHANGED <<cfg, scene, dirty, sim, op, bwd, dev, res, on>>

-----------------------------------------------------------------------------
(* The stages.  Each gives sim', op', dev' and what it queues with next(). *)

Stage(fn) == q # <<>> /\ q[1].fn = fn

\* next(): before everything queued.  Mutant: behind it.
AgainAtEnd(fn) == q' = Append(Tail(q), [fn |-> fn, n |-> 0])
Again(fn) == q' = <<[fn |-> fn, n |-> 0]>> \o Tail(q)
Pop == q' = Tail(q)

\* finishForward, finishFit: the verdict; a state that is not finite fails it.
Verdict(name, s, o, enough) ==
  \E fin \in BOOLEAN :
    res' = [op |-> name, ok |-> ~s.failed /\ fin /\ enough, clean |-> ~s.failed /\ fin,
            asked |-> o.asked, done |-> s.steps - o.from]

\* An operation refused before its first step.
Refused(name) == [op |-> name, ok |-> FALSE, clean |-> FALSE, asked |-> 0, done |-> 0]

\* Mutant: a failure does not end the operation.
ContinuesPastFailure(s, o) == o.remaining > 0
Continues(s, o) == o.remaining > 0 /\ ~s.failed

\* forwardStage: one phase, then itself again or the verdict.
ForwardStage(s, o) ==
  \E a \in IF o.remaining > 0 /\ ~s.failed THEN advance(s, dev)
           ELSE {[sim |-> s, dev |-> dev, done |-> FALSE]} :
    LET p == [o EXCEPT !.remaining = IF a.done THEN @ - 1 ELSE @] IN
    /\ sim' = a.sim /\ dev' = a.dev /\ op' = p
    /\ IF Continues(a.sim, p)
       THEN Again("forwardStage") /\ UNCHANGED res
       ELSE Pop /\ Verdict("forward", a.sim, p, a.sim.steps - p.from = p.asked)

\* The counters an operation starts from.  Mutant: those of the one before.
StartsStale(s, n) == [op EXCEPT !.remaining = n, !.asked = n, !.converged = FALSE,
                                !.fitDone = 0, !.settleDone = 0]
Starts(s, n) == [op EXCEPT !.remaining = n, !.asked = n, !.from = s.steps,
                           !.converged = FALSE, !.fitDone = 0, !.settleDone = 0]

\* enqueueForward's closure, which starts on the state it finds.
StartForward ==
  /\ Stage("enqueueForward")
  /\ ForwardStage(sim, [op EXCEPT !.remaining = q[1].n, !.asked = q[1].n,
                                  !.from = Starts(sim, q[1].n).from])
  /\ UNCHANGED bwd

ContinueForward ==
  /\ Stage("forwardStage")
  /\ ForwardStage(sim, op)
  /\ UNCHANGED bwd

\* fitStage, the counters after a step: the stop test only on the last step of a
\* refresh cycle.  Mutant: on the step after a refresh.
CycleEndOffByOne(s) == (s.fitSteps + Refresh - 1) % Refresh = 0
CycleEnd(s) == s.fitSteps % Refresh = 0

Stepped(s, o) ==
  IF s.settling THEN {[o EXCEPT !.remaining = @ - 1, !.settleDone = @ + 1]}
  ELSE {[o EXCEPT !.remaining = @ - 1, !.fitDone = @ + 1, !.converged = @ \/ small]
          : small \in {FALSE} \cup {CycleEnd(s)}}

\* The settle starts once the fit is over: the pull off, and its own steps.
\* Mutant: after the steps that were left of the fit.
SettleStepsAdded(s, o) == o.remaining + s.settle
SettleSteps(s, o) == s.settle

\* Mutant: only the budget ends the fit.
FitOverAtBudget(s, o) == s.failed \/ o.remaining <= 0
FitOver(s, o) == s.failed \/ o.converged \/ o.remaining <= 0
StartsSettle(s, o) == FitOver(s, o) /\ ~s.settling /\ ~s.failed /\ s.settle > 0

\* finishFit: the saved pair goes back.  Mutant: only when the fit succeeded.
RestoredIfOk(s, o) == IF s.failed THEN s.grav ELSE o.saved
Restored(s, o) == o.saved

\* The end of fitStage: the pull on again after a settle, then finishFit.
\* Mutant: a failed settle leaves it off.
PullBackIfOk(s) == s.settling /\ ~s.failed
PullBack(s) == s.settling

EndFit(s, o, d) ==
  LET t == IF PullBack(s) THEN setFitPull(s, d, TRUE) ELSE [sim |-> s, dev |-> d, done |-> FALSE] IN
  /\ sim' = [t.sim EXCEPT !.settling = FALSE, !.fitActive = FALSE, !.grav = Restored(s, o)]
  /\ dev' = t.dev
  /\ Pop /\ Verdict("fit", s, o, s.steps > o.from)

FitStage(s, o) ==
  \E a \in IF o.remaining > 0 /\ ~s.failed THEN advance(s, dev)
           ELSE {[sim |-> s, dev |-> dev, done |-> FALSE]} :
  \E p \in IF a.done THEN Stepped(a.sim, o) ELSE {o} :
    LET settle == StartsSettle(a.sim, p)
        pulled == IF settle THEN setFitPull(a.sim, a.dev, FALSE) ELSE a
        t == [pulled.sim EXCEPT !.settling = @ \/ settle]
        r == IF settle THEN [p EXCEPT !.remaining = SettleSteps(a.sim, p)] ELSE p
    IN
      /\ op' = r
      /\ IF Continues(t, r)
         THEN sim' = t /\ dev' = pulled.dev /\ Again("fitStage") /\ UNCHANGED res
         ELSE EndFit(t, r, pulled.dev)

\* Mutant: the fit keeps the gravity it finds.
FitGravityKept(s) == s.grav
FitGravity(s) == 0

\* enqueueFit's closure: refused without a fit set; else gravity and damp are
\* saved and zeroed, and the phase starts.
StartFit ==
  /\ Stage("enqueueFit")
  /\ IF ~sim.nFit
     THEN /\ res' = Refused("fit")
          /\ Pop /\ UNCHANGED <<sim, op, dev>>
     ELSE FitStage([sim EXCEPT !.grav = FitGravity(sim), !.fitActive = TRUE, !.settling = FALSE, !.fitSteps = 0],
                   [Starts(sim, q[1].n) EXCEPT !.saved = sim.grav])
  /\ UNCHANGED bwd

ContinueFit ==
  /\ Stage("fitStage")
  /\ FitStage(sim, op)
  /\ UNCHANGED bwd

\* nativeSubmit at step k, on a device already read: finished, or one step's
\* backward submitted, or failed.
NativeSubmit(k, d) ==
  IF k < 1
  THEN {[idx |-> k, dev |-> d, over |-> TRUE, ok |-> TRUE]}
  ELSE {[idx |-> k, dev |-> Submit(d, out), over |-> Fails(out), ok |-> ~Fails(out)] : out \in Runs}

BackwardStage(r, n) ==
  /\ dev' = r.dev
  /\ bwd' = [on |-> ~r.over, n |-> n, idx |-> r.idx]
  /\ IF r.over
     THEN Pop /\ res' = [op |-> "backward", ok |-> r.ok, clean |-> r.ok, asked |-> n, done |-> n - r.idx]
     ELSE Again("backwardStage") /\ UNCHANGED res
  /\ UNCHANGED <<sim, op>>

\* Mutant: a step in progress does not refuse the backward.
RefusesNothing == FALSE
RefusesMidStep == sim.phase # "Idle"

\* enqueueBackward's closure: refused in mid step, then init(), which fails with
\* no step recorded or a target that does not match.
StartBackward ==
  /\ Stage("enqueueBackward")
  /\ \/ /\ RefusesMidStep
        /\ res' = Refused("backward")
        /\ Pop /\ UNCHANGED <<sim, op, bwd, dev>>
     \/ /\ ~RefusesMidStep
        /\ BackwardStage([idx |-> sim.steps, dev |-> dev, over |-> TRUE, ok |-> FALSE], sim.steps)
     \/ /\ ~RefusesMidStep /\ sim.steps > 0
        /\ \E r \in NativeSubmit(sim.steps, dev) : BackwardStage(r, sim.steps)

\* nativeRead, then the next step's submit.
ContinueBackward ==
  /\ Stage("backwardStage")
  /\ \/ \E r \in NativeSubmit(bwd.idx - 1, Touch(dev)) : BackwardStage(r, bwd.n)
     \/ /\ "gradients" \in ShortReads
        /\ BackwardStage([idx |-> bwd.idx, dev |-> Touch(dev), over |-> TRUE, ok |-> FALSE], bwd.n)

-----------------------------------------------------------------------------
(* drape_tick and the host's frame.                                        *)

TickNoSession ==
  /\ ~tick.in /\ on /\ ~ticked /\ ~sess
  /\ on' = FALSE
  /\ UNCHANGED <<host, sim, op, bwd, q, dev, res, tick, ticked, ops>>

TickBegin ==
  /\ ~tick.in /\ on /\ ~ticked /\ sess
  /\ ticked' = TRUE
  /\ tick' = [in |-> TRUE, stages |-> 0, more |-> TRUE]
  /\ UNCHANGED <<host, sim, op, bwd, q, dev, res, on, ops>>

\* What ends StageQueue::tick after a stage.  Mutant: nothing but the cap.
StopsNever(d) == FALSE
Stops(d) == d.pending

RunStage ==
  /\ tick.in /\ tick.more /\ tick.stages < MaxStages
  /\ \/ StartForward \/ ContinueForward
     \/ StartFit \/ ContinueFit
     \/ StartBackward \/ ContinueBackward
  /\ tick' = [tick EXCEPT !.stages = @ + 1, !.more = ~Stops(dev')]
  /\ UNCHANGED <<host, ticked, on, ops>>

\* RUNNING while anything is queued or in flight, else IDLE.
Running == q # <<>> \/ dev.pending
TickEnd ==
  /\ tick.in
  /\ ~tick.more \/ q = <<>> \/ tick.stages = MaxStages
  /\ tick' = NoTick
  /\ on' = Running
  /\ UNCHANGED <<host, sim, op, bwd, q, dev, res, ticked, ops>>

NextFrame ==
  /\ ~tick.in /\ (on => ticked)
  /\ ticked' = FALSE
  /\ dev' = [dev EXCEPT !.fresh = FALSE]
  /\ UNCHANGED <<host, sim, op, bwd, q, res, tick, on, ops>>

HostCall ==
  \/ DrapeOpen
  \/ \E name \in {"mesh", "sphere"} : DrapeScene(name)
  \/ \E g \in Gravities : ConfigLive(g)
  \/ ConfigUpload
  \/ \E n \in Settles : FitSet(n)
  \/ Rewind
  \/ \E n \in 1..MaxSteps : QueueForward(n)
  \/ \E n \in 1..MaxSteps : QueueFit(n)
  \/ QueueBackward
  \/ RdClose

HostTick == TickNoSession \/ TickBegin \/ RunStage \/ TickEnd

Next == HostCall \/ HostTick \/ NextFrame

\* Godot's main loop: the frames go on, and _process ticks the session in each
\* while its status is neither IDLE nor FAIL.
Fairness == WF_vars(HostTick) /\ WF_vars(NextFrame)

Spec == Init /\ [][Next]_vars /\ Fairness

-----------------------------------------------------------------------------
\* The types of the session, its sim, its queue and its device.
TypeOK ==
  /\ cfg \in Gravities /\ dirty \in BOOLEAN /\ sess \in BOOLEAN
  /\ sim.phase \in {"Idle", "Solved", "Scanned"} /\ sim.failed \in BOOLEAN
  /\ sim.steps \in Nat /\ sim.pass \in 0..SelfPasses /\ sim.fitSteps \in Nat
  /\ sim.fitActive \in BOOLEAN /\ sim.settling \in BOOLEAN /\ sim.pull \in BOOLEAN
  /\ op.remaining \in Nat /\ op.from \in Nat /\ op.asked \in 0..MaxSteps
  /\ bwd.on \in BOOLEAN /\ bwd.idx \in 0..bwd.n
  /\ \A k \in 1..Len(q) : q[k].n \in 0..MaxSteps
  /\ tick.stages \in 0..MaxStages

FitIsWeightless == sess /\ sim.fitActive => sim.grav = 0
ConfigInForce == sess /\ ~session_busy => sim.grav = cfg
PullRestored == sess /\ ~sim.settling => sim.pull

\* main.cpp 431 and drape_session.h 315-318: the fit phase runs with gravity off
\* and damp 0, whatever is queued while it runs; on every way out of it a
\* session at rest has the gravity and damp the host last set, and the fit pull,
\* off only while the settle runs, is on again.
FitReturnsWhatItBorrows == FitIsWeightless /\ ConfigInForce /\ PullRestored

OwnSteps ==
  /\ res.op \in {"forward", "backward"} /\ res.clean => res.ok /\ res.done = res.asked
  /\ res.op = "fit" /\ res.clean => res.ok /\ res.done > 0

SettleIsWhole ==
  res.op = "fit" /\ res.ok /\ ~session_busy /\ sess /\ ~dirty
    => op.settleDone = sim.settle /\ res.done = op.fitDone + op.settleDone

\* drape_session.h 226, 336: the verdict is DONE exactly when nothing failed and
\* the operation made its own steps, whatever was queued before it; a fit that
\* ends DONE made its settle whole (main.cpp 386: "settle = steps with the pull
\* off after the fit"), and no more.
HonestVerdict == OwnSteps /\ SettleIsWhole

\* drape_session.h 293-298: the stop test sees only a step that ends a refresh
\* cycle, all of it made toward the same targets; and once it has found the fit
\* converged, a fit with a settle makes no further step of its own (the settle's
\* are not the fit's).
ConvergesAtACycle ==
  [][/\ ~op.converged /\ op'.converged => sim'.age = Refresh
     /\ op.converged /\ op'.converged => op'.fitDone = op.fitDone \/ sim.settle = 0]_vars

\* What main.cpp 431-434 and drape_session.h 47-51 say of every fit, the one
\* without a settle too: "stops early once the largest vertex move of a refresh
\* cycle's last step is under tol".
ConvergedFitStops == [][op.converged /\ op'.converged => op'.fitDone = op.fitDone]_vars

\* The backward differentiates a forward that is complete and stays so: no step
\* is begun, rewound or loaded under it, until its gradient is done.
BackwardSeesWholeForward ==
  sess /\ bwd.on /\ q # <<>> => sim.phase = "Idle" /\ sim.steps = bwd.n

\* Rule 4 (main.cpp 174, "a GPU submit ending the tick (rule 4)"): the session
\* never waits for a submit in the frame that made it.
RuleFour == ~dev.sameFrameSync

\* The operation a queued closure belongs to.
OperationOf(fn) ==
  CASE fn \in {"enqueueForward", "forwardStage"} -> "forward"
    [] fn \in {"enqueueFit", "fitStage"} -> "fit"
    [] OTHER -> "backward"

Queue == INSTANCE DrapeQueue WITH
  todo <- [k \in 1..Len(q) |-> OperationOf(q[k].fn)],
  verdict <- [op |-> res.op, ok |-> res.ok]

\* Seen as its queue and its last verdict, the session is DrapeQueue: whatever
\* the stages insert into the queue, and however an operation fails or is
\* refused, the operations end in the order queued, each with its own verdict.
KeepsItsQueue == Queue!Spec

\* drape_stage.gd 10-11, main.cpp 1047: ticked once a frame, the queue comes to
\* IDLE.
GoesIdle == on ~> ~on
=============================================================================

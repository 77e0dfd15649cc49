--------------------------- MODULE DrapeOptimize ---------------------------
(***************************************************************************)
(* drape_queue_optimize (guest/drape/main.cpp): the L-BFGS-B driver with   *)
(* the drape session as its objective.  The driver never waits: each of    *)
(* its phases, and each forward, backward and collector of an evaluation,  *)
(* is an entry of the session's queue, between two of which the host may   *)
(* call.                                                                   *)
(*                                                                         *)
(* A forward or a backward is one step here; what it does inside, and that *)
(* it ends with a verdict of its own, is DrapeSession.  The parameters the *)
(* session simulates with are the driver's point they were set from, 0 for *)
(* a point that is not the driver's: the host's own, or the zeros opt_eval *)
(* is given when the readback of the point failed.                         *)
(***************************************************************************)
EXTENDS Lbfgsb, Sequences

CONSTANTS
  HostMixes,      \* the host queues and configures while an optimize runs
  ForwardFails,   \* how a forward fails: "midStep", "wholeStep" (a short readback)
  MaxSteps,       \* bound: steps of a forward
  MaxOps          \* bound: host calls

ASSUME OptimizeAssumption ==
  /\ HostMixes \in BOOLEAN /\ ForwardFails \subseteq {"midStep", "wholeStep"}
  /\ MaxSteps \in Nat \ {0} /\ MaxOps \in Nat

VARIABLES
  drv,      \* g_opt->drv
  opt,      \* g_opt: it exists, done, its head is DONE, its steps; misread is
            \* history: it has evaluated the zeros of a failed readback
  sim,      \* the session's sim: its parameters, steps, failed, in mid step
  ses,      \* okFlag, and lastGrad: the parameters and steps it is the gradient of
  q,        \* g_q
  optLast,  \* g_opt_last
  ops       \* host calls so far

vars == <<drv, opt, sim, ses, q, optLast, ops>>

Init ==
  /\ drv = [await |-> "NONE"]
  /\ opt = [on |-> FALSE, done |-> FALSE, ok |-> FALSE, steps |-> 0, misread |-> FALSE]
  /\ sim = [x |-> 0, steps |-> 0, failed |-> FALSE, mid |-> FALSE]
  /\ ses = [ok |-> TRUE, x |-> 0, steps |-> 0]
  /\ q = <<>> /\ optLast = FALSE /\ ops = 0

OptRunning == opt.on /\ ~opt.done

-----------------------------------------------------------------------------
(* opt_handle and opt_eval, from inside the stage at the head of the queue. *)

\* The queue behind the running stage.
Rest == SubSeq(q, 2, Len(q))

opt_finish(ok) == opt' = [opt EXCEPT !.done = TRUE, !.ok = ok]

\* opt_eval: the parameters set and the sim rewound or loaded anew, now; the
\* evaluation queued behind whatever else is queued.  Mutant: no rewind.
NotRewound(x) == [sim EXCEPT !.x = x]
Rewound(x) == [x |-> x, steps |-> 0, failed |-> FALSE, mid |-> FALSE]

Evaluation == <<[fn |-> "forward", n |-> opt.steps], [fn |-> "backward", n |-> 0],
                [fn |-> "opt_collect", n |-> 0]>>

opt_eval(x) ==
  \/ /\ sim' = Rewound(x) /\ q' = Rest \o Evaluation
     /\ opt' = [opt EXCEPT !.misread = @ \/ x = 0]
  \/ opt_finish(FALSE) /\ q' = Rest /\ UNCHANGED sim

\* The point opt_handle takes from the driver d: what readX makes of a readback
\* that fails is not looked at, and x keeps the zeros it was resized with.
readX(d) == {d.X} \cup (IF VecFails THEN {0} ELSE {})

\* opt_handle on one result of the driver, an ACCEPT already gone on from.
\* Mutant: a driver that is busy is not asked again.
BusyForgotten == Rest
Busy == <<[fn |-> "opt_stage", n |-> 0]>> \o Rest

Handle(r) ==
  /\ drv' = r.d
  /\ CASE r.s = "BUSY" -> q' = Busy /\ UNCHANGED <<opt, sim>>
       [] r.s \in {"NEED_EVAL", "TRY"} -> \E x \in readX(r.d) : opt_eval(x)
       [] r.s = "CONVERGED" -> opt_finish(TRUE) /\ q' = Rest /\ UNCHANGED sim
       [] OTHER -> opt_finish(FALSE) /\ q' = Rest /\ UNCHANGED sim

\* opt_handle's loop: after an ACCEPT, next at once.
opt_handle(r) == \E s \in IF r.s = "ACCEPT" THEN next(r.d) ELSE {r} : Handle(s)

-----------------------------------------------------------------------------
(* The stages.                                                             *)

Stage(fn) == q # <<>> /\ q[1].fn = fn /\ UNCHANGED <<optLast, ops>>

\* start's own Status, handled on the queue.
OptStarted ==
  /\ Stage("opt_started")
  /\ opt_handle(R(drv, IF drv.err THEN "FAIL" ELSE "BUSY"))
  /\ UNCHANGED ses

OptStage ==
  /\ Stage("opt_stage")
  /\ \E r \in next(drv) : opt_handle(r)
  /\ UNCHANGED ses

\* opt_collect: the last operation must have ended DONE; then loss and gradient
\* go back.  Mutant: whatever the verdict.
CollectsAny == TRUE
Collects == ses.ok

OptCollect ==
  /\ Stage("opt_collect")
  /\ UNCHANGED ses
  /\ \/ /\ ~Collects \/ VecFails
        /\ opt_finish(FALSE) /\ q' = Rest /\ UNCHANGED <<drv, sim>>
     \/ /\ Collects
        /\ \E r \in next(setGradient(drv, ses.x)) : opt_handle(r)

\* enqueueForward to finishForward: n steps, or a failure in one of them; a sim
\* that has failed makes none.
Forward ==
  /\ Stage("forward")
  /\ q' = Rest
  /\ \/ /\ ~sim.failed
        /\ sim' = [sim EXCEPT !.steps = @ + q[1].n]
        /\ ses' = [ses EXCEPT !.ok = TRUE]
     \/ /\ ~sim.failed
        /\ \E how \in ForwardFails, k \in 0..q[1].n - 1 :
             sim' = [sim EXCEPT !.steps = @ + k + (IF how = "wholeStep" THEN 1 ELSE 0),
                                !.failed = TRUE, !.mid = (how = "midStep")]
        /\ ses' = [ses EXCEPT !.ok = FALSE]
     \/ /\ sim.failed
        /\ ses' = [ses EXCEPT !.ok = FALSE]
        /\ UNCHANGED sim
  /\ UNCHANGED <<drv, opt>>

\* enqueueBackward to its verdict: refused in mid step or with no step made.
Backward ==
  /\ Stage("backward")
  /\ q' = Rest
  /\ \/ /\ ~sim.mid /\ sim.steps > 0
        /\ ses' = [ok |-> TRUE, x |-> sim.x, steps |-> sim.steps]
     \/ ses' = [ses EXCEPT !.ok = FALSE]
  /\ UNCHANGED <<drv, opt, sim>>

-----------------------------------------------------------------------------
(* The host.                                                               *)

session_busy == q # <<>>

Call == ops < MaxOps /\ ops' = ops + 1

\* drape_queue_forward, drape_queue_backward and a live drape_config: refused by
\* nothing while an optimize runs.
Mixes == HostMixes \/ ~OptRunning

QueueForward(n) ==
  /\ Call /\ Mixes
  /\ q' = Append(q, [fn |-> "forward", n |-> n])
  /\ optLast' = FALSE
  /\ UNCHANGED <<drv, opt, sim, ses>>

QueueBackward ==
  /\ Call /\ Mixes
  /\ q' = Append(q, [fn |-> "backward", n |-> 0])
  /\ optLast' = FALSE
  /\ UNCHANGED <<drv, opt, sim, ses>>

SetLive ==
  /\ Call /\ Mixes
  /\ sim' = [sim EXCEPT !.x = 0]
  /\ UNCHANGED <<drv, opt, ses, q, optLast>>

QueueOptimize(n) ==
  /\ Call /\ ~session_busy
  /\ opt' = [on |-> TRUE, done |-> FALSE, ok |-> FALSE, steps |-> n,
             misread |-> FALSE]
  /\ \E r \in Start : drv' = r.d
  /\ q' = <<[fn |-> "opt_started", n |-> 0]>>
  /\ optLast' = TRUE
  /\ UNCHANGED <<sim, ses>>

Tick == OptStarted \/ OptStage \/ OptCollect \/ Forward \/ Backward

HostCall ==
  \/ \E n \in 1..MaxSteps : QueueForward(n) \/ QueueOptimize(n)
  \/ QueueBackward \/ SetLive

Next == Tick \/ HostCall

Spec == Init /\ [][Next]_vars /\ WF_vars(Tick)

-----------------------------------------------------------------------------
\* The driver's types, among them that it stays within its iteration and line
\* search caps, and the queue's.
TypeOK ==
  /\ opt.on => DriverOK(drv)
  /\ sim.steps \in Nat /\ ses.ok \in BOOLEAN
  /\ \A k \in 1..Len(q) : q[k].n \in 0..MaxSteps

\* An evaluation gives the driver its value and gradient.
Evaluates == opt.on /\ drv'.nfev = drv.nfev + 1

\* main.cpp 576-579: "each evaluation sets the parameters, rewinds, queues `steps`
\* forward steps and a backward": the loss and gradient the driver is given are
\* those of exactly that many steps made anew, and, unless a readback of the point
\* has failed, from the point the driver asked for.
EvaluationIsOwn ==
  [][Evaluates => /\ ses.steps = opt.steps
                  /\ ~opt.misread => ses.x = drv.X]_vars

\* lbfgsb.h 16-17: "NEED_EVAL  evaluate f and g at x (readX), setGradient(g),
\* next(f)": they are of the point asked for, whatever fails.  They are not:
\* opt_handle does not look at what readX answers (main.cpp 720).
EvaluatesWhatItAsked == [][Evaluates => ses.x = drv.X]_vars

IterateIsEvaluated ==
  opt.on /\ ~drv.err /\ (drv.await = "DONE" \/ drv.phase \in {"PREP", "DIR", "DIR_RESET", "PATHO"})
    => /\ drv.X = drv.G /\ drv.pg = drv.X /\ drv.X <= drv.nfev
       /\ drv.fx = drv.X \/ drv.fxOff

LineSearchKeepsLo ==
  opt.on /\ drv.await \in {"NONE", "TRIAL"} /\ drv.phase \in {"NONE", "TRIAL", "POST", "RESTORE"} =>
    /\ drv.lo = "START" => drv.iLo = 0 /\ drv.XP = drv.GP
    /\ drv.lo = "BUF" => drv.XLO = drv.iLo /\ drv.GLO = drv.iLo
    /\ drv.lo # "CURRENT"
    /\ drv.phase = "RESTORE" => drv.X = IF drv.lo = "START" THEN drv.XP ELSE drv.iLo

\* An iterate the driver goes on from, or ends with, has been evaluated: X, its
\* gradient, the projected gradient norm and f are of one point, but for f on
\* the step_max exit, which keeps the trial's (lbfgsb.h 43).  Through a line
\* search the best point so far is where lo_ says (lbfgsb.h 151), with its own
\* gradient, and a restore brings back that point.  All this unless the readback
\* of a point to evaluate has failed, after which nothing of it is so.
VectorsAreOfOnePoint == ~opt.misread => IterateIsEvaluated /\ LineSearchKeepsLo

\* An optimize ends: within its caps every path through the driver does, and
\* no stage leaves the optimize behind with an empty queue, where drape_tick
\* would answer IDLE for it (main.cpp 522-536).
OptimizeEnds == OptRunning ~> ~OptRunning
=============================================================================

------------------------------- MODULE Lbfgsb -------------------------------
(***************************************************************************)
(* The L-BFGS-B driver of drape.elf (guest/drape/lbfgsb.cpp): minimize()   *)
(* and the More-Thuente line search in reverse communication, as the       *)
(* operators start, next and setGradient on a driver record.               *)
(*                                                                         *)
(* A point is the number of the evaluation it is for, so a device vector   *)
(* holds a point (X, XP, XLO) or the gradient at one (G, GP, GLO), and a   *)
(* scalar says what it was computed from.  The values themselves, and so   *)
(* every comparison of two of them, are left open: each is a free choice,  *)
(* made once where the code makes the same comparison twice.               *)
(***************************************************************************)
EXTENDS Integers

CONSTANTS
  MaxIterations,    \* LbfgsbParams::max_iterations (bound: not 0, which is none)
  MaxLinesearch,    \* LbfgsbParams::max_linesearch
  VecFails          \* a submit or a readback of the vectors may fail

ASSUME LbfgsbAssumption ==
  MaxIterations \in Nat \ {0} /\ MaxLinesearch \in Nat /\ VecFails \in BOOLEAN

Phases == {"NONE", "INIT", "X0", "PREP", "DIR", "DIR_RESET", "PATHO", "TRIAL", "POST", "RESTORE"}
Awaits == {"NONE", "EVAL0", "TRIAL", "ACCEPT", "DONE"}

\* A result of start or next: the driver after it, and the Status.
R(d, s) == [d |-> d, s |-> s]

\* fail.
Fail(d) == R([d EXCEPT !.err = TRUE, !.await = "DONE", !.phase = "NONE"], "FAIL")
MayFail(d) == IF VecFails THEN {Fail(d)} ELSE {}

\* submit: the ops are run on the vectors of d.
Submit(d, ph) == {R([d EXCEPT !.phase = ph], "BUSY")} \cup MayFail(d)

\* start, on accepted parameters.  fxOff is history: fx_ is not that of X, which
\* only the step_max exit of the line search may cause.
Start ==
  Submit([phase |-> "NONE", await |-> "NONE", err |-> FALSE, k |-> 0, nfev |-> 0,
          X |-> 1, G |-> 0, XP |-> 0, GP |-> 0, XLO |-> 0, GLO |-> 0,
          fx |-> 0, dg |-> 0, pg |-> 0, lsIter |-> -1,
          lo |-> "START", iLo |-> 0, fxLo |-> 0, dgLo |-> 0, fxOff |-> FALSE], "INIT")

setGradient(d, point) == [d EXCEPT !.G = point]

-----------------------------------------------------------------------------
\* accept: converged by the gradient, the delta or the iteration cap, or go on.
\* Mutant: the cap is never met.
AtCapNever(d) == FALSE
AtCap(d) == d.k >= MaxIterations

Accept(d) ==
  {R([d EXCEPT !.await = "DONE"], "CONVERGED")}
    \cup (IF AtCap(d) THEN {} ELSE {R([d EXCEPT !.await = "ACCEPT"], "ACCEPT")})

\* appendTail: the head of an iteration, XP and GP from X and G.
appendTail(d) == [d EXCEPT !.XP = d.X, !.GP = d.G]

\* restoreLo: from where x_lo is.  Mutant: from the buffers, written or not.
RestoreFromBuf(d) == [d EXCEPT !.X = d.XLO, !.G = d.GLO]
RestoreFrom(d) ==
  IF d.lo = "START" THEN [d EXCEPT !.X = d.XP, !.G = d.GP]
  ELSE [d EXCEPT !.X = d.XLO, !.G = d.GLO]

RestoreLo(d) ==
  IF d.lo = "CURRENT" THEN Accept(d) ELSE Submit(RestoreFrom(d), "RESTORE")

\* trial: x_lo takes the current point first if the bracket said so.  Mutant: it
\* does, but lo_ is not moved on.
SaveLoOften(d) == IF d.lo = "CURRENT" THEN [d EXCEPT !.XLO = d.X, !.GLO = d.G] ELSE d
SaveLo(d) ==
  IF d.lo = "CURRENT" THEN [d EXCEPT !.XLO = d.X, !.GLO = d.G, !.lo = "BUF"] ELSE d

Trial(d) == Submit([SaveLo(d) EXCEPT !.X = d.nfev + 1], "TRIAL")

\* lineSearchStart.
LineSearchStart(d, afterPatho) ==
  (IF afterPatho THEN {} ELSE Submit(d, "PATHO"))
    \cup {Fail(d)}
    \cup Trial([d EXCEPT !.lo = "START", !.iLo = 0, !.lsIter = -1,
                         !.fxLo = d.fx, !.dgLo = d.dg])

\* bodyA's cases 2 and 3: lo := the current point.
TakeLo(d) == [d EXCEPT !.lo = "CURRENT", !.iLo = d.X, !.fxLo = d.fx, !.dgLo = d.dg]

\* bodyA: the bracket, then the step_max exit, a failure of the step, or a trial.
BodyA(d, better, atMax) ==
  LET b == IF better THEN TakeLo(d) ELSE d IN
  Trial(b) \cup {Fail(b)}
    \cup (IF atMax THEN RestoreLo([b EXCEPT !.fxOff = b.lo # "CURRENT"]) ELSE {})

\* Out of iterations, and the step is not better than I_lo.  Mutant: fx_ stays.
LoValuesKept(d) == d
LoValues(d) == [d EXCEPT !.fx = d.fxLo, !.dg = d.dgLo]

OutOfSteps(d, better) ==
  IF better THEN Accept(d)
  ELSE IF d.iLo = 0 THEN {Fail(d)}
  ELSE RestoreLo(LoValues(d))

\* afterEval: the Wolfe test, the step_max exit, the cap, or another pass.
\* better: ft <= fiLo_; atMax: step_ >= stepMax_.
AfterEval(d) ==
  Accept(d) \cup
  UNION {LET e == [d EXCEPT !.lsIter = @ + 1] IN
         IF d.lsIter >= 0 /\ atMax /\ better THEN Accept(d)
         ELSE IF e.lsIter >= MaxLinesearch THEN OutOfSteps(e, better)
         ELSE BodyA(e, better, atMax)
           : better \in BOOLEAN, atMax \in BOOLEAN}

\* direction: the update, the Cauchy point and the subspace minimisation.
Direction(d, reset) ==
  IF reset THEN Submit(appendTail(d), "DIR_RESET")
  ELSE Submit(appendTail([d EXCEPT !.k = @ + 1]), "DIR")

\* The projected gradient norm of X and G, read back: of their point, or of none.
pgOf(d) == IF d.X = d.G THEN d.X ELSE -1

\* The evaluation's value goes in, of the point its gradient is of.
Evaluated(d) == [d EXCEPT !.await = "NONE", !.fx = d.G, !.nfev = @ + 1, !.fxOff = FALSE]

\* next, on a driver that awaits nothing: what follows the phase that is over.
AfterPhase(d) ==
  CASE d.phase = "INIT" -> {R([d EXCEPT !.phase = "NONE", !.await = "EVAL0"], "NEED_EVAL")}
    [] d.phase = "X0" ->
         LET e == [d EXCEPT !.pg = pgOf(d), !.k = 1] IN
         {R([e EXCEPT !.await = "DONE"], "CONVERGED")} \cup Submit(appendTail(e), "PREP") \cup MayFail(e)
    [] d.phase = "DIR" -> Direction(d, TRUE) \cup LineSearchStart([d EXCEPT !.dg = d.G], FALSE)
                            \cup MayFail(d)
    [] d.phase \in {"PREP", "DIR_RESET"} ->
         LineSearchStart([d EXCEPT !.dg = d.G], FALSE) \cup MayFail(d)
    [] d.phase = "PATHO" -> LineSearchStart([d EXCEPT !.dg = d.G], TRUE) \cup MayFail(d)
    [] d.phase = "TRIAL" -> {R([d EXCEPT !.phase = "NONE", !.await = "TRIAL"], "TRY")}
    [] d.phase = "POST" -> AfterEval([d EXCEPT !.dg = d.G, !.pg = pgOf(d)]) \cup MayFail(d)
    [] d.phase = "RESTORE" -> Accept([d EXCEPT !.pg = pgOf(d)]) \cup MayFail(d)
    [] OTHER -> {Fail(d)}

\* next.
next(d) ==
  CASE d.await = "DONE" -> {R(d, IF d.err THEN "FAIL" ELSE "CONVERGED")}
    [] d.await = "EVAL0" -> Submit(Evaluated(d), "X0")
    [] d.await = "TRIAL" -> Submit(Evaluated(d), "POST")
    [] d.await = "ACCEPT" -> Direction([d EXCEPT !.await = "NONE"], FALSE)
    [] OTHER -> AfterPhase(d)

-----------------------------------------------------------------------------
\* The types of a driver.
DriverOK(d) ==
  /\ d.phase \in Phases /\ d.await \in Awaits /\ d.err \in BOOLEAN
  /\ d.k \in 0..MaxIterations /\ d.nfev \in Nat /\ d.lsIter \in -1..MaxLinesearch
  /\ {d.X, d.G, d.XP, d.GP, d.XLO, d.GLO, d.fx, d.dg, d.iLo, d.fxLo, d.dgLo} \subseteq 0..d.nfev + 1
  /\ d.lo \in {"START", "CURRENT", "BUF"}
=============================================================================

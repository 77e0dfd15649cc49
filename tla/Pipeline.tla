------------------------------ MODULE Pipeline ------------------------------
(***************************************************************************)
(* The garment loop (project/stages/pipeline.gd): one state machine        *)
(* advanced once a process frame, over the stage nodes it drives.  A stage *)
(* with long calls has a worker Thread (stage_base.gd); the drape stage    *)
(* has a queue that its own _process ticks to IDLE (drape_stage.gd, and    *)
(* DrapeSession for what happens inside).                                  *)
(*                                                                         *)
(* What a state leaves in `data' is kept as where it came from, a stage or *)
(* its fixture, and in which run it was made; the meshes are not.          *)
(***************************************************************************)
EXTENDS Integers, Sequences

CONSTANTS
  Opts,          \* the options a run may be started with
  PenExternals,  \* pen_external, which a pen bridge sets when it is attached
  ForwardFails,  \* the drape's forward may end in FAIL
  Strokes,       \* strokes of the scripted source, and bound of the bridge's
  FitPhases,     \* phases of fit.elf's problem
  MaxRuns        \* bound: runs started

Keys == {"infer", "rig", "curvenet", "fit", "drape"}
Order == <<"INFER", "RIG", "AUTHOR", "MESH", "FIT_BEGIN", "FIT_RUN", "FIT_READ",
           "CHECK", "DRAPE", "DRAPE_COLLECT">>
States == {Order[k] : k \in 1..Len(Order)}
TERMINAL == {"IDLE", "DONE", "FAILED"}

ASSUME PipelineAssumption ==
  /\ \A o \in Opts : /\ o.mode \in {"avbd", "polyfem", "bad"}
                     /\ o.allow \subseteq Keys /\ o.force \subseteq Keys
                     /\ o.stop \in States \cup {""}
  /\ PenExternals \subseteq BOOLEAN /\ ForwardFails \in BOOLEAN
  /\ Strokes \in Nat \ {0} /\ FitPhases \in Nat \ {0} /\ MaxRuns \in Nat

VARIABLES
  missing,    \* the stages whose ELF is missing or too old
  state,      \* state
  first,      \* _first: the state's first frame
  opts,       \* opts
  fixtures,   \* the stages this run is labelled FIXTURE for
  data,       \* data, as where each entry is from and the run it was made in
  records,    \* the states recorded as ended
  pen,        \* pen_external, pen_queue's strokes and pen_finished
  worker,     \* the worker Threads of the curvenet and fit stages
  phase,      \* the phases fit.elf has done
  drape,      \* the drape stage: its queue's operation, status and verdict
  cfg,        \* whose material g_cfg of drape.elf holds, the drape's or the fit's
  run         \* which run this is

vars == <<missing, state, first, opts, fixtures, data, records, pen, worker, phase, drape, cfg, run>>

\* An entry of data, and the two flags data.fit_fixture, data.fit_check_fixture.
Absent == [from |-> "none", run |-> 0]
From(src, r) == [from |-> src, run |-> r]
NoData == [body |-> Absent, joints |-> Absent, garment |-> Absent, fitted |-> Absent,
           fit_begin |-> Absent, check |-> Absent, drape |-> Absent, fit_fixture |-> FALSE]

NoCall == [alive |-> FALSE, result |-> "null", run |-> 0]

Init ==
  /\ missing \in {m \cup {"infer", "rig"} : m \in SUBSET {"curvenet", "fit", "drape"}}
  /\ state = "IDLE" /\ first = TRUE
  /\ opts = [mode |-> "avbd", allow |-> {}, force |-> {}, stop |-> ""]
  /\ fixtures = {} /\ data = NoData /\ records = <<>>
  /\ pen \in [external : PenExternals, queue : {0}, finished : {FALSE}]
  /\ worker = [s \in {"curvenet", "fit"} |-> NoCall]
  /\ phase = 0
  /\ drape = [running |-> FALSE, op |-> "none", ok |-> TRUE, run |-> 0, cfg |-> "drape"]
  /\ cfg = "drape" /\ run = 0

-----------------------------------------------------------------------------
(* The machine's helpers.                                                  *)

Enter(next) == state' = next /\ first' = TRUE /\ records' = Append(records, state)

\* _goto: the record closed, stop_after honoured.
Goto(next) == Enter(IF opts.stop = state THEN "DONE" ELSE next)

Fail == Enter("FAILED")
Stay == state' = state /\ first' = FALSE /\ UNCHANGED records

\* _mode: a stage is real, or its fixture is allowed or forced, or the run fails.
\* The fixture labels the run.  Mutant: only an allowed fixture is labelled.
Real(key) == key \notin opts.force /\ key \notin missing
StandsIn(key) == key \in opts.force \/ (key \in missing /\ key \in opts.allow)

LabelAllowed(key) == fixtures' = fixtures \cup ({key} \cap opts.allow)
Label(key) == fixtures' = fixtures \cup {key}

NotRunnable(key) ==
  /\ ~Real(key) /\ ~StandsIn(key)
  /\ Fail
  /\ UNCHANGED <<fixtures, data, pen, worker, phase, drape, cfg>>

Put(key, src) == data' = [data EXCEPT ![key] = From(src, run)]

\* stage_base: start(), refused while a worker call is in flight; busy().  Mutant:
\* a Thread that has ended still counts.
StartCall(s) == worker' = [worker EXCEPT ![s] = [alive |-> TRUE, result |-> "null", run |-> run]]
busyUntilNext(s) == worker[s].run # 0
busy(s) == worker[s].alive

-----------------------------------------------------------------------------
(* Control.                                                                *)

\* start(): refused in a run, and while a worker call is in flight.  Mutants: it
\* does not look at the workers; data stays.
StartRefusedInRun == state \notin TERMINAL
StartRefused == state \notin TERMINAL \/ \E s \in DOMAIN worker : busy(s)

DataAtStartKept == data
DataAtStart == NoData
RecordsAtStart == <<>>

Start(o) ==
  /\ run < MaxRuns /\ ~StartRefused
  /\ opts' = o /\ fixtures' = {} /\ records' = RecordsAtStart
  /\ data' = DataAtStart
  /\ pen' = [pen EXCEPT !.queue = 0, !.finished = FALSE]
  /\ run' = run + 1
  /\ IF o.mode = "bad" THEN UNCHANGED <<state, first>> ELSE state' = "INFER" /\ first' = TRUE
  /\ UNCHANGED <<missing, worker, phase, drape, cfg>>

\* pen_event, a stroke of the bridge, which draws while the state is AUTHOR; and
\* pen_finish, from the bridge or from main.gd at any time.
PenEvent ==
  /\ pen.external /\ state = "AUTHOR" /\ pen.queue < Strokes
  /\ pen' = [pen EXCEPT !.queue = @ + 1]
  /\ UNCHANGED <<missing, state, first, opts, fixtures, data, records, worker, phase, drape, cfg, run>>

PenFinish ==
  /\ pen.external /\ ~pen.finished
  /\ pen' = [pen EXCEPT !.finished = TRUE]
  /\ UNCHANGED <<missing, state, first, opts, fixtures, data, records, worker, phase, drape, cfg, run>>

\* A worker call ends.
WorkerEnds(s) ==
  /\ worker[s].alive
  /\ \E out \in {"ok", "FAIL"} : worker' = [worker EXCEPT ![s].alive = FALSE, ![s].result = out]
  /\ UNCHANGED <<missing, state, first, opts, fixtures, data, records, pen, phase, drape, cfg, run>>

\* The drape stage's _process has ticked the queue to IDLE.
DrapeIdle ==
  /\ drape.running
  /\ \E ok \in BOOLEAN :
       /\ ok \/ drape.op = "fit" \/ ForwardFails
       /\ drape' = [drape EXCEPT !.running = FALSE, !.ok = ok]
  /\ UNCHANGED <<missing, state, first, opts, fixtures, data, records, pen, worker, phase, cfg, run>>

-----------------------------------------------------------------------------
(* The states, each one frame of _process.                                 *)

\* _infer, _rig: no real path yet, so a fixture or nothing; it may be unreadable.
FixtureState(key, entry, next) ==
  /\ \/ NotRunnable(key)
     \/ /\ StandsIn(key) /\ Label(key)
        /\ \/ Put(entry, "fixture") /\ Goto(next)
           \/ Fail /\ UNCHANGED data
        /\ UNCHANGED <<pen, worker, phase, drape, cfg>>
  /\ UNCHANGED <<missing, opts, run>>

Infer == state = "INFER" /\ FixtureState("infer", "body", "RIG")
Rig == state = "RIG" /\ FixtureState("rig", "joints", "AUTHOR")

\* _author, the first frame: the fixture garment, or curvenet reset and the
\* scripted strokes queued.
AuthorFirst ==
  /\ state = "AUTHOR" /\ first
  /\ \/ NotRunnable("curvenet")
     \/ /\ StandsIn("curvenet") /\ Label("curvenet")
        /\ \/ Put("garment", "fixture") /\ Goto("MESH")
           \/ Fail /\ UNCHANGED data
        /\ UNCHANGED <<pen, worker, phase, drape, cfg>>
     \/ /\ Real("curvenet")
        /\ pen' = IF pen.external THEN pen ELSE [pen EXCEPT !.queue = Strokes, !.finished = TRUE]
        /\ Stay
        /\ UNCHANGED <<fixtures, data, worker, phase, drape, cfg>>
     \/ /\ Real("curvenet") /\ Fail
        /\ UNCHANGED <<fixtures, data, pen, worker, phase, drape, cfg>>
  /\ UNCHANGED <<missing, opts, run>>

\* _author, a later frame: at most one stroke ends; then, the queue empty and the
\* pen finished, curvenet_build.
Authored(n) == n = 0 /\ pen.finished

Author ==
  /\ state = "AUTHOR" /\ ~first
  /\ \/ LET n == IF pen.queue > 0 THEN pen.queue - 1 ELSE 0 IN
        /\ pen' = [pen EXCEPT !.queue = n]
        /\ IF Authored(n) THEN Goto("MESH") ELSE Stay
     \/ pen.queue > 0 /\ pen' = [pen EXCEPT !.queue = @ - 1] /\ Fail
  /\ UNCHANGED <<missing, opts, fixtures, data, worker, phase, drape, cfg, run>>

\* _mesh: the garment is there already (the fixture), or mesh_build goes to the
\* worker and is polled.
MeshDone(d) ==
  \/ Goto("FIT_BEGIN") /\ data' = d
  \/ Fail /\ data' = d                      \* not a skirt tube

Mesh ==
  /\ state = "MESH"
  /\ \/ /\ data.garment.from # "none"
        /\ MeshDone(data) /\ UNCHANGED worker
     \/ /\ data.garment.from = "none" /\ first
        /\ IF busy("curvenet") THEN Fail /\ UNCHANGED worker ELSE StartCall("curvenet") /\ Stay
        /\ UNCHANGED data
     \/ /\ data.garment.from = "none" /\ ~first /\ ~busy("curvenet")
        /\ IF worker["curvenet"].result = "ok"
           THEN MeshDone([data EXCEPT !.garment = From("curvenet", worker["curvenet"].run)])
           ELSE Fail /\ UNCHANGED data
        /\ UNCHANGED worker
  /\ UNCHANGED <<missing, opts, fixtures, pen, phase, drape, cfg, run>>

avbd == opts.mode = "avbd"

\* fit_avbd_start: every call is made; drape_open, the scene and the fit set
\* answer BUSY while the queue runs, and then so does drape_fit (h is dirty).
\* The three config calls leave the fit's material in g_cfg either way.
FitAvbdQueued ==
  /\ ~drape.running
  /\ drape' = [running |-> TRUE, op |-> "fit", ok |-> FALSE, run |-> run, cfg |-> "fit"]

\* _fit_begin, the first frame.
FitBeginAvbd ==
  /\ avbd /\ (Real("fit") \/ StandsIn("fit"))
  /\ IF StandsIn("fit") THEN Label("fit") ELSE UNCHANGED fixtures
  /\ \/ "drape" \in missing /\ Fail /\ UNCHANGED <<data, worker, phase, drape, cfg>>
     \/ /\ "drape" \notin missing /\ cfg' = "fit"
        /\ data' = [data EXCEPT !.fit_fixture = StandsIn("fit")]
        /\ \/ Fail /\ UNCHANGED <<worker, phase, drape>>     \* a setup call says FAIL or BUSY
           \/ /\ FitAvbdQueued
              /\ \/ StandsIn("fit") /\ Goto("FIT_RUN") /\ UNCHANGED <<worker, phase>>
                 \/ Real("fit") /\ Fail /\ UNCHANGED <<worker, phase>>   \* fit.elf's setup
                 \/ /\ Real("fit") /\ ~busy("fit")
                    /\ StartCall("fit") /\ phase' = 0 /\ Goto("FIT_RUN")

FitBeginFixture ==
  /\ ~avbd /\ StandsIn("fit") /\ Label("fit")
  /\ \/ /\ data' = [data EXCEPT !.fit_fixture = TRUE, !.fitted = From("fixture", run)]
        /\ Goto("FIT_READ")
     \/ data' = [data EXCEPT !.fit_fixture = TRUE] /\ Fail     \* fit_from unreadable
  /\ UNCHANGED <<worker, phase, drape, cfg>>

FitBeginPolyfem ==
  /\ ~avbd /\ Real("fit")
  /\ \/ ~busy("fit") /\ StartCall("fit") /\ phase' = 0 /\ Stay
     \/ Fail /\ UNCHANGED <<worker, phase>>
  /\ UNCHANGED <<fixtures, data, drape, cfg>>

FitBegin ==
  /\ state = "FIT_BEGIN" /\ first
  /\ \/ NotRunnable("fit")
     \/ (FitBeginAvbd \/ FitBeginFixture \/ FitBeginPolyfem) /\ UNCHANGED pen
  /\ UNCHANGED <<missing, opts, run>>

\* _fit_begin, a later frame (polyfem): fit_begin's answer.
FitBegun ==
  /\ state = "FIT_BEGIN" /\ ~first /\ ~busy("fit")
  /\ data' = [data EXCEPT !.fit_begin = From("fit", worker["fit"].run)]
  /\ IF worker["fit"].result = "ok" THEN Goto("FIT_RUN") ELSE Fail
  /\ UNCHANGED <<missing, opts, fixtures, pen, worker, phase, drape, cfg, run>>

\* _fit_run, avbd: the drape status until it is not RUNNING.
FitRunAvbd ==
  /\ state = "FIT_RUN" /\ avbd /\ ~drape.running
  /\ IF drape.ok /\ drape.op = "fit" THEN Goto("FIT_READ") ELSE Fail
  /\ UNCHANGED <<missing, opts, fixtures, data, pen, worker, phase, drape, cfg, run>>

\* fit_status says done.  Mutant: one phase later.
PhasesDoneLate(n) == n > FitPhases
PhasesDone(n) == n = FitPhases

\* _fit_run, polyfem: one fit_step per worker call, the status between them.
FitRun ==
  /\ state = "FIT_RUN" /\ ~avbd /\ ~busy("fit")
  /\ LET done == IF first THEN phase ELSE phase + 1 IN
     IF ~first /\ worker["fit"].result # "ok"
     THEN Fail /\ UNCHANGED <<worker, phase>>
     ELSE /\ phase' = done
          /\ IF PhasesDone(done) THEN Goto("FIT_READ") /\ UNCHANGED worker
             ELSE StartCall("fit") /\ Stay
  /\ UNCHANGED <<missing, opts, fixtures, data, pen, drape, cfg, run>>

\* _fit_read: the fitted vertices; avbd puts the drape's material back.
Restored == IF avbd THEN "drape" ELSE cfg

FitRead ==
  /\ state = "FIT_READ"
  /\ cfg' = Restored
  /\ LET fitted == IF avbd THEN From("avbd", drape.run)
                   ELSE IF data.fit_fixture THEN data.fitted
                   ELSE From("fit", worker["fit"].run) IN
     \/ data' = [data EXCEPT !.fitted = fitted] /\ Goto("CHECK")
     \/ data' = [data EXCEPT !.fitted = fitted] /\ Fail   \* short or not finite
  /\ UNCHANGED <<missing, opts, fixtures, pen, worker, phase, drape, run>>

\* _check: skipped with fit.elf a fixture; in avbd mode fit_begin's answer is
\* awaited first.
Begun == worker["fit"].result = "ok"

Check ==
  /\ state = "CHECK"
  /\ \/ data.fit_fixture /\ Goto("DRAPE") /\ UNCHANGED data
     \/ /\ ~data.fit_fixture /\ ~busy("fit")
        /\ LET d == IF avbd THEN [data EXCEPT !.fit_begin = From("fit", worker["fit"].run)]
                    ELSE data IN
           \/ avbd /\ ~Begun /\ Fail /\ data' = d
           \/ /\ avbd => Begun
              /\ \/ Goto("DRAPE") /\ data' = [d EXCEPT !.check = From("fit", worker["fit"].run)]
                 \/ Fail /\ data' = d                           \* INTERSECTS, or a FAIL
  /\ UNCHANGED <<missing, opts, fixtures, pen, worker, phase, drape, cfg, run>>

\* _drape: the fitted garment as a scene, which takes g_cfg as it stands, and
\* the forward queued.
Drape ==
  /\ state = "DRAPE"
  /\ \/ NotRunnable("drape")
     \/ /\ StandsIn("drape") /\ Label("drape") /\ Goto("DONE")
        /\ UNCHANGED <<data, drape>>
     \/ /\ Real("drape") /\ Fail /\ UNCHANGED <<fixtures, data, drape>>   \* setup: FAIL or BUSY
     \/ /\ Real("drape") /\ ~drape.running
        /\ drape' = [running |-> TRUE, op |-> "forward", ok |-> FALSE, run |-> run, cfg |-> cfg]
        /\ Goto("DRAPE_COLLECT")
        /\ UNCHANGED <<fixtures, data>>
  /\ UNCHANGED <<missing, opts, run, pen, worker, phase, cfg>>

\* _drape_collect: positions of the queue's last completed step, taken whatever
\* IDLE reports of the forward; all there and finite, or the run fails.
DrapeCollect ==
  /\ state = "DRAPE_COLLECT" /\ ~drape.running
  /\ \/ /\ data' = [data EXCEPT !.drape = From(IF drape.ok THEN "drape" ELSE "failed forward", drape.run)]
        /\ Goto("DONE")
     \/ Fail /\ UNCHANGED data
  /\ UNCHANGED <<missing, opts, fixtures, pen, worker, phase, drape, cfg, run>>

Process ==
  \/ Infer \/ Rig \/ AuthorFirst \/ Author \/ Mesh
  \/ FitBegin \/ FitBegun \/ FitRunAvbd \/ FitRun \/ FitRead
  \/ Check \/ Drape \/ DrapeCollect

Next ==
  \/ \E o \in Opts : Start(o)
  \/ PenEvent \/ PenFinish
  \/ \E s \in DOMAIN worker : WorkerEnds(s)
  \/ DrapeIdle
  \/ Process

\* Frames go on, guest calls return, the drape queue comes to IDLE (the property
\* GoesIdle of DrapeSession, of a solver whose failures submit nothing).
Fairness ==
  /\ WF_vars(Process) /\ WF_vars(DrapeIdle)
  /\ \A s \in {"curvenet", "fit"} : WF_vars(WorkerEnds(s))

Spec == Init /\ [][Next]_vars /\ Fairness

-----------------------------------------------------------------------------
\* The types of the machine, its data and its stages.
TypeOK ==
  /\ state \in States \cup TERMINAL /\ first \in BOOLEAN
  /\ fixtures \subseteq Keys
  /\ records \in Seq(States)
  /\ \A s \in DOMAIN worker : worker[s].result \in {"null", "ok", "FAIL"}
  /\ pen.queue \in 0..Strokes /\ phase \in 0..FitPhases
  /\ cfg \in {"drape", "fit"} /\ run \in 0..MaxRuns

Accounted(key, entry, stages) ==
  \/ data[entry].from \in stages
  \/ key \in fixtures

OwnResults ==
  \A e \in {"body", "joints", "garment", "fitted", "fit_begin", "check", "drape"} :
    data[e].from # "none" => data[e].run = run

\* pipeline.gd 27-29: at the end of a whole run each part of the result was made
\* by its stage, or the run is labelled FIXTURE for it; the CHECK included, which
\* only a fit fixture may skip.  At every point nothing of an earlier run reaches
\* this one: neither a worker's late result nor what the drape queue was left
\* with by a run that failed over it.
DoneIsAccounted ==
  /\ OwnResults
  /\ state = "DONE" /\ opts.stop = "" /\ opts.mode # "bad" =>
       /\ Accounted("infer", "body", {}) /\ Accounted("rig", "joints", {})
       /\ Accounted("curvenet", "garment", {"curvenet"})
       /\ Accounted("fit", "fitted", {"fit", "avbd"})
       /\ Accounted("fit", "check", {"fit"})
       /\ Accounted("drape", "drape", {"drape"})

\* pipeline.gd 29-31: the machine never calls into a sandbox whose worker call is
\* in flight (the BUSY answers of reset and set_param are not looked at).
NeverCallsBusy ==
  /\ state \in {"INFER", "RIG", "AUTHOR"} => ~busy("curvenet") /\ ~busy("fit")
  /\ state \in {"FIT_BEGIN", "FIT_READ", "CHECK", "DRAPE"} => ~busy("curvenet")
  /\ state = "FIT_READ" /\ ~avbd => ~busy("fit")
  /\ state \in {"DRAPE", "DRAPE_COLLECT"} => ~busy("fit")

\* drape_stage.gd 246-249: the DRAPE state's scene is loaded with the drape's own
\* material, not the fit's.
DrapesOwnMaterial == drape.op = "forward" => drape.cfg = "drape"

\* pipeline.gd 3-4: every run started with the scripted pen comes to DONE or
\* FAILED; with the bridge so does every run that is past AUTHOR.
RunEnds ==
  state \in States /\ (pen.external => state \notin {"INFER", "RIG", "AUTHOR"})
    ~> state \in TERMINAL
=============================================================================

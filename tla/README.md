# interactor-dress-on in TLA+

A verification project for the control logic of interactor-dress-on: the
garment loop that a stock Godot project drives through RISC-V guest programs
(ELFs) in godot-sandbox, and the GPU layer those programs share. Paths below are
relative to the repository.

## 1. The system

A Godot process runs one frame after another. In each frame the stage nodes of
`project/stages/` make short, synchronous calls (vmcalls) into guest ELFs; a
call that takes long is made on a worker Thread. The sandbox may kill a vmcall
at any instruction; guest memory and what the call did on the host stay. The
GPU is reached only through Godot's local `RenderingDevice`: dispatches are
recorded in a compute list, `submit()` starts them, `sync()` waits. The rule
that shapes everything is rule 4: never `sync()` in the process frame of the
`submit()`. So every guest is a state machine or a queue that the host ticks
once a frame.

### Components

| component | state | operations | interacts with | what is hard | correct when |
|---|---|---|---|---|---|
| `guest/rd_compute` | `list_open_`, `submitted_`, `submit_frame_`, the counters, the permanent RIDs, the staging buffer | list_begin..list_end, buffer calls, submit, sync, recover, adopt, close | Godot's device, every guest | vmcalls killed at any instruction | an orphaned list is always found and ended; the flags tell the truth; a read returns its range |
| `guest/jobs`, job API of `drape/main.cpp` | a deque of closures, a verdict, the parked jobs | push, next, tick, start, replace, close | the solver's `pending_`, the shared device | stages over many frames, replacement in flight, two slots | rule 4, order, one verdict, every submit has an owner |
| drape session (`drape/main.cpp`, `drape_session.h`, `drape_sim.h`, `drape_backward.h`) | scene, config, dirty flag, sim phases and records, the fit's borrowed settings, the queue | open, scene, config, fit set, queue forward / fit / backward, tick, close | AVBD solver, the drape stage | host calls between the ticks of an operation, failures in mid operation | what the fit borrows it returns; verdicts are honest; the queue comes to IDLE |
| AVBD solvers | `pending_`, GPU buffers | upload, run, scan, step backward, read back | rd_compute | a run that fails after recording | every upload or readback syncs first |
| `guest/ggml-rd` | cached pipelines and sets, `pending` | graph_compute, tensor get/set, alloc, free, ensure_idle, release | rd_compute, the pump | unordered dispatches in a list; caches keyed by reused RIDs; creates that fail half way | conflicting dispatches are separated; a graph is whole or fails; a cached set binds what its key says |
| `guest/pump`, `fiber`, `infer_host.gd`, `ggml_stage.gd` | the fiber, the request, `inside`; the host's state, its carried upload, the execution cap | start, step, wait_gpu, read, upload, fail; attach, pump, close | ggml-rd, the ggml stage | killed calls, abandoned fibers, requests served over many frames | both ends agree on whether a job runs; every byte is served; a sync is a frame late |
| `project/stages/pipeline.gd`, `stage_base.gd` | state, options, data, records, fixtures, workers | start, `_process`, pen events | every stage | late workers, missing stages, failed runs before this one | DONE says what was made by what; a run uses its own results; it ends |
| L-BFGS-B driver, optimize | the driver's phase, what its vectors and scalars belong to, the evaluation in the queue | start, next, setGradient | the drape session | a line search turned inside out, its continuation split over the queue | x, its gradient and f are of one point; an evaluation is the one asked for |
| `fit.elf`, `curvenet.elf`, `usd.elf`, pen bridge | their problem, strokes, documents | begin/step, pen, build | pipeline | long worker calls | seen from the pipeline only |

`PROJECT.json` lists them all with their status, and, under `hazards`, what in
this code a test would hardly reach.

## 2. Modules

Each module models one part; `MC*` modules give TLC its instances; `*Proofs` hold
the theorems. `DrapeOptimize` is built on `Lbfgsb`, and `DrapeSession` implements
`DrapeQueue`.

**RdCompute** (rd_compute.cpp). Each method is split at its host calls and its
flag writes, since a `Kill` action may fall between any two of them.
`list_open_` and `submitted_` are guest memory and survive; `hostList` and
`hostBusy` are Godot's own state; `refused` records that Godot turned a call
down because a list was open. A caller records with list_begin .. dispatch ..
list_end in one vmcall. Frames are compared only with the current one, so
`fresh` stands for `submit_frame_ = process_frame()`. `buffer_get_into` reads
through the staging buffer, which may be freed and made anew on the way: byte i
of the buffer is the number i, so a byte taken from the wrong place shows, and a
byte that staging held before is none of them. A copy recorded while the host is
busy is dropped, as rd_compute.h:117-119 says of a local device, and the guard
at the head of `buffer_get_into` knows only `submitted_`; `torn` is history,
that a kill has parted `submitted_` from the host and nothing has set it since.
The word, the block the staging size is rounded to and its cap are constants.
The gate hooks (`set_recovery`, `set_permanent_rids`) keep their production
values.

**RdGraph** (rd_graph.cpp, ensure_idle). One `graph_compute` from entry to
submit: the packing loop, the CPU fallback, the preparation that may fail, the
recording loop with its segments of read and written ranges, and `ensure_idle` at
the start of every backend entry. `Words` and `Conflict` say independently, per
4-byte word, which dispatches must be ordered. What the list binds for a dispatch
is `RdCaches`.

**RdCaches** (rd_kernels.cpp; alloc, free, the preparation and the recording
loop in ggml-rd.cpp and rd_graph.cpp; rid_or_fail, forget and free_rid in
rd_compute.cpp). A RID is the index of a permanent slot, and a slot is reused;
`dev.objects` are the GPU objects with what each depends on, since Godot frees a
set with its buffers and its shader. `list` is one compute list: the kernel and
the slot index the loop compares with (rd_graph.cpp:322-333), and, apart from
them, the objects Godot has bound, so that an equal index that names another
object would show. Every create may fail. Slots are taken lowest first, the
order that reuses soonest. The cooperative yield in the middle of the
preparation changes nothing of this state.

**GgmlJob** (pump.cpp, fiber.cpp, ensure_idle and the calls that begin with it,
infer_host.gd, ggml_stage.gd, the entry points of ggml_test/main.cpp). A job is
a script of the calls that concern the pump. `at` follows the main thread:
outside a call, in the guest, or in one of the branches of `pump_frame`. A vmcall
may be killed between two calls of the script; guest memory then stays as it
is. `dev.fresh` is "submitted in this frame", `dev.early` that a job synced in
the frame of a submit.

**Jobs** (jobs.h, jobs.cpp, the job API of drape/main.cpp). A job is a script:
what each stage does to the solver (touch, submit, verdict, yield) and which
stages it inserts. Starting, replacing, parking, freeing and closing are the
entry points, once per slot; the slots share one device.

**DrapeSession** (drape/main.cpp and the headers it drives). The host calls that
change the session and the stages they queue. One stage is one phase of a
solver step. Abstractions: of the configuration only the live pair (gravity,
damp) is a value, every uploaded knob is the dirty flag; a run of the solver has
one of four outcomes (`RunOutcomes`); positions are not kept, so a convergence
test, a collision push, a finite check and a target mismatch are free choices;
the backward is the native one with `bwdTruncateK` 0; an answer BUSY or FAIL
that changes nothing is a disabled action. `drop_session` parks a session in
flight; its callers refuse a busy session first, so the parking never happens
and is left out. `drape_primitive` and `drape_set_target` are not modelled.

**DrapeQueue** is what the session promises: operations end one by one in the
order they were queued, each with one verdict, its own. `DrapeSession` maps each
queued closure to its operation (a stage that queued itself again is still its
operation) and its last result to the verdict; `KeepsItsQueue` is the refinement.

**Lbfgsb** (lbfgsb.cpp) is the driver as operators on a record. A vector holds
the number of the evaluation whose point, or whose gradient, it is; every
comparison of two floating-point values is a free choice, made once where the
code makes it twice. So every path of the line search is followed, those that no
real function takes included. `force_bounds` of a point in the box is the
identity.

**DrapeOptimize** (opt_handle, opt_eval, opt_collect and drape_queue_optimize of
drape/main.cpp). The driver's phases and an evaluation's forward, backward and
collector are entries of the session's queue; a forward or backward is one step
here, with what it leaves of the session's parameters, steps and failure.
`opt_handle` drops the result of `readX`, so that after a failed readback the
session is set to zeros (point 0) and the driver is given their loss and gradient;
`opt.misread` is history, that this optimize has done so. In the same case the
lines it logs for ACCEPT and CONVERGED show zeros for x (main.cpp:727, 737); the
log is not modelled.

**Pipeline** (pipeline.gd, stage_base.gd, the host side of drape_stage.gd). One
action per state handler and frame. `data` keeps of each entry the stage or
fixture it came from and the run it was made in. The pen queue counts strokes.
The drape stage is its queue's operation, verdict, run and the material its
scene was loaded with; DrapeSession models what happens inside. In avbd mode
`fit_fixture` also stands for `data.fit_check_fixture`.

## 3. Runs

| run | instance and bounds | result |
|---|---|---|
| `rd_compute` | counter to 2; words of 2 bytes, staging in blocks of 4 up to 8, a buffer of 12, every range of it; vmcalls, kills and frames unbounded | holds |
| `rd_graph` | graphs of up to 4 of 8 nodes, two buffers, tensors that share a word without sharing a byte, three sources; graph after graph | holds |
| `rd_caches` | 2 buffers bound as source and destination, 2 kernels, graphs of up to 2 dispatches, a params table that starts at one slot, 5 calls, creates that fail | holds |
| `ggml_job` | 3 starts of 6 scripts; a file of 5 bytes and a buffer of 4, chunks of 2, 3 bytes a frame; killed vmcalls and failing files | holds |
| `ggml_wedged` | as `ggml_job`, 2 starts | violated: finding 4 |
| `jobs_replace` | one slot, 4 scripts (uploads and submits; a verdict with its submit in flight; inserted stages; a job with no verdict that yields), 3 starts, 2 stages a tick | holds |
| `drape_session` | 4 host calls, operations of up to 3 steps, refresh 2, settle 0 or 1, 2 self-collision passes, 2 stages a tick, runs that are submitted, instant or fail before the submit, gradient readbacks that may be short | holds |
| `drape_wedged` | runs that fail with their list submitted | violated: finding 1 |
| `drape_optimize` | 2 iterations of up to 3 trials, submits and readbacks of the vectors that fail, forwards of up to 2 steps that fail in mid step, 3 host calls before and after an optimize | holds |
| `pipeline` | 2 runs, the scripted pen or the bridge, 25 option sets (both fit modes and a bad one, fixtures allowed and forced, a stop), every set of missing stages, 2 strokes, 2 fit phases | holds |
| `pipeline_material` | avbd and polyfem runs mixed | violated: finding 3 |
| `pipeline_forward_fails` | the forward may end in FAIL | violated: finding 2 |

The bounds are small because the state is control: two frames tell "this frame"
from "a later one"; a second run or job is what can meet the leftovers of the
first; two strokes and two phases make a loop go round; refresh 2 with three
steps separates the end of a cycle from the step after a refresh; a graph of
four dispatches has a segment before and after a barrier with two dispatches
each; three bytes a frame in chunks of two leave an upload in the middle of a
chunk; three trials take the best point, take a better one and restore it; a
table that grows from one slot to two is freed under its sets.

The passing runs leave out the inputs that break them. `drape_session` has no
live knobs in mid fit, no run that fails after its submit, and no short readback
of the positions (after which `solved()` still submits the self-collision scan:
the wedge of finding 1 again). `drape_optimize` has no host calls during an
optimize, and forwards that fail in mid step, which the backward refuses.

Each run's properties are named in its cfg and stated, with the source they come
from, at the end of its module. A property that joins several (`DeviceInTurn`,
`FitReturnsWhatItBorrows`, `VectorsAreOfOnePoint`, `BarriersAreExact`,
`VerdictOfTheScript`, `HonestVerdict`, `BothEndsAgree`) names its parts there.

### Findings

1. `drape_wedged`: a solver run that fails after its submit leaves the session
   RUNNING, and then nothing can open, load or close it.
2. `pipeline_forward_fails`: "IDLE FAIL forward" is collected as a drape.
3. `pipeline_material`: an avbd run that ends before FIT_READ leaves its material
   to the next run.
4. `ggml_wedged`: a job that the host gives up alone still runs for the guest.
   Every start, the close and a new attach are refused from then on.

### Further disagreements

These show in the same modules when a constant of a cfg, or the property it
checks, is changed as said; they have no run of their own.

* `MCRdCompute.cfg` with `INVARIANT ReadsFreshBytes`: a vmcall killed between the
  host's submit and `submitted_` (rd_compute.cpp:546) leaves a busy device that looks
  idle. `buffer_get_into` passes its own guard, its copy is dropped, and it
  returns old staging bytes with success. rd_compute.h:117-119 says "Only while
  nothing is submitted (after sync): a local device drops whatever is recorded
  between submit() and sync()". `list_begin` raises its flag before the host call
  for this reason (503-505), `submit` does not. `ReadsTheRange`, which `rd_compute`
  checks, is exact unless `torn`: this is the only way.
* `MCDrapeSession.cfg` with `PROPERTY ConvergedFitStops`: a fit without a settle,
  which is the default (main.cpp:386) and what the loop passes
  (drape_stage.gd:54), goes on to its cap of steps after it has converged
  (drape_session.h:303-310). drape/main.cpp:431-434 says it is "stopping once the
  largest vertex move of a refresh cycle's last step is under tol".
  `ConvergesAtACycle`, which `drape_session` checks with settles 0 and 1, allows this
  step and no other after convergence.
* `MCDrapeOptimize.cfg` with `PROPERTY EvaluatesWhatItAsked`: `opt_handle` does not
  look at what `readX` answers (main.cpp:720). After a failed readback
  (lbfgsb.cpp:124-127, vec_rd.cpp:242-246) the session is set to zeros, the driver
  is given their loss and gradient as those of its point, and the optimize may end
  DONE. lbfgsb.h:16 says "evaluate f and g at x (readX), setGradient(g), next(f)".
  `EvaluationIsOwn` and `VectorsAreOfOnePoint`, which `drape_optimize` checks, allow
  this and nothing else: before such a readback the points agree, and with it the
  number of steps still does.
* `MCJobsReplace.cfg` with `Drivers = {"g_job", "g_djob"}`, `MaxStarts = 2` and
  `Replaces = FALSE` violates `RuleFour` and
  `SubmitsAreOwned`. drape/main.cpp:114 says "rule 4 by
  construction"; a tick ends at its own job's submit only, and two job slots
  ticked in one frame share the device.
* `MCJobsReplace.cfg` with `INVARIANT RecordsOnIdleDevice`: a job that replaces
  one in flight and is ticked in the same frame records on a busy device
  (rd_compute.h:192-195: "nothing may be recorded until sync()").
* `MCDrapeSession.cfg` with `LiveConfig = TRUE` violates
  `FitReturnsWhatItBorrows`: `drape_config` of a live knob during a fit switches
  gravity back on.
* `MCGgmlJob.cfg` with `Envs = {"a", "b"}` and `INVARIANT JobKeepsItsSwitches`: a
  start that is refused has already set its switches for the job that runs
  (ggml_test/main.cpp:227). It has replaced `g_ops` as well (225-228); the model
  leaves that out, as no job of it reads them.
* `MCDrapeOptimize.cfg` with `HostMixes = TRUE` violates `EvaluationIsOwn` and
  `VectorsAreOfOnePoint`: a forward, a backward or a live knob of the host
  between an evaluation's entries changes what the driver is given. With
  `ForwardFails = {"wholeStep"}` it is violated too: a short readback fails a
  step that is counted, the backward accepts it, and the collector
  (main.cpp:645) looks at the backward's verdict only.

## 4. Fairness

`Jobs` and `DrapeSession` assume weak fairness of the tick and of the next frame:
Godot's main loop goes on, and `_process` ticks what is not idle in each frame.
`GgmlJob` assumes it of the guest's steps (a vmcall ends, or is killed by its
execution_timeout), of the host's and of the next frame; `DrapeOptimize` of the
tick. `Pipeline` assumes it of `_process`, of each worker call and of the drape
queue reaching IDLE, which is `GoesIdle` of `DrapeSession` for a solver whose
failures submit nothing (finding 1 is the other case). `DrapeQueue` asks for
weak fairness of its `Finish`, which the session's tick provides. Nothing is
assumed of the user: `RunEnds` is of runs with the scripted pen and of runs past
AUTHOR, since the bridge may keep a run waiting for the pen for ever. Starts
and host calls have no fairness. The runs of `Pipeline` and `DrapeOptimize` may
stop (every run or call made), so those configurations do not check deadlock;
all the others do.

## 5. Proofs

tlapm checks these for every value of the constants that satisfies the named
assumptions of the modules. Every safety property that a passing run checks is
also the statement of a theorem. Some theorems have hypotheses; each names an
input that breaks the property, and is what the passing run assumes too. (Where
code breaks a promise on an input the runs do allow, the property itself says
so: `ReadsTheRange` and `SubmittedTruth` unless `torn`, `ConvergesAtACycle` with
the step of a fit without a settle, `EvaluationIsOwn` and `VectorsAreOfOnePoint`
unless `opt.misread`: the first three items of "Further disagreements".)

| theorem | hypothesis | without it |
|---|---|---|
| `OneDriverKeepsRuleFour`, `OneDriverOwnsItsSubmits` | one job slot | two slots ticked in one frame share the device (section 3) |
| `SubmitsEndTheirTick` | `NoStrandedSubmit`: no operation fails with its list submitted | finding 1 |
| `BorrowedComesBack` | no live knob during an operation | section 3, `LiveConfig` |
| `DoneRunsAreAccounted` | no drape's forward fails | finding 2 |
| `VectorsStayOfOnePoint`, `EvaluationsAreOwn` | the host leaves a running optimize alone | section 3, `HostMixes` |
| `EvaluationsAreOwn` | no forward fails after a whole step | section 3, `"wholeStep"` |

* **RdComputeProofs.** The inductive invariant ties each program line to what
  must be true there: inside a recording both the flag and the host's list are
  up; between list_end's host call and its flag only the flag is; the lines of a
  method behind `recover()` are reached with the flag down. For
  `buffer_get_into` it says at each line how large the staging buffer is, that
  the chunk copied covers the next byte of the range, and that the bytes read so
  far are the range's first, and were copied on an idle device unless `torn`;
  the lemmas `Divides` to `SpanFits` are the arithmetic of rounding to words,
  from the division of natural numbers up. Theorems: `Types`, `FlagCovers`,
  `Recovers`, `ReadIsExact`, `SubmittedAgrees`. `SubmittedAgrees`, and of
  `ReadIsExact` that the bytes are the buffer's own, need the `torn` history
  variable, since a kill between `submit()`'s host call and its flag really does
  leave a wrong flag; that the spans stay in their buffers does not.
* **RdGraphProofs.** `ElisionExact`: for any nodes, graph and word layout. The
  invariant says that the segment sets hold exactly the ranges of the dispatches
  recorded since the last barrier, and that barrier counts never fall; the
  lemmas about `range_of` show that two tensors with a common word have
  overlapping widened ranges (the arithmetic of `x & ~3`). `Types` and
  `RecordsIdle` come from the same invariant.
  `SubmitsWhole` is an action property: the second invariant, `Packing`, says
  that the dispatches packed so far are the nodes before the next one that run.
  `RunsOf` says it with an embedding of the one sequence in the other, so that
  the step to the next node extends the embedding and needs no induction.
* **RdCachesProofs.** A cached set binds what its key says (`SetsBindTheirKey`),
  a recording takes only live sets (`RecordingsAreLive`), each dispatch has its
  own pipeline and sets bound (`BindingsAreOwn`), and no permanent slot leaks
  (`SlotsDoNotLeak`), whichever create fails. What makes the properties
  inductive is where each slot is: the invariant asserts that there is a ghost
  function `owner`, from each slot to the buffer, pipeline, set or uniform
  buffer that keeps it, so that two places never keep one slot and `forget` of
  one leaves the others' objects alone. What a kept object depends on is kept as
  well, which is why what Godot frees along with a buffer or a grown params
  table is never still in a cache. The steps of the preparation each say what
  the next needs: a shader before its pipeline, the table before the sets over
  it. `ListIs` carries the recording: what the loop compares with names the
  objects Godot has bound, because nothing is created or freed while a list is
  open.
* **GgmlJobProofs.** The first invariant follows the main thread through
  `pump_frame`: whose turn it is says which side may change what. A submit of
  this frame is one of the frame that is pumped; a call that waits for the GPU,
  once it has asked, is not resumed before the next pump; an upload is asked for
  on an idle device, and the guest does not run until it is carried. From it:
  `DeviceTurns` and `EndsAgree`, for every job, file, chunk size and frame
  budget. The second, `Bytewise`, follows the bytes of a read or an upload from
  the file through the host's feed and `State::in` to the buffer: what has arrived
  is a prefix of what was asked for, and what is on its way comes next. From it
  `ServesWhole` and `JobIsTyped`. An upload is assumed to fit its tensor
  (`JobAssumption`), which ggml-rd.cpp:566 checks.
* **JobsProofs.** `OneDriverKeepsRuleFour`, for any scripts and any
  replacements. The invariant: a submit made in this frame belongs to the
  running job, whose tick has then ended, or to a job parked in this frame; and
  then nothing that could sync can run before the next frame. For any slots,
  `ScriptsRunInOrder`: the stages run in the order in which they were pushed,
  those a stage inserts before those already queued, and none after the verdict.
  The queue is, subtree by subtree, the rest of the script; the scripts are
  numbered in that order (`NumberedAssumption`, which renames stages and
  restricts no job), so that a sequence of whole subtrees is a matter of
  neighbouring numbers. `OneDriverOwnsItsSubmits` is the action property that a
  submit in flight has a job or a parked job left to sync it.
* **DrapeSessionProofs.** One invariant over the whole session: the head of the
  queue says which operation the sim, the counters, the borrowed gravity and
  damp and the pull are in, and each operation's parts say what its counters
  have counted. It gives `SessionIsTyped`, `VerdictsAreHonest`,
  `BackwardsAreUndisturbed`, `PullComesBack` and `BorrowedComesBack`.
  `SessionKeepsItsQueue` is the refinement's safety part, `Spec =>
  Queue!Safety`: the initial state maps to an initial state of `DrapeQueue`, and
  each action to one of its steps or to a stutter. `SubmitsEndTheirTick` and
  `FitStopsAtACycle` (of fits with and without a settle) add a small invariant
  each: a submit of this frame is the running operation's own, and the step the
  loop is in belongs to its refresh cycle.
* **PipelineProofs.** A run goes through its states in order, so the invariant
  says state by state what the states before have left: a label or a real result
  for each part, the workers and the drape queue as this run's, nothing of an
  earlier run in the data. `LoopIsTyped`, `CallsWaitTheirTurn`, `ResultsAreOwn`,
  `DoneRunsAreAccounted`, for any options and any number of runs.
* **DrapeOptimizeProofs.** Two layers. Of any host: the driver keeps within its
  caps, and an optimize that runs has one entry of its own in the queue, the one
  the driver waits for, with its backward right before its collector
  (`OptimizeIsTyped`). Of a host that leaves it alone, until a readback of x
  fails: `At` says for each phase of the driver which points its vectors and
  scalars are of, and the queue is what is left of the evaluation asked for. One
  lemma for each operator of `Lbfgsb` says what it keeps, and those of the line
  search that the best point is where `lo_` says along every path
  (`VectorsStayOfOnePoint`, `EvaluationsAreOwn`).

Only model-checked are the liveness properties (`Completes`, `GoesIdle`,
`JobEnds`, `OptimizeEnds`, `RunEnds`) and the fairness that `KeepsItsQueue` asks
of the session, which are outside this prover. `WF_` and `ENABLED` are what they
rest on.

## 6. Not modelled

* Floating-point numerics and geometry: the kernels, the values of L-BFGS-B,
  curvenet's mesh, PolyFEM's solve. What is modelled of them is which data each
  result belongs to.
* Generated and vendored code. Nearly all of the repository's 666,000 lines are
  emitted kernels (`kernels/*/cpp/*_emit.cpp`, thousands of straight-line
  floating-point statements each, produced by the Lean sources) and third-party
  libraries. They have no state of their own and no control worth a transition
  system; the hand-written control code, which is what the modules above cover,
  is a small part of the tree, and the share of all lines that the models map is
  small for that reason.
* `fit.elf`'s driver and `curvenet.elf`'s API are seen from the pipeline only, as
  worker calls with their phases and results; their inside is the numerics
  above between one `begin` and its steps.
* Document I/O (`usd.elf` and its resolver), the gate scripts and probes, the
  controller poses of the pen bridge.
* Within the modelled parts: the recompute backward, `drape_primitive` and
  `drape_set_target`; the split of a transfer larger than the transfer cap; the
  ggml-rd profile and gate controls; the parsing of specs and parameters.

## 7. Plan

1. `FitDriver`: fit.elf's phases, checkpoints and failure flags, composed with
   `Pipeline`.
2. `DrapeSession`: `drape_primitive` under a backward and the recompute
   backward.
3. Proofs: what a host that mixes calls into a running optimize cannot break
   (which of the driver's vectors are still of one point).

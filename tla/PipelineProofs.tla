--------------------------- MODULE PipelineProofs ---------------------------
(***************************************************************************)
(* What the garment loop keeps, for any options, any number of runs and    *)
(* whatever its stages answer.  A run goes through its states in order, so *)
(* Inv says, state by state, what the states before it have left: a label  *)
(* or a real result for each of its parts (Labels), the workers and the    *)
(* drape queue as this run's (Calls, Queued), nothing of an earlier run in *)
(* its data (Own).                                                         *)
(***************************************************************************)
EXTENDS Pipeline, TLAPS

Sources == {"none", "fixture", "curvenet", "fit", "avbd", "drape", "failed forward"}
Entries == {"body", "joints", "garment", "fitted", "fit_begin", "check", "drape"}
EntryT == [from : Sources, run : Nat]
DataT == [body : EntryT, joints : EntryT, garment : EntryT, fitted : EntryT,
          fit_begin : EntryT, check : EntryT, drape : EntryT, fit_fixture : BOOLEAN]
PenT == [external : BOOLEAN, queue : 0..Strokes, finished : BOOLEAN]
CallT == [alive : BOOLEAN, result : {"null", "ok", "FAIL"}, run : Nat]
DrapeT == [running : BOOLEAN, op : {"none", "fit", "forward"}, ok : BOOLEAN, run : Nat,
           cfg : {"drape", "fit"}]

OptOK(o) ==
  /\ o.mode \in {"avbd", "polyfem", "bad"} /\ o.allow \subseteq Keys /\ o.force \subseteq Keys
  /\ o.stop \in States \cup {""}

Machine ==
  /\ state \in States \cup TERMINAL /\ first \in BOOLEAN /\ records \in Seq(States)
  /\ OptOK(opts) /\ fixtures \subseteq Keys /\ run \in 0..MaxRuns

Stages ==
  /\ data \in DataT /\ pen \in PenT
  /\ worker \in [{"curvenet", "fit"} -> CallT] /\ phase \in 0..FitPhases
  /\ drape \in DrapeT /\ cfg \in {"drape", "fit"}

\* The states from one on, and the end of a whole run.
DrapeOn == {"DRAPE", "DRAPE_COLLECT"}
CheckOn == {"CHECK", "DRAPE", "DRAPE_COLLECT"}
FitOn == {"FIT_BEGIN", "FIT_RUN", "FIT_READ", "CHECK", "DRAPE", "DRAPE_COLLECT"}
AuthorOn == {"AUTHOR", "MESH", "FIT_BEGIN", "FIT_RUN", "FIT_READ", "CHECK", "DRAPE", "DRAPE_COLLECT"}
RigOn == {"RIG", "AUTHOR", "MESH", "FIT_BEGIN", "FIT_RUN", "FIT_READ", "CHECK", "DRAPE",
          "DRAPE_COLLECT"}
Whole == state = "DONE" /\ opts.stop = "" /\ opts.mode # "bad"

\* What each part is from, or the label that says it is a fixture.
Labels ==
  /\ state \in RigOn \/ Whole => "infer" \in fixtures
  /\ state \in AuthorOn \/ Whole => "rig" \in fixtures
  /\ data.garment.from \in {"none", "curvenet"} \/ "curvenet" \in fixtures
  /\ state \in FitOn \/ Whole => data.garment.from # "none"
  /\ data.fitted.from \in {"none", "fit", "avbd"} \/ "fit" \in fixtures
  /\ state \in CheckOn \/ Whole => data.fitted.from # "none"
  /\ state \in DrapeOn \/ Whole => data.check.from = "fit" \/ "fit" \in fixtures
  /\ ~ForwardFails /\ Whole => data.drape.from = "drape" \/ "drape" \in fixtures

\* The flag CHECK reads: set by FIT_BEGIN for a fixture that is labelled.
Flags ==
  /\ data.fit_fixture => "fit" \in fixtures
  /\ state \in {"INFER", "RIG", "AUTHOR", "MESH", "FIT_BEGIN"} => ~data.fit_fixture
  /\ state = "FIT_RUN" /\ ~avbd => ~data.fit_fixture
  /\ state = "FIT_READ" /\ ~avbd /\ data.fit_fixture => data.fitted.from = "fixture"

\* No part is of an earlier run.
Ours(e) == e.from # "none" => e.run = run
Own ==
  /\ Ours(data.body) /\ Ours(data.joints) /\ Ours(data.garment) /\ Ours(data.fitted)
  /\ Ours(data.fit_begin) /\ Ours(data.check) /\ Ours(data.drape)

\* Which worker may have a call in flight, and whose its last call is.
Calls ==
  /\ state \in {"INFER", "RIG", "AUTHOR"} => ~busy("curvenet") /\ ~busy("fit")
  /\ state = "MESH" =>
       /\ ~busy("fit")
       /\ first \/ data.garment.from # "none" => ~busy("curvenet")
       /\ ~first => worker["curvenet"].run = run
  /\ state \in FitOn => ~busy("curvenet")
  /\ state = "FIT_BEGIN" => IF first THEN ~busy("fit") ELSE worker["fit"].run = run
  /\ state \in {"FIT_RUN", "FIT_READ", "CHECK"} =>
       IF data.fit_fixture THEN ~busy("fit") ELSE worker["fit"].run = run
  /\ state = "FIT_RUN" /\ ~avbd /\ ~first => phase < FitPhases
  /\ state = "FIT_READ" /\ ~avbd => ~busy("fit")
  /\ state \in DrapeOn => ~busy("fit")

\* The operation the drape stage's queue has.
Queued ==
  /\ state = "FIT_BEGIN" /\ ~first => ~avbd
  /\ state \in {"FIT_RUN", "FIT_READ"} /\ avbd => drape.run = run
  /\ state = "DRAPE_COLLECT" => drape.run = run /\ drape.op = "forward"
  /\ ~ForwardFails /\ drape.op = "forward" /\ ~drape.running => drape.ok

Inv == Machine /\ Stages /\ Labels /\ Flags /\ Own /\ Calls /\ Queued

-----------------------------------------------------------------------------
LEMMA Bounds ==
  /\ Strokes \in Nat /\ FitPhases \in Nat /\ MaxRuns \in Nat /\ PenExternals \subseteq BOOLEAN
  /\ 0 \in 0..Strokes /\ Strokes \in 0..Strokes /\ 0 \in 0..FitPhases /\ 0 \in 0..MaxRuns
<1>1. Strokes \in Nat /\ FitPhases \in Nat /\ MaxRuns \in Nat /\ PenExternals \subseteq BOOLEAN
  BY PipelineAssumption, Zenon
<1>2. QED
  BY <1>1

LEMMA StatesAre ==
  States = {"INFER", "RIG", "AUTHOR", "MESH", "FIT_BEGIN", "FIT_RUN", "FIT_READ",
           "CHECK", "DRAPE", "DRAPE_COLLECT"}
  BY DEF States, Order

\* A state is left for the next, or for DONE when the run was to stop there.
Left(next) ==
  /\ state' \in {next, "DONE"} /\ (opts.stop = "" => state' = next) /\ first' = TRUE
  /\ records' \in Seq(States)

LEMMA GotoLeaves ==
  ASSUME Machine, state \in States, NEW next, Goto(next)
  PROVE  Left(next)
<1>1. records' = Append(records, state) /\ first' = TRUE
      /\ state' = (IF opts.stop = state THEN "DONE" ELSE next)
  BY DEF Goto, Enter
<1>2. state # ""
  BY StatesAre
<1>3. records' \in Seq(States)
  BY <1>1 DEF Machine
<1>4. QED
  BY <1>1, <1>2, <1>3 DEF Left

LEMMA FailLeaves ==
  ASSUME Machine, state \in States, Fail
  PROVE  state' = "FAILED" /\ first' = TRUE /\ records' \in Seq(States)
  BY DEF Fail, Enter, Machine

LEMMA LeftMachine ==
  ASSUME Machine, NEW next \in States \cup TERMINAL, Left(next), UNCHANGED <<opts, run>>,
         fixtures' \subseteq Keys
  PROVE  Machine'
<1>1. state' \in States \cup TERMINAL /\ first' \in BOOLEAN /\ records' \in Seq(States)
  BY DEF Left, TERMINAL
<1>2. QED
  BY <1>1, Zenon DEF Machine

\* A run that fails: Inv asks little more than the types.
LEMMA FailedKeeps ==
  ASSUME Inv, state \in States, Fail, UNCHANGED <<opts, run>>, Stages', Own',
         fixtures \subseteq fixtures', fixtures' \subseteq Keys,
         data'.garment = data.garment \/ data'.garment.from = "curvenet" \/ "curvenet" \in fixtures',
         data'.fitted = data.fitted \/ data'.fitted.from \in {"fit", "avbd"} \/ "fit" \in fixtures',
         data'.fit_fixture => data.fit_fixture \/ "fit" \in fixtures',
         ~ForwardFails /\ drape'.op = "forward" /\ ~drape'.running => drape'.ok
  PROVE  Inv'
<1>1. state' = "FAILED" /\ first' = TRUE /\ records' \in Seq(States)
  BY FailLeaves DEF Inv
<1>2. Machine'
  <2>1. state' \in States \cup TERMINAL /\ first' \in BOOLEAN
    BY <1>1 DEF TERMINAL
  <2>2. QED
    BY <1>1, <2>1, Zenon DEF Inv, Machine
<1>3. Labels'
  BY <1>1 DEF Inv, Labels, Whole, RigOn, AuthorOn, FitOn, CheckOn, DrapeOn
<1>4. Flags'
  BY <1>1 DEF Inv, Flags
<1>5. Calls'
  BY <1>1 DEF Calls, FitOn, DrapeOn
<1>6. Queued'
  BY <1>1 DEF Queued
<1>7. QED
  BY <1>2, <1>3, <1>4, <1>5, <1>6 DEF Inv

LEMMA FailsAlone ==
  ASSUME Inv, state \in States, Fail, Stages', UNCHANGED <<opts, fixtures, data, drape, run>>
  PROVE  Inv'
<1>1. Own'
  BY Zenon DEF Inv, Own, Ours
<1>2. fixtures' \subseteq Keys
  BY DEF Inv, Machine
<1>3. ~ForwardFails /\ drape'.op = "forward" /\ ~drape'.running => drape'.ok
  BY DEF Inv, Queued
<1>4. data'.fit_fixture => data.fit_fixture
  BY DEF Inv, Stages, DataT
<1>5. QED
  BY <1>1, <1>2, <1>3, <1>4, FailedKeeps

LEMMA NotRunnableKeeps ==
  ASSUME Inv, state \in States, NEW key, NotRunnable(key), UNCHANGED <<opts, run>>
  PROVE  Inv'
<1>1. Stages'
  BY Zenon DEF NotRunnable, Inv, Stages
<1>2. QED
  BY <1>1, FailsAlone DEF NotRunnable

LEMMA InitEstablishes ==
  ASSUME Init
  PROVE  Inv
<1>1. Machine
  <2>1. OptOK(opts)
    BY DEF Init, OptOK
  <2>2. records \in Seq(States)
    <3>1. records = <<>>
      BY DEF Init
    <3>2. QED
      BY <3>1
  <2>3. state \in TERMINAL /\ first \in BOOLEAN /\ fixtures \subseteq Keys /\ run \in 0..MaxRuns
    BY Bounds DEF Init, TERMINAL
  <2>4. QED
    BY <2>1, <2>2, <2>3 DEF Machine
<1>2. Stages
  <2>1. data \in DataT
    BY DEF Init, DataT, EntryT, Sources, NoData, Absent
  <2>2. pen \in PenT
    <3>1. 0 \in 0..Strokes /\ PenExternals \subseteq BOOLEAN
      BY Bounds
    <3>2. PICK p \in [external : PenExternals, queue : {0}, finished : {FALSE}] : pen = p
      BY DEF Init
    <3>3. p \in [external : BOOLEAN, queue : 0..Strokes, finished : BOOLEAN]
      BY <3>1, <3>2
    <3>4. QED
      BY <3>2, <3>3 DEF PenT
  <2>3. worker \in [{"curvenet", "fit"} -> CallT]
    BY DEF Init, NoCall, CallT
  <2>4. drape \in DrapeT /\ cfg \in {"drape", "fit"}
    BY DEF Init, DrapeT
  <2>5. phase \in 0..FitPhases
    BY Bounds DEF Init
  <2>6. QED
    BY <2>1, <2>2, <2>3, <2>4, <2>5 DEF Stages
<1>3. Labels /\ Flags
  BY DEF Init, Labels, Flags, NoData, Absent, Whole, RigOn, AuthorOn, FitOn, CheckOn, DrapeOn
<1>4. Own
  BY DEF Init, Own, Ours, NoData, Absent
<1>5. Calls /\ Queued
  BY DEF Init, Calls, Queued, FitOn, DrapeOn
<1>6. QED
  BY <1>1, <1>2, <1>3, <1>4, <1>5 DEF Inv

LEMMA MachineStays ==
  ASSUME Inv, UNCHANGED <<state, first, opts, fixtures, data, records, run>>
  PROVE  Machine' /\ Labels' /\ Flags' /\ Own' /\ data' \in DataT
<1>1. Machine'
  BY Zenon DEF Inv, Machine
<1>2. Labels'
  BY Zenon DEF Inv, Labels, Whole
<1>3. Flags'
  BY Zenon DEF Inv, Flags, avbd
<1>4. Own'
  BY Zenon DEF Inv, Own, Ours
<1>5. data' \in DataT
  BY DEF Inv, Stages
<1>6. QED
  BY <1>1, <1>2, <1>3, <1>4, <1>5

LEMMA CallsStay ==
  ASSUME Inv, UNCHANGED <<state, first, opts, data, worker, phase, run>>
  PROVE  Calls'
  BY Zenon DEF Inv, Calls, avbd, busy

LEMMA QueuedStays ==
  ASSUME Inv, UNCHANGED <<state, first, opts, drape, run>>
  PROVE  Queued'
  BY Zenon DEF Inv, Queued, avbd

-----------------------------------------------------------------------------
(* Control, and what ends beside the machine.                              *)

LEMMA StartKeeps ==
  ASSUME Inv, NEW o \in Opts, Start(o)
  PROVE  Inv'
<1>1. /\ state \in TERMINAL /\ ~busy("curvenet") /\ ~busy("fit")
      /\ opts' = o /\ fixtures' = {} /\ records' = <<>> /\ data' = NoData
      /\ pen' = [pen EXCEPT !.queue = 0, !.finished = FALSE]
      /\ run < MaxRuns /\ run' = run + 1
      /\ UNCHANGED <<worker, phase, drape, cfg>>
      /\ IF o.mode = "bad" THEN UNCHANGED <<state, first>> ELSE state' = "INFER" /\ first' = TRUE
  BY DEF Start, StartRefused, DataAtStart, RecordsAtStart, Inv, Stages
<1>2. OptOK(o) 
  BY PipelineAssumption DEF OptOK
<1>3. Machine'
  <2>1. state' \in States \cup TERMINAL /\ first' \in BOOLEAN
    BY <1>1, StatesAre DEF Inv, Machine
  <2>2. records' \in Seq(States) /\ fixtures' \subseteq Keys
    BY <1>1
  <2>3. run' \in 0..MaxRuns
    BY <1>1, Bounds DEF Inv, Machine
  <2>4. QED
    BY <1>1, <1>2, <2>1, <2>2, <2>3, Zenon DEF Machine
<1>4. pen' \in PenT
  <2>1. PICK n \in 0..Strokes, f \in BOOLEAN : n = 0 /\ f = FALSE
    BY Bounds
  <2>2. pen' = [pen EXCEPT !.queue = n, !.finished = f]
    BY <1>1, <2>1
  <2>3. QED
    BY <2>2 DEF Inv, Stages, PenT
<1>5. NoData \in DataT
  BY DEF NoData, Absent, DataT, EntryT, Sources
<1>6. Stages'
  BY <1>1, <1>4, <1>5 DEF Inv, Stages
<1>7. Labels' /\ Flags'
  BY <1>1 DEF Labels, Flags, NoData, Absent, Whole, RigOn, AuthorOn, FitOn, CheckOn, DrapeOn, TERMINAL
<1>8. Own'
  BY <1>1 DEF Own, Ours, NoData, Absent
<1>9. Calls' /\ Queued'
  BY <1>1 DEF Inv, Calls, Queued, FitOn, DrapeOn, TERMINAL, busy
<1>10. QED
  BY <1>3, <1>6, <1>7, <1>8, <1>9 DEF Inv

LEMMA PenTypes ==
  ASSUME Inv, PenEvent \/ PenFinish
  PROVE  pen' \in PenT
<1>1. pen \in PenT
  BY DEF Inv, Stages
<1>2. CASE PenEvent
  <2>1. PICK n \in 0..Strokes : n = pen.queue + 1
    <3>1. pen.queue < Strokes /\ pen.queue \in 0..Strokes
      BY <1>1, <1>2 DEF PenEvent, PenT
    <3>2. QED
      BY <3>1, Bounds
  <2>2. pen' = [pen EXCEPT !.queue = n]
    BY <1>2, <2>1 DEF PenEvent
  <2>3. QED
    BY <1>1, <2>2 DEF PenT
<1>3. CASE PenFinish
  <2>1. PICK f \in BOOLEAN : f = TRUE
    OBVIOUS
  <2>2. pen' = [pen EXCEPT !.finished = f]
    BY <1>3, <2>1 DEF PenFinish
  <2>3. QED
    BY <1>1, <2>2 DEF PenT
<1>4. QED
  BY <1>2, <1>3

LEMMA PenKeeps ==
  ASSUME Inv, PenEvent \/ PenFinish
  PROVE  Inv'
<1>1. UNCHANGED <<state, first, opts, fixtures, data, records, worker, phase, drape, cfg, run>>
  BY DEF PenEvent, PenFinish
<1>2. Machine' /\ Labels' /\ Flags' /\ Own' /\ Calls' /\ Queued'
  BY <1>1, MachineStays, CallsStay, QueuedStays
<1>3. Stages'
  BY <1>1, PenTypes DEF Inv, Stages
<1>4. QED
  BY <1>2, <1>3 DEF Inv

LEMMA WorkerEndsKeeps ==
  ASSUME Inv, NEW s \in {"curvenet", "fit"}, WorkerEnds(s)
  PROVE  Inv'
<1>1. UNCHANGED <<state, first, opts, fixtures, data, records, pen, phase, drape, cfg, run>>
  BY DEF WorkerEnds
<1>2. PICK out \in {"ok", "FAIL"} : worker' = [worker EXCEPT ![s].alive = FALSE, ![s].result = out]
  BY DEF WorkerEnds
<1>3. /\ worker' \in [{"curvenet", "fit"} -> CallT]
      /\ \A c \in {"curvenet", "fit"} :
           worker'[c].run = worker[c].run /\ (worker'[c].alive => worker[c].alive)
  BY <1>2 DEF Inv, Stages, CallT
<1>4. \A c \in {"curvenet", "fit"} : busy(c)' => busy(c)
  BY <1>3 DEF busy
<1>5. Machine' /\ Labels' /\ Flags' /\ Own' /\ Queued'
  BY <1>1, MachineStays, QueuedStays
<1>6. Stages'
  BY <1>1, <1>3 DEF Inv, Stages
<1>7. Calls'
  BY <1>1, <1>3, <1>4 DEF Inv, Calls, avbd
<1>8. QED
  BY <1>5, <1>6, <1>7 DEF Inv

LEMMA DrapeIdleKeeps ==
  ASSUME Inv, DrapeIdle
  PROVE  Inv'
<1>1. UNCHANGED <<state, first, opts, fixtures, data, records, pen, worker, phase, cfg, run>>
  BY DEF DrapeIdle
<1>2. PICK ok \in BOOLEAN : /\ ok \/ drape.op = "fit" \/ ForwardFails
                            /\ drape' = [drape EXCEPT !.running = FALSE, !.ok = ok]
  BY DEF DrapeIdle
<1>3. /\ drape' \in DrapeT /\ drape'.op = drape.op /\ drape'.run = drape.run
      /\ drape'.op = "forward" /\ ~ForwardFails => drape'.ok
  BY <1>2 DEF Inv, Stages, DrapeT
<1>4. Machine' /\ Labels' /\ Flags' /\ Own' /\ Calls'
  BY <1>1, MachineStays, CallsStay
<1>5. Stages'
  BY <1>1, <1>3 DEF Inv, Stages
<1>6. Queued'
  BY <1>1, <1>3 DEF Inv, Queued, avbd
<1>7. QED
  BY <1>4, <1>5, <1>6 DEF Inv

-----------------------------------------------------------------------------
(* The states.                                                             *)

\* An entry of data set.
Sets(key, e) ==
  /\ data' \in DataT /\ data'.fit_fixture = data.fit_fixture
  /\ data'[key] = e
  /\ key # "body" => data'.body = data.body
  /\ key # "joints" => data'.joints = data.joints
  /\ key # "garment" => data'.garment = data.garment
  /\ key # "fitted" => data'.fitted = data.fitted
  /\ key # "fit_begin" => data'.fit_begin = data.fit_begin
  /\ key # "check" => data'.check = data.check
  /\ key # "drape" => data'.drape = data.drape

LEMMA Entry ==
  ASSUME NEW src \in Sources, NEW r \in Nat
  PROVE  From(src, r) \in EntryT /\ From(src, r).from = src /\ From(src, r).run = r
  BY DEF From, EntryT

LEMMA OwnEntry ==
  ASSUME Machine, NEW src \in Sources
  PROVE  \E e \in EntryT : e = From(src, run) /\ e.run = run /\ e.from = src
<1>1. PICK r \in Nat : r = run
  BY Bounds DEF Machine
<1>2. PICK e : e = From(src, r)
  OBVIOUS
<1>3. e \in EntryT /\ e.run = r /\ e.from = src
  BY <1>2, Entry
<1>4. QED
  BY <1>1, <1>2, <1>3

LEMMA SetsEarly ==
  ASSUME data \in DataT, NEW e \in EntryT
  PROVE  /\ data' = [data EXCEPT !["body"] = e] => Sets("body", e)
         /\ data' = [data EXCEPT !["joints"] = e] => Sets("joints", e)
         /\ data' = [data EXCEPT !["garment"] = e] => Sets("garment", e)
<1>1. ASSUME data' = [data EXCEPT !["body"] = e] PROVE Sets("body", e)
  BY <1>1 DEF Sets, DataT
<1>2. ASSUME data' = [data EXCEPT !["joints"] = e] PROVE Sets("joints", e)
  BY <1>2 DEF Sets, DataT
<1>3. ASSUME data' = [data EXCEPT !["garment"] = e] PROVE Sets("garment", e)
  BY <1>3 DEF Sets, DataT
<1>4. QED
  BY <1>1, <1>2, <1>3

LEMMA SetsLate ==
  ASSUME data \in DataT, NEW e \in EntryT
  PROVE  /\ data' = [data EXCEPT !.fitted = e] => Sets("fitted", e)
         /\ data' = [data EXCEPT !.fit_begin = e] => Sets("fit_begin", e)
         /\ data' = [data EXCEPT !.drape = e] => Sets("drape", e)
<1>1. ASSUME data' = [data EXCEPT !.fitted = e] PROVE Sets("fitted", e)
  BY <1>1 DEF Sets, DataT
<1>2. ASSUME data' = [data EXCEPT !.fit_begin = e] PROVE Sets("fit_begin", e)
  BY <1>2 DEF Sets, DataT
<1>3. ASSUME data' = [data EXCEPT !.drape = e] PROVE Sets("drape", e)
  BY <1>3 DEF Sets, DataT
<1>4. QED
  BY <1>1, <1>2, <1>3

\* What is made by this run is its own.
LEMMA SetsOwn ==
  ASSUME Inv, UNCHANGED run, NEW key \in Entries, NEW e \in EntryT, Ours(e), Sets(key, e)
  PROVE  Own'
<1>1. /\ Ours(data.body) /\ Ours(data.joints) /\ Ours(data.garment) /\ Ours(data.fitted)
      /\ Ours(data.fit_begin) /\ Ours(data.check) /\ Ours(data.drape)
  BY DEF Inv, Own
<1>2. /\ Ours(data'.body) /\ Ours(data'.joints) /\ Ours(data'.garment) /\ Ours(data'.fitted)
      /\ Ours(data'.fit_begin) /\ Ours(data'.check) /\ Ours(data'.drape)
  <2>1. CASE key = "body"
    BY <1>1, <2>1 DEF Sets
  <2>2. CASE key = "joints"
    BY <1>1, <2>2 DEF Sets
  <2>3. CASE key = "garment"
    BY <1>1, <2>3 DEF Sets
  <2>4. CASE key = "fitted"
    BY <1>1, <2>4 DEF Sets
  <2>5. CASE key = "fit_begin"
    BY <1>1, <2>5 DEF Sets
  <2>6. CASE key = "check"
    BY <1>1, <2>6 DEF Sets
  <2>7. CASE key = "drape"
    BY <1>1, <2>7 DEF Sets
  <2>8. QED
    BY <2>1, <2>2, <2>3, <2>4, <2>5, <2>6, <2>7 DEF Entries
<1>3. QED
  BY <1>2 DEF Own, Ours

\* A fixture that cannot be read fails the run, labelled or not.
LEMMA LabelledFails ==
  ASSUME Inv, state \in States, NEW key \in Keys, Label(key), Fail,
         UNCHANGED <<opts, data, pen, worker, phase, drape, cfg, run>>
  PROVE  Inv'
<1>1. fixtures \subseteq fixtures' /\ fixtures' \subseteq Keys
  BY DEF Label, Inv, Machine
<1>2. Stages'
  BY Zenon DEF Inv, Stages
<1>3. Own'
  BY Zenon DEF Inv, Own, Ours
<1>4. ~ForwardFails /\ drape'.op = "forward" /\ ~drape'.running => drape'.ok
  BY DEF Inv, Queued
<1>5. data'.fit_fixture => data.fit_fixture
  BY DEF Inv, Stages, DataT
<1>6. QED
  BY <1>1, <1>2, <1>3, <1>4, <1>5, FailedKeeps

\* A frame of AUTHOR that changes nothing but the pen.
LEMMA StayKeeps ==
  ASSUME Inv, state = "AUTHOR", Stay, pen' \in PenT,
         UNCHANGED <<opts, fixtures, data, worker, phase, drape, cfg, run>>
  PROVE  Inv'
<1>1. state' = "AUTHOR" /\ first' = FALSE /\ records' = records
  BY DEF Stay
<1>2. Machine'
  <2>1. state' \in States \cup TERMINAL /\ first' \in BOOLEAN
    BY <1>1, StatesAre
  <2>2. QED
    BY <1>1, <2>1, Zenon DEF Inv, Machine
<1>3. Stages'
  BY DEF Inv, Stages
<1>4. Labels' /\ Flags'
  BY <1>1, Zenon DEF Inv, Labels, Flags, Whole, avbd
<1>5. Own'
  BY Zenon DEF Inv, Own, Ours
<1>6. Calls' /\ Queued'
  BY <1>1 DEF Inv, Calls, Queued, FitOn, DrapeOn, busy
<1>7. QED
  BY <1>2, <1>3, <1>4, <1>5, <1>6 DEF Inv

LEMMA InferKeeps ==
  ASSUME Inv, Infer
  PROVE  Inv'
<1>1. /\ state = "INFER" /\ state \in States /\ UNCHANGED <<opts, run>>
      /\ Machine /\ Stages /\ run \in Nat
  BY StatesAre DEF Infer, FixtureState, Inv, Machine
<1>2. CASE NotRunnable("infer")
  BY <1>1, <1>2, NotRunnableKeeps
<1>3. ASSUME Label("infer"), Fail, UNCHANGED data, UNCHANGED <<pen, worker, phase, drape, cfg>>
      PROVE  Inv'
  BY <1>1, <1>3, LabelledFails DEF Keys
<1>4. ASSUME Label("infer"), Put("body", "fixture"), Goto("RIG"),
             UNCHANGED <<pen, worker, phase, drape, cfg>>
      PROVE  Inv'
  <2>1. fixtures' = fixtures \cup {"infer"} /\ fixtures' \subseteq Keys
    BY <1>1, <1>4 DEF Label, Machine, Keys
  <2>2. PICK e \in EntryT : e = From("fixture", run) /\ e.run = run /\ e.from = "fixture"
    BY <1>1, OwnEntry DEF Sources
  <2>3. Sets("body", e)
    BY <1>1, <1>4, <2>2, SetsEarly DEF Put, Stages
  <2>4. Left("RIG")
    BY <1>1, <1>4, GotoLeaves
  <2>5. Machine'
    BY <1>1, <2>1, <2>4, StatesAre, LeftMachine
  <2>6. Stages'
    BY <1>4, <2>3 DEF Inv, Stages, Sets
  <2>7. Own'
    BY <1>1, <2>2, <2>3, SetsOwn DEF Ours, Entries
  <2>8. Labels' /\ Flags'
    BY <1>1, <2>1, <2>3, <2>4 DEF Inv, Labels, Flags, Whole, Left, Sets, RigOn, AuthorOn, FitOn, CheckOn, DrapeOn
  <2>9. Calls' /\ Queued'
    BY <1>1, <1>4, <2>4 DEF Inv, Calls, Queued, Left, FitOn, DrapeOn, busy
  <2>10. QED
    BY <2>5, <2>6, <2>7, <2>8, <2>9 DEF Inv
<1>5. QED
  BY <1>2, <1>3, <1>4 DEF Infer, FixtureState

LEMMA RigKeeps ==
  ASSUME Inv, Rig
  PROVE  Inv'
<1>1. /\ state = "RIG" /\ state \in States /\ UNCHANGED <<opts, run>>
      /\ Machine /\ Stages /\ run \in Nat
  BY StatesAre DEF Rig, FixtureState, Inv, Machine
<1>2. CASE NotRunnable("rig")
  BY <1>1, <1>2, NotRunnableKeeps
<1>3. ASSUME Label("rig"), Fail, UNCHANGED data, UNCHANGED <<pen, worker, phase, drape, cfg>>
      PROVE  Inv'
  BY <1>1, <1>3, LabelledFails DEF Keys
<1>4. ASSUME Label("rig"), Put("joints", "fixture"), Goto("AUTHOR"),
             UNCHANGED <<pen, worker, phase, drape, cfg>>
      PROVE  Inv'
  <2>1. fixtures' = fixtures \cup {"rig"} /\ fixtures' \subseteq Keys
    BY <1>1, <1>4 DEF Label, Machine, Keys
  <2>2. PICK e \in EntryT : e = From("fixture", run) /\ e.run = run /\ e.from = "fixture"
    BY <1>1, OwnEntry DEF Sources
  <2>3. Sets("joints", e)
    BY <1>1, <1>4, <2>2, SetsEarly DEF Put, Stages
  <2>4. Left("AUTHOR")
    BY <1>1, <1>4, GotoLeaves
  <2>5. Machine'
    BY <1>1, <2>1, <2>4, StatesAre, LeftMachine
  <2>6. Stages'
    BY <1>4, <2>3 DEF Inv, Stages, Sets
  <2>7. Own'
    BY <1>1, <2>2, <2>3, SetsOwn DEF Ours, Entries
  <2>8. Labels' /\ Flags'
    BY <1>1, <2>1, <2>3, <2>4 DEF Inv, Labels, Flags, Whole, Left, Sets, RigOn, AuthorOn, FitOn, CheckOn, DrapeOn
  <2>9. Calls' /\ Queued'
    BY <1>1, <1>4, <2>4 DEF Inv, Calls, Queued, Left, FitOn, DrapeOn, busy
  <2>10. QED
    BY <2>5, <2>6, <2>7, <2>8, <2>9 DEF Inv
<1>5. QED
  BY <1>2, <1>3, <1>4 DEF Rig, FixtureState

LEMMA AuthorFirstKeeps ==
  ASSUME Inv, AuthorFirst
  PROVE  Inv'
<1>1. /\ state = "AUTHOR" /\ state \in States /\ UNCHANGED <<opts, run>>
      /\ Machine /\ Stages /\ run \in Nat
  BY StatesAre DEF AuthorFirst, Inv, Machine
<1>2. CASE NotRunnable("curvenet")
  BY <1>1, <1>2, NotRunnableKeeps
<1>3. ASSUME Label("curvenet"), Fail, UNCHANGED data, UNCHANGED <<pen, worker, phase, drape, cfg>>
      PROVE  Inv'
  BY <1>1, <1>3, LabelledFails DEF Keys
<1>4. ASSUME Label("curvenet"), Put("garment", "fixture"), Goto("MESH"),
             UNCHANGED <<pen, worker, phase, drape, cfg>>
      PROVE  Inv'
  <2>1. fixtures' = fixtures \cup {"curvenet"} /\ fixtures' \subseteq Keys
    BY <1>1, <1>4 DEF Label, Machine, Keys
  <2>2. PICK e \in EntryT : e = From("fixture", run) /\ e.run = run /\ e.from = "fixture"
    BY <1>1, OwnEntry DEF Sources
  <2>3. Sets("garment", e)
    BY <1>1, <1>4, <2>2, SetsEarly DEF Put, Stages
  <2>4. Left("MESH")
    BY <1>1, <1>4, GotoLeaves
  <2>5. Machine'
    BY <1>1, <2>1, <2>4, StatesAre, LeftMachine
  <2>6. Stages'
    BY <1>4, <2>3 DEF Inv, Stages, Sets
  <2>7. Own'
    BY <1>1, <2>2, <2>3, SetsOwn DEF Ours, Entries
  <2>8. Labels' /\ Flags'
    BY <1>1, <2>1, <2>3, <2>4 DEF Inv, Labels, Flags, Whole, Left, Sets, RigOn, AuthorOn, FitOn, CheckOn, DrapeOn
  <2>9. Calls' /\ Queued'
    BY <1>1, <1>4, <2>4 DEF Inv, Calls, Queued, Left, FitOn, DrapeOn, busy
  <2>10. QED
    BY <2>5, <2>6, <2>7, <2>8, <2>9 DEF Inv
<1>5. ASSUME Stay, UNCHANGED <<fixtures, data, worker, phase, drape, cfg>>,
             pen' = IF pen.external THEN pen ELSE [pen EXCEPT !.queue = Strokes, !.finished = TRUE]
      PROVE  Inv'
  <2>1. pen' \in PenT
    <3>1. PICK n \in 0..Strokes, f \in BOOLEAN : n = Strokes /\ f = TRUE
      BY Bounds
    <3>2. pen' = pen \/ pen' = [pen EXCEPT !.queue = n, !.finished = f]
      BY <1>5, <3>1
    <3>3. QED
      BY <1>1, <3>2 DEF Stages, PenT
  <2>2. QED
    BY <1>1, <1>5, <2>1, StayKeeps
<1>6. ASSUME Fail, UNCHANGED <<fixtures, data, pen, worker, phase, drape, cfg>>
      PROVE  Inv'
  <2>1. Stages'
    BY <1>6, Zenon DEF Inv, Stages
  <2>2. QED
    BY <1>1, <1>6, <2>1, FailsAlone
<1>7. QED
  BY <1>2, <1>3, <1>4, <1>5, <1>6 DEF AuthorFirst

LEMMA AuthorKeeps ==
  ASSUME Inv, Author
  PROVE  Inv'
<1>1. /\ state = "AUTHOR" /\ state \in States /\ Machine /\ Stages
      /\ UNCHANGED <<opts, fixtures, data, worker, phase, drape, cfg, run>>
  BY StatesAre DEF Author, Inv
<1>2. pen' \in PenT
  <2>1. PICK n \in 0..Strokes : pen' = [pen EXCEPT !.queue = n]
    <3>1. pen.queue \in 0..Strokes
      BY <1>1 DEF Stages, PenT
    <3>2. PICK n \in 0..Strokes, z \in 0..Strokes :
            z = 0 /\ (pen.queue > 0 => n = pen.queue - 1) /\ (~(pen.queue > 0) => n = z)
      BY <3>1, Bounds
    <3>3. QED
      BY <3>2 DEF Author
  <2>2. QED
    BY <1>1, <2>1 DEF Stages, PenT
<1>3. Stages'
  BY <1>1, <1>2 DEF Stages
<1>4. CASE Fail
  BY <1>1, <1>3, <1>4, FailsAlone
<1>5. CASE Stay
  BY <1>1, <1>2, <1>5, StayKeeps
<1>6. CASE Goto("MESH")
  <2>1. Left("MESH")
    BY <1>1, <1>6, GotoLeaves
  <2>2. Machine'
    <3>1. fixtures' \subseteq Keys
      BY <1>1 DEF Machine
    <3>2. QED
      BY <1>1, <2>1, <3>1, StatesAre, LeftMachine
  <2>3. Labels' /\ Flags'
    BY <1>1, <2>1 DEF Inv, Labels, Flags, Whole, Left, RigOn, AuthorOn, FitOn, CheckOn, DrapeOn
  <2>4. Own'
    BY <1>1, Zenon DEF Inv, Own, Ours
  <2>5. Calls' /\ Queued'
    BY <1>1, <2>1 DEF Inv, Calls, Queued, Left, FitOn, DrapeOn, busy
  <2>6. QED
    BY <1>3, <2>2, <2>3, <2>4, <2>5 DEF Inv
<1>7. QED
  BY <1>4, <1>5, <1>6 DEF Author

\* A worker call started is this run's; the other worker goes on as it was.
LEMMA StartsCall ==
  ASSUME Machine, Stages, NEW s \in {"curvenet", "fit"}, StartCall(s)
  PROVE  /\ worker' \in [{"curvenet", "fit"} -> CallT] /\ worker'[s].run = run
         /\ \A c \in {"curvenet", "fit"} \ {s} : worker'[c] = worker[c]
<1>1. PICK call \in CallT : call = [alive |-> TRUE, result |-> "null", run |-> run]
  <2>1. run \in Nat
    BY Bounds DEF Machine
  <2>2. QED
    BY <2>1 DEF CallT
<1>2. worker' = [worker EXCEPT ![s] = call]
  BY <1>1 DEF StartCall
<1>3. worker'[s] = call /\ \A c \in {"curvenet", "fit"} \ {s} : worker'[c] = worker[c]
  BY <1>2 DEF Stages
<1>4. worker' \in [{"curvenet", "fit"} -> CallT]
  BY <1>2 DEF Stages
<1>5. QED
  BY <1>1, <1>3, <1>4

\* A garment found or made goes on to the fit, or is not a skirt tube.
LEMMA MeshDoneKeeps ==
  ASSUME Inv, state = "MESH", NEW d, MeshDone(d), data' = d, data' \in DataT,
         data'.garment.from # "none", data'.garment.from = "curvenet" \/ data'.garment = data.garment,
         Own', ~busy("curvenet"),
         data'.fitted = data.fitted, data'.fit_fixture = data.fit_fixture,
         UNCHANGED <<opts, fixtures, pen, worker, phase, drape, cfg, run>>
  PROVE  Inv'
<1>1. Stages'
  BY DEF Inv, Stages
<1>2. state \in States /\ fixtures' \subseteq Keys
  BY StatesAre DEF Inv, Machine
<1>3. ~ForwardFails /\ drape'.op = "forward" /\ ~drape'.running => drape'.ok
  BY DEF Inv, Queued
<1>4. CASE Fail
  BY <1>1, <1>2, <1>3, <1>4, FailedKeeps
<1>5. CASE Goto("FIT_BEGIN")
  <2>1. Left("FIT_BEGIN")
    BY <1>2, <1>5, GotoLeaves DEF Inv
  <2>2. Machine'
    BY <1>2, <2>1, StatesAre, LeftMachine DEF Inv
  <2>3. Labels' /\ Flags'
    BY <2>1 DEF Inv, Labels, Flags, Whole, Left, RigOn, AuthorOn, FitOn, CheckOn, DrapeOn
  <2>4. Calls' /\ Queued'
    BY <2>1 DEF Inv, Calls, Queued, Left, FitOn, DrapeOn, busy
  <2>5. QED
    BY <1>1, <2>2, <2>3, <2>4 DEF Inv
<1>6. QED
  BY <1>4, <1>5 DEF MeshDone

LEMMA MeshKeeps ==
  ASSUME Inv, Mesh
  PROVE  Inv'
<1>1. /\ state = "MESH" /\ state \in States /\ Machine /\ Stages
      /\ UNCHANGED <<opts, fixtures, pen, phase, drape, cfg, run>>
  BY StatesAre DEF Mesh, Inv
<1>2. CASE data.garment.from # "none" /\ MeshDone(data) /\ UNCHANGED worker
  <2>1. data' = data
    BY <1>2 DEF MeshDone
  <2>2. Own'
    BY <1>1, <2>1, Zenon DEF Inv, Own, Ours
  <2>3. ~busy("curvenet")
    BY <1>1, <1>2 DEF Inv, Calls
  <2>4. data' \in DataT
    BY <2>1, <1>1 DEF Stages
  <2>5. QED
    BY <1>1, <1>2, <2>1, <2>2, <2>3, <2>4, MeshDoneKeeps
<1>3. ASSUME first, busy("curvenet"), Fail, UNCHANGED worker, UNCHANGED data
      PROVE  Inv'
  <2>1. Stages'
    BY <1>1, <1>3, Zenon DEF Stages
  <2>2. QED
    BY <1>1, <1>3, <2>1, FailsAlone
<1>4. ASSUME data.garment.from = "none", first, ~busy("curvenet"), StartCall("curvenet"), Stay, UNCHANGED data
      PROVE  Inv'
  <2>1. /\ worker' \in [{"curvenet", "fit"} -> CallT] /\ worker'["curvenet"].run = run
        /\ worker'["fit"] = worker["fit"]
    BY <1>1, <1>4, StartsCall
  <2>2. state' = "MESH" /\ first' = FALSE /\ records' = records
    BY <1>1, <1>4 DEF Stay
  <2>3. Machine'
    <3>1. state' \in States \cup TERMINAL /\ first' \in BOOLEAN
      BY <2>2, StatesAre
    <3>2. QED
      BY <1>1, <2>2, <3>1, Zenon DEF Machine
  <2>4. Stages'
    BY <1>1, <1>4, <2>1 DEF Stages
  <2>5. Labels' /\ Flags'
    BY <1>1, <1>4, <2>2, Zenon DEF Inv, Labels, Flags, Whole, avbd
  <2>6. Own'
    BY <1>1, <1>4, Zenon DEF Inv, Own, Ours
  <2>7. Calls' /\ Queued'
    BY <1>1, <1>4, <2>1, <2>2 DEF Inv, Calls, Queued, FitOn, DrapeOn, busy
  <2>8. QED
    BY <2>3, <2>4, <2>5, <2>6, <2>7 DEF Inv
<1>5. ASSUME ~first, ~busy("curvenet"), UNCHANGED worker,
             MeshDone([data EXCEPT !.garment = From("curvenet", worker["curvenet"].run)])
      PROVE  Inv'
  <2>1. worker["curvenet"].run = run
    BY <1>1, <1>5 DEF Inv, Calls
  <2>2. PICK e \in EntryT : e = From("curvenet", run) /\ e.run = run /\ e.from = "curvenet"
    BY <1>1, OwnEntry DEF Sources
  <2>3. data' = [data EXCEPT !["garment"] = e]
    BY <1>5, <2>1, <2>2 DEF MeshDone
  <2>4. Sets("garment", e)
    BY <1>1, <2>3, SetsEarly DEF Stages
  <2>5. Own'
    BY <1>1, <2>2, <2>4, SetsOwn DEF Ours, Entries
  <2>6. /\ data' \in DataT /\ data'.garment.from = "curvenet"
        /\ data'.fitted = data.fitted /\ data'.fit_fixture = data.fit_fixture
    BY <2>2, <2>4 DEF Sets
  <2>7. MeshDone(data')
    BY <1>5, <2>1, <2>2, <2>3 DEF MeshDone
  <2>8. QED
    BY <1>1, <1>5, <2>5, <2>6, <2>7, MeshDoneKeeps
<1>6. ASSUME Fail, UNCHANGED data, UNCHANGED worker
      PROVE  Inv'
  <2>1. Stages'
    BY <1>1, <1>6, Zenon DEF Stages
  <2>2. QED
    BY <1>1, <1>6, <2>1, FailsAlone
<1>7. QED
  BY <1>2, <1>3, <1>4, <1>5, <1>6 DEF Mesh

\* The flag set: nothing else of data changes.
FlagIs(f) ==
  /\ data' \in DataT /\ data'.fit_fixture = f
  /\ data'.body = data.body /\ data'.joints = data.joints /\ data'.garment = data.garment
  /\ data'.fit_begin = data.fit_begin /\ data'.check = data.check /\ data'.drape = data.drape

LEMMA FlagSets ==
  ASSUME data \in DataT, NEW f \in BOOLEAN
  PROVE  /\ data' = [data EXCEPT !.fit_fixture = f] => FlagIs(f) /\ data'.fitted = data.fitted
         /\ \A e \in EntryT : data' = [data EXCEPT !.fit_fixture = f, !.fitted = e] =>
              FlagIs(f) /\ data'.fitted = e
<1>1. ASSUME data' = [data EXCEPT !.fit_fixture = f]
      PROVE  FlagIs(f) /\ data'.fitted = data.fitted
  BY <1>1 DEF FlagIs, DataT
<1>2. ASSUME NEW e \in EntryT, data' = [data EXCEPT !.fit_fixture = f, !.fitted = e]
      PROVE  FlagIs(f) /\ data'.fitted = e
  BY <1>2 DEF FlagIs, DataT
<1>3. QED
  BY <1>1, <1>2

LEMMA FlagOwn ==
  ASSUME Inv, UNCHANGED run, NEW f, FlagIs(f), Ours(data'.fitted)
  PROVE  Own'
<1>1. /\ Ours(data.body) /\ Ours(data.joints) /\ Ours(data.garment)
      /\ Ours(data.fit_begin) /\ Ours(data.check) /\ Ours(data.drape)
  BY DEF Inv, Own
<1>2. /\ Ours(data'.body) /\ Ours(data'.joints) /\ Ours(data'.garment)
      /\ Ours(data'.fit_begin) /\ Ours(data'.check) /\ Ours(data'.drape)
  BY <1>1 DEF FlagIs
<1>3. QED
  BY <1>2 DEF Own, Ours

LEMMA AvbdQueued ==
  ASSUME Machine, FitAvbdQueued
  PROVE  drape' \in DrapeT /\ drape'.run = run /\ drape'.op = "fit"
<1>1. PICK r \in Nat : r = run
  BY Bounds DEF Machine
<1>2. drape' = [running |-> TRUE, op |-> "fit", ok |-> FALSE, run |-> r, cfg |-> "fit"]
  BY <1>1 DEF FitAvbdQueued
<1>3. drape' \in DrapeT /\ drape'.run = r /\ drape'.op = "fit"
  BY <1>2 DEF DrapeT
<1>4. QED
  BY <1>1, <1>3

LEMMA FitBeginAvbdKeeps ==
  ASSUME Inv, state = "FIT_BEGIN", first, FitBeginAvbd, UNCHANGED <<opts, pen, run>>
  PROVE  Inv'
<1>1. state \in States /\ Machine /\ Stages
  BY StatesAre DEF Inv
<1>2. PICK f \in BOOLEAN : f = StandsIn("fit")
  <2>1. StandsIn("fit") \in BOOLEAN
    BY DEF StandsIn
  <2>2. QED
    BY <2>1
<1>3. /\ fixtures \subseteq fixtures' /\ fixtures' \subseteq Keys
      /\ f => "fit" \in fixtures'
  BY <1>1, <1>2 DEF FitBeginAvbd, Label, Machine, Keys
<1>4. CASE "drape" \in missing /\ Fail /\ UNCHANGED <<data, worker, phase, drape, cfg>>
  <2>1. Stages'
    BY <1>1, <1>4, Zenon DEF Stages
  <2>2. Own'
    BY <1>4, Zenon DEF Inv, Own, Ours
  <2>3. ~ForwardFails /\ drape'.op = "forward" /\ ~drape'.running => drape'.ok
    BY <1>4 DEF Inv, Queued
  <2>4. data'.fit_fixture => data.fit_fixture
    BY <1>1, <1>4 DEF Stages, DataT
  <2>5. QED
    BY <1>1, <1>3, <1>4, <2>1, <2>2, <2>3, <2>4, FailedKeeps
<1>5. CASE cfg' = "fit" /\ data' = [data EXCEPT !.fit_fixture = StandsIn("fit")]
  <2>1. FlagIs(f) /\ data'.fitted = data.fitted
    BY <1>1, <1>2, <1>5, FlagSets DEF Stages
  <2>2. Own'
    BY <2>1, FlagOwn DEF Inv, Own
  <2>3. data' \in DataT /\ data'.fit_fixture = f /\ data'.garment = data.garment
    BY <2>1 DEF FlagIs
  <2>4. CASE Fail /\ UNCHANGED <<worker, phase>> /\ (UNCHANGED drape \/ FitAvbdQueued)
    <3>1. drape' \in DrapeT /\ (~ForwardFails /\ drape'.op = "forward" /\ ~drape'.running => drape'.ok)
      <4>1. CASE UNCHANGED drape
        BY <1>1, <4>1 DEF Inv, Stages, Queued
      <4>2. CASE FitAvbdQueued
        BY <1>1, <4>2, AvbdQueued
      <4>3. QED
        BY <2>4, <4>1, <4>2
    <3>2. Stages'
      BY <1>1, <1>5, <2>3, <2>4, <3>1 DEF Stages
    <3>3. QED
      BY <1>1, <1>3, <2>1, <2>2, <2>3, <2>4, <3>1, <3>2, FailedKeeps
  <2>5. CASE /\ FitAvbdQueued /\ Goto("FIT_RUN")
             /\ \/ StandsIn("fit") /\ UNCHANGED <<worker, phase>>
                \/ Real("fit") /\ StartCall("fit") /\ phase' = 0
    <3>1. /\ drape' \in DrapeT /\ drape'.run = run
          /\ ~ForwardFails /\ drape'.op = "forward" /\ ~drape'.running => drape'.ok
      BY <1>1, <2>5, AvbdQueued
    <3>2. /\ worker' \in [{"curvenet", "fit"} -> CallT] /\ worker'["curvenet"] = worker["curvenet"]
          /\ phase' \in 0..FitPhases
          /\ IF f THEN worker'["fit"] = worker["fit"] ELSE worker'["fit"].run = run
      <4>1. CASE StandsIn("fit") /\ UNCHANGED <<worker, phase>>
        BY <1>1, <1>2, <4>1 DEF Stages
      <4>2. CASE Real("fit") /\ StartCall("fit") /\ phase' = 0
        <5>1. ~f
          BY <1>2, <4>2 DEF Real, StandsIn
        <5>2. QED
          BY <1>1, <4>2, <5>1, StartsCall, Bounds
      <4>3. QED
        BY <2>5, <4>1, <4>2
    <3>3. Stages'
      BY <1>1, <1>5, <2>3, <3>1, <3>2 DEF Stages
    <3>4. Left("FIT_RUN")
      BY <1>1, <2>5, GotoLeaves
    <3>5. Machine'
      BY <1>1, <1>3, <3>4, StatesAre, LeftMachine
    <3>6. Labels'
      BY <1>3, <2>1, <2>3, <3>4 DEF Inv, Labels, Whole, Left, RigOn, AuthorOn, FitOn, CheckOn, DrapeOn
    <3>7. avbd /\ (avbd <=> avbd')
      BY DEF FitBeginAvbd, avbd
    <3>8. Flags'
      BY <1>3, <2>3, <3>4, <3>7 DEF Flags, Left
    <3>9. Calls'
      BY <2>3, <3>2, <3>4, <3>7 DEF Inv, Calls, Left, FitOn, DrapeOn, busy
    <3>10. Queued'
      BY <3>1, <3>4, <3>7 DEF Queued, Left
    <3>11. QED
      BY <2>2, <3>3, <3>5, <3>6, <3>8, <3>9, <3>10 DEF Inv
  <2>6. QED
    BY <1>5, <2>4, <2>5 DEF FitBeginAvbd
<1>6. QED
  BY <1>4, <1>5 DEF FitBeginAvbd

LEMMA FitBeginFixtureKeeps ==
  ASSUME Inv, state = "FIT_BEGIN", first, FitBeginFixture, UNCHANGED <<opts, pen, run>>
  PROVE  Inv'
<1>1. /\ state \in States /\ Machine /\ Stages /\ ~avbd /\ (avbd' <=> avbd)
      /\ UNCHANGED <<worker, phase, drape, cfg>>
  BY StatesAre DEF Inv, FitBeginFixture, avbd
<1>2. /\ fixtures \subseteq fixtures' /\ fixtures' \subseteq Keys /\ "fit" \in fixtures'
  BY <1>1 DEF FitBeginFixture, Label, Machine, Keys
<1>3. PICK f \in BOOLEAN : f = TRUE
  OBVIOUS
<1>4. ~ForwardFails /\ drape'.op = "forward" /\ ~drape'.running => drape'.ok
  BY <1>1 DEF Inv, Queued
<1>5. CASE data' = [data EXCEPT !.fit_fixture = TRUE] /\ Fail
  <2>1. FlagIs(f) /\ data'.fitted = data.fitted
    BY <1>1, <1>3, <1>5, FlagSets DEF Stages
  <2>2. Own'
    BY <2>1, FlagOwn DEF Inv, Own
  <2>3. data' \in DataT /\ data'.garment = data.garment
    BY <2>1 DEF FlagIs
  <2>4. Stages'
    BY <1>1, <2>3 DEF Stages
  <2>5. QED
    BY <1>1, <1>2, <1>4, <1>5, <2>1, <2>2, <2>3, <2>4, FailedKeeps
<1>6. CASE /\ data' = [data EXCEPT !.fit_fixture = TRUE, !.fitted = From("fixture", run)]
           /\ Goto("FIT_READ")
  <2>1. PICK e \in EntryT : e = From("fixture", run) /\ e.run = run /\ e.from = "fixture"
    BY <1>1, OwnEntry DEF Sources
  <2>2. FlagIs(f) /\ data'.fitted = e
    BY <1>1, <1>3, <1>6, <2>1, FlagSets DEF Stages
  <2>3. Own'
    BY <2>1, <2>2, FlagOwn DEF Ours
  <2>4. data' \in DataT /\ data'.garment = data.garment /\ data'.fit_fixture
    BY <1>3, <2>2 DEF FlagIs
  <2>5. Stages'
    BY <1>1, <2>4 DEF Stages
  <2>6. Left("FIT_READ")
    BY <1>1, <1>6, GotoLeaves
  <2>7. Machine'
    BY <1>1, <1>2, <2>6, StatesAre, LeftMachine
  <2>8. Labels'
    BY <1>2, <2>1, <2>2, <2>4, <2>6 DEF Inv, Labels, Whole, Left, RigOn, AuthorOn, FitOn, CheckOn, DrapeOn
  <2>9. Flags'
    BY <1>2, <2>1, <2>2, <2>6 DEF Flags, Left
  <2>10. ~busy("fit")' /\ ~busy("curvenet")'
    BY <1>1 DEF Inv, Calls, FitOn, FitBeginFixture, busy
  <2>11. Calls'
    BY <2>4, <2>6, <2>10 DEF Calls, Left, FitOn, DrapeOn, busy
  <2>12. Queued'
    BY <1>1, <1>4, <2>6 DEF Queued, Left
  <2>13. QED
    BY <2>3, <2>5, <2>7, <2>8, <2>9, <2>11, <2>12 DEF Inv
<1>7. QED
  BY <1>5, <1>6 DEF FitBeginFixture

LEMMA FitBeginPolyfemKeeps ==
  ASSUME Inv, state = "FIT_BEGIN", first, FitBeginPolyfem, UNCHANGED <<opts, pen, run>>
  PROVE  Inv'
<1>1. /\ state \in States /\ Machine /\ Stages /\ ~avbd /\ (avbd' <=> avbd)
      /\ UNCHANGED <<fixtures, data, drape, cfg>>
  BY StatesAre DEF Inv, FitBeginPolyfem, avbd
<1>2. CASE Fail /\ UNCHANGED <<worker, phase>>
  <2>1. Stages'
    BY <1>1, <1>2, Zenon DEF Stages
  <2>2. QED
    BY <1>1, <1>2, <2>1, FailsAlone
<1>3. CASE StartCall("fit") /\ phase' = 0 /\ Stay
  <2>1. /\ worker' \in [{"curvenet", "fit"} -> CallT] /\ worker'["curvenet"] = worker["curvenet"]
        /\ phase' \in 0..FitPhases /\ worker'["fit"].run = run
    BY <1>1, <1>3, StartsCall, Bounds
  <2>2. state' = "FIT_BEGIN" /\ first' = FALSE /\ records' = records
    BY <1>3 DEF Stay
  <2>3. Machine'
    <3>1. state' \in States \cup TERMINAL /\ first' \in BOOLEAN
      BY <2>2, StatesAre
    <3>2. QED
      BY <1>1, <2>2, <3>1, Zenon DEF Machine
  <2>4. Stages'
    BY <1>1, <2>1 DEF Stages
  <2>5. Labels' /\ Flags'
    BY <1>1, <2>2, Zenon DEF Inv, Labels, Flags, Whole, avbd
  <2>6. Own'
    BY <1>1, Zenon DEF Inv, Own, Ours
  <2>7. Calls' /\ Queued'
    BY <1>1, <2>1, <2>2 DEF Inv, Calls, Queued, FitOn, DrapeOn, busy
  <2>8. QED
    BY <2>3, <2>4, <2>5, <2>6, <2>7 DEF Inv
<1>4. QED
  BY <1>2, <1>3 DEF FitBeginPolyfem

LEMMA FitBegunKeeps ==
  ASSUME Inv, FitBegun
  PROVE  Inv'
<1>1. /\ state = "FIT_BEGIN" /\ ~first /\ ~busy("fit") /\ worker["fit"].run = run
      /\ state \in States /\ Machine /\ Stages /\ ~avbd /\ (avbd' <=> avbd)
      /\ UNCHANGED <<opts, fixtures, pen, worker, phase, drape, cfg, run>>
  BY StatesAre DEF Inv, FitBegun, Calls, Queued, avbd
<1>2. PICK e \in EntryT : e = From("fit", run) /\ e.run = run /\ e.from = "fit"
  BY <1>1, OwnEntry DEF Sources
<1>3. data' = [data EXCEPT !.fit_begin = e]
  BY <1>1, <1>2 DEF FitBegun
<1>4. Sets("fit_begin", e)
  BY <1>1, <1>3, SetsLate DEF Stages
<1>5. Own'
  BY <1>1, <1>2, <1>4, SetsOwn DEF Ours, Entries
<1>6. /\ data' \in DataT /\ data'.fit_fixture = data.fit_fixture /\ data'.garment = data.garment
      /\ data'.fitted = data.fitted /\ data'.check = data.check /\ data'.drape = data.drape
  BY <1>4 DEF Sets
<1>7. Stages'
  BY <1>1, <1>6 DEF Stages
<1>8. ~ForwardFails /\ drape'.op = "forward" /\ ~drape'.running => drape'.ok
  BY <1>1 DEF Inv, Queued
<1>9. fixtures' \subseteq Keys
  BY <1>1 DEF Machine
<1>10. CASE Fail
  BY <1>1, <1>5, <1>6, <1>7, <1>8, <1>9, <1>10, FailedKeeps
<1>11. CASE Goto("FIT_RUN")
  <2>1. Left("FIT_RUN")
    BY <1>1, <1>11, GotoLeaves
  <2>2. Machine'
    BY <1>1, <1>9, <2>1, StatesAre, LeftMachine
  <2>3. Labels' /\ Flags'
    BY <1>1, <1>6, <2>1 DEF Inv, Labels, Flags, Whole, Left, RigOn, AuthorOn, FitOn, CheckOn, DrapeOn
  <2>4. Calls'
    BY <1>1, <1>6, <2>1 DEF Inv, Calls, Left, FitOn, DrapeOn, busy
  <2>5. Queued'
    BY <1>1, <1>8, <2>1 DEF Queued, Left
  <2>6. QED
    BY <1>5, <1>7, <2>2, <2>3, <2>4, <2>5 DEF Inv
<1>12. QED
  BY <1>10, <1>11 DEF FitBegun

LEMMA FitBeginKeeps ==
  ASSUME Inv, FitBegin
  PROVE  Inv'
<1>1. state = "FIT_BEGIN" /\ first /\ state \in States /\ UNCHANGED <<opts, run>>
  BY StatesAre DEF FitBegin
<1>2. CASE NotRunnable("fit")
  BY <1>1, <1>2, NotRunnableKeeps
<1>3. CASE (FitBeginAvbd \/ FitBeginFixture \/ FitBeginPolyfem) /\ UNCHANGED pen
  BY <1>1, <1>3, FitBeginAvbdKeeps, FitBeginFixtureKeeps, FitBeginPolyfemKeeps
<1>4. QED
  BY <1>2, <1>3 DEF FitBegin

LEMMA FitRunAvbdKeeps ==
  ASSUME Inv, FitRunAvbd
  PROVE  Inv'
<1>1. /\ state = "FIT_RUN" /\ avbd /\ (avbd' <=> avbd) /\ state \in States /\ Machine /\ Stages
      /\ UNCHANGED <<opts, fixtures, data, pen, worker, phase, drape, cfg, run>>
  BY StatesAre DEF FitRunAvbd, avbd, Inv
<1>2. Stages'
  BY <1>1, Zenon DEF Stages
<1>3. CASE Fail
  BY <1>1, <1>2, <1>3, FailsAlone
<1>4. CASE Goto("FIT_READ")
  <2>1. Left("FIT_READ")
    BY <1>1, <1>4, GotoLeaves
  <2>2. fixtures' \subseteq Keys
    BY <1>1 DEF Machine
  <2>3. Machine'
    BY <1>1, <2>1, <2>2, StatesAre, LeftMachine
  <2>4. Labels' /\ Flags'
    BY <1>1, <2>1 DEF Inv, Labels, Flags, Whole, Left, RigOn, AuthorOn, FitOn, CheckOn, DrapeOn
  <2>5. Own'
    BY <1>1, Zenon DEF Inv, Own, Ours
  <2>6. Calls' /\ Queued'
    BY <1>1, <2>1 DEF Inv, Calls, Queued, Left, FitOn, DrapeOn, busy
  <2>7. QED
    BY <1>2, <2>3, <2>4, <2>5, <2>6 DEF Inv
<1>5. QED
  BY <1>3, <1>4 DEF FitRunAvbd

LEMMA FitRunKeeps ==
  ASSUME Inv, FitRun
  PROVE  Inv'
<1>1. /\ state = "FIT_RUN" /\ ~avbd /\ (avbd' <=> avbd) /\ state \in States /\ Machine /\ Stages
      /\ ~busy("fit") /\ UNCHANGED <<opts, fixtures, data, pen, drape, cfg, run>>
  BY StatesAre DEF FitRun, avbd, Inv
<1>2. ~data.fit_fixture /\ worker["fit"].run = run
  BY <1>1 DEF Inv, Flags, Calls
<1>3. fixtures' \subseteq Keys
  BY <1>1 DEF Machine
<1>4. Own'
  BY <1>1, Zenon DEF Inv, Own, Ours
<1>5. CASE Fail /\ UNCHANGED <<worker, phase>>
  <2>1. Stages'
    BY <1>1, <1>5, Zenon DEF Stages
  <2>2. QED
    BY <1>1, <1>5, <2>1, FailsAlone
<1>6. CASE phase' = (IF first THEN phase ELSE phase + 1) /\ PhasesDone(phase') /\ Goto("FIT_READ") /\ UNCHANGED worker
  <2>1. phase' \in 0..FitPhases
    BY <1>6, Bounds DEF PhasesDone
  <2>2. Stages'
    BY <1>1, <1>6, <2>1 DEF Stages
  <2>3. Left("FIT_READ")
    BY <1>1, <1>6, GotoLeaves
  <2>4. Machine'
    BY <1>1, <1>3, <2>3, StatesAre, LeftMachine
  <2>5. Labels' /\ Flags'
    BY <1>1, <1>2, <2>3 DEF Inv, Labels, Flags, Whole, Left, RigOn, AuthorOn, FitOn, CheckOn, DrapeOn
  <2>6. Calls' /\ Queued'
    BY <1>1, <1>2, <1>6, <2>3 DEF Inv, Calls, Queued, Left, FitOn, DrapeOn, busy
  <2>7. QED
    BY <1>4, <2>2, <2>4, <2>5, <2>6 DEF Inv
<1>7. CASE phase' = (IF first THEN phase ELSE phase + 1) /\ ~PhasesDone(phase') /\ StartCall("fit") /\ Stay
  <2>1. phase' \in 0..FitPhases /\ phase' < FitPhases
    <3>1. phase \in 0..FitPhases /\ (~first => phase < FitPhases)
      BY <1>1 DEF Inv, Stages, Calls
    <3>2. QED
      BY <1>7, <3>1, Bounds DEF PhasesDone
  <2>2. /\ worker' \in [{"curvenet", "fit"} -> CallT] /\ worker'["curvenet"] = worker["curvenet"]
        /\ worker'["fit"].run = run
    BY <1>1, <1>7, StartsCall
  <2>3. state' = "FIT_RUN" /\ first' = FALSE /\ records' = records
    BY <1>1, <1>7 DEF Stay
  <2>4. Machine'
    <3>1. state' \in States \cup TERMINAL /\ first' \in BOOLEAN
      BY <2>3, StatesAre
    <3>2. QED
      BY <1>1, <2>3, <3>1, Zenon DEF Machine
  <2>5. Stages'
    BY <1>1, <2>1, <2>2 DEF Stages
  <2>6. Labels' /\ Flags'
    BY <1>1, <2>3, Zenon DEF Inv, Labels, Flags, Whole, avbd
  <2>7. Calls' /\ Queued'
    BY <1>1, <1>2, <2>1, <2>2, <2>3 DEF Inv, Calls, Queued, FitOn, DrapeOn, busy
  <2>8. QED
    BY <1>4, <2>4, <2>5, <2>6, <2>7 DEF Inv
<1>8. QED
  BY <1>5, <1>6, <1>7 DEF FitRun

LEMMA FitReadKeeps ==
  ASSUME Inv, FitRead
  PROVE  Inv'
<1>1. /\ state = "FIT_READ" /\ (avbd' <=> avbd) /\ state \in States /\ Machine /\ Stages
      /\ UNCHANGED <<opts, fixtures, pen, worker, phase, drape, run>>
  BY StatesAre DEF FitRead, avbd, Inv
<1>2. cfg' \in {"drape", "fit"}
  BY <1>1 DEF FitRead, Restored, Stages
<1>3. fixtures' \subseteq Keys
  BY <1>1 DEF Machine
<1>4. PICK e \in EntryT :
        /\ data' = [data EXCEPT !.fitted = e]
        /\ e.from \in {"fit", "avbd"} \/ (e.from # "none" /\ "fit" \in fixtures')
        /\ e.run = run
  <2>1. CASE avbd
    <3>1. drape.run = run
      BY <1>1, <2>1 DEF Inv, Queued
    <3>2. PICK e \in EntryT : e = From("avbd", run) /\ e.run = run /\ e.from = "avbd"
      BY <1>1, OwnEntry DEF Sources
    <3>3. data' = [data EXCEPT !.fitted = e]
      BY <2>1, <3>1, <3>2 DEF FitRead
    <3>4. QED
      BY <3>2, <3>3
  <2>2. CASE ~avbd /\ data.fit_fixture
    <3>1. data.fitted.from = "fixture" /\ "fit" \in fixtures'
      BY <1>1, <2>2 DEF Inv, Flags
    <3>2. Ours(data.fitted) /\ data.fitted \in EntryT
      BY <1>1 DEF Inv, Own, Stages, DataT
    <3>3. PICK e \in EntryT : e = data.fitted
      BY <3>2
    <3>4. data' = [data EXCEPT !.fitted = e]
      BY <2>2, <3>3 DEF FitRead
    <3>5. QED
      BY <3>1, <3>2, <3>3, <3>4 DEF Ours
  <2>3. CASE ~avbd /\ ~data.fit_fixture
    <3>1. worker["fit"].run = run
      BY <1>1, <2>3 DEF Inv, Calls
    <3>2. PICK e \in EntryT : e = From("fit", run) /\ e.run = run /\ e.from = "fit"
      BY <1>1, OwnEntry DEF Sources
    <3>3. data' = [data EXCEPT !.fitted = e]
      BY <2>3, <3>1, <3>2 DEF FitRead
    <3>4. QED
      BY <3>2, <3>3
  <2>4. QED
    BY <2>1, <2>2, <2>3
<1>5. Sets("fitted", e)
  BY <1>1, <1>4, SetsLate DEF Stages
<1>6. Own'
  BY <1>1, <1>4, <1>5, SetsOwn DEF Ours, Entries
<1>7. /\ data' \in DataT /\ data'.fit_fixture = data.fit_fixture /\ data'.garment = data.garment
      /\ data'.fitted = e /\ data'.check = data.check /\ data'.drape = data.drape
  BY <1>5 DEF Sets
<1>8. Stages'
  BY <1>1, <1>2, <1>7 DEF Stages
<1>9. ~ForwardFails /\ drape'.op = "forward" /\ ~drape'.running => drape'.ok
  BY <1>1 DEF Inv, Queued
<1>10. CASE Fail
  BY <1>1, <1>3, <1>4, <1>6, <1>7, <1>8, <1>9, <1>10, FailedKeeps
<1>11. CASE Goto("CHECK")
  <2>1. Left("CHECK")
    BY <1>1, <1>11, GotoLeaves
  <2>2. Machine'
    BY <1>1, <1>3, <2>1, StatesAre, LeftMachine
  <2>3. e.from # "none"
    BY <1>4
  <2>4. Labels' /\ Flags'
    BY <1>1, <1>4, <1>7, <2>1, <2>3 DEF Inv, Labels, Flags, Whole, Left, RigOn, AuthorOn, FitOn, CheckOn, DrapeOn
  <2>5. Calls'
    BY <1>1, <1>7, <2>1 DEF Inv, Calls, Left, FitOn, DrapeOn, busy
  <2>6. Queued'
    BY <1>9, <2>1 DEF Queued, Left
  <2>7. QED
    BY <1>6, <1>8, <2>2, <2>4, <2>5, <2>6 DEF Inv
<1>12. QED
  BY <1>10, <1>11 DEF FitRead

\* The sanity check's answer in data: over fit_begin's, in avbd mode.
LEMMA Checks ==
  ASSUME NEW d \in DataT, NEW e \in EntryT, NEW t, t = [d EXCEPT !.check = e]
  PROVE  /\ t \in DataT /\ t.fit_fixture = d.fit_fixture /\ t.check = e
         /\ t.body = d.body /\ t.joints = d.joints /\ t.garment = d.garment
         /\ t.fitted = d.fitted /\ t.fit_begin = d.fit_begin /\ t.drape = d.drape
  BY DEF DataT

LEMMA Begins ==
  ASSUME NEW d \in DataT, NEW e \in EntryT, NEW t, t = [d EXCEPT !.fit_begin = e]
  PROVE  /\ t \in DataT /\ t.fit_fixture = d.fit_fixture /\ t.fit_begin = e
         /\ t.body = d.body /\ t.joints = d.joints /\ t.garment = d.garment
         /\ t.fitted = d.fitted /\ t.check = d.check /\ t.drape = d.drape
  BY DEF DataT

LEMMA CheckKeeps ==
  ASSUME Inv, Check
  PROVE  Inv'
<1>1. /\ state = "CHECK" /\ state \in States /\ Machine /\ Stages
      /\ UNCHANGED <<opts, fixtures, pen, worker, phase, drape, cfg, run>>
  BY StatesAre DEF Check, Inv
<1>2. fixtures' \subseteq Keys
  BY <1>1 DEF Machine
<1>3. ~ForwardFails /\ drape'.op = "forward" /\ ~drape'.running => drape'.ok
  BY <1>1 DEF Inv, Queued
<1>4. ASSUME data' \in DataT, Own', data'.garment = data.garment, data'.fitted = data.fitted,
             data'.fit_fixture = data.fit_fixture, ~busy("fit"), Goto("DRAPE"),
             data'.check.from = "fit" \/ "fit" \in fixtures
      PROVE  Inv'
  <2>1. Left("DRAPE")
    BY <1>1, <1>4, GotoLeaves
  <2>2. Machine'
    BY <1>1, <1>2, <2>1, StatesAre, LeftMachine
  <2>3. Stages'
    BY <1>1, <1>4 DEF Stages
  <2>4. Labels' /\ Flags'
    BY <1>1, <1>4, <2>1 DEF Inv, Labels, Flags, Whole, Left, RigOn, AuthorOn, FitOn, CheckOn, DrapeOn
  <2>5. Calls'
    BY <1>1, <1>4, <2>1 DEF Inv, Calls, Left, FitOn, DrapeOn, busy
  <2>6. Queued'
    BY <1>3, <2>1 DEF Queued, Left
  <2>7. QED
    BY <1>4, <2>2, <2>3, <2>4, <2>5, <2>6 DEF Inv
<1>5. CASE data.fit_fixture /\ Goto("DRAPE") /\ UNCHANGED data
  <2>1. ~busy("fit") /\ "fit" \in fixtures
    BY <1>1, <1>5 DEF Inv, Calls, Flags
  <2>2. Own'
    BY <1>1, <1>5, Zenon DEF Inv, Own, Ours
  <2>3. data' \in DataT
    BY <1>1, <1>5 DEF Stages
  <2>4. QED
    BY <1>4, <1>5, <2>1, <2>2, <2>3
<1>6. CASE ~data.fit_fixture /\ ~busy("fit")
  <2>1. worker["fit"].run = run
    BY <1>1, <1>6 DEF Inv, Calls
  <2>2. PICK e \in EntryT : e = From("fit", run) /\ e.run = run /\ e.from = "fit"
    BY <1>1, OwnEntry DEF Sources
  <2>3. PICK d : d = IF avbd THEN [data EXCEPT !.fit_begin = e] ELSE data
    OBVIOUS
  <2>4. /\ d \in DataT /\ d.fit_fixture = data.fit_fixture
        /\ d.body = data.body /\ d.joints = data.joints /\ d.garment = data.garment
        /\ d.fitted = data.fitted /\ d.check = data.check /\ d.drape = data.drape
        /\ d.fit_begin = data.fit_begin \/ d.fit_begin = e
    <3>1. CASE avbd
      <4>1. d = [data EXCEPT !.fit_begin = e] /\ data \in DataT
        BY <1>1, <2>3, <3>1 DEF Stages
      <4>2. QED
        BY <4>1, Begins
    <3>2. CASE ~avbd
      BY <1>1, <2>3, <3>2 DEF Stages
    <3>3. QED
      BY <3>1, <3>2
  <2>5. /\ Ours(data.body) /\ Ours(data.joints) /\ Ours(data.garment) /\ Ours(data.fitted)
        /\ Ours(data.fit_begin) /\ Ours(data.check) /\ Ours(data.drape) /\ Ours(e)
    BY <2>2 DEF Inv, Own, Ours
  <2>6. /\ Ours(d.body) /\ Ours(d.joints) /\ Ours(d.garment) /\ Ours(d.fitted)
        /\ Ours(d.fit_begin) /\ Ours(d.check) /\ Ours(d.drape)
    BY <2>4, <2>5
  <2>7. CASE Fail /\ data' = d
    <3>1. Own'
      BY <1>1, <2>6, <2>7 DEF Own, Ours
    <3>2. Stages'
      BY <1>1, <2>4, <2>7 DEF Stages
    <3>3. QED
      BY <1>1, <1>2, <1>3, <2>4, <2>7, <3>1, <3>2, FailedKeeps
  <2>8. CASE Goto("DRAPE") /\ data' = [d EXCEPT !.check = e]
    <3>1. /\ data' \in DataT /\ data'.fit_fixture = d.fit_fixture /\ data'.check = e
          /\ data'.body = d.body /\ data'.joints = d.joints /\ data'.garment = d.garment
          /\ data'.fitted = d.fitted /\ data'.fit_begin = d.fit_begin /\ data'.drape = d.drape
      BY <2>4, <2>8, Checks
    <3>2. Own'
      BY <1>1, <2>5, <2>6, <3>1 DEF Own, Ours
    <3>3. QED
      BY <1>4, <1>6, <2>2, <2>4, <2>8, <3>1, <3>2
  <2>9. QED
    <3>1. /\ From("fit", worker["fit"].run) = e
      BY <2>1, <2>2
    <3>2. (Fail /\ data' = d) \/ (Goto("DRAPE") /\ data' = [d EXCEPT !.check = e])
      BY <1>6, <2>3, <3>1 DEF Check
    <3>3. QED
      BY <2>7, <2>8, <3>2
<1>7. QED
  BY <1>5, <1>6 DEF Check

LEMMA DrapeKeeps ==
  ASSUME Inv, Drape
  PROVE  Inv'
<1>1. /\ state = "DRAPE" /\ state \in States /\ Machine /\ Stages
      /\ UNCHANGED <<opts, run, pen, worker, phase, cfg>>
  BY StatesAre DEF Drape, Inv
<1>2. CASE NotRunnable("drape")
  BY <1>1, <1>2, NotRunnableKeeps
<1>3. CASE Label("drape") /\ Goto("DONE") /\ UNCHANGED <<data, drape>>
  <2>1. fixtures' = fixtures \cup {"drape"} /\ fixtures' \subseteq Keys
    BY <1>1, <1>3 DEF Label, Machine, Keys
  <2>2. Left("DONE")
    BY <1>1, <1>3, GotoLeaves
  <2>3. Machine'
    BY <1>1, <2>1, <2>2, LeftMachine DEF TERMINAL
  <2>4. Stages'
    BY <1>1, <1>3, Zenon DEF Stages
  <2>5. Labels' /\ Flags'
    BY <1>1, <1>3, <2>1, <2>2 DEF Inv, Labels, Flags, Whole, Left, RigOn, AuthorOn, FitOn, CheckOn, DrapeOn
  <2>6. Own'
    BY <1>1, <1>3, Zenon DEF Inv, Own, Ours
  <2>7. Calls' /\ Queued'
    BY <1>1, <1>3, <2>2 DEF Inv, Calls, Queued, Left, FitOn, DrapeOn, busy
  <2>8. QED
    BY <2>3, <2>4, <2>5, <2>6, <2>7 DEF Inv
<1>4. CASE Fail /\ UNCHANGED <<fixtures, data, drape>>
  <2>1. Stages'
    BY <1>1, <1>4, Zenon DEF Stages
  <2>2. QED
    BY <1>1, <1>4, <2>1, FailsAlone
<1>5. CASE /\ drape' = [running |-> TRUE, op |-> "forward", ok |-> FALSE, run |-> run, cfg |-> cfg]
           /\ Goto("DRAPE_COLLECT") /\ UNCHANGED <<fixtures, data>>
  <2>1. /\ drape' \in DrapeT /\ drape'.run = run /\ drape'.op = "forward" /\ drape'.running
    <3>1. PICK r \in Nat, c \in {"drape", "fit"} : r = run /\ c = cfg
      BY <1>1, Bounds DEF Machine, Stages
    <3>2. drape' = [running |-> TRUE, op |-> "forward", ok |-> FALSE, run |-> r, cfg |-> c]
      BY <1>5, <3>1
    <3>3. drape' \in DrapeT /\ drape'.run = r /\ drape'.op = "forward" /\ drape'.running
      BY <3>2 DEF DrapeT
    <3>4. QED
      BY <3>1, <3>3
  <2>2. Left("DRAPE_COLLECT")
    BY <1>1, <1>5, GotoLeaves
  <2>3. fixtures' \subseteq Keys
    BY <1>1, <1>5 DEF Machine
  <2>4. Machine'
    BY <1>1, <2>2, <2>3, StatesAre, LeftMachine
  <2>5. Stages'
    BY <1>1, <1>5, <2>1 DEF Stages
  <2>6. Labels' /\ Flags'
    BY <1>1, <1>5, <2>2 DEF Inv, Labels, Flags, Whole, Left, RigOn, AuthorOn, FitOn, CheckOn, DrapeOn
  <2>7. Own'
    BY <1>1, <1>5, Zenon DEF Inv, Own, Ours
  <2>8. Calls' /\ Queued'
    BY <1>1, <1>5, <2>1, <2>2 DEF Inv, Calls, Queued, Left, FitOn, DrapeOn, busy
  <2>9. QED
    BY <2>4, <2>5, <2>6, <2>7, <2>8 DEF Inv
<1>6. QED
  BY <1>2, <1>3, <1>4, <1>5 DEF Drape

LEMMA DrapeCollectKeeps ==
  ASSUME Inv, DrapeCollect
  PROVE  Inv'
<1>1. /\ state = "DRAPE_COLLECT" /\ ~drape.running /\ state \in States /\ Machine /\ Stages
      /\ UNCHANGED <<opts, fixtures, pen, worker, phase, drape, cfg, run>>
  BY StatesAre DEF DrapeCollect, Inv
<1>2. drape.run = run /\ (~ForwardFails => drape.ok)
  BY <1>1 DEF Inv, Queued
<1>3. CASE Fail /\ UNCHANGED data
  <2>1. Stages'
    BY <1>1, <1>3, Zenon DEF Stages
  <2>2. QED
    BY <1>1, <1>3, <2>1, FailsAlone
<1>4. CASE /\ data' = [data EXCEPT !.drape = From(IF drape.ok THEN "drape" ELSE "failed forward", drape.run)]
           /\ Goto("DONE")
  <2>1. PICK src \in Sources : /\ src = IF drape.ok THEN "drape" ELSE "failed forward"
                               /\ ~ForwardFails => src = "drape"
    BY <1>2 DEF Sources
  <2>2. PICK e \in EntryT : e = From(src, run) /\ e.run = run /\ e.from = src
    BY <1>1, OwnEntry
  <2>3. data' = [data EXCEPT !.drape = e]
    BY <1>2, <1>4, <2>1, <2>2
  <2>4. Sets("drape", e)
    BY <1>1, <2>3, SetsLate DEF Stages
  <2>5. Own'
    BY <1>1, <2>2, <2>4, SetsOwn DEF Ours, Entries
  <2>6. /\ data' \in DataT /\ data'.fit_fixture = data.fit_fixture /\ data'.garment = data.garment
        /\ data'.fitted = data.fitted /\ data'.check = data.check
        /\ ~ForwardFails => data'.drape.from = "drape"
    BY <2>1, <2>2, <2>4 DEF Sets
  <2>7. Stages'
    BY <1>1, <2>6 DEF Stages
  <2>8. Left("DONE")
    BY <1>1, <1>4, GotoLeaves
  <2>9. Machine'
    <3>1. fixtures' \subseteq Keys
      BY <1>1 DEF Machine
    <3>2. QED
      BY <1>1, <2>8, <3>1, LeftMachine DEF TERMINAL
  <2>10. Labels' /\ Flags'
    BY <1>1, <2>6, <2>8 DEF Inv, Labels, Flags, Whole, Left, RigOn, AuthorOn, FitOn, CheckOn, DrapeOn
  <2>11. Calls' /\ Queued'
    BY <1>1, <2>6, <2>8 DEF Inv, Calls, Queued, Left, FitOn, DrapeOn, busy
  <2>12. QED
    BY <2>5, <2>7, <2>9, <2>10, <2>11 DEF Inv
<1>5. QED
  BY <1>3, <1>4 DEF DrapeCollect

-----------------------------------------------------------------------------
LEMMA StepPreserves ==
  ASSUME Inv, [Next]_vars
  PROVE  Inv'
<1>1. CASE \E o \in Opts : Start(o)
  BY <1>1, StartKeeps
<1>2. CASE PenEvent \/ PenFinish
  BY <1>2, PenKeeps
<1>3. CASE \E s \in DOMAIN worker : WorkerEnds(s)
  <2>1. DOMAIN worker = {"curvenet", "fit"}
    BY DEF Inv, Stages
  <2>2. QED
    BY <1>3, <2>1, WorkerEndsKeeps
<1>4. CASE DrapeIdle
  BY <1>4, DrapeIdleKeeps
<1>5. CASE Process
  BY <1>5, InferKeeps, RigKeeps, AuthorFirstKeeps, AuthorKeeps, MeshKeeps, FitBeginKeeps,
     FitBegunKeeps, FitRunAvbdKeeps, FitRunKeeps, FitReadKeeps, CheckKeeps, DrapeKeeps,
     DrapeCollectKeeps DEF Process
<1>6. CASE UNCHANGED vars
  <2>1. /\ UNCHANGED <<state, first, opts, fixtures, data, records, run>>
        /\ UNCHANGED <<pen, worker, phase, drape, cfg>>
    BY <1>6 DEF vars
  <2>2. Machine' /\ Labels' /\ Flags' /\ Own' /\ Calls' /\ Queued'
    BY <2>1, MachineStays, CallsStay, QueuedStays
  <2>3. Stages'
    BY <2>1, Zenon DEF Inv, Stages
  <2>4. QED
    BY <2>2, <2>3 DEF Inv
<1>7. QED
  BY <1>1, <1>2, <1>3, <1>4, <1>5, <1>6 DEF Next

\* The inductive invariant of the garment loop (pipeline.gd _process).
THEOREM Invariance == Spec => []Inv
<1>1. Init => Inv
  BY InitEstablishes
<1>2. Inv /\ [Next]_vars => Inv'
  BY StepPreserves
<1>3. QED
  BY <1>1, <1>2, PTL DEF Spec

\* The machine's variables and its stages' keep their types, whatever the stages
\* answer (pipeline.gd and stage_base.gd's members).
THEOREM LoopIsTyped == Spec => []TypeOK
<1>1. Inv => TypeOK
  <2> SUFFICES ASSUME Inv PROVE TypeOK
    OBVIOUS
  <2>1. /\ state \in States \cup TERMINAL /\ first \in BOOLEAN /\ fixtures \subseteq Keys
        /\ records \in Seq(States) /\ run \in 0..MaxRuns
    BY DEF Inv, Machine
  <2>2. phase \in 0..FitPhases /\ cfg \in {"drape", "fit"}
    BY DEF Inv, Stages
  <2>3. pen.queue \in 0..Strokes
    BY DEF Inv, Stages, PenT
  <2>4. \A s \in DOMAIN worker : worker[s].result \in {"null", "ok", "FAIL"}
    BY DEF Inv, Stages, CallT
  <2>5. QED
    BY <2>1, <2>2, <2>3, <2>4 DEF TypeOK
<1>2. QED
  BY <1>1, Invariance, PTL

\* The machine never calls into a stage whose worker call is in flight
\* (pipeline.gd 29-31): a state that calls comes after the poll that found the
\* worker's answer, or after start() found no worker busy.
THEOREM CallsWaitTheirTurn == Spec => []NeverCallsBusy
<1>1. Inv => NeverCallsBusy
  BY DEF Inv, Calls, NeverCallsBusy, FitOn, DrapeOn
<1>2. QED
  BY <1>1, Invariance, PTL

\* Nothing of an earlier run is in the data of this one (pipeline.gd start() and
\* every poll of a worker or of the drape queue), even when the forward fails.
THEOREM ResultsAreOwn == Spec => []OwnResults
<1>1. Inv => OwnResults
  <2> SUFFICES ASSUME Inv, NEW e \in Entries, data[e].from # "none"
               PROVE  data[e].run = run
    BY DEF OwnResults, Entries
  <2>1. /\ Ours(data.body) /\ Ours(data.joints) /\ Ours(data.garment) /\ Ours(data.fitted)
        /\ Ours(data.fit_begin) /\ Ours(data.check) /\ Ours(data.drape)
    BY DEF Inv, Own
  <2>2. QED
    BY <2>1 DEF Ours, Entries
<1>2. QED
  BY <1>1, Invariance, PTL

\* A whole run that is DONE has made each part of its result or is labelled for
\* it (pipeline.gd 27-29), for a drape whose forward does not FAIL: _drape_collect
\* takes the positions of a failed one all the same.
THEOREM DoneRunsAreAccounted ==
  ASSUME ~ForwardFails
  PROVE  Spec => []DoneIsAccounted
<1>1. Inv /\ OwnResults => DoneIsAccounted
  <2> SUFFICES ASSUME Inv, OwnResults, state = "DONE", opts.stop = "", opts.mode # "bad"
               PROVE  /\ Accounted("infer", "body", {}) /\ Accounted("rig", "joints", {})
                      /\ Accounted("curvenet", "garment", {"curvenet"})
                      /\ Accounted("fit", "fitted", {"fit", "avbd"})
                      /\ Accounted("fit", "check", {"fit"})
                      /\ Accounted("drape", "drape", {"drape"})
    BY DEF DoneIsAccounted
  <2>1. Whole /\ Labels
    BY DEF Whole, Inv
  <2>2. QED
    BY <2>1 DEF Labels, Accounted
<1>2. QED
  BY <1>1, Invariance, ResultsAreOwn, PTL
=============================================================================

-------------------------------- MODULE Jobs --------------------------------
(***************************************************************************)
(* The stage-queue jobs (guest/jobs.h, jobs.cpp) and the entry points that *)
(* start, tick, replace and close them (guest/drape/main.cpp: the avbd and *)
(* the drape jobs), on the one rdc::Device they share.                     *)
(*                                                                         *)
(* A job is a script: stages numbered in the order they must run, each     *)
(* with what its closure does to the job's solver, and the stages it adds  *)
(* with next().  Every solver entry begins with "if (pending_) sync()"     *)
(* (AvbdRd::prologue, readPositions, VecRd), which is `touch' here; a      *)
(* submitting stage then records, submits and sets pending_.               *)
(*                                                                         *)
(* Frames are compared only with the current one, so each stored frame is  *)
(* kept as the truth of "it is the current frame" and NextFrame clears it. *)
(***************************************************************************)
EXTENDS Integers, Sequences

CONSTANTS
  Drivers,      \* the job slots of drape.elf that a host uses (g_job, g_djob)
  Scripts,      \* the jobs that can be started, by name
  MaxStages,    \* Job::max_stages_per_tick
  MaxStarts,    \* bound: job starts
  Replaces      \* the host may start a job while another one runs

\* A stage: does it touch the solver, submit, give the verdict, yield; and the
\* stages it queues with next().  roots are queued with push() at the start.
ASSUME ScriptsAssumption ==
  /\ "none" \notin Drivers
  /\ MaxStages \in Nat \ {0} /\ MaxStarts \in Nat /\ Replaces \in BOOLEAN
  /\ {"none", "unknown"} \cap DOMAIN Scripts = {}
  /\ \A name \in DOMAIN Scripts :
       LET st == Scripts[name].stage IN
       /\ Scripts[name].roots \in Seq(DOMAIN st)
       /\ \A n \in DOMAIN st :
            /\ st[n].touch \in BOOLEAN /\ st[n].submit \in BOOLEAN
            /\ st[n].verdict \in BOOLEAN /\ st[n].yield \in BOOLEAN
            /\ st[n].next \in Seq(DOMAIN st)
            /\ st[n].submit => st[n].touch

\* The stages of s, in turn and each followed by the ones it adds, are numbered
\* lo..hi; last[n] numbers the last of the stages that n adds, or n.
Covers(s, lo, hi, last) ==
  IF s = <<>> THEN hi = lo - 1
  ELSE /\ s[1] = lo /\ last[s[Len(s)]] = hi
       /\ \A k \in 1..(Len(s) - 1) : s[k + 1] = last[s[k]] + 1

ASSUME NumberedAssumption ==
  \A name \in DOMAIN Scripts :
    LET st == Scripts[name].stage IN
    /\ Len(st) \in Nat /\ DOMAIN st = 1..Len(st)
    /\ \E last \in [1..Len(st) -> 1..Len(st)] :
         /\ Covers(Scripts[name].roots, 1, Len(st), last)
         /\ \A n \in DOMAIN st : Covers(st[n].next, n + 1, last[n], last)

VARIABLES
  job,          \* g_job / g_djob: NoJob, or its script, queue and flags
  parked,       \* g_parked: how many replaced jobs are still in flight
  parkedNow,    \* g_parked_frame = process_frame()
  dev,          \* the Device: submitted_, submit_frame_ = now, and what it saw
  tick,         \* the driver being ticked, the stages run in this tick, and
                \* whether the queue may run another
  ticked,       \* the host has ticked this driver in this frame
  on,           \* the host still ticks this driver
  ran,          \* per driver, the stages the current job has run
  answer,       \* what the last call answered
  starts        \* job starts so far

vars == <<job, parked, parkedNow, dev, tick, ticked, on, ran, answer, starts>>

NoJob == [script |-> "none"]
Idle  == [driver |-> "none", stages |-> 0, more |-> FALSE]

HasJob(d)  == job[d].script # "none"
pending(d) == HasJob(d) /\ job[d].pending

NewJob(s) == [script |-> s, q |-> Scripts[s].roots, finished |-> FALSE, pending |-> FALSE]

-----------------------------------------------------------------------------
\* The device: sync() counts itself when it is in its submit's frame, and a
\* submit records on the device whatever is in flight on it.
DevSync(v) ==
  [v EXCEPT !.submitted = FALSE, !.sameFrameSync = @ \/ v.fresh]

DevSubmit(v) ==
  [v EXCEPT !.submitted = TRUE, !.fresh = TRUE, !.recordedBusy = @ \/ v.submitted]

\* The destructors of n parked jobs: each syncs its solver.
DevFree(v, n) == IF n = 0 THEN v ELSE DevSync(v)

\* free_parked(): on a later frame than the parking.
Frees(d) == parked[d] > 0 /\ ~parkedNow[d]

\* Mutant: one is counted off even when none was parked.
AfterFreeOne(d) == parked[d] - 1
AfterFree(d) == IF Frees(d) THEN 0 ELSE parked[d]
DevAfterFree(d) == IF Frees(d) THEN DevFree(dev, parked[d]) ELSE dev

Init ==
  /\ job = [d \in Drivers |-> NoJob]
  /\ parked = [d \in Drivers |-> 0]
  /\ parkedNow = [d \in Drivers |-> FALSE]
  /\ dev = [submitted |-> FALSE, fresh |-> FALSE, sameFrameSync |-> FALSE,
            recordedBusy |-> FALSE]
  /\ tick = Idle
  /\ ticked = [d \in Drivers |-> FALSE]
  /\ on = [d \in Drivers |-> FALSE]
  /\ ran = [d \in Drivers |-> <<>>]
  /\ answer = [d \in Drivers |-> "none"]
  /\ starts = 0

-----------------------------------------------------------------------------
\* avbd_job_start, drape_job_start: the job before, if in flight, is parked; else it is destroyed.
\* An unknown name leaves no job, and the host does not tick.  Mutant: the job
\* before is dropped as it is.
Outcomes == DOMAIN Scripts \cup {"unknown"}

Started(d, s) ==
  /\ tick = Idle /\ starts < MaxStarts
  /\ Replaces \/ ~on[d]
  /\ dev' = DevAfterFree(d)
  /\ job' = [job EXCEPT ![d] = IF s = "unknown" THEN NoJob ELSE NewJob(s)]
  /\ on' = [on EXCEPT ![d] = s # "unknown"]
  /\ ran' = [ran EXCEPT ![d] = <<>>]
  /\ answer' = [answer EXCEPT ![d] = IF s = "unknown" THEN "FAIL" ELSE "STARTED"]
  /\ starts' = starts + 1
  /\ UNCHANGED <<tick, ticked>>

JobStartDrops(d, s) ==
  /\ Started(d, s)
  /\ parked' = [parked EXCEPT ![d] = AfterFree(d)]
  /\ UNCHANGED parkedNow

JobStart(d, s) ==
  /\ Started(d, s)
  /\ parked' = [parked EXCEPT ![d] = AfterFree(d) + IF pending(d) THEN 1 ELSE 0]
  /\ parkedNow' = [parkedNow EXCEPT ![d] = @ \/ pending(d)]

\* The job tick with no job.
TickNoJob(d) ==
  /\ tick = Idle /\ on[d] /\ ~ticked[d] /\ ~HasJob(d)
  /\ parked' = [parked EXCEPT ![d] = AfterFree(d)]
  /\ dev' = DevAfterFree(d)
  /\ answer' = [answer EXCEPT ![d] = "FAIL"]
  /\ on' = [on EXCEPT ![d] = FALSE]
  /\ UNCHANGED <<job, parkedNow, tick, ticked, ran, starts>>

\* The job tick enters: free_parked(), then Job::tick.  A job whose verdict is in
\* drains a submit still in flight.  Mutant: it does not.
DrainsNever(d) == FALSE
Drains(d) == job[d].finished /\ job[d].pending

Tick(d) ==
  /\ tick = Idle /\ on[d] /\ ~ticked[d] /\ HasJob(d)
  /\ ticked' = [ticked EXCEPT ![d] = TRUE]
  /\ tick' = [driver |-> d, stages |-> 0, more |-> ~job[d].finished]
  /\ parked' = [parked EXCEPT ![d] = AfterFree(d)]
  /\ dev' = IF Drains(d) THEN DevSync(DevAfterFree(d)) ELSE DevAfterFree(d)
  /\ job' = [job EXCEPT ![d].pending = @ /\ ~Drains(d)]
  /\ UNCHANGED <<parkedNow, on, ran, answer, starts>>

\* What ends StageQueue::tick after a stage.  Mutant: a submit does not.
StopsNotAtSubmit(yield, inFlight, finished) == yield \/ finished
Stops(yield, inFlight, finished) == yield \/ inFlight \/ finished

\* The queue after a stage: what it added with next(), then the rest.  Mutant:
\* next() appends.
RequeueAtEnd(added, rest) == rest \o added
Requeue(added, rest) == added \o rest

\* "if (pending_) sync()" of a stage that touches the solver.  Mutant: never.
SyncsNever(st, inFlight) == FALSE
Syncs(st, inFlight) == st.touch /\ inFlight

\* One stage of StageQueue::tick.
RunStage(d) ==
  /\ tick.driver = d /\ tick.more
  /\ job[d].q # <<>> /\ tick.stages < MaxStages
  /\ LET n  == Head(job[d].q)
         st == Scripts[job[d].script].stage[n]
         inFlight == st.submit \/ (job[d].pending /\ ~st.touch)
         finished == job[d].finished \/ st.verdict
         synced == IF Syncs(st, job[d].pending) THEN DevSync(dev) ELSE dev
     IN
       /\ job' = [job EXCEPT ![d].q = Requeue(st.next, Tail(@)),
                             ![d].pending = inFlight, ![d].finished = finished]
       /\ dev' = IF st.submit THEN DevSubmit(synced) ELSE synced
       /\ tick' = [tick EXCEPT !.stages = @ + 1,
                               !.more = ~Stops(st.yield, inFlight, finished)]
       /\ ran' = [ran EXCEPT ![d] = Append(@, n)]
  /\ UNCHANGED <<parked, parkedNow, ticked, on, answer, starts>>

\* Job::tick after the queue: a queue drained without a verdict is a FAIL; the
\* verdict is answered once nothing is in flight.  Mutant: as soon as it is in.
AnswersAtOnce(finished, inFlight) == finished
Answers(finished, inFlight) == finished /\ ~inFlight

TickEnd(d) ==
  /\ tick.driver = d
  /\ ~tick.more \/ job[d].q = <<>> \/ tick.stages = MaxStages
  /\ LET drained  == job[d].q = <<>> /\ ~job[d].pending
         finished == job[d].finished \/ drained
     IN
       /\ job' = [job EXCEPT ![d].finished = finished]
       /\ answer' = [answer EXCEPT ![d] = IF Answers(finished, job[d].pending)
                                          THEN "VERDICT" ELSE "RUNNING"]
       /\ on' = [on EXCEPT ![d] = ~Answers(finished, job[d].pending)]
  /\ tick' = Idle
  /\ UNCHANGED <<parked, parkedNow, dev, ticked, ran, starts>>

\* rd_close: refused while a submit may be in this frame; else every job and
\* parked job is destroyed and the device freed.
InFlight(d) == pending(d) \/ (parked[d] > 0 /\ parkedNow[d])

RdClose ==
  /\ tick = Idle
  /\ \A d \in Drivers : ~InFlight(d)
  /\ \E d \in Drivers : HasJob(d) \/ parked[d] > 0
  /\ job' = [d \in Drivers |-> NoJob]
  /\ parked' = [d \in Drivers |-> 0]
  /\ dev' = [(IF \E d \in Drivers : parked[d] > 0 THEN DevSync(dev) ELSE dev)
              EXCEPT !.submitted = FALSE]
  /\ ran' = [d \in Drivers |-> <<>>]
  /\ answer' = [d \in Drivers |-> "CLOSED"]
  /\ UNCHANGED <<parkedNow, tick, ticked, on, starts>>

\* The host's process frame: every driver it still ticks has had its tick.
NextFrame ==
  /\ tick = Idle
  /\ \A d \in Drivers : on[d] => ticked[d]
  /\ ticked' = [d \in Drivers |-> FALSE]
  /\ parkedNow' = [d \in Drivers |-> FALSE]
  /\ dev' = [dev EXCEPT !.fresh = FALSE]
  /\ UNCHANGED <<job, parked, tick, on, ran, answer, starts>>

HostTick == \E d \in Drivers : TickNoJob(d) \/ Tick(d) \/ RunStage(d) \/ TickEnd(d)

Next ==
  \/ \E d \in Drivers, s \in Outcomes : JobStart(d, s)
  \/ HostTick
  \/ RdClose
  \/ NextFrame

\* Godot's main loop: process frames go on, and each ticks what is on.
Fairness == WF_vars(HostTick) /\ WF_vars(NextFrame)

Spec == Init /\ [][Next]_vars /\ Fairness

-----------------------------------------------------------------------------
\* The types of the slots, of the device and of the tick.
TypeOK ==
  /\ \A d \in Drivers : HasJob(d) =>
       /\ job[d].script \in DOMAIN Scripts
       /\ job[d].q \in Seq(DOMAIN Scripts[job[d].script].stage)
       /\ job[d].pending \in BOOLEAN /\ job[d].finished \in BOOLEAN
  /\ parked \in [Drivers -> Nat]
  /\ tick.driver \in Drivers \cup {"none"} /\ tick.stages \in 0..MaxStages
  /\ answer \in [Drivers -> {"none", "FAIL", "STARTED", "RUNNING", "VERDICT", "CLOSED"}]

\* AGENTS.md rule 4, which jobs.h 3-11 and main.cpp 112-119 promise by
\* construction: no sync() in the process frame of the submit(), whichever of
\* a stage, a drain, a parked job's destructor or rd_close makes it.
RuleFour == ~dev.sameFrameSync

\* rd_compute.h 192-195: nothing is recorded while a submit is in flight.  Not an
\* invariant: a job may be ticked in the frame in which it replaced another.
RecordsOnIdleDevice == ~dev.recordedBusy

RunsInOrder == \A d \in Drivers : ran[d] = [k \in 1..Len(ran[d]) |-> k]

VerdictIsFinal ==
  \A d \in Drivers : HasJob(d) /\ answer[d] = "VERDICT" =>
    /\ ~pending(d)
    /\ LET st == Scripts[job[d].script].stage
           Gives(k) == st[ran[d][k]].verdict
       IN IF \E k \in 1..Len(ran[d]) : Gives(k)
          THEN \A k \in 1..(Len(ran[d]) - 1) : ~Gives(k)
          ELSE {ran[d][k] : k \in 1..Len(ran[d])} = DOMAIN st

\* jobs.h 13-16 and 70-74: the stages run in the scripted order, the ones a
\* stage adds right after it and before anything queued earlier; a verdict comes
\* only once nothing is in flight, and nothing runs after the stage that gave
\* it; a job without one ran every stage.
VerdictOfTheScript == RunsInOrder /\ VerdictIsFinal

\* main.cpp 141-147: a submit in flight always has an owner left to sync it (a
\* job replaced in flight is parked, never dropped), and the only submit a stage
\* may record over is that of a parked job: a job never records over its own,
\* nor over one that left the queue undrained.
SubmitsAreOwned ==
  [][/\ dev'.recordedBusy => dev.recordedBusy \/ \E d \in Drivers : parked[d] > 0
     /\ dev'.submitted => \E d \in Drivers : pending(d)' \/ parked'[d] > 0]_vars

\* Every job the host ticks once a frame comes to a verdict (or to no job).
Completes == \A d \in Drivers : on[d] ~> ~on[d]
=============================================================================

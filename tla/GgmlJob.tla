------------------------------ MODULE GgmlJob ------------------------------
(***************************************************************************)
(* A ggml job of ggml_test.elf, from both ends: the guest's fiber and pump *)
(* (guest/pump/pump.cpp, fiber.cpp), the backend calls that wait for the   *)
(* GPU or ask for a file (ggml-rd.cpp), and the host that pumps it once a  *)
(* frame and serves what it asks for (project/infer_host.gd and            *)
(* stages/ggml_stage.gd).                                                  *)
(*                                                                         *)
(* A job is a script of the calls it makes that concern the pump.  Byte i  *)
(* of the one host file is the number i, so that a byte that goes astray   *)
(* shows.  A vmcall runs the fiber from a resume to its next request; it   *)
(* may be killed between any two calls of the script, and then guest       *)
(* memory stays as it is.                                                  *)
(***************************************************************************)
EXTENDS Integers, Sequences

CONSTANTS
  Scripts,       \* the jobs: sequences of Ops
  Envs,          \* the GGML_RD_* switches a start may set
  FileLen,       \* bytes of the host file
  BufLen,        \* bytes of the RD buffer
  ReadChunk,     \* pump.cpp kReadChunk
  UploadChunk,   \* infer_host.gd UPLOAD_CHUNK
  Cap,           \* infer_host.gd cap_bytes: READ and UPLOAD bytes of a frame
  HostFaults,    \* a file may fail to open, a buffer_update may fail
  MaxStarts      \* bound: starts asked for

\* The calls of a job.  graph: graph_compute; get: any backend call that only
\* waits; read, upload: file bytes off .. off + n - 1 (n = 0 reads to the end; an
\* upload past the end of its tensor is refused before it is asked for); abort:
\* ggml_abort; throw: an exception leaves the job.
Ops == [fn : {"graph", "get", "coop", "abort", "throw"}]
         \cup [fn : {"read"}, off : Nat, n : Nat]
         \cup [fn : {"upload"}, off : Nat, n : Nat, dst : Nat]

ASSUME JobAssumption ==
  /\ Scripts \subseteq Seq(Ops)
  /\ \A s \in Scripts : \A k \in 1..Len(s) : s[k].fn = "upload" => s[k].dst + s[k].n <= BufLen
  /\ FileLen \in Nat /\ BufLen \in Nat /\ MaxStarts \in Nat /\ HostFaults \in BOOLEAN
  /\ ReadChunk \in Nat \ {0} /\ UploadChunk \in Nat \ {0} /\ Cap \in Nat \ {0}

VARIABLES
  attached,   \* the stage has its Sandbox and its device
  guest,      \* pump::State and the Fiber: what survives between vmcalls
  job,        \* the fiber's own stack: its script, where it is, what it has
  env,        \* the GGML_RD_* switches in the process environment
  dev,        \* ggml-rd's pending, the frame of the submit, the RD buffer
  host,       \* InferHost, and the Sandbox's execution_timeout
  at,         \* where the main thread is in pump_frame
  pumped,     \* _ggml_pumped_frame is this frame
  starts      \* starts so far

vars == <<attached, guest, job, env, dev, host, at, pumped, starts>>

NoUpload == [n |-> 0, foff |-> 0, doff |-> 0, done |-> 0, on |-> FALSE]
Bytes(off, n) == [k \in 1..n |-> off + k - 1]

\* What FileAccess.get_buffer gives at off: n bytes, or the ones there are.
FileBytes(off, n) ==
  Bytes(off, IF off >= FileLen THEN 0 ELSE IF off + n > FileLen THEN FileLen - off ELSE n)

\* pump::State as start() or the first vmcall finds it.
NoFiber == [fiber |-> "none", failed |-> FALSE, inside |-> FALSE, kind |-> "NONE",
            in |-> <<>>, off |-> 0, n |-> 0, dst |-> 0]
NoRead == [off |-> FileLen, n |-> 0, out |-> <<>>]
NoJob == [script |-> <<>>, pc |-> 1, waits |-> FALSE, out |-> <<>>,
          env |-> "none", got |-> NoRead]
NoByte == -1
\* The device's buffer: no file byte is in it yet.
NoDevice == [pending |-> FALSE, fresh |-> FALSE, early |-> FALSE, 
             buf |-> [k \in 0..BufLen - 1 |-> NoByte]]
IdleHost == [state |-> "done", feed |-> <<>>, up |-> NoUpload, budget |-> 0,
             cpu |-> FALSE, timeout |-> "base", gaveUp |-> FALSE]

Init ==
  /\ attached = FALSE
  /\ guest = NoFiber /\ job = NoJob
  /\ env = "none"
  /\ dev = NoDevice /\ host = IdleHost
  /\ at = "out" /\ pumped = FALSE /\ starts = 0

\* pump::running.
Running == guest.fiber = "alive" /\ ~guest.failed

\* _restore_timeout, and _fail, with which the host alone gives the job up.
\* Mutant: a failure keeps the ggml-cpu cap.
RestoredNever(h) == h
Restored(h) == IF h.cpu THEN [h EXCEPT !.timeout = "base"] ELSE h
HostFail(h) == host' = [Restored(h) EXCEPT !.state = "error", !.gaveUp = TRUE]

-----------------------------------------------------------------------------
(* The guest, between a resume and the next request.                       *)

InGuest == at = "guest" /\ UNCHANGED <<attached, host, pumped, starts>>

Op == job.script[job.pc]
Doing(fn) == job.pc <= Len(job.script) /\ Op.fn = fn
Done == [job EXCEPT !.pc = @ + 1, !.waits = FALSE, !.out = <<>>]

\* request: the fiber yields and the vmcall returns to the host.
Request(kind) ==
  /\ guest' = [guest EXCEPT !.kind = kind, !.inside = FALSE]
  /\ at' = "reply"

RequestRange(kind, off, n, dst) ==
  /\ guest' = [guest EXCEPT !.kind = kind, !.inside = FALSE, !.off = off, !.n = n, !.dst = dst]
  /\ at' = "reply"

\* The calls that begin with ensure_idle.  Mutant: not the upload.
WaitFirstNotUpload == {"graph", "get"}
WaitFirst == {"graph", "get", "upload"}

Idle == ~dev.pending \/ Op.fn \notin WaitFirst

\* ensure_idle: a WAIT_GPU, and then the sync, in one of the next vmcalls.
\* Mutant: the sync at once.
SyncsAtOnce == TRUE
SyncsNow == job.waits

EnsureIdle ==
  /\ InGuest /\ job.pc <= Len(job.script) /\ ~Idle
  /\ \/ /\ ~SyncsNow
        /\ job' = [job EXCEPT !.waits = TRUE]
        /\ Request("WAIT_GPU") /\ UNCHANGED dev
     \/ /\ SyncsNow
        /\ job' = [job EXCEPT !.waits = FALSE]
        /\ dev' = [dev EXCEPT !.pending = FALSE, !.early = @ \/ dev.fresh]
        /\ UNCHANGED <<guest, at>>
  /\ UNCHANGED env

Graph ==
  /\ InGuest /\ Doing("graph") /\ Idle
  /\ dev' = [dev EXCEPT !.pending = TRUE, !.fresh = TRUE]
  /\ job' = Done
  /\ UNCHANGED <<guest, env, at>>

Get ==
  /\ InGuest /\ Doing("get") /\ Idle
  /\ job' = Done
  /\ UNCHANGED <<guest, env, dev, at>>

Coop ==
  /\ InGuest /\ Doing("coop")
  /\ Request("COOP")
  /\ job' = Done
  /\ UNCHANGED <<env, dev>>

\* read: the next chunk's offset and size.  Mutant: every chunk at the first
\* offset.
NextOffsetFirst(r, got) == r.off
NextOffset(r, got) == r.off + Len(got)
Want(r, got) ==
  IF r.n = 0 \/ r.n - Len(got) > ReadChunk THEN ReadChunk ELSE r.n - Len(got)

\* The read is over with these bytes.
ReadDone(out) == [Done EXCEPT !.got = [off |-> Op.off, n |-> Op.n, out |-> out]]

AskRead ==
  /\ InGuest /\ Doing("read") /\ ~job.waits
  /\ IF Want(Op, job.out) = 0
     THEN /\ job' = ReadDone(job.out)
          /\ UNCHANGED <<guest, at>>
     ELSE /\ RequestRange("READ", NextOffset(Op, job.out), Want(Op, job.out), 0)
          /\ job' = [job EXCEPT !.waits = TRUE]
  /\ UNCHANGED <<env, dev>>

\* The answer is in State::in; a short one ends the read.
TakeRead ==
  /\ InGuest /\ Doing("read") /\ job.waits
  /\ LET out == job.out \o guest.in IN
     job' = IF Len(guest.in) < Want(Op, job.out) THEN ReadDone(out)
            ELSE [job EXCEPT !.out = out, !.waits = FALSE]
  /\ guest' = [guest EXCEPT !.in = <<>>]
  /\ UNCHANGED <<env, dev, at>>

\* tensor_upload, once the device is idle; on the next resume it is done.
Upload ==
  /\ InGuest /\ Doing("upload") /\ Idle
  /\ IF job.waits
     THEN job' = Done /\ UNCHANGED <<guest, at>>
     ELSE /\ RequestRange("UPLOAD", Op.off, Op.n, Op.dst)
          /\ job' = [job EXCEPT !.waits = TRUE]
  /\ UNCHANGED <<env, dev>>

\* fail, inside the job: the fiber is abandoned.
Abort ==
  /\ InGuest /\ Doing("abort")
  /\ guest' = [guest EXCEPT !.failed = TRUE, !.kind = "ERROR", !.inside = FALSE]
  /\ at' = "reply"
  /\ UNCHANGED <<job, env, dev>>

\* The job returns, or an exception escapes it: the fiber is done.  Mutant: only
\* the one that returned.
EndedIfReturned == IF job.pc > Len(job.script) THEN "done" ELSE guest.fiber
Ended == "done"

Return ==
  /\ InGuest
  /\ job.pc > Len(job.script) \/ Doing("throw")
  /\ guest' = [guest EXCEPT !.fiber = Ended, !.inside = FALSE,
                            !.kind = IF job.pc > Len(job.script) THEN "DONE" ELSE "ERROR"]
  /\ at' = "reply"
  /\ UNCHANGED <<job, env, dev>>

GuestStep ==
  \/ EnsureIdle \/ Graph \/ Get \/ Coop
  \/ AskRead \/ TakeRead \/ Upload \/ Abort \/ Return

\* The sandbox kills the vmcall: a fault, or its execution_timeout.
Kill ==
  /\ at = "guest"
  /\ HostFail(host) /\ at' = "out"
  /\ UNCHANGED <<attached, guest, job, env, dev, pumped, starts>>

-----------------------------------------------------------------------------
(* InferHost.pump_frame.                                                   *)

InHost == UNCHANGED <<attached, job, env, starts>>

PumpFrame ==
  /\ at = "out" /\ attached /\ host.state = "running" /\ ~pumped
  /\ pumped' = TRUE
  /\ host' = [host EXCEPT !.budget = Cap]
  /\ at' = IF host.up.on THEN "carried" ELSE "loop"
  /\ UNCHANGED <<guest, dev>> /\ InHost

\* The vmcall: pump::step resumes the fiber with what the host has for it.
\* Mutant: the bytes of a READ are not kept over the end of a frame.
FeedInFrame == IF host.budget = Cap THEN <<>> ELSE host.feed
Feed == host.feed

Vmcall ==
  /\ at = "loop"
  /\ guest' = [guest EXCEPT !.in = Feed, !.kind = "NONE", !.inside = TRUE,
                            !.off = 0, !.n = 0, !.dst = 0]
  /\ host' = [host EXCEPT !.feed = <<>>, !.timeout = IF host.cpu THEN "cpu" ELSE @]
  /\ at' = "guest"
  /\ UNCHANGED <<dev, pumped>> /\ InHost

\* After a READ or an UPLOAD served in this frame: another vmcall while the
\* frame's bytes last.
GoOn(h) == IF h.budget <= 0 THEN "out" ELSE "loop"

ReplyYield ==
  /\ at = "reply" /\ guest.kind \in {"WAIT_GPU", "COOP"}
  /\ at' = "out"
  /\ UNCHANGED <<guest, dev, host, pumped>> /\ InHost

ReplyDone ==
  /\ at = "reply" /\ guest.kind = "DONE"
  /\ host' = [Restored(host) EXCEPT !.state = "done"]
  /\ at' = "out"
  /\ UNCHANGED <<guest, dev, pumped>> /\ InHost

ReplyError ==
  /\ at = "reply" /\ guest.kind = "ERROR"
  /\ host' = [Restored(host) EXCEPT !.state = "error"]
  /\ at' = "out"
  /\ UNCHANGED <<guest, dev, pumped>> /\ InHost

\* _read.
ReplyRead ==
  /\ at = "reply" /\ guest.kind = "READ"
  /\ \/ LET b == FileBytes(guest.off, guest.n) IN
        /\ host' = [host EXCEPT !.feed = b, !.budget = @ - Len(b)]
        /\ at' = GoOn(host')
     \/ HostFaults /\ HostFail(host) /\ at' = "out"
  /\ UNCHANGED <<guest, dev, pumped>> /\ InHost

ReplyUpload ==
  /\ at = "reply" /\ guest.kind = "UPLOAD"
  /\ host' = [host EXCEPT !.up = [n |-> guest.n, foff |-> guest.off, doff |-> guest.dst,
                                  done |-> 0, on |-> TRUE]]
  /\ at' = "carry"
  /\ UNCHANGED <<guest, dev, pumped>> /\ InHost

\* The bytes of the next chunk.  Mutant: past the end of the upload.
ChunkUnbounded(up, budget) == IF UploadChunk <= budget THEN UploadChunk ELSE budget
Chunk(up, budget) ==
  LET n == IF UploadChunk <= budget THEN UploadChunk ELSE budget IN
  IF up.n - up.done < n THEN up.n - up.done ELSE n

\* Where in the file the next chunk starts.  Mutant: at the first byte again.
ChunkFromFirst(up) == up.foff
ChunkFrom(up) == up.foff + up.done

\* _carry_upload: one chunk of its loop, a failure of it, or its end.
CarryChunk ==
  LET up == host.up
      n == Chunk(up, host.budget)
      b == FileBytes(ChunkFrom(up), n)
  IN
  /\ at \in {"carry", "carried"} /\ up.done < up.n /\ host.budget > 0
  /\ IF Len(b) # n
     THEN HostFail(host) /\ at' = "out" /\ UNCHANGED dev
     ELSE \/ /\ dev' = [dev EXCEPT !.buf = [k \in DOMAIN @ |->
                  LET i == k - (up.doff + up.done) + 1 IN IF i \in 1..n THEN b[i] ELSE @[k]]]
             /\ host' = [host EXCEPT !.up.done = @ + n, !.budget = @ - n]
             /\ UNCHANGED at
          \/ /\ HostFaults /\ HostFail(host) /\ at' = "out" /\ UNCHANGED dev
  /\ UNCHANGED <<guest, pumped>> /\ InHost

\* The upload is over: the vmcall that resumes the job.  Mutants: when the
\* frame's bytes are used up, too; only past the last byte.
CarriedAtBudget == host.up.done >= host.up.n \/ host.budget <= 0
CarriedPastEnd == host.up.done > host.up.n
Carried == host.up.done >= host.up.n

CarryEnd ==
  /\ at \in {"carry", "carried"}
  /\ host.up.done >= host.up.n \/ host.budget <= 0
  /\ host' = IF Carried THEN [host EXCEPT !.up = NoUpload] ELSE host
  /\ at' = IF ~Carried THEN "out" ELSE IF at = "carried" THEN "loop" ELSE GoOn(host)
  /\ UNCHANGED <<guest, dev, pumped>> /\ InHost

HostStep ==
  \/ Kill \/ PumpFrame \/ Vmcall
  \/ ReplyYield \/ ReplyDone \/ ReplyError \/ ReplyRead \/ ReplyUpload
  \/ CarryChunk \/ CarryEnd
-----------------------------------------------------------------------------
(* ggml_stage.gd: what a user of the stage calls, between two frames' pumps. *)

Call == at = "out" /\ UNCHANGED <<at, pumped>>

\* A new Sandbox, and a new InferHost on it that has no job.
Attach ==
  /\ Call /\ ~attached
  /\ attached' = TRUE
  /\ guest' = NoFiber /\ job' = NoJob /\ env' = "none" /\ dev' = NoDevice
  /\ host' = IdleHost
  /\ UNCHANGED starts

\* pump::start on a State without a running job; the stack may not be had.
Refused == Running

\* The switches a start sets, before pump::start says whether it is refused.
Start(script, e, cpu) ==
  /\ Call /\ attached /\ starts < MaxStarts
  /\ starts' = starts + 1
  /\ env' = e
  /\ IF Refused THEN UNCHANGED <<guest, job, host>>
     ELSE \/ /\ guest' = [NoFiber EXCEPT !.fiber = "alive"]
             /\ job' = [NoJob EXCEPT !.script = script, !.env = e]
             /\ host' = [IdleHost EXCEPT !.state = "running", !.cpu = cpu,
                                        !.timeout = IF cpu THEN "cpu" ELSE "base"]
          \/ /\ guest' = [NoFiber EXCEPT !.fiber = "done", !.failed = TRUE, !.kind = "ERROR"]
             /\ UNCHANGED <<job, host>>
  /\ UNCHANGED <<attached, dev>>

\* ggml_rd_close: ensure_idle outside a job syncs in this very call.
Close ==
  /\ Call /\ attached /\ ~Running
  /\ attached' = FALSE
  /\ dev' = [dev EXCEPT !.pending = FALSE]
  /\ host' = IdleHost
  /\ UNCHANGED <<guest, job, env, starts>>

\* _process pumps a running job in every frame.
NextFrame ==
  /\ at = "out" /\ (attached /\ host.state = "running" => pumped)
  /\ pumped' = FALSE
  /\ dev' = [dev EXCEPT !.fresh = FALSE]
  /\ UNCHANGED <<attached, guest, job, env, host, at, starts>>

HostCall ==
  \/ Attach \/ Close
  \/ \E s \in Scripts, e \in Envs, cpu \in BOOLEAN : Start(s, e, cpu)

Next == GuestStep \/ HostStep \/ HostCall \/ NextFrame

\* Godot's frames go on, each with its _process; a vmcall ends.
Fairness == WF_vars(GuestStep) /\ WF_vars(HostStep) /\ WF_vars(NextFrame)

Spec == Init /\ [][Next]_vars /\ Fairness

-----------------------------------------------------------------------------
\* The types of the two ends of a job.
TypeOK ==
  /\ attached \in BOOLEAN /\ pumped \in BOOLEAN
  /\ guest.fiber \in {"none", "alive", "done"} /\ guest.failed \in BOOLEAN
  /\ guest.kind \in {"NONE", "WAIT_GPU", "READ", "UPLOAD", "COOP", "DONE", "ERROR"}
  /\ job.pc \in 1..Len(job.script) + 1 /\ job.waits \in BOOLEAN
  /\ dev.buf \in [0..BufLen - 1 -> NoByte..FileLen - 1]
  /\ host.state \in {"running", "done", "error"} /\ host.timeout \in {"base", "cpu"}
  /\ host.up.done \in 0..host.up.n /\ host.budget \in Int
  /\ at \in {"out", "loop", "guest", "reply", "carry", "carried"}

SyncsOnALaterFrame == ~dev.early
UploadsOnIdleDevice == host.up.on => ~dev.pending

\* ggml_stage.gd 9-10, pump.h "resume me on a LATER frame": a sync that a job
\* makes never lands in the frame of its submit, nor in that of the submit an
\* abandoned job left behind.  pump.h: "An UPLOAD must be yielded only while the
\* device is idle": for as many frames as the host carries one, nothing is in
\* flight.
DeviceInTurn == SyncsOnALaterFrame /\ UploadsOnIdleDevice

\* Whatever chunks and frames a READ or an UPLOAD is split into, the job goes on
\* with exactly the bytes of the file it asked for: a read returns them, short
\* only at the end of the file, and an upload has put them in the buffer.
ServedWhole ==
  /\ job.got.out = FileBytes(job.got.off, IF job.got.n = 0 THEN FileLen ELSE job.got.n)
  /\ at = "guest" /\ Doing("upload") /\ job.waits /\ ~dev.pending
       => \A i \in 0..Op.n - 1 : dev.buf[Op.dst + i] = Op.off + i

TimeoutInForce ==
  /\ at = "guest" => host.timeout = IF host.cpu THEN "cpu" ELSE "base"
  /\ host.state # "running" => host.timeout = "base"

\* The two ends agree on whether a job runs, unless the host gave it up alone
\* (a killed vmcall, a file it could not serve): a job that is running is
\* pumped, and one that is pumped can be resumed.  Rule 10: a vmcall of a job
\* that runs ggml-cpu has the ggml-cpu cap, and the calls after the job, however
\* it ended, have the Sandbox's own budget.
BothEndsAgree ==
  /\ attached /\ at \in {"out", "loop"} /\ ~host.gaveUp => (Running <=> host.state = "running")
  /\ TimeoutInForce

\* A started job ends, for the host that polls its status.
JobEnds == attached /\ host.state = "running" ~> ~attached \/ host.state # "running"

\* What ggml_stage.gd 28 promises a caller: with the job over, the stage can
\* be closed and attached again.
OverCanClose == attached /\ host.state # "running" => ~Running

\* main.cpp 177 says of the switches "set for this job".  Not an invariant: a
\* refused start has set its own by then.
JobKeepsItsSwitches == Running => env = job.env
=============================================================================

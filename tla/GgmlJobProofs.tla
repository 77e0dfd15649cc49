---------------------------- MODULE GgmlJobProofs ----------------------------
(***************************************************************************)
(* Proofs about GgmlJob, for every script, file, chunk and frame budget.   *)
(* Two invariants carry them.  IInv follows the main thread through        *)
(* pump_frame: whose turn it is says which side may change what, so that   *)
(* the device is synced and written in turn and the two ends of a job      *)
(* agree.  Bytewise follows the bytes of a read or an upload from the file *)
(* through the host's feed, State::in and the buffer: what has arrived is  *)
(* a prefix of what was asked for, and what is on its way comes next.      *)
(***************************************************************************)
EXTENDS GgmlJob, SequenceTheorems, TLAPS

\* The fields of the records that EXCEPT updates.
Fields ==
  /\ DOMAIN guest = {"fiber", "failed", "inside", "kind", "in", "off", "n", "dst"}
  /\ DOMAIN job = {"script", "pc", "waits", "out", "env", "got"}
  /\ DOMAIN dev = {"pending", "fresh", "early", "buf"}
  /\ DOMAIN host = {"state", "feed", "up", "budget", "cpu", "timeout", "gaveUp"}
  /\ DOMAIN host.up = {"n", "foff", "doff", "done", "on"}
  /\ job.waits \in BOOLEAN /\ dev.pending \in BOOLEAN /\ dev.fresh \in BOOLEAN
  /\ dev.early \in BOOLEAN /\ host.cpu \in BOOLEAN /\ host.gaveUp \in BOOLEAN
  /\ host.up.on \in BOOLEAN /\ guest.failed \in BOOLEAN
  /\ attached \in BOOLEAN /\ pumped \in BOOLEAN

\* A call that waits for the GPU is on its way, after its WAIT_GPU.
Waiting == job.waits /\ dev.pending /\ job.pc <= Len(job.script) /\ Op.fn \in WaitFirst

\* A submit of this frame is one of the frame that is pumped, and a call that
\* waits for it is not resumed before the next.
FreshIsPumped ==
  /\ at # "out" => pumped
  /\ dev.fresh => pumped
  /\ Waiting /\ dev.fresh => at = "out" \/ (at = "reply" /\ guest.kind = "WAIT_GPU")
  /\ ~dev.early

\* An upload is asked for on an idle device, and nothing is submitted until it
\* is carried: the guest does not run.
UploadIsCarried ==
  /\ at = "reply" /\ guest.kind = "UPLOAD" => ~dev.pending
  /\ host.up.on => ~dev.pending /\ at \in {"carry", "carried", "out"}

\* Whose turn it is, and who knows that the job runs.
Turns ==
  /\ at \in {"out", "loop", "guest", "reply", "carry", "carried"}
  /\ at # "out" => attached /\ host.state = "running"
  /\ host.gaveUp => host.state # "running"
  /\ at \in {"loop", "guest", "carry", "carried"} => Running
  /\ at = "reply" => (Running <=> guest.kind \notin {"DONE", "ERROR"})
  /\ attached /\ ~host.gaveUp /\ at = "out" => (Running <=> host.state = "running")

Caps ==
  /\ at = "guest" => host.timeout = IF host.cpu THEN "cpu" ELSE "base"
  /\ host.state # "running" => host.timeout = "base"
  /\ ~host.cpu => host.timeout = "base"

IInv == Fields /\ FreshIsPumped /\ UploadIsCarried /\ Turns /\ Caps

\* No job, no device.
LEMMA InitEstablishes == Init => IInv
<1> SUFFICES ASSUME Init PROVE IInv
  OBVIOUS
<1>1. /\ attached = FALSE /\ pumped = FALSE /\ at = "out"
      /\ guest = NoFiber /\ job = NoJob /\ dev = NoDevice /\ host = IdleHost
  BY DEF Init
<1>2. Fields
  <2>1. DOMAIN dev = {"pending", "fresh", "early", "buf"}
    BY <1>1 DEF NoDevice
  <2>2. dev.pending = FALSE /\ dev.fresh = FALSE /\ dev.early = FALSE
    BY <1>1 DEF NoDevice
  <2>3. /\ DOMAIN guest = {"fiber", "failed", "inside", "kind", "in", "off", "n", "dst"}
        /\ guest.failed = FALSE
    BY <1>1 DEF NoFiber
  <2>4. /\ DOMAIN job = {"script", "pc", "waits", "out", "env", "got"}
        /\ job.waits = FALSE
    BY <1>1 DEF NoJob
  <2>5. /\ DOMAIN host = {"state", "feed", "up", "budget", "cpu", "timeout", "gaveUp"}
        /\ DOMAIN host.up = {"n", "foff", "doff", "done", "on"}
        /\ host.cpu = FALSE /\ host.gaveUp = FALSE /\ host.up.on = FALSE
    BY <1>1 DEF IdleHost, NoUpload
  <2>6. QED
    BY <1>1, <2>1, <2>2, <2>3, <2>4, <2>5 DEF Fields
<1>3. FreshIsPumped
  BY <1>1 DEF FreshIsPumped, NoDevice
<1>4. UploadIsCarried /\ Turns /\ Caps
  BY <1>1 DEF UploadIsCarried, Turns, Caps, Running, NoFiber, IdleHost, NoUpload
<1>5. QED
  BY <1>2, <1>3, <1>4 DEF IInv

\* What the host changes when it gives a job up.
LEMMA GivesUp ==
  ASSUME Fields, HostFail(host)
  PROVE  /\ host'.state = "error" /\ host'.gaveUp = TRUE
         /\ host'.up = host.up /\ host'.cpu = host.cpu /\ DOMAIN host' = DOMAIN host
         /\ host'.timeout = IF host.cpu THEN "base" ELSE host.timeout
  BY DEF Fields, HostFail, Restored

\* Each turn of the guest, the host, a caller of the stage and the frame keeps
\* it.
LEMMA StepPreserves == IInv /\ [Next]_vars => IInv'
<1> SUFFICES ASSUME IInv, [Next]_vars PROVE IInv'
  OBVIOUS
<1> USE DEF IInv, Fields, FreshIsPumped, Waiting, UploadIsCarried, Turns, Running, Caps
<1>1. CASE EnsureIdle
  BY <1>1 DEF EnsureIdle, InGuest, Idle, SyncsNow, Request, Op, WaitFirst
<1>2. CASE Graph
  BY <1>2 DEF Graph, InGuest, Doing, Idle, Done, Op, WaitFirst
<1>3. CASE Get
  BY <1>3 DEF Get, InGuest, Done
<1>4. CASE Coop
  BY <1>4 DEF Coop, InGuest, Done, Request
<1>5. CASE AskRead
  <2>1. /\ at = "guest" /\ Op.fn = "read" /\ ~job.waits /\ dev' = dev
        /\ attached' = attached /\ host' = host /\ pumped' = pumped
    BY <1>5 DEF AskRead, InGuest, Doing
  <2>2. CASE job' = ReadDone(job.out) /\ UNCHANGED <<guest, at>>
    <3>1. DOMAIN job' = DOMAIN job /\ job'.waits = FALSE
      BY <2>2 DEF ReadDone, Done
    <3>2. QED
      BY <2>1, <2>2, <3>1
  <2>3. CASE /\ RequestRange("READ", NextOffset(Op, job.out), Want(Op, job.out), 0)
             /\ job' = [job EXCEPT !.waits = TRUE]
    <3>1. /\ at' = "reply" /\ guest'.kind = "READ" /\ DOMAIN guest' = DOMAIN guest
          /\ guest'.failed = guest.failed /\ guest'.fiber = guest.fiber
      BY <2>3 DEF RequestRange
    <3>2. /\ DOMAIN job' = DOMAIN job /\ job'.waits = TRUE
          /\ job'.pc = job.pc /\ job'.script = job.script
      BY <2>3
    <3>3. ~(Op.fn \in WaitFirst)'
      BY <2>1, <3>2 DEF Op, WaitFirst
    <3>4. QED
      BY <2>1, <3>1, <3>2, <3>3
  <2>4. QED
    BY <1>5, <2>2, <2>3 DEF AskRead
<1>6. CASE TakeRead
  BY <1>6 DEF TakeRead, InGuest, Doing, Done, ReadDone, Op, WaitFirst
<1>7. CASE Upload
  BY <1>7 DEF Upload, InGuest, Doing, Done, Idle, RequestRange, Op, WaitFirst
<1>8. CASE Abort
  BY <1>8 DEF Abort, InGuest, Doing, Op, WaitFirst
<1>9. CASE Return
  BY <1>9 DEF Return, InGuest, Ended, Doing, Op, WaitFirst
<1>10. CASE Kill
  BY <1>10 DEF Kill, HostFail, Restored, Op
<1>11. CASE PumpFrame
  <2>1. /\ host'.state = host.state /\ host'.up = host.up /\ host'.cpu = host.cpu
        /\ host'.timeout = host.timeout /\ host'.gaveUp = host.gaveUp /\ DOMAIN host' = DOMAIN host
    BY <1>11 DEF PumpFrame
  <2>2. /\ at = "out" /\ attached /\ host.state = "running" /\ ~pumped /\ pumped' = TRUE
        /\ at' = (IF host.up.on THEN "carried" ELSE "loop")
        /\ guest' = guest /\ dev' = dev /\ job' = job /\ attached' = attached
    BY <1>11 DEF PumpFrame, InHost
  <2>3. QED
    BY <2>1, <2>2 DEF Op
<1>12. CASE Vmcall
  BY <1>12 DEF Vmcall, InHost, Op
<1>13. CASE ReplyYield
  BY <1>13 DEF ReplyYield, InHost, Op
<1>14. CASE ReplyDone
  BY <1>14 DEF ReplyDone, InHost, Restored, Op
<1>15. CASE ReplyError
  BY <1>15 DEF ReplyError, InHost, Restored, Op
<1>16. CASE ReplyRead
  <2>1. CASE HostFail(host) /\ at' = "out"
    BY <1>16, <2>1, GivesUp DEF ReplyRead, InHost, Op
  <2>2. CASE ~(HostFail(host) /\ at' = "out")
    <3>1. /\ host'.state = host.state /\ host'.up = host.up /\ host'.cpu = host.cpu
          /\ host'.timeout = host.timeout /\ host'.gaveUp = host.gaveUp
          /\ DOMAIN host' = DOMAIN host /\ at' \in {"out", "loop"}
      BY <1>16, <2>2 DEF ReplyRead, GoOn
    <3>2. QED
      BY <1>16, <3>1 DEF ReplyRead, InHost, Op
  <2>3. QED
    BY <2>1, <2>2
<1>17. CASE ReplyUpload
  BY <1>17 DEF ReplyUpload, InHost, Op
<1>18. CASE CarryChunk
  <2>1. CASE HostFail(host) /\ at' = "out" /\ UNCHANGED dev
    BY <1>18, <2>1, GivesUp DEF CarryChunk, InHost, Op
  <2>2. CASE ~(HostFail(host) /\ at' = "out" /\ UNCHANGED dev)
    <3> DEFINE n == Chunk(host.up, host.budget)
               new == [k \in DOMAIN dev.buf |->
                        LET i == k - (host.up.doff + host.up.done) + 1
                        IN  IF i \in 1..n THEN FileBytes(ChunkFrom(host.up), n)[i] ELSE dev.buf[k]]
    <3>1. /\ dev' = [dev EXCEPT !.buf = new]
          /\ host' = [host EXCEPT !.up.done = @ + n, !.budget = @ - n]
          /\ UNCHANGED at
      BY <1>18, <2>2, Zenon DEF CarryChunk
    <3> HIDE DEF n, new
    <3>2. /\ dev'.pending = dev.pending /\ dev'.fresh = dev.fresh /\ dev'.early = dev.early
          /\ DOMAIN dev' = DOMAIN dev
      BY <3>1
    <3>3. /\ host'.state = host.state /\ host'.cpu = host.cpu /\ host'.timeout = host.timeout
          /\ host'.gaveUp = host.gaveUp /\ DOMAIN host' = DOMAIN host
          /\ host'.up.on = host.up.on /\ DOMAIN host'.up = DOMAIN host.up
      BY <3>1
    <3>4. QED
      BY <1>18, <3>1, <3>2, <3>3 DEF CarryChunk, InHost, Op
  <2>3. QED
    BY <2>1, <2>2
<1>19. CASE CarryEnd
  BY <1>19 DEF CarryEnd, InHost, NoUpload, GoOn, Op
<1>20. CASE Attach
  BY <1>20 DEF Attach, Call, NoFiber, NoJob, NoDevice, IdleHost, NoUpload
<1>21. CASE Close
  BY <1>21 DEF Close, Call, IdleHost, NoUpload
<1>22. ASSUME NEW s \in Scripts, NEW e \in Envs, NEW cpu \in BOOLEAN, Start(s, e, cpu)
       PROVE  IInv'
  <2>1. CASE Running
    BY <1>22, <2>1 DEF Start, Call, Refused, Op
  <2>2. CASE ~Running /\ guest'.fiber = "alive"
    <3>1. /\ guest' = [NoFiber EXCEPT !.fiber = "alive"]
          /\ job' = [NoJob EXCEPT !.script = s, !.env = e]
          /\ host' = [IdleHost EXCEPT !.state = "running", !.cpu = cpu,
                                     !.timeout = IF cpu THEN "cpu" ELSE "base"]
      BY <1>22, <2>2 DEF Start, Refused, NoFiber
    <3>2. /\ DOMAIN guest' = DOMAIN guest /\ guest'.failed = FALSE
          /\ DOMAIN job' = DOMAIN job /\ job'.waits = FALSE
      BY <3>1 DEF NoFiber, NoJob
    <3>3. /\ DOMAIN host' = DOMAIN host /\ host'.state = "running" /\ host'.cpu = cpu
          /\ host'.timeout = (IF cpu THEN "cpu" ELSE "base") /\ host'.gaveUp = FALSE
          /\ host'.up = NoUpload
      BY <3>1 DEF IdleHost
    <3>4. DOMAIN NoUpload = DOMAIN host.up /\ NoUpload.on = FALSE
      BY DEF NoUpload
    <3>5. QED
      BY <1>22, <2>2, <3>2, <3>3, <3>4 DEF Start, Call
  <2>3. CASE ~Running /\ guest'.fiber # "alive"
    <3>1. /\ guest' = [NoFiber EXCEPT !.fiber = "done", !.failed = TRUE, !.kind = "ERROR"]
          /\ UNCHANGED <<job, host>>
      BY <1>22, <2>3 DEF Start, Refused, NoFiber
    <3>2. DOMAIN guest' = DOMAIN guest /\ guest'.failed = TRUE
      BY <3>1 DEF NoFiber
    <3>3. QED
      BY <1>22, <2>3, <3>1, <3>2 DEF Start, Call, Op
  <2>4. QED
    BY <2>1, <2>2, <2>3
<1>23. CASE NextFrame
  BY <1>23 DEF NextFrame, Op
<1>24. CASE UNCHANGED vars
  BY <1>24 DEF vars, Op
<1>25. QED
  BY <1>1, <1>2, <1>3, <1>4, <1>5, <1>6, <1>7, <1>8, <1>9, <1>10, <1>11, <1>12, <1>13, <1>14,
     <1>15, <1>16, <1>17, <1>18, <1>19, <1>20, <1>21, <1>22, <1>23, <1>24
  DEF Next, GuestStep, HostStep, HostCall

\* The invariant holds of every behaviour.
THEOREM Inductive == Spec => []IInv
  BY InitEstablishes, StepPreserves, PTL DEF Spec

\* No job syncs in the frame of a submit, its own or one an abandoned job left,
\* and the host writes a buffer only while nothing is in flight.
THEOREM DeviceTurns == Spec => []DeviceInTurn
<1>1. IInv => DeviceInTurn
  BY DEF IInv, FreshIsPumped, UploadIsCarried, DeviceInTurn, SyncsOnALaterFrame, UploadsOnIdleDevice
<1>2. QED
  BY <1>1, Inductive, PTL

\* The host pumps exactly the jobs that run in the guest, with the execution
\* budget that is theirs.
THEOREM EndsAgree == Spec => []BothEndsAgree
<1>1. IInv => BothEndsAgree
  BY DEF IInv, Turns, Caps, BothEndsAgree, TimeoutInForce
<1>2. QED
  BY <1>1, Inductive, PTL

-----------------------------------------------------------------------------
(* The types, and the bytes on their way.                                  *)

States == {"running", "done", "error"}
Kinds == {"NONE", "WAIT_GPU", "READ", "UPLOAD", "COOP", "DONE", "ERROR"}

GuestType == [fiber : {"none", "alive", "done"}, failed : BOOLEAN, inside : BOOLEAN, kind : Kinds,
              in : Seq(Nat), off : Nat, n : Nat, dst : Nat]
GotType == [off : Nat, n : Nat, out : Seq(Nat)]
JobType == [script : Scripts \cup {<<>>}, pc : Nat \ {0}, waits : BOOLEAN, out : Seq(Nat),
            env : Envs \cup {"none"}, got : GotType]
DevType == [pending : BOOLEAN, fresh : BOOLEAN, early : BOOLEAN,
            buf : [0..BufLen - 1 -> NoByte..FileLen - 1]]
UpType == [n : Nat, foff : Nat, doff : Nat, done : Nat, on : BOOLEAN]
HostType == [state : States, feed : Seq(Nat), up : UpType, budget : Int, cpu : BOOLEAN,
             timeout : {"base", "cpu"}, gaveUp : BOOLEAN]

Typed ==
  /\ guest \in GuestType /\ job \in JobType /\ dev \in DevType /\ host \in HostType
  /\ job.pc <= Len(job.script) + 1
  /\ host.up.done <= host.up.n

\* What the pump answered says which call the job is in.
Replying ==
  at = "reply" =>
    /\ guest.kind # "NONE"
    /\ guest.kind = "WAIT_GPU" => ~Doing("read") /\ (Doing("upload") => dev.pending)
    /\ guest.kind = "COOP" => ~job.waits
    /\ guest.kind = "READ" =>
         /\ Doing("read") /\ job.waits
         /\ guest.off = NextOffset(Op, job.out) /\ guest.n = Want(Op, job.out)
    /\ guest.kind = "UPLOAD" =>
         /\ Doing("upload") /\ job.waits
         /\ guest.off = Op.off /\ guest.n = Op.n /\ guest.dst = Op.dst

\* The bytes a read has are the file's, whole chunks from its first offset; the
\* ones on their way are the next chunk, or what the file has of it.
SoFar(o, out) ==
  /\ out = Bytes(o.off, Len(out))
  /\ out # <<>> => o.off + Len(out) <= FileLen
  /\ o.n = 0 \/ Len(out) <= o.n

Answer == FileBytes(NextOffset(Op, job.out), Want(Op, job.out))

Reading ==
  /\ IF Doing("read") THEN SoFar(Op, job.out) ELSE job.out = <<>>
  /\ Doing("read") /\ job.waits =>
       /\ at \in {"out", "loop"} /\ host.state = "running" => host.feed = Answer
       /\ at = "guest" => guest.in = Answer
  /\ job.got.out = FileBytes(job.got.off, IF job.got.n = 0 THEN FileLen ELSE job.got.n)

\* The bytes of an upload that the buffer has are the file's, from the first on;
\* the guest goes on once it has them all.
InBuffer(o, n) == \A i \in 0..n - 1 : dev.buf[o.dst + i] = o.off + i

Uploading ==
  /\ host.up.on =>
       /\ Running /\ Doing("upload") /\ job.waits
       /\ host.up.n = Op.n /\ host.up.foff = Op.off /\ host.up.doff = Op.dst
       /\ InBuffer(Op, host.up.done)
  /\ at \in {"carry", "carried"} => host.up.on
  /\ Doing("upload") /\ job.waits /\ ~dev.pending =>
       /\ at \in {"out", "loop"} /\ host.state = "running" /\ ~host.up.on => InBuffer(Op, Op.n)
       /\ at = "guest" => InBuffer(Op, Op.n)

Bytewise == Typed /\ Replying /\ Reading /\ Uploading

LEMMA BytesAre ==
  ASSUME NEW o \in Nat, NEW n \in Nat
  PROVE  Bytes(o, n) \in Seq(Nat) /\ Len(Bytes(o, n)) = n /\ (n = 0 <=> Bytes(o, n) = <<>>)
<1>1. Bytes(o, n) \in [1..n -> Nat]
  BY DEF Bytes
<1>2. Bytes(o, n) \in Seq(Nat)
  BY <1>1, SeqDef
<1>3. DOMAIN Bytes(o, n) = 1..n
  BY <1>1
<1>4. Len(Bytes(o, n)) \in Nat /\ DOMAIN Bytes(o, n) = 1..Len(Bytes(o, n))
  BY <1>2, LenProperties
<1>5. Len(Bytes(o, n)) = n
  BY <1>3, <1>4
<1>6. n = 0 <=> Bytes(o, n) = <<>>
  BY <1>2, <1>5, EmptySeq
<1>7. QED
  BY <1>2, <1>5, <1>6

LEMMA BytesJoin ==
  ASSUME NEW o \in Nat, NEW m \in Nat, NEW n \in Nat
  PROVE  Bytes(o, m) \o Bytes(o + m, n) = Bytes(o, m + n)
<1> DEFINE a == Bytes(o, m)
           b == Bytes(o + m, n)
           c == Bytes(o, m + n)
<1>1. /\ a \in Seq(Nat) /\ Len(a) = m
      /\ b \in Seq(Nat) /\ Len(b) = n
      /\ c \in Seq(Nat) /\ Len(c) = m + n
  BY BytesAre
<1>2. /\ \A k \in 1..m : a[k] = o + k - 1
      /\ \A k \in 1..n : b[k] = (o + m) + k - 1
      /\ \A k \in 1..(m + n) : c[k] = o + k - 1
  BY DEF Bytes
<1> HIDE DEF a, b, c
<1>3. /\ a \o b \in Seq(Nat) /\ Len(a \o b) = m + n
      /\ \A k \in 1..(m + n) : (a \o b)[k] = IF k <= m THEN a[k] ELSE b[k - m]
  BY <1>1, ConcatProperties
<1>4. ASSUME NEW k \in 1..(m + n) PROVE (a \o b)[k] = c[k]
  <2>1. CASE k <= m
    <3>1. k \in 1..m
      BY <2>1
    <3>2. QED
      BY <1>2, <1>3, <2>1, <3>1
  <2>2. CASE ~(k <= m)
    <3>1. k - m \in 1..n /\ (o + m) + (k - m) - 1 = o + k - 1
      BY <2>2
    <3>2. b[k - m] = o + k - 1
      BY <1>2, <3>1
    <3>3. QED
      BY <1>2, <1>3, <2>2, <3>2
  <2>3. QED
    BY <2>1, <2>2
<1>5. a \o b = c
  BY <1>1, <1>3, <1>4, SeqEqual
<1>6. QED
  BY <1>5 DEF a, b, c

\* How many of n bytes at off the file has.
Has(off, n) == IF off >= FileLen THEN 0 ELSE IF off + n > FileLen THEN FileLen - off ELSE n

LEMMA FileBytesAre ==
  ASSUME NEW off \in Nat, NEW n \in Nat
  PROVE  /\ FileBytes(off, n) = Bytes(off, Has(off, n)) /\ Has(off, n) \in Nat
         /\ FileBytes(off, n) \in Seq(Nat) /\ Len(FileBytes(off, n)) = Has(off, n)
<1>1. Has(off, n) \in Nat
  BY JobAssumption DEF Has
<1>2. FileBytes(off, n) = Bytes(off, Has(off, n))
  BY DEF FileBytes, Has
<1>3. QED
  BY <1>1, <1>2, BytesAre

\* The number of bytes a read that ends with out has to have.
Asked(o) == IF o.n = 0 THEN FileLen ELSE o.n

\* A chunk of a read: the bytes had so far and the next ones are the file's; with
\* a short chunk, or with none left to ask for, they are all of them.
LEMMA ChunkOfRead ==
  ASSUME NEW o, o.off \in Nat, o.n \in Nat, NEW out \in Seq(Nat), SoFar(o, out)
  PROVE  LET w == Want(o, out)
             b == FileBytes(NextOffset(o, out), w)
         IN
         /\ w \in Nat /\ NextOffset(o, out) \in Nat
         /\ w = 0 => out = FileBytes(o.off, Asked(o))
         /\ Len(b) < w => out \o b = FileBytes(o.off, Asked(o))
         /\ ~(Len(b) < w) => SoFar(o, out \o b)
<1>1. PICK f \in Nat, n \in Nat, l \in Nat : f = o.off /\ n = o.n /\ l = Len(out)
  BY LenProperties
<1>2. /\ out = Bytes(f, l) /\ (l # 0 => f + l <= FileLen) /\ (n = 0 \/ l <= n)
  <2>1. l # 0 => out # <<>>
    BY <1>1, EmptySeq
  <2>2. QED
    BY <1>1, <2>1 DEF SoFar
<1>3. PICK w \in Nat : w = Want(o, out) /\ (w = 0 <=> n # 0 /\ l = n) /\ (n = 0 \/ l + w <= n)
  <2> DEFINE v == IF n = 0 \/ n - l > ReadChunk THEN ReadChunk ELSE n - l
  <2>1. v = Want(o, out)
    BY <1>1 DEF Want
  <2>2. v \in Nat /\ (v = 0 <=> n # 0 /\ l = n) /\ (n = 0 \/ l + v <= n)
    BY <1>2, JobAssumption
  <2>3. QED
    BY <2>1, <2>2
<1>4. PICK e \in Nat : e = f + l /\ e = NextOffset(o, out)
  BY <1>1 DEF NextOffset
<1>5. PICK h \in Nat : h = Has(e, w)
  BY FileBytesAre
<1>6. FileBytes(e, w) = Bytes(e, h) /\ Len(FileBytes(e, w)) = h
  BY <1>5, FileBytesAre
<1>7. out \o FileBytes(e, w) = Bytes(f, l + h)
  <2>1. Bytes(f, l) \o Bytes(f + l, h) = Bytes(f, l + h)
    BY BytesJoin
  <2>2. QED
    BY <1>2, <1>4, <1>6, <2>1
<1>8. PICK g \in Nat : g = Asked(o) /\ g = IF n = 0 THEN FileLen ELSE n
  BY <1>1, JobAssumption DEF Asked
<1>9. FileBytes(f, g) = Bytes(f, Has(f, g))
  BY FileBytesAre
<1>10. ASSUME w = 0 PROVE out = FileBytes(o.off, Asked(o))
  <2>1. Has(f, g) = l
    <3>1. n # 0 /\ l = n /\ g = n
      BY <1>3, <1>8, <1>10
    <3>2. l # 0 /\ f + l <= FileLen
      BY <1>2, <3>1
    <3>3. ~(f >= FileLen) /\ ~(f + g > FileLen)
      BY <3>1, <3>2, JobAssumption
    <3>4. QED
      BY <3>1, <3>3 DEF Has
  <2>2. QED
    BY <1>1, <1>2, <1>8, <1>9, <2>1
<1>11. ASSUME h < w PROVE Bytes(f, l + h) = FileBytes(o.off, Asked(o))
  <2>1. Has(f, g) = l + h
    <3>1. FileLen \in Nat
      BY JobAssumption
    <3>2. CASE f + l >= FileLen
      <4>1. h = 0
        BY <1>4, <1>5, <3>2 DEF Has
      <4>2. CASE l = 0
        BY <3>2, <4>1, <4>2 DEF Has
      <4>3. CASE l # 0
        <5>1. f + l = FileLen
          BY <1>2, <3>1, <3>2, <4>3
        <5>2. ~(f >= FileLen) /\ f + g >= FileLen
          BY <1>2, <1>8, <3>1, <4>3, <5>1
        <5>3. Has(f, g) = FileLen - f
          BY <3>1, <5>2 DEF Has
        <5>4. QED
          BY <3>1, <4>1, <5>1, <5>3
      <4>4. QED
        BY <4>2, <4>3
    <3>3. CASE ~(f + l >= FileLen)
      <4>1. (f + l) + w > FileLen /\ h = FileLen - (f + l)
        BY <1>4, <1>5, <1>11, <3>1, <3>3 DEF Has
      <4>2. ~(f >= FileLen) /\ f + g >= FileLen
        BY <1>3, <1>8, <3>1, <3>3, <4>1
      <4>3. Has(f, g) = FileLen - f
        BY <3>1, <4>2 DEF Has
      <4>4. QED
        BY <3>1, <4>1, <4>3
    <3>4. QED
      BY <3>2, <3>3
  <2>2. QED
    BY <1>1, <1>8, <1>9, <2>1
<1>12. ASSUME ~(h < w) PROVE SoFar(o, Bytes(f, l + h))
  <2>1. Len(Bytes(f, l + h)) = l + h /\ (l + h = 0 <=> Bytes(f, l + h) = <<>>)
    BY BytesAre
  <2>2. h = w /\ (h # 0 => (f + l) + h <= FileLen)
    BY <1>4, <1>5, <1>12, JobAssumption DEF Has
  <2>3. l + h # 0 => f + (l + h) <= FileLen
    BY <1>2, <2>2
  <2>4. n = 0 \/ l + h <= n
    BY <1>3, <2>2
  <2>5. QED
    BY <1>1, <2>1, <2>3, <2>4 DEF SoFar
<1>13. FileBytes(NextOffset(o, out), Want(o, out)) = FileBytes(e, w)
  BY <1>3, <1>4
<1>14. QED
  BY <1>3, <1>4, <1>6, <1>7, <1>10, <1>11, <1>12, <1>13

LEMMA CallTypes ==
  ASSUME NEW j \in JobType, j.pc <= Len(j.script)
  PROVE  LET o == j.script[j.pc] IN
         /\ o \in Ops
         /\ o.fn = "read" => o.off \in Nat /\ o.n \in Nat
         /\ o.fn = "upload" => o.off \in Nat /\ o.n \in Nat /\ o.dst \in Nat /\ o.dst + o.n <= BufLen
<1> DEFINE o == j.script[j.pc]
<1>1. j.script \in Scripts \cup {<<>>} /\ j.pc \in Nat \ {0}
  BY DEF JobType
<1>2. j.script \in Scripts
  <2>1. j.script # <<>>
    BY <1>1, EmptySeq
  <2>2. QED
    BY <1>1, <2>1
<1>3. j.script \in Seq(Ops) /\ Len(j.script) \in Nat
  BY <1>2, JobAssumption, LenProperties
<1>4. j.pc \in 1..Len(j.script)
  BY <1>1, <1>3
<1>5. o \in Ops
  BY <1>3, <1>4, ElementOfSeq
<1>6. o.fn = "upload" => o.dst + o.n <= BufLen
  BY <1>2, <1>4, JobAssumption
<1> HIDE DEF o
<1>7. /\ o.fn = "read" => o.off \in Nat /\ o.n \in Nat
      /\ o.fn = "upload" => o.off \in Nat /\ o.n \in Nat /\ o.dst \in Nat
  BY <1>5 DEF Ops
<1>8. QED
  BY <1>5, <1>6, <1>7 DEF o

LEMMA OpTypes ==
  ASSUME Typed, job.pc <= Len(job.script)
  PROVE  /\ Op \in Ops
         /\ Op.fn = "read" => Op.off \in Nat /\ Op.n \in Nat
         /\ Op.fn = "upload" => Op.off \in Nat /\ Op.n \in Nat /\ Op.dst \in Nat /\ Op.dst + Op.n <= BufLen
  BY CallTypes DEF Typed, Op

\* The job goes on to its next call.
LEMMA DoneFields ==
  ASSUME Typed, job.pc <= Len(job.script)
  PROVE  /\ Done \in JobType /\ Done.pc <= Len(Done.script) + 1
         /\ Done.waits = FALSE /\ Done.out = <<>> /\ Done.got = job.got /\ Done.script = job.script
<1>1. job \in JobType
  BY DEF Typed
<1>2. PICK p \in Nat \ {0} : p = job.pc + 1
  BY <1>1 DEF JobType
<1>3. Done = [job EXCEPT !.pc = p, !.waits = FALSE, !.out = <<>>]
  BY <1>2 DEF Done
<1>4. PICK e \in Seq(Nat) : e = <<>>
  BY EmptySeq
<1>5. Done = [job EXCEPT !.pc = p, !.waits = FALSE, !.out = e]
  BY <1>3, <1>4
<1>6. Done \in JobType /\ Done.pc = p /\ Done.waits = FALSE /\ Done.out = e /\ Done.got = job.got /\ Done.script = job.script
  BY <1>1, <1>5 DEF JobType
<1>7. p <= Len(job.script) + 1
  <2>1. job.script \in Seq(Ops)
    BY <1>1, JobAssumption, EmptySeq DEF JobType
  <2>2. PICK l \in Nat : l = Len(job.script)
    BY <2>1, LenProperties
  <2>3. PICK c \in Nat : c = job.pc
    BY <1>1 DEF JobType
  <2>4. QED
    BY <1>2, <2>2, <2>3
<1>8. QED
  BY <1>4, <1>6, <1>7

\* A call of which nothing was asked yet.
LEMMA FreshReads ==
  ASSUME Typed', job'.out = <<>>, ~job'.waits, job'.got = job.got, Reading
  PROVE  Reading'
<1>1. job'.got.out = FileBytes(job'.got.off, IF job'.got.n = 0 THEN FileLen ELSE job'.got.n)
  BY DEF Reading
<1>2. ASSUME Doing("read")' PROVE SoFar(Op, job.out)'
  <2>1. Op'.off \in Nat /\ Op'.n \in Nat
    <3>1. job'.pc <= Len(job'.script) /\ Op'.fn = "read" /\ job' \in JobType
      BY <1>2 DEF Doing, Typed
    <3>2. QED
      BY <3>1, CallTypes DEF Op
  <2>2. Len(job'.out) = 0 /\ <<>> = Bytes(Op'.off, 0)
    BY <2>1, BytesAre
  <2>3. QED
    BY <2>1, <2>2 DEF SoFar
<1>3. QED
  BY <1>1, <1>2 DEF Reading

\* What the guest leaves with a request.
LEMMA RequestFields ==
  ASSUME Typed, NEW kind \in Kinds, Request(kind)
  PROVE  /\ guest' \in GuestType /\ guest'.kind = kind /\ at' = "reply"
         /\ guest'.in = guest.in /\ guest'.off = guest.off /\ guest'.n = guest.n /\ guest'.dst = guest.dst
         /\ guest'.fiber = guest.fiber /\ guest'.failed = guest.failed
<1>1. guest \in GuestType
  BY DEF Typed
<1>2. QED
  BY <1>1 DEF GuestType, Request

LEMMA RangeFields ==
  ASSUME Typed, NEW kind \in Kinds, NEW o \in Nat, NEW m \in Nat, NEW d \in Nat, RequestRange(kind, o, m, d)
  PROVE  /\ guest' \in GuestType /\ guest'.kind = kind /\ at' = "reply"
         /\ guest'.off = o /\ guest'.n = m /\ guest'.dst = d
         /\ guest'.fiber = guest.fiber /\ guest'.failed = guest.failed
<1>1. guest \in GuestType
  BY DEF Typed
<1>2. guest' = [guest EXCEPT !.kind = kind, !.inside = FALSE, !.off = o, !.n = m, !.dst = d] /\ at' = "reply"
  BY DEF RequestRange
<1>3. QED
  BY <1>1, <1>2 DEF GuestType

\* In the guest no upload is on.
LEMMA GuestCarriesNone ==
  ASSUME IInv, at = "guest"
  PROVE  host.up.on = FALSE
  BY DEF IInv, UploadIsCarried, Fields

LEMMA EnsureIdleServes ==
  ASSUME IInv, Bytewise, EnsureIdle
  PROVE  Bytewise'
<1> USE DEF Bytewise
<1>1. /\ at = "guest" /\ host' = host /\ job.pc <= Len(job.script) /\ dev.pending /\ Op.fn \in WaitFirst
  BY DEF EnsureIdle, InGuest, Idle
<1>2. job \in JobType /\ dev \in DevType /\ host \in HostType /\ host.up.on = FALSE
  BY <1>1, GuestCarriesNone DEF Typed
<1>3. ~Doing("read")
  BY <1>1 DEF Doing, WaitFirst
<1>4. CASE job' = [job EXCEPT !.waits = TRUE] /\ Request("WAIT_GPU") /\ UNCHANGED dev
  <2>1. "WAIT_GPU" \in Kinds
    BY DEF Kinds
  <2>2. /\ job' \in JobType /\ job'.script = job.script /\ job'.pc = job.pc /\ job'.out = job.out
        /\ job'.got = job.got
    BY <1>2, <1>4 DEF JobType
  <2>3. guest' \in GuestType /\ guest'.kind = "WAIT_GPU" /\ at' = "reply"
    BY <1>4, <2>1, RequestFields
  <2>4. Typed'
    BY <1>1, <1>4, <2>2, <2>3 DEF Typed
  <2>5. Doing("read")' = Doing("read") /\ Op' = Op
    BY <2>2 DEF Doing, Op
  <2>6. Replying'
    BY <1>1, <1>3, <1>4, <2>3, <2>5 DEF Replying
  <2>7. Reading'
    BY <1>3, <2>2, <2>5 DEF Reading
  <2>8. Uploading'
    BY <1>1, <1>2, <2>3 DEF Uploading
  <2>9. QED
    BY <2>4, <2>6, <2>7, <2>8
<1>5. CASE /\ job' = [job EXCEPT !.waits = FALSE]
           /\ dev' = [dev EXCEPT !.pending = FALSE, !.early = @ \/ dev.fresh]
           /\ UNCHANGED <<guest, at>>
  <2>1. /\ job' \in JobType /\ job'.script = job.script /\ job'.pc = job.pc /\ job'.out = job.out
        /\ job'.got = job.got /\ job'.waits = FALSE
    BY <1>2, <1>5 DEF JobType
  <2>2. dev' \in DevType
    <3>1. PICK e \in BOOLEAN : e <=> dev.early \/ dev.fresh
      OBVIOUS
    <3>2. dev' = [dev EXCEPT !.pending = FALSE, !.early = e]
      BY <1>2, <1>5, <3>1 DEF DevType
    <3>3. QED
      BY <1>2, <3>2 DEF DevType
  <2>3. Typed'
    BY <1>1, <1>5, <2>1, <2>2 DEF Typed
  <2>4. Doing("read")' = Doing("read") /\ Op' = Op
    BY <2>1 DEF Doing, Op
  <2>5. Replying'
    BY <1>1, <1>5 DEF Replying
  <2>6. Reading'
    BY <1>3, <2>1, <2>4 DEF Reading
  <2>7. Uploading'
    BY <1>1, <1>2, <1>5, <2>1 DEF Uploading
  <2>8. QED
    BY <2>3, <2>5, <2>6, <2>7
<1>6. QED
  BY <1>4, <1>5 DEF EnsureIdle

\* graph_compute, a backend call that only waits, and a COOP: the job goes on.
LEMMA GoesOnServes ==
  ASSUME IInv, Bytewise, Graph \/ Get \/ Coop
  PROVE  Bytewise'
<1> USE DEF Bytewise
<1>1. at = "guest" /\ host' = host /\ job' = Done /\ job.pc <= Len(job.script)
  BY DEF Graph, Get, Coop, InGuest, Doing
<1>2. host.up.on = FALSE
  BY <1>1, GuestCarriesNone
<1>3. /\ job' \in JobType /\ job'.pc <= Len(job'.script) + 1
      /\ job'.waits = FALSE /\ job'.out = <<>> /\ job'.got = job.got
  BY <1>1, DoneFields
<1>4. dev' \in DevType
  BY DEF Graph, Get, Coop, Typed, DevType
<1>5. /\ guest' \in GuestType
      /\ at' = "guest" \/ (at' = "reply" /\ guest'.kind = "COOP")
  <2>1. "COOP" \in Kinds
    BY DEF Kinds
  <2>2. QED
    BY <1>1, <2>1, RequestFields DEF Graph, Get, Coop, Typed
<1>6. Typed'
  BY <1>1, <1>3, <1>4, <1>5 DEF Typed
<1>7. Replying'
  BY <1>3, <1>5 DEF Replying
<1>8. Reading'
  BY <1>3, <1>6, FreshReads
<1>9. Uploading'
  BY <1>1, <1>2, <1>3, <1>5 DEF Uploading
<1>10. QED
  BY <1>6, <1>7, <1>8, <1>9

\* The bytes of a read that is over are the file's.
LEMMA ReadEnds ==
  ASSUME Typed, Reading, Doing("read"), NEW out \in Seq(Nat),
         out = FileBytes(Op.off, Asked(Op)), job' = ReadDone(out)
  PROVE  /\ job' \in JobType /\ job'.pc <= Len(job'.script) + 1
         /\ job'.waits = FALSE /\ job'.out = <<>>
         /\ job'.got.out = FileBytes(job'.got.off, Asked(job'.got))
<1>1. job.pc <= Len(job.script) /\ Op.fn = "read"
  BY DEF Doing
<1>2. PICK f \in Nat, n \in Nat : f = Op.off /\ n = Op.n
  BY <1>1, OpTypes
<1>3. Done \in JobType /\ Done.pc <= Len(Done.script) + 1 /\ Done.waits = FALSE /\ Done.out = <<>>
  BY <1>1, DoneFields
<1>4. PICK j \in JobType : j = Done
  BY <1>3
<1>5. PICK g \in GotType : g = [off |-> f, n |-> n, out |-> out]
  BY DEF GotType
<1>6. job' = [j EXCEPT !.got = g]
  BY <1>2, <1>4, <1>5 DEF ReadDone
<1>7. /\ job' \in JobType /\ job'.pc = j.pc /\ job'.script = j.script
      /\ job'.waits = j.waits /\ job'.out = j.out /\ job'.got = g
  BY <1>6 DEF JobType
<1>8. g.off = f /\ g.n = n /\ g.out = out
  BY <1>5
<1>9. out = FileBytes(g.off, Asked(g))
  BY <1>2, <1>8 DEF Asked
<1>10. QED
  BY <1>3, <1>4, <1>7, <1>8, <1>9

\* What follows of a read that is over.
LEMMA EndedReads ==
  ASSUME Typed', job'.out = <<>>, ~job'.waits,
         job'.got.out = FileBytes(job'.got.off, Asked(job'.got))
  PROVE  Reading'
<1>1. job'.got.out = FileBytes(job'.got.off, IF job'.got.n = 0 THEN FileLen ELSE job'.got.n)
  BY DEF Asked
<1>2. ASSUME Doing("read")' PROVE SoFar(Op, job.out)'
  <2>1. Op'.off \in Nat /\ Op'.n \in Nat
    <3>1. job'.pc <= Len(job'.script) /\ Op'.fn = "read" /\ job' \in JobType
      BY <1>2 DEF Doing, Typed
    <3>2. QED
      BY <3>1, CallTypes DEF Op
  <2>2. Len(job'.out) = 0 /\ <<>> = Bytes(Op'.off, 0)
    BY <2>1, BytesAre
  <2>3. QED
    BY <2>1, <2>2 DEF SoFar
<1>3. QED
  BY <1>1, <1>2 DEF Reading

LEMMA AskReadServes ==
  ASSUME IInv, Bytewise, AskRead
  PROVE  Bytewise'
<1> USE DEF Bytewise
<1>1. /\ at = "guest" /\ host' = host /\ dev' = dev /\ Doing("read") /\ ~job.waits
      /\ job.pc <= Len(job.script) /\ Op.fn = "read"
  BY DEF AskRead, InGuest, Doing
<1>2. job \in JobType /\ host.up.on = FALSE /\ guest \in GuestType /\ job.out \in Seq(Nat)
  BY <1>1, GuestCarriesNone DEF Typed, JobType
<1>3. Op.off \in Nat /\ Op.n \in Nat
  BY <1>1, OpTypes
<1>4. SoFar(Op, job.out)
  BY <1>1 DEF Reading
<1>5. /\ Want(Op, job.out) \in Nat /\ NextOffset(Op, job.out) \in Nat
      /\ Want(Op, job.out) = 0 => job.out = FileBytes(Op.off, Asked(Op))
  BY <1>2, <1>3, <1>4, ChunkOfRead
<1>6. CASE Want(Op, job.out) = 0
  <2>1. job' = ReadDone(job.out) /\ guest' = guest /\ at' = at
    BY <1>6 DEF AskRead
  <2>2. /\ job' \in JobType /\ job'.pc <= Len(job'.script) + 1
        /\ job'.waits = FALSE /\ job'.out = <<>>
        /\ job'.got.out = FileBytes(job'.got.off, Asked(job'.got))
    BY <1>1, <1>2, <1>5, <1>6, <2>1, ReadEnds
  <2>3. Typed'
    BY <1>1, <2>1, <2>2 DEF Typed
  <2>4. Replying'
    BY <1>1, <2>1 DEF Replying
  <2>5. Reading'
    BY <2>2, <2>3, EndedReads
  <2>6. Uploading'
    BY <1>1, <1>2, <2>1, <2>2 DEF Uploading
  <2>7. QED
    BY <2>3, <2>4, <2>5, <2>6
<1>7. CASE Want(Op, job.out) # 0
  <2>1. /\ RequestRange("READ", NextOffset(Op, job.out), Want(Op, job.out), 0)
        /\ job' = [job EXCEPT !.waits = TRUE]
    BY <1>7 DEF AskRead
  <2>2. /\ guest' \in GuestType /\ guest'.kind = "READ" /\ at' = "reply"
        /\ guest'.off = NextOffset(Op, job.out) /\ guest'.n = Want(Op, job.out)
    <3>1. "READ" \in Kinds /\ 0 \in Nat
      BY DEF Kinds
    <3>2. QED
      BY <1>5, <2>1, <3>1, RangeFields
  <2>3. /\ job' \in JobType /\ job'.script = job.script /\ job'.pc = job.pc /\ job'.out = job.out
        /\ job'.got = job.got /\ job'.waits = TRUE
    BY <1>2, <2>1 DEF JobType
  <2>4. Typed'
    BY <1>1, <2>2, <2>3 DEF Typed
  <2>5. Doing("read")' = Doing("read") /\ Op' = Op
    BY <2>3 DEF Doing, Op
  <2>6. Replying'
    BY <1>1, <2>2, <2>3, <2>5 DEF Replying
  <2>7. Reading'
    BY <1>1, <1>4, <2>2, <2>3, <2>5 DEF Reading
  <2>8. Uploading'
    BY <1>1, <1>2, <2>2 DEF Uploading
  <2>9. QED
    BY <2>4, <2>6, <2>7, <2>8
<1>8. QED
  BY <1>6, <1>7

LEMMA TakeReadServes ==
  ASSUME IInv, Bytewise, TakeRead
  PROVE  Bytewise'
<1> USE DEF Bytewise
<1> DEFINE out == job.out \o guest.in
<1>1. /\ at = "guest" /\ at' = at /\ host' = host /\ dev' = dev /\ Doing("read") /\ job.waits
      /\ job.pc <= Len(job.script) /\ Op.fn = "read"
      /\ guest' = [guest EXCEPT !.in = <<>>]
      /\ job' = IF Len(guest.in) < Want(Op, job.out) THEN ReadDone(out)
                ELSE [job EXCEPT !.out = out, !.waits = FALSE]
  BY DEF TakeRead, InGuest, Doing
<1>2. /\ job \in JobType /\ host.up.on = FALSE /\ guest \in GuestType
      /\ job.out \in Seq(Nat) /\ guest.in \in Seq(Nat)
  BY <1>1, GuestCarriesNone DEF Typed, JobType, GuestType
<1>3. Op.off \in Nat /\ Op.n \in Nat
  BY <1>1, OpTypes
<1>4. SoFar(Op, job.out) /\ guest.in = Answer
  BY <1>1 DEF Reading
<1>5. /\ Len(guest.in) < Want(Op, job.out) => out = FileBytes(Op.off, Asked(Op))
      /\ ~(Len(guest.in) < Want(Op, job.out)) => SoFar(Op, out)
  BY <1>2, <1>3, <1>4, ChunkOfRead DEF Answer
<1>6. out \in Seq(Nat)
  BY <1>2, ConcatProperties
<1> HIDE DEF out
<1>7. guest' \in GuestType
  <2>1. PICK e \in Seq(Nat) : e = <<>>
    BY EmptySeq
  <2>2. guest' = [guest EXCEPT !.in = e]
    BY <1>1, <2>1
  <2>3. QED
    BY <1>2, <2>2 DEF GuestType
<1>8. Replying'
  BY <1>1 DEF Replying
<1>9. CASE Len(guest.in) < Want(Op, job.out)
  <2>1. job' = ReadDone(out)
    BY <1>1, <1>9
  <2>2. /\ job' \in JobType /\ job'.pc <= Len(job'.script) + 1
        /\ job'.waits = FALSE /\ job'.out = <<>>
        /\ job'.got.out = FileBytes(job'.got.off, Asked(job'.got))
    BY <1>1, <1>5, <1>6, <1>9, <2>1, ReadEnds
  <2>3. Typed'
    BY <1>1, <1>7, <2>2 DEF Typed
  <2>4. Reading'
    BY <2>2, <2>3, EndedReads
  <2>5. Uploading'
    BY <1>1, <1>2, <2>2 DEF Uploading
  <2>6. QED
    BY <1>8, <2>3, <2>4, <2>5
<1>10. CASE ~(Len(guest.in) < Want(Op, job.out))
  <2>1. job' = [job EXCEPT !.out = out, !.waits = FALSE]
    BY <1>1, <1>10
  <2>2. /\ job' \in JobType /\ job'.script = job.script /\ job'.pc = job.pc /\ job'.out = out
        /\ job'.got = job.got /\ job'.waits = FALSE
    BY <1>2, <1>6, <2>1 DEF JobType
  <2>3. Typed'
    BY <1>1, <1>7, <2>2 DEF Typed
  <2>4. Doing("read")' = Doing("read") /\ Op' = Op
    BY <2>2 DEF Doing, Op
  <2>5. Reading'
    BY <1>1, <1>5, <1>10, <2>2, <2>4 DEF Reading
  <2>6. Uploading'
    BY <1>1, <1>2, <2>2 DEF Uploading
  <2>7. QED
    BY <1>8, <2>3, <2>5, <2>6
<1>11. QED
  BY <1>9, <1>10

LEMMA UploadServes ==
  ASSUME IInv, Bytewise, Upload
  PROVE  Bytewise'
<1> USE DEF Bytewise
<1>1. /\ at = "guest" /\ host' = host /\ dev' = dev /\ Doing("upload") /\ ~Doing("read")
      /\ job.pc <= Len(job.script) /\ Op.fn = "upload"
  BY DEF Upload, InGuest, Doing
<1>2. job \in JobType /\ host.up.on = FALSE /\ guest \in GuestType
  BY <1>1, GuestCarriesNone DEF Typed
<1>3. CASE job.waits
  <2>1. job' = Done /\ guest' = guest /\ at' = at
    BY <1>3 DEF Upload
  <2>2. /\ job' \in JobType /\ job'.pc <= Len(job'.script) + 1
        /\ job'.waits = FALSE /\ job'.out = <<>> /\ job'.got = job.got
    BY <1>1, <2>1, DoneFields
  <2>3. Typed'
    BY <1>1, <2>1, <2>2 DEF Typed
  <2>4. Replying'
    BY <1>1, <2>1 DEF Replying
  <2>5. Reading'
    BY <2>2, <2>3, FreshReads
  <2>6. Uploading'
    BY <1>1, <1>2, <2>1, <2>2 DEF Uploading
  <2>7. QED
    BY <2>3, <2>4, <2>5, <2>6
<1>4. CASE ~job.waits
  <2>1. RequestRange("UPLOAD", Op.off, Op.n, Op.dst) /\ job' = [job EXCEPT !.waits = TRUE]
    BY <1>4 DEF Upload
  <2>2. /\ guest' \in GuestType /\ guest'.kind = "UPLOAD" /\ at' = "reply"
        /\ guest'.off = Op.off /\ guest'.n = Op.n /\ guest'.dst = Op.dst
    <3>1. "UPLOAD" \in Kinds /\ Op.off \in Nat /\ Op.n \in Nat /\ Op.dst \in Nat
      BY <1>1, OpTypes DEF Kinds
    <3>2. QED
      BY <2>1, <3>1, RangeFields
  <2>3. /\ job' \in JobType /\ job'.script = job.script /\ job'.pc = job.pc /\ job'.out = job.out
        /\ job'.got = job.got /\ job'.waits = TRUE
    BY <1>2, <2>1 DEF JobType
  <2>4. Typed'
    BY <1>1, <2>2, <2>3 DEF Typed
  <2>5. Doing("read")' = Doing("read") /\ Doing("upload")' = Doing("upload") /\ Op' = Op
    BY <2>3 DEF Doing, Op
  <2>6. Replying'
    BY <1>1, <2>2, <2>3, <2>5 DEF Replying
  <2>7. Reading'
    BY <1>1, <2>3, <2>5 DEF Reading
  <2>8. Uploading'
    BY <1>1, <1>2, <2>2 DEF Uploading
  <2>9. QED
    BY <2>4, <2>6, <2>7, <2>8
<1>5. QED
  BY <1>3, <1>4

\* The job is over in the guest: aborted, returned or thrown out of.
LEMMA OverServes ==
  ASSUME IInv, Bytewise, Abort \/ Return
  PROVE  Bytewise'
<1> USE DEF Bytewise
<1>1. /\ at = "guest" /\ at' = "reply" /\ host' = host /\ dev' = dev /\ job' = job
  BY DEF Abort, Return, InGuest
<1>2. guest \in GuestType /\ host.up.on = FALSE
  BY <1>1, GuestCarriesNone DEF Typed
<1>3. guest' \in GuestType /\ guest'.kind \in {"DONE", "ERROR"}
  <2>1. CASE Abort
    BY <1>2, <2>1 DEF Abort, GuestType, Kinds
  <2>2. CASE Return
    <3>1. PICK k \in {"DONE", "ERROR"} : k = IF job.pc > Len(job.script) THEN "DONE" ELSE "ERROR"
      OBVIOUS
    <3>2. guest' = [guest EXCEPT !.fiber = "done", !.inside = FALSE, !.kind = k]
      BY <2>2, <3>1 DEF Return, Ended
    <3>3. QED
      BY <1>2, <3>2 DEF GuestType, Kinds
  <2>3. QED
    BY <2>1, <2>2
<1>4. Typed'
  BY <1>1, <1>3 DEF Typed
<1>5. Replying'
  BY <1>3 DEF Replying
<1>6. Reading'
  <2>1. Doing("read")' = Doing("read") /\ Op' = Op
    BY <1>1 DEF Doing, Op
  <2>2. QED
    BY <1>1, <2>1 DEF Reading
<1>7. Uploading'
  BY <1>1, <1>2 DEF Uploading
<1>8. QED
  BY <1>4, <1>5, <1>6, <1>7

\* The Sandbox has its own budget back.
LEMMA RestoredFields ==
  ASSUME Typed
  PROVE  Restored(host) \in HostType /\ Restored(host).up = host.up
<1>1. host \in HostType
  BY DEF Typed
<1>2. CASE host.cpu
  <2>1. Restored(host) = [host EXCEPT !.timeout = "base"]
    BY <1>2 DEF Restored
  <2>2. QED
    BY <1>1, <2>1 DEF HostType
<1>3. CASE ~host.cpu
  BY <1>1, <1>3 DEF Restored
<1>4. QED
  BY <1>2, <1>3

LEMMA GivenUpFields ==
  ASSUME Typed, HostFail(host)
  PROVE  host' \in HostType /\ host'.state = "error" /\ host'.up = host.up
<1>3. PICK h \in HostType : h = Restored(host) /\ h.up = host.up
  BY RestoredFields
<1>4. host' = [h EXCEPT !.state = "error", !.gaveUp = TRUE]
  BY <1>3 DEF HostFail
<1>5. QED
  BY <1>3, <1>4 DEF HostType, States

\* The host gives up: nothing of the job or the buffer moves.
LEMMA GivenUpServes ==
  ASSUME IInv, Bytewise, HostFail(host), at' = "out", guest' = guest, job' = job, dev' = dev
  PROVE  Bytewise'
<1> USE DEF Bytewise
<1>1. host' \in HostType /\ host'.state = "error" /\ host'.up = host.up
  BY GivenUpFields
<1>2. Doing("read")' = Doing("read") /\ Doing("upload")' = Doing("upload") /\ Op' = Op
  BY DEF Doing, Op
<1>3. Typed'
  BY <1>1 DEF Typed
<1>4. Replying'
  BY DEF Replying
<1>5. Reading'
  BY <1>1, <1>2 DEF Reading
<1>6. Uploading'
  <2>1. host.up.on => InBuffer(Op, host.up.done)
    BY DEF Uploading
  <2>2. host'.up.on => InBuffer(Op, host.up.done)'
    BY <1>1, <1>2, <2>1 DEF InBuffer
  <2>3. QED
    BY <1>1, <1>2, <2>2 DEF Uploading, Running
<1>7. QED
  BY <1>3, <1>4, <1>5, <1>6

LEMMA PumpFrameServes ==
  ASSUME IInv, Bytewise, PumpFrame
  PROVE  Bytewise'
<1> USE DEF Bytewise
<1>1. /\ at = "out" /\ host.state = "running" /\ at' = IF host.up.on THEN "carried" ELSE "loop"
      /\ guest' = guest /\ dev' = dev /\ job' = job /\ host' = [host EXCEPT !.budget = Cap]
  BY DEF PumpFrame, InHost
<1>2. /\ host' \in HostType /\ host'.state = host.state /\ host'.up = host.up /\ host'.feed = host.feed
  <2>1. PICK c \in Int : c = Cap
    BY JobAssumption
  <2>2. host' = [host EXCEPT !.budget = c]
    BY <1>1, <2>1
  <2>3. QED
    BY <2>2 DEF Typed, HostType
<1>3. /\ Doing("read")' = Doing("read") /\ Doing("upload")' = Doing("upload") /\ Op' = Op
      /\ Answer' = Answer
  BY <1>1 DEF Doing, Op, Answer
<1>4. Typed'
  BY <1>1, <1>2 DEF Typed
<1>5. Replying'
  BY <1>1 DEF Replying
<1>6. Reading'
  BY <1>1, <1>2, <1>3 DEF Reading
<1>7. Uploading'
  <2>1. /\ InBuffer(Op, host.up.done)' = InBuffer(Op, host.up.done)
        /\ InBuffer(Op, Op.n)' = InBuffer(Op, Op.n)
    BY <1>1, <1>2, <1>3 DEF InBuffer
  <2>2. QED
    BY <1>1, <1>2, <1>3, <2>1 DEF Uploading, Running
<1>8. QED
  BY <1>4, <1>5, <1>6, <1>7

\* The vmcall hands the guest what the host has read for it.
LEMMA VmcallServes ==
  ASSUME IInv, Bytewise, Vmcall
  PROVE  Bytewise'
<1> USE DEF Bytewise
<1>1. /\ at = "loop" /\ at' = "guest" /\ dev' = dev /\ job' = job
      /\ guest' = [guest EXCEPT !.in = host.feed, !.kind = "NONE", !.inside = TRUE,
                                !.off = 0, !.n = 0, !.dst = 0]
      /\ host' = [host EXCEPT !.feed = <<>>, !.timeout = IF host.cpu THEN "cpu" ELSE @]
  BY DEF Vmcall, InHost, Feed
<1>2. host \in HostType /\ guest \in GuestType
  BY DEF Typed
<1>3. host.state = "running" /\ host.up.on = FALSE
  BY <1>1 DEF IInv, Turns, UploadIsCarried, Fields
<1>4. guest' \in GuestType /\ guest'.in = host.feed
  <2>1. PICK b \in Seq(Nat) : b = host.feed
    BY <1>2 DEF HostType
  <2>2. PICK z \in Nat : z = 0
    OBVIOUS
  <2>3. "NONE" \in Kinds
    BY DEF Kinds
  <2>4. guest' = [guest EXCEPT !.in = b, !.kind = "NONE", !.inside = TRUE, !.off = z, !.n = z, !.dst = z]
    BY <1>1, <2>1, <2>2
  <2>5. QED
    BY <1>2, <2>1, <2>3, <2>4 DEF GuestType
<1>5. host' \in HostType /\ host'.up = host.up
  <2>1. PICK b \in Seq(Nat) : b = <<>>
    BY EmptySeq
  <2>2. PICK t \in {"base", "cpu"} : t = IF host.cpu THEN "cpu" ELSE host.timeout
    BY <1>2 DEF HostType
  <2>3. host' = [host EXCEPT !.feed = b, !.timeout = t]
    BY <1>1, <1>2, <2>1, <2>2 DEF HostType
  <2>4. QED
    BY <1>2, <2>3 DEF HostType
<1>6. /\ Doing("read")' = Doing("read") /\ Doing("upload")' = Doing("upload") /\ Op' = Op
      /\ Answer' = Answer
  BY <1>1 DEF Doing, Op, Answer
<1>7. Typed'
  BY <1>1, <1>4, <1>5 DEF Typed
<1>8. Replying'
  BY <1>1 DEF Replying
<1>9. Reading'
  BY <1>1, <1>3, <1>4, <1>6 DEF Reading
<1>10. Uploading'
  <2>1. InBuffer(Op, Op.n)' = InBuffer(Op, Op.n)
    BY <1>1, <1>6 DEF InBuffer
  <2>2. QED
    BY <1>1, <1>3, <1>5, <1>6, <2>1 DEF Uploading
<1>11. QED
  BY <1>7, <1>8, <1>9, <1>10

\* A WAIT_GPU or a COOP gives the frame back.
LEMMA ReplyYieldServes ==
  ASSUME IInv, Bytewise, ReplyYield
  PROVE  Bytewise'
<1> USE DEF Bytewise
<1>1. /\ at = "reply" /\ guest.kind \in {"WAIT_GPU", "COOP"} /\ at' = "out"
      /\ guest' = guest /\ dev' = dev /\ job' = job /\ host' = host
  BY DEF ReplyYield, InHost
<1>2. Doing("read")' = Doing("read") /\ Doing("upload")' = Doing("upload") /\ Op' = Op
  BY <1>1 DEF Doing, Op
<1>3. host.up.on = FALSE
  BY <1>1 DEF IInv, UploadIsCarried, Fields
<1>4. (Doing("read") => ~job.waits) /\ (Doing("upload") /\ job.waits => dev.pending)
  BY <1>1 DEF Replying
<1>5. Typed'
  BY <1>1 DEF Typed
<1>6. Replying'
  BY <1>1 DEF Replying
<1>7. Reading'
  BY <1>1, <1>2, <1>4 DEF Reading
<1>8. Uploading'
  BY <1>1, <1>2, <1>3, <1>4 DEF Uploading
<1>9. QED
  BY <1>5, <1>6, <1>7, <1>8

LEMMA ReplyOverServes ==
  ASSUME IInv, Bytewise, ReplyDone \/ ReplyError
  PROVE  Bytewise'
<1> USE DEF Bytewise
<1>1. PICK s \in States : host' = [Restored(host) EXCEPT !.state = s] /\ s # "running"
  BY DEF ReplyDone, ReplyError, States
<1>2. /\ at = "reply" /\ at' = "out" /\ guest' = guest /\ dev' = dev /\ job' = job
  BY DEF ReplyDone, ReplyError, InHost
<1>3. host.up.on = FALSE
  BY <1>2, JobAssumption DEF ReplyDone, ReplyError, IInv, UploadIsCarried, Fields
<1>4. PICK h \in HostType : h = Restored(host) /\ h.up = host.up
  BY RestoredFields
<1>5. host' \in HostType /\ host'.state # "running" /\ host'.up = host.up
  BY <1>1, <1>4 DEF HostType
<1>6. Doing("read")' = Doing("read") /\ Doing("upload")' = Doing("upload") /\ Op' = Op
  BY <1>2 DEF Doing, Op
<1>7. Typed'
  BY <1>2, <1>5 DEF Typed
<1>8. Replying'
  BY <1>2 DEF Replying
<1>9. Reading'
  BY <1>2, <1>5, <1>6 DEF Reading
<1>10. Uploading'
  BY <1>2, <1>3, <1>5 DEF Uploading
<1>11. QED
  BY <1>7, <1>8, <1>9, <1>10

\* The host reads the chunk asked for.
LEMMA ReplyReadServes ==
  ASSUME IInv, Bytewise, ReplyRead
  PROVE  Bytewise'
<1> USE DEF Bytewise
<1> DEFINE b == FileBytes(guest.off, guest.n)
<1>1. /\ at = "reply" /\ guest.kind = "READ" /\ guest' = guest /\ dev' = dev /\ job' = job
  BY DEF ReplyRead, InHost
<1>2. CASE HostFail(host) /\ at' = "out"
  BY <1>1, <1>2, GivenUpServes
<1>3. CASE host' = [host EXCEPT !.feed = b, !.budget = @ - Len(b)] /\ at' = GoOn(host')
  <2>1. host \in HostType /\ guest \in GuestType
    BY DEF Typed
  <2>2. PICK c \in Seq(Nat) : c = b
    BY <2>1, FileBytesAre DEF GuestType
  <2>3. PICK d \in Int : d = host.budget - Len(b)
    BY <2>1, <2>2, LenProperties DEF HostType
  <2>4. host' = [host EXCEPT !.feed = c, !.budget = d]
    BY <1>3, <2>2, <2>3
  <2>5. host' \in HostType /\ host'.feed = b /\ host'.up = host.up
    BY <2>1, <2>2, <2>4 DEF HostType
  <2>6. at' \in {"out", "loop"}
    BY <1>3 DEF GoOn
  <2>7. host.up.on = FALSE
    BY <1>1 DEF IInv, UploadIsCarried, Fields
  <2>8. /\ Doing("read")' = Doing("read") /\ Doing("upload")' = Doing("upload") /\ Op' = Op
        /\ Answer' = Answer
    BY <1>1 DEF Doing, Op, Answer
  <2>9. Doing("read") /\ ~Doing("upload") /\ b = Answer
    BY <1>1 DEF Replying, Doing, Answer
  <2> HIDE DEF b
  <2>10. Typed'
    BY <1>1, <2>5 DEF Typed
  <2>11. Replying'
    BY <2>6 DEF Replying
  <2>12. Reading'
    BY <1>1, <2>5, <2>6, <2>8, <2>9 DEF Reading
  <2>13. Uploading'
    BY <2>5, <2>6, <2>7, <2>8, <2>9 DEF Uploading
  <2>14. QED
    BY <2>10, <2>11, <2>12, <2>13
<1>4. QED
  BY <1>2, <1>3 DEF ReplyRead

\* The host takes on an upload: none of its bytes yet.
LEMMA ReplyUploadServes ==
  ASSUME IInv, Bytewise, ReplyUpload
  PROVE  Bytewise'
<1> USE DEF Bytewise
<1>1. /\ at = "reply" /\ guest.kind = "UPLOAD" /\ at' = "carry" /\ guest' = guest /\ dev' = dev /\ job' = job
      /\ host' = [host EXCEPT !.up = [n |-> guest.n, foff |-> guest.off, doff |-> guest.dst,
                                      done |-> 0, on |-> TRUE]]
  BY DEF ReplyUpload, InHost
<1>2. PICK u \in UpType : /\ u = [n |-> guest.n, foff |-> guest.off, doff |-> guest.dst, done |-> 0, on |-> TRUE]
                          /\ u.n = guest.n /\ u.foff = guest.off /\ u.doff = guest.dst /\ u.done = 0 /\ u.on
  <2>1. PICK n \in Nat, o \in Nat, d \in Nat : n = guest.n /\ o = guest.off /\ d = guest.dst
    BY DEF Typed, GuestType
  <2>2. [n |-> n, foff |-> o, doff |-> d, done |-> 0, on |-> TRUE] \in UpType
    BY DEF UpType
  <2>3. QED
    BY <2>1, <2>2
<1>3. host' = [host EXCEPT !.up = u]
  BY <1>1, <1>2
<1>4. host' \in HostType /\ host'.up = u
  BY <1>3 DEF Typed, HostType
<1>5. Running /\ Doing("upload") /\ job.waits /\ guest.off = Op.off /\ guest.n = Op.n /\ guest.dst = Op.dst
  BY <1>1 DEF Replying, IInv, Turns
<1>6. ~Doing("read")
  BY <1>5 DEF Doing
<1>7. Doing("read")' = Doing("read") /\ Doing("upload")' = Doing("upload") /\ Op' = Op /\ Running' = Running
  BY <1>1 DEF Doing, Op, Running
<1>8. Typed'
  <2>1. guest.n \in Nat
    BY DEF Typed, GuestType
  <2>2. host'.up.done <= host'.up.n
    BY <1>2, <1>4, <2>1
  <2>3. QED
    BY <1>1, <1>4, <2>2 DEF Typed
<1>9. Replying'
  BY <1>1 DEF Replying
<1>10. Reading'
  BY <1>1, <1>6, <1>7 DEF Reading
<1>11. Uploading'
  <2>1. InBuffer(Op, host.up.done)'
    BY <1>2, <1>4 DEF InBuffer
  <2>2. QED
    BY <1>1, <1>2, <1>4, <1>5, <1>7, <2>1 DEF Uploading
<1>12. QED
  BY <1>8, <1>9, <1>10, <1>11

\* The buffer with n bytes b at d.
Spliced(buf, d, n, b) ==
  [k \in 0..BufLen - 1 |-> IF k - d + 1 \in 1..n THEN b[k - d + 1] ELSE buf[k]]

BufType == [0..BufLen - 1 -> NoByte..FileLen - 1]

\* The first n bytes from foff on are at doff.
HasBytes(buf, doff, foff, n) == \A i \in 0..n - 1 : buf[doff + i] = foff + i

\* A chunk of an upload: its bytes go behind the ones the buffer has.
LEMMA ChunkOfUpload ==
  ASSUME NEW buf \in BufType, NEW doff \in Nat, NEW foff \in Nat,
         NEW done \in Nat, NEW n \in Nat, doff + done + n <= BufLen,
         Len(FileBytes(foff + done, n)) = n,
         HasBytes(buf, doff, foff, done)
  PROVE  /\ Spliced(buf, doff + done, n, FileBytes(foff + done, n)) \in BufType
         /\ HasBytes(Spliced(buf, doff + done, n, FileBytes(foff + done, n)), doff, foff, done + n)
<1> USE DEF BufType, HasBytes
<1> DEFINE b == FileBytes(foff + done, n)
           new == Spliced(buf, doff + done, n, b)
<1>1. PICK f \in Nat : f = foff + done
  OBVIOUS
<1>2. Has(f, n) = n /\ b = Bytes(f, n)
  <2>1. FileBytes(f, n) = Bytes(f, Has(f, n)) /\ Len(FileBytes(f, n)) = Has(f, n)
    BY FileBytesAre
  <2>2. b = FileBytes(f, n) /\ Len(FileBytes(f, n)) = n
    BY <1>1
  <2> HIDE DEF b
  <2>3. QED
    BY <2>1, <2>2
<1>3. \A i \in 1..n : b[i] = f + i - 1
  BY <1>2 DEF Bytes
<1>4. n # 0 => f + n <= FileLen
  BY <1>2, JobAssumption DEF Has
<1>5. FileLen \in Nat /\ BufLen \in Nat
  BY JobAssumption
<1>6. \A k \in 0..BufLen - 1 : new[k] = IF k - (doff + done) + 1 \in 1..n
                                        THEN b[k - (doff + done) + 1] ELSE buf[k]
  BY DEF Spliced
<1> HIDE DEF b
<1>7. ASSUME NEW k \in 0..BufLen - 1 PROVE new[k] \in NoByte..FileLen - 1
  <2>1. CASE k - (doff + done) + 1 \in 1..n
    <3>1. PICK i \in 1..n : i = k - (doff + done) + 1
      BY <2>1
    <3>2. new[k] = f + i - 1
      BY <1>3, <1>6, <2>1, <3>1
    <3>3. QED
      BY <1>4, <1>5, <3>2 DEF NoByte
  <2>2. CASE ~(k - (doff + done) + 1 \in 1..n)
    BY <1>6, <2>2
  <2>3. QED
    BY <2>1, <2>2
<1>8. ASSUME NEW i \in 0..(done + n) - 1 PROVE new[doff + i] = foff + i
  <2>1. PICK k \in 0..BufLen - 1 : k = doff + i
    BY <1>5
  <2>2. CASE i < done
    <3>1. ~(k - (doff + done) + 1 \in 1..n) /\ i \in 0..done - 1
      BY <2>1, <2>2
    <3>2. QED
      BY <1>6, <2>1, <3>1
  <2>3. CASE ~(i < done)
    <3>1. PICK j \in 1..n : j = k - (doff + done) + 1 /\ j = i - done + 1
      BY <2>1, <2>3
    <3>2. new[k] = f + j - 1
      BY <1>3, <1>6, <3>1
    <3>3. QED
      BY <1>1, <2>1, <3>1, <3>2
  <2>4. QED
    BY <2>2, <2>3
<1>9. new \in [0..BufLen - 1 -> NoByte..FileLen - 1]
  BY <1>7 DEF Spliced
<1>10. QED
  BY <1>8, <1>9 DEF b

LEMMA CarryChunkServes ==
  ASSUME IInv, Bytewise, CarryChunk
  PROVE  Bytewise'
<1> USE DEF Bytewise
<1> DEFINE n == Chunk(host.up, host.budget)
           b == FileBytes(ChunkFrom(host.up), n)
           new == [k \in DOMAIN dev.buf |->
                    LET i == k - (host.up.doff + host.up.done) + 1 IN IF i \in 1..n THEN b[i] ELSE dev.buf[k]]
<1>1. /\ at \in {"carry", "carried"} /\ guest' = guest /\ job' = job
      /\ host.up.done < host.up.n /\ host.budget > 0
  BY DEF CarryChunk, InHost
<1>2. CASE HostFail(host) /\ at' = "out" /\ UNCHANGED dev
  BY <1>1, <1>2, GivenUpServes
<1>3. CASE ~(HostFail(host) /\ at' = "out" /\ UNCHANGED dev)
  <2>1. /\ Len(b) = n
        /\ dev' = [dev EXCEPT !.buf = new]
        /\ host' = [host EXCEPT !.up.done = @ + n, !.budget = @ - n]
        /\ UNCHANGED at
    BY <1>3, Zenon DEF CarryChunk
  <2>2. host \in HostType /\ dev \in DevType /\ host.up.on /\ host.up \in UpType /\ host.budget \in Int
    BY <1>1 DEF Typed, HostType, Uploading
  <2>3. /\ Running /\ Doing("upload") /\ job.waits
        /\ host.up.n = Op.n /\ host.up.foff = Op.off /\ host.up.doff = Op.dst
        /\ InBuffer(Op, host.up.done)
    BY <2>2 DEF Uploading
  <2>4. Op.dst + Op.n <= BufLen
    BY <2>3, OpTypes DEF Doing
  <2>5. PICK un \in Nat, foff \in Nat, doff \in Nat, done \in Nat :
          un = host.up.n /\ foff = host.up.foff /\ doff = host.up.doff /\ done = host.up.done
    BY <2>2 DEF UpType
  <2>6. n \in Nat /\ done + n <= un
    <3>1. UploadChunk \in Nat /\ UploadChunk # 0
      BY JobAssumption
    <3>2. done < un
      BY <1>1, <2>5
    <3>3. PICK bud \in Nat : bud = host.budget
      BY <1>1, <2>2
    <3>4. n = LET m == IF UploadChunk <= bud THEN UploadChunk ELSE bud IN IF un - done < m THEN un - done ELSE m
      BY <2>5, <3>3 DEF Chunk
    <3> HIDE DEF n
    <3>5. QED
      BY <3>1, <3>2, <3>4
  <2>7. PICK buf \in BufType : buf = dev.buf
    BY <2>2 DEF DevType, BufType
  <2>8. b = FileBytes(foff + done, n)
    BY <2>5 DEF ChunkFrom
  <2>9. HasBytes(buf, doff, foff, done)
    BY <2>3, <2>5, <2>7 DEF InBuffer, HasBytes
  <2>10. doff + done + n <= BufLen
    <3>1. BufLen \in Nat /\ doff + un <= BufLen
      BY <2>3, <2>4, <2>5, JobAssumption
    <3> HIDE DEF n
    <3>2. QED
      BY <2>6, <3>1
  <2>11. new = Spliced(buf, doff + done, n, b)
    <3>1. DOMAIN buf = 0..BufLen - 1
      BY DEF BufType
    <3> HIDE DEF n, b
    <3>2. QED
      BY <2>5, <2>7, <3>1 DEF Spliced
  <2> HIDE DEF n, b, new
  <2>12. new \in BufType /\ HasBytes(new, doff, foff, done + n)
    <3>1. Len(FileBytes(foff + done, n)) = n
      BY <2>1, <2>8
    <3>2. PICK c \in Nat : c = n
      BY <2>6
    <3>3. doff + done + c <= BufLen /\ Len(FileBytes(foff + done, c)) = c
      BY <2>10, <3>1, <3>2
    <3>4. /\ Spliced(buf, doff + done, c, FileBytes(foff + done, c)) \in BufType
          /\ HasBytes(Spliced(buf, doff + done, c, FileBytes(foff + done, c)), doff, foff, done + c)
      BY <2>9, <3>3, ChunkOfUpload
    <3>5. QED
      BY <2>8, <2>11, <3>2, <3>4
  <2>13. dev' \in DevType /\ dev'.buf = new /\ dev'.pending = dev.pending
    BY <2>1, <2>2, <2>12 DEF DevType, BufType
  <2>14. PICK m \in Nat, d \in Int : m = done + n /\ d = host.budget - n
    <3>1. PICK c \in Int : c = host.budget
      BY <2>2
    <3>2. done + n \in Nat /\ c - n \in Int
      BY <2>6
    <3>3. QED
      BY <3>1, <3>2
  <2>15. host' = [host EXCEPT !.up.done = m, !.budget = d]
    BY <2>1, <2>2, <2>5, <2>14 DEF HostType, UpType
  <2>16. PICK u \in UpType : /\ u = [host.up EXCEPT !.done = m]
                             /\ u.n = un /\ u.foff = foff /\ u.doff = doff /\ u.done = m /\ u.on = host.up.on
    <3>1. PICK v \in UpType : v = host.up
      BY <2>2
    <3>2. [v EXCEPT !.done = m] \in UpType
      BY DEF UpType
    <3>3. QED
      BY <2>5, <3>1, <3>2 DEF UpType
  <2>17. host' = [host EXCEPT !.up = u, !.budget = d]
    BY <2>2, <2>15, <2>16 DEF HostType
  <2>18. host' \in HostType /\ host'.up = u /\ host'.state = host.state /\ host'.feed = host.feed
    BY <2>2, <2>17 DEF HostType
  <2>19. Doing("read")' = Doing("read") /\ Doing("upload")' = Doing("upload") /\ Op' = Op /\ Running' = Running
    BY <1>1 DEF Doing, Op, Running
  <2>20. Typed'
    <3>1. host'.up.done <= host'.up.n
      BY <2>6, <2>14, <2>16, <2>18
    <3>2. QED
      BY <1>1, <2>13, <2>18, <3>1 DEF Typed
  <2>21. Replying'
    BY <1>1, <2>1 DEF Replying
  <2>22. ~Doing("read")
    BY <2>3 DEF Doing
  <2>23. Reading'
    BY <1>1, <2>19, <2>22 DEF Reading
  <2>24. InBuffer(Op, host.up.done)'
    BY <2>3, <2>5, <2>12, <2>13, <2>14, <2>16, <2>18, <2>19 DEF InBuffer, HasBytes
  <2>25. Uploading'
    BY <1>1, <2>1, <2>2, <2>3, <2>5, <2>13, <2>16, <2>18, <2>19, <2>24 DEF Uploading
  <2>26. QED
    BY <2>20, <2>21, <2>23, <2>25
<1>4. QED
  BY <1>2, <1>3

\* The end of an upload, or of the frame's bytes.
LEMMA CarryEndServes ==
  ASSUME IInv, Bytewise, CarryEnd
  PROVE  Bytewise'
<1> USE DEF Bytewise
<1>1. /\ at \in {"carry", "carried"} /\ guest' = guest /\ job' = job /\ dev' = dev
      /\ host' = (IF Carried THEN [host EXCEPT !.up = NoUpload] ELSE host)
      /\ at' \in {"out", "loop"} /\ (~Carried => at' = "out")
  BY DEF CarryEnd, InHost, GoOn
<1>2. host \in HostType /\ host.up \in UpType /\ host.up.on
  BY <1>1 DEF Typed, HostType, Uploading
<1>3. /\ Running /\ Doing("upload") /\ job.waits
      /\ host.up.n = Op.n /\ InBuffer(Op, host.up.done)
  BY <1>2 DEF Uploading
<1>4. Doing("read")' = Doing("read") /\ Doing("upload")' = Doing("upload") /\ Op' = Op /\ Running' = Running
  BY <1>1 DEF Doing, Op, Running
<1>5. ~Doing("read")
  BY <1>3 DEF Doing
<1>6. Replying'
  BY <1>1 DEF Replying
<1>7. Reading'
  BY <1>1, <1>4, <1>5 DEF Reading
<1>8. CASE Carried
  <2>1. PICK u \in UpType : u = NoUpload /\ u.on = FALSE /\ u.n = 0 /\ u.done = 0
    <3>1. [n |-> 0, foff |-> 0, doff |-> 0, done |-> 0, on |-> FALSE] \in UpType
      BY DEF UpType
    <3>2. QED
      BY <3>1 DEF NoUpload
  <2>2. host' = [host EXCEPT !.up = u]
    BY <1>1, <1>8, <2>1
  <2>3. host' \in HostType /\ host'.up = u
    BY <1>2, <2>2 DEF HostType
  <2>4. host.up.done = host.up.n
    <3>1. host.up.done \in Nat /\ host.up.n \in Nat /\ host.up.done <= host.up.n
      BY <1>2 DEF UpType, Typed
    <3>2. QED
      BY <1>8, <3>1 DEF Carried
  <2>5. InBuffer(Op, Op.n)'
    BY <1>1, <1>3, <1>4, <2>4 DEF InBuffer
  <2>6. Typed'
    BY <1>1, <2>1, <2>3 DEF Typed
  <2>7. Uploading'
    BY <1>1, <2>1, <2>3, <2>5 DEF Uploading
  <2>8. QED
    BY <1>6, <1>7, <2>6, <2>7
<1>9. CASE ~Carried
  <2>1. host' = host /\ at' = "out"
    BY <1>1, <1>9
  <2>2. Typed'
    BY <1>1, <2>1 DEF Typed
  <2>3. InBuffer(Op, host.up.done)'
    BY <1>1, <1>3, <1>4, <2>1 DEF InBuffer
  <2>4. Uploading'
    BY <1>1, <1>2, <1>4, <2>1, <2>3 DEF Uploading
  <2>5. QED
    BY <1>6, <1>7, <2>2, <2>4
<1>10. QED
  BY <1>8, <1>9

\* No job, no upload and an empty buffer.
LEMMA NothingFields ==
  /\ NoFiber \in GuestType /\ NoFiber.in = <<>> /\ NoFiber.kind = "NONE"
  /\ NoJob \in JobType /\ NoJob.script = <<>> /\ NoJob.pc = 1 /\ NoJob.waits = FALSE
  /\ NoJob.out = <<>> /\ NoJob.got = NoRead
  /\ NoDevice \in DevType
  /\ IdleHost \in HostType /\ IdleHost.state = "done" /\ IdleHost.up = NoUpload
  /\ NoUpload \in UpType /\ NoUpload.on = FALSE /\ NoUpload.n = 0 /\ NoUpload.done = 0
  /\ NoRead.out = FileBytes(NoRead.off, IF NoRead.n = 0 THEN FileLen ELSE NoRead.n)
<1>1. PICK e \in Seq(Nat) : e = <<>>
  BY EmptySeq
<1>2. NoFiber \in GuestType /\ NoFiber.in = <<>> /\ NoFiber.kind = "NONE"
  BY <1>1 DEF NoFiber, GuestType, Kinds
<1>3. NoRead \in GotType /\ NoRead.off = FileLen /\ NoRead.n = 0 /\ NoRead.out = <<>>
  BY <1>1, JobAssumption DEF NoRead, GotType
<1>4. FileBytes(FileLen, FileLen) = <<>>
  <2>1. FileLen \in Nat /\ Has(FileLen, FileLen) = 0
    BY JobAssumption DEF Has
  <2>2. QED
    BY <2>1, FileBytesAre, BytesAre
<1>5. /\ NoJob \in JobType /\ NoJob.script = <<>> /\ NoJob.pc = 1 /\ NoJob.waits = FALSE
      /\ NoJob.out = <<>> /\ NoJob.got = NoRead
  BY <1>1, <1>3 DEF NoJob, JobType
<1>6. NoDevice \in DevType
  <2>1. [k \in 0..BufLen - 1 |-> NoByte] \in [0..BufLen - 1 -> NoByte..FileLen - 1]
    BY JobAssumption DEF NoByte
  <2>2. QED
    BY <2>1 DEF NoDevice, DevType
<1>7. NoUpload \in UpType /\ NoUpload.on = FALSE /\ NoUpload.n = 0 /\ NoUpload.done = 0
  BY DEF NoUpload, UpType
<1>8. IdleHost \in HostType /\ IdleHost.state = "done" /\ IdleHost.up = NoUpload
  BY <1>1, <1>7 DEF IdleHost, HostType, States
<1>9. QED
  BY <1>2, <1>3, <1>4, <1>5, <1>6, <1>7, <1>8

\* Before the first job, and on a Sandbox just attached.
LEMMA FreshServes ==
  ASSUME guest = NoFiber, job = NoJob, dev = NoDevice, host = IdleHost, at = "out"
  PROVE  Bytewise
<1>1. ~Doing("read") /\ ~Doing("upload") /\ Len(job.script) = 0
  BY NothingFields, EmptySeq DEF Doing
<1>2. Typed
  BY <1>1, NothingFields DEF Typed
<1>3. Replying
  BY DEF Replying
<1>4. Reading
  BY <1>1, NothingFields DEF Reading
<1>5. Uploading
  BY <1>1, NothingFields DEF Uploading
<1>6. QED
  BY <1>2, <1>3, <1>4, <1>5 DEF Bytewise

LEMMA InitServes == Init => Bytewise
  BY FreshServes DEF Init

LEMMA AttachServes ==
  ASSUME Attach
  PROVE  Bytewise'
<1>1. guest' = NoFiber /\ job' = NoJob /\ dev' = NoDevice /\ host' = IdleHost /\ at' = "out"
  BY DEF Attach, Call
<1>2. ~Doing("read")' /\ ~Doing("upload")' /\ Len(job'.script) = 0
  BY <1>1, NothingFields, EmptySeq DEF Doing
<1>3. Typed'
  BY <1>1, <1>2, NothingFields DEF Typed
<1>4. Replying'
  BY <1>1 DEF Replying
<1>5. Reading'
  BY <1>1, <1>2, NothingFields DEF Reading
<1>6. Uploading'
  BY <1>1, <1>2, NothingFields DEF Uploading
<1>7. QED
  BY <1>3, <1>4, <1>5, <1>6 DEF Bytewise

\* The stage goes with its host; what the buffer has stays.
LEMMA CloseServes ==
  ASSUME IInv, Bytewise, Close
  PROVE  Bytewise'
<1> USE DEF Bytewise
<1>1. /\ at = "out" /\ at' = at /\ guest' = guest /\ job' = job /\ host' = IdleHost
      /\ dev' = [dev EXCEPT !.pending = FALSE]
  BY DEF Close, Call
<1>2. host' \in HostType /\ host'.state = "done" /\ host'.up = NoUpload
      /\ NoUpload.on = FALSE /\ NoUpload.done = 0 /\ NoUpload.n = 0
  BY <1>1, NothingFields
<1>3. dev' \in DevType
  BY <1>1 DEF Typed, DevType
<1>4. Doing("read")' = Doing("read") /\ Doing("upload")' = Doing("upload") /\ Op' = Op
  BY <1>1 DEF Doing, Op
<1>5. Typed'
  BY <1>1, <1>2, <1>3 DEF Typed
<1>6. Replying'
  BY <1>1 DEF Replying
<1>7. Reading'
  BY <1>1, <1>2, <1>4 DEF Reading
<1>8. Uploading'
  BY <1>1, <1>2 DEF Uploading
<1>9. QED
  BY <1>5, <1>6, <1>7, <1>8

\* A step that changes nothing of the job but the submit's frame.
LEMMA AsideServes ==
  ASSUME IInv, Bytewise, guest' = guest, job' = job, host' = host, at' = at,
         dev' = dev \/ dev' = [dev EXCEPT !.fresh = FALSE]
  PROVE  Bytewise'
<1> USE DEF Bytewise
<1>1. dev' \in DevType /\ dev'.buf = dev.buf /\ dev'.pending = dev.pending
  BY DEF Typed, DevType
<1>2. /\ Doing("read")' = Doing("read") /\ Doing("upload")' = Doing("upload") /\ Op' = Op
      /\ Answer' = Answer /\ Running' = Running
  BY DEF Doing, Op, Answer, Running
<1>3. Typed'
  BY <1>1 DEF Typed
<1>4. Replying'
  BY <1>1, <1>2 DEF Replying, Doing
<1>5. Reading'
  BY <1>2 DEF Reading
<1>6. Uploading'
  <2>1. /\ InBuffer(Op, host.up.done)' = InBuffer(Op, host.up.done)
        /\ InBuffer(Op, Op.n)' = InBuffer(Op, Op.n)
    BY <1>1, <1>2 DEF InBuffer
  <2>2. QED
    BY <1>1, <1>2, <2>1 DEF Uploading
<1>7. QED
  BY <1>3, <1>4, <1>5, <1>6

\* A start: of a new job, refused, or without the stack for its fiber.
LEMMA StartServes ==
  ASSUME IInv, Bytewise, NEW s \in Scripts, NEW e \in Envs, NEW cpu \in BOOLEAN, Start(s, e, cpu)
  PROVE  Bytewise'
<1> USE DEF Bytewise
<1>1. at = "out" /\ at' = "out" /\ attached /\ dev' = dev
  BY DEF Start, Call
<1>2. CASE Running
  <2>1. guest' = guest /\ job' = job /\ host' = host
    BY <1>2 DEF Start, Refused
  <2>2. QED
    BY <1>1, <2>1, AsideServes
<1>3. CASE ~Running /\ guest' = [NoFiber EXCEPT !.fiber = "alive"]
           /\ job' = [NoJob EXCEPT !.script = s, !.env = e]
           /\ host' = [IdleHost EXCEPT !.state = "running", !.cpu = cpu,
                                      !.timeout = IF cpu THEN "cpu" ELSE "base"]
  <2>1. guest' \in GuestType
    BY <1>3, NothingFields DEF GuestType
  <2>2. /\ job' \in JobType /\ job'.script = s /\ job'.pc = 1 /\ job'.waits = FALSE
        /\ job'.out = <<>> /\ job'.got = NoRead
    BY <1>3, NothingFields DEF JobType
  <2>3. host' \in HostType /\ host'.up = NoUpload
    <3>1. PICK t \in {"base", "cpu"} : t = IF cpu THEN "cpu" ELSE "base"
      OBVIOUS
    <3>2. host' = [IdleHost EXCEPT !.state = "running", !.cpu = cpu, !.timeout = t]
      BY <1>3, <3>1
    <3>3. QED
      BY <3>2, NothingFields DEF HostType, States
  <2>4. Typed'
    <3>1. s \in Seq(Ops)
      BY JobAssumption
    <3>2. PICK l \in Nat : l = Len(s)
      BY <3>1, LenProperties
    <3>3. job'.pc <= Len(job'.script) + 1
      BY <2>2, <3>2
    <3>4. QED
      BY <1>1, <2>1, <2>2, <2>3, <3>3, NothingFields DEF Typed
  <2>5. Replying'
    BY <1>1 DEF Replying
  <2>6. job'.got.out = FileBytes(job'.got.off, Asked(job'.got))
    BY <2>2, NothingFields DEF Asked
  <2>7. Reading'
    BY <2>2, <2>4, <2>6, EndedReads
  <2>8. Uploading'
    BY <1>1, <2>2, <2>3, NothingFields DEF Uploading
  <2>9. QED
    BY <2>4, <2>5, <2>7, <2>8
<1>4. CASE ~Running /\ guest' = [NoFiber EXCEPT !.fiber = "done", !.failed = TRUE, !.kind = "ERROR"]
           /\ UNCHANGED <<job, host>>
  <2>1. guest' \in GuestType
    BY <1>4, NothingFields DEF GuestType, Kinds
  <2>2. host.state # "running" /\ host.up.on = FALSE
    <3>1. host.up.on = FALSE
      BY <1>4 DEF Uploading, IInv, Fields
    <3>2. QED
      BY <1>1, <1>4, <3>1 DEF IInv, Turns
  <2>3. Doing("read")' = Doing("read") /\ Doing("upload")' = Doing("upload") /\ Op' = Op
    BY <1>4 DEF Doing, Op
  <2>4. Typed'
    BY <1>1, <1>4, <2>1 DEF Typed
  <2>5. Replying'
    BY <1>1 DEF Replying
  <2>6. Reading'
    BY <1>1, <1>4, <2>2, <2>3 DEF Reading
  <2>7. Uploading'
    BY <1>1, <1>4, <2>2 DEF Uploading
  <2>8. QED
    BY <2>4, <2>5, <2>6, <2>7
<1>5. QED
  BY <1>2, <1>3, <1>4 DEF Start, Refused

LEMMA StepServes == IInv /\ Bytewise /\ [Next]_vars => Bytewise'
<1> SUFFICES ASSUME IInv, Bytewise, [Next]_vars PROVE Bytewise'
  OBVIOUS
<1>1. ASSUME GuestStep PROVE Bytewise'
  BY <1>1, EnsureIdleServes, GoesOnServes, AskReadServes, TakeReadServes, UploadServes, OverServes
  DEF GuestStep
<1>2. CASE Kill
  BY <1>2, GivenUpServes DEF Kill
<1>3. ASSUME HostStep, ~Kill PROVE Bytewise'
  BY <1>3, PumpFrameServes, VmcallServes, ReplyYieldServes, ReplyOverServes, ReplyReadServes,
     ReplyUploadServes, CarryChunkServes, CarryEndServes
  DEF HostStep
<1>4. ASSUME HostCall PROVE Bytewise'
  BY <1>4, AttachServes, CloseServes, StartServes DEF HostCall
<1>5. CASE NextFrame
  BY <1>5, AsideServes DEF NextFrame
<1>6. CASE UNCHANGED vars
  BY <1>6, AsideServes DEF vars
<1>7. QED
  BY <1>1, <1>2, <1>3, <1>4, <1>5, <1>6 DEF Next, HostStep

\* Every byte on its way, in the guest, the host or the buffer, is the one the
\* job asked for.
THEOREM BytesInvariance == Spec => [](IInv /\ Bytewise)
<1>1. Init => IInv /\ Bytewise
  BY InitEstablishes, InitServes
<1>2. IInv /\ Bytewise /\ [Next]_vars => (IInv /\ Bytewise)'
  BY StepPreserves, StepServes
<1>3. QED
  BY <1>1, <1>2, PTL DEF Spec

\* The records of the guest, its job, the device and the host keep their types;
\* an upload has never more bytes behind it than it asked for.
THEOREM JobIsTyped == Spec => []TypeOK
<1>1. ASSUME IInv, Bytewise PROVE TypeOK
  <2>1. /\ guest \in GuestType /\ job \in JobType /\ dev \in DevType /\ host \in HostType
        /\ job.pc <= Len(job.script) + 1 /\ host.up.done <= host.up.n
    BY <1>1 DEF Bytewise, Typed
  <2>2. job.pc \in 1..Len(job.script) + 1
    <3>1. job.script \in Seq(Ops) /\ job.pc \in Nat \ {0}
      BY <2>1, JobAssumption, EmptySeq DEF JobType
    <3>2. PICK l \in Nat : l = Len(job.script)
      BY <3>1, LenProperties
    <3>3. QED
      BY <2>1, <3>1, <3>2
  <2>3. host.up.done \in 0..host.up.n
    <3>1. host.up \in UpType
      BY <2>1 DEF HostType
    <3>2. host.up.done \in Nat /\ host.up.n \in Nat
      BY <3>1 DEF UpType
    <3>3. QED
      BY <2>1, <3>2
  <2>4. /\ guest.fiber \in {"none", "alive", "done"} /\ guest.failed \in BOOLEAN
        /\ guest.kind \in {"NONE", "WAIT_GPU", "READ", "UPLOAD", "COOP", "DONE", "ERROR"}
    BY <2>1 DEF GuestType, Kinds
  <2>5. job.waits \in BOOLEAN
    BY <2>1 DEF JobType
  <2>6. dev.buf \in [0..BufLen - 1 -> NoByte..FileLen - 1]
    BY <2>1 DEF DevType
  <2>7. /\ host.state \in {"running", "done", "error"} /\ host.timeout \in {"base", "cpu"}
        /\ host.budget \in Int
    BY <2>1 DEF HostType, States
  <2>8. attached \in BOOLEAN /\ pumped \in BOOLEAN
        /\ at \in {"out", "loop", "guest", "reply", "carry", "carried"}
    BY <1>1 DEF IInv, Fields, Turns
  <2>9. QED
    BY <2>2, <2>3, <2>4, <2>5, <2>6, <2>7, <2>8 DEF TypeOK
<1>2. QED
  BY <1>1, BytesInvariance, PTL

\* A read returns exactly the bytes of the file, and a job goes on from an upload
\* only when the buffer has them all, however they were cut into chunks and
\* frames.
THEOREM ServesWhole == Spec => []ServedWhole
<1>1. ASSUME IInv, Bytewise PROVE ServedWhole
  BY <1>1 DEF Bytewise, Reading, Uploading, InBuffer, ServedWhole
<1>2. QED
  BY <1>1, BytesInvariance, PTL
=============================================================================

------------------------------ MODULE RdCompute ------------------------------
(***************************************************************************)
(* The guest's RenderingDevice wrapper, rdc::Device (guest/rd_compute.cpp),*)
(* between the vmcalls that use it and Godot's local RenderingDevice.      *)
(*                                                                         *)
(* One vmcall runs a few Device methods, and the sandbox may kill it at    *)
(* any instruction (execution_timeout, references_max, a trap).  A killed  *)
(* call keeps what it wrote to guest memory and what it did on the host,   *)
(* and nothing of its own control state.  So every method is split at its  *)
(* host calls and its flag writes: those are the places a kill can tell    *)
(* apart.                                                                  *)
(*                                                                         *)
(* Process frames are only ever compared with the current one (sync()      *)
(* against submit_frame_), so the model keeps `fresh', the truth of        *)
(* submit_frame_ = process_frame(), and the frame itself needs no counter. *)
(***************************************************************************)
EXTENDS Integers, Sequences

CONSTANTS
  MaxCount,             \* bound of the same_frame_syncs_ counter
  Word,                 \* the bytes buffer_copy copies at a time (4)
  Block,                \* what the staging buffer is rounded to (256)
  StagingMax,           \* staging_max_
  BufBytes              \* the size of the buffers that are read

ASSUME MaxCountAssumption == MaxCount \in Nat \ {0}

\* staging_max_ is kMaxTransferBytes: nothing calls set_staging_max.
ASSUME SizesAssumption ==
  /\ Word \in Nat \ {0} /\ Block \in Nat \ {0} /\ Block % Word = 0
  /\ StagingMax \in Nat \ {0} /\ StagingMax % Block = 0
  /\ BufBytes \in Nat /\ BufBytes % Word = 0

VARIABLES
  list_open_,           \* Device::list_open_: guest memory, survives a kill
  submitted_,           \* Device::submitted_
  fresh,                \* submit_frame_ = process_frame()
  same_frame_syncs_,    \* Device::same_frame_syncs_
  hostList,             \* Godot: a compute list is being recorded
  hostBusy,             \* Godot: submit() has run and sync() has not
  refused,              \* Godot has refused a call because a list was open
  inCall,               \* a vmcall is running
  recording,            \* this vmcall is between its list_begin and list_end
  op,                   \* the Device method it is in, or "none"
  pc,                   \* the next line of that method
  staging,              \* Device::staging_ is set, staging_bytes_, and whether
                        \* the host still has it
  get,                  \* buffer_get_into's offset, bytes, out so far, and whether
                        \* the staging buffer holds the span of this chunk
  torn                  \* a vmcall died between submit()'s or sync()'s host call
                        \* and its flag, and nothing has set the flag since

guest == <<list_open_, submitted_, fresh, same_frame_syncs_>>
host  == <<hostList, hostBusy, refused>>
call  == <<inCall, recording, op, pc>>
read  == <<staging, get>>
vars  == <<guest, host, call, torn, read>>

-----------------------------------------------------------------------------
\* The methods that touch the list or the submit state, and the ones of them
\* that begin with recover().  Mutant: buffer_clear() without its recover().
RecoveringNotClear == {"list_begin", "buffer_update", "buffer_get", "buffer_copy", "submit"}
Recovering == {"list_begin", "buffer_update", "buffer_get", "buffer_copy",
               "buffer_clear", "submit"}
Methods == {"list_begin", "dispatch", "list_end", "buffer_update", "buffer_get", "buffer_copy",
            "buffer_clear", "buffer_get_into", "submit", "sync", "close"}

\* The calls Godot refuses while a compute list is open, except list_begin.
BufferCalls == {"buffer_update", "buffer_copy", "buffer_clear"}

\* Where a method goes on, once recover() is behind it.
Body(m) == IF m = "buffer_get_into" THEN "chunk_copy" ELSE m

Lines == Methods \cup {"idle", "recover_end", "recover_flag", "list_begin_host",
                       "list_end_flag", "submit_flag", "submit_frame",
                       "sync_host", "sync_flag",
                       "staging_free", "staging_clear", "staging_zero", "staging_create",
                       "staging_bytes", "chunk", "chunk_copy", "chunk_get", "close_free"}

NoStaging == [set |-> FALSE, bytes |-> 0, live |-> FALSE]
NoGet == [off |-> 0, n |-> 0, out |-> <<>>, copied |-> FALSE]

Init ==
  /\ list_open_ = FALSE /\ submitted_ = FALSE /\ fresh = FALSE
  /\ same_frame_syncs_ = 0
  /\ hostList = FALSE /\ hostBusy = FALSE /\ refused = FALSE
  /\ inCall = FALSE /\ recording = FALSE /\ op = "none" /\ pc = "idle"
  /\ torn = FALSE
  /\ staging = NoStaging /\ get = NoGet

-----------------------------------------------------------------------------
\* The vmcall around the methods.

BeginCall ==
  /\ ~inCall
  /\ inCall' = TRUE
  /\ UNCHANGED <<guest, host, recording, op, pc, torn>>

\* A guest entry point returns with its list ended.
EndCall ==
  /\ inCall /\ op = "none" /\ ~recording
  /\ inCall' = FALSE
  /\ UNCHANGED <<guest, host, recording, op, pc, torn>>

\* The next process frame: only between vmcalls, which the host makes
\* synchronously on the main thread.
NextFrame ==
  /\ ~inCall
  /\ fresh' = FALSE
  /\ UNCHANGED <<list_open_, submitted_, same_frame_syncs_, host, call, torn>>

\* The sandbox kills the vmcall where it stands.
Kill ==
  /\ inCall
  /\ get' = NoGet /\ UNCHANGED staging
  /\ inCall' = FALSE /\ recording' = FALSE /\ op' = "none" /\ pc' = "idle"
  /\ torn' = (torn \/ pc \in {"submit_flag", "sync_flag"})
  /\ UNCHANGED <<guest, host>>

\* A caller records with list_begin .. list_end in one vmcall and makes no
\* other Device call in between; everything else it may call in any order.
Callable(m) ==
  IF recording THEN m \in {"dispatch", "list_end"}
               ELSE m \in Methods \ {"dispatch", "list_end"}

Enter(m) ==
  /\ inCall /\ op = "none" /\ Callable(m)
  /\ op' = m
  /\ pc' = IF m \in Recovering /\ list_open_ THEN "recover_end" ELSE m
  /\ UNCHANGED <<guest, host, inCall, recording, torn>>

Return == op' = "none" /\ pc' = "idle"

-----------------------------------------------------------------------------
\* recover(): end the list a killed call left open (recovery_ is on unless
\* a probe turns it off).
RecoverEnd ==
  /\ pc = "recover_end"
  /\ hostList' = FALSE
  /\ pc' = "recover_flag"
  /\ UNCHANGED <<guest, hostBusy, refused, inCall, recording, op, torn>>

RecoverFlag ==
  /\ pc = "recover_flag"
  /\ list_open_' = FALSE
  /\ pc' = Body(op)
  /\ UNCHANGED <<submitted_, fresh, same_frame_syncs_, host, inCall, recording, op, torn>>

\* list_begin(): the flag goes up before the host call.  Mutant: it goes up
\* with nothing written, as if the line came after the host call.
ListBeginNoFlag ==
  /\ pc = "list_begin"
  /\ pc' = "list_begin_host"
  /\ UNCHANGED <<guest, host, inCall, recording, op, torn>>

ListBeginFlag ==
  /\ pc = "list_begin"
  /\ list_open_' = TRUE
  /\ pc' = "list_begin_host"
  /\ UNCHANGED <<submitted_, fresh, same_frame_syncs_, host, inCall, recording, op, torn>>

ListBeginHost ==
  /\ pc = "list_begin_host"
  /\ refused' = (refused \/ hostList)
  /\ hostList' = TRUE
  /\ recording' = TRUE
  /\ Return
  /\ UNCHANGED <<guest, hostBusy, inCall, torn>>

\* bind_pipeline(), bind_uniform_set(), dispatch(), barrier(): one host call
\* each, and none changes the list.
Dispatch ==
  /\ pc = "dispatch"
  /\ Return
  /\ UNCHANGED <<guest, host, inCall, recording, torn>>

\* list_end(): the host call, then the flag.
ListEndHost ==
  /\ pc = "list_end"
  /\ hostList' = FALSE
  /\ pc' = "list_end_flag"
  /\ UNCHANGED <<guest, hostBusy, refused, inCall, recording, op, torn>>

ListEndFlag ==
  /\ pc = "list_end_flag"
  /\ list_open_' = FALSE
  /\ recording' = FALSE
  /\ Return
  /\ UNCHANGED <<submitted_, fresh, same_frame_syncs_, host, inCall, torn>>

\* buffer_update() and buffer_get(): an update is refused while a list is open,
BufferUpdateOrGet ==
  /\ pc \in {"buffer_update", "buffer_get"}
  /\ refused' = (refused \/ (pc \in BufferCalls /\ hostList))
  /\ Return
  /\ UNCHANGED <<guest, hostList, hostBusy, inCall, recording, torn>>

\* and so are buffer_copy() and buffer_clear().
BufferCopyOrClear ==
  /\ pc \in {"buffer_copy", "buffer_clear"}
  /\ refused' = (refused \/ hostList)
  /\ Return
  /\ UNCHANGED <<guest, hostList, hostBusy, inCall, recording, torn>>

\* submit(): the host call, then the flag, then the frame.
SubmitHost ==
  /\ pc = "submit"
  /\ hostBusy' = TRUE
  /\ pc' = "submit_flag"
  /\ UNCHANGED <<guest, hostList, refused, inCall, recording, op, torn>>

SubmitFlag ==
  /\ pc = "submit_flag"
  /\ submitted_' = TRUE
  /\ torn' = FALSE
  /\ pc' = "submit_frame"
  /\ UNCHANGED <<list_open_, fresh, same_frame_syncs_, host, inCall, recording, op>>

SubmitFrame ==
  /\ pc = "submit_frame"
  /\ fresh' = TRUE
  /\ Return
  /\ UNCHANGED <<list_open_, submitted_, same_frame_syncs_, host, inCall, recording, torn>>

\* sync(): the rule-4 count, the host call, then the flag.  Mutants: a count
\* that goes down, and a sync() that leaves the flag up.
SyncCountDown ==
  /\ pc = "sync"
  /\ same_frame_syncs_' = same_frame_syncs_ - (IF fresh THEN 1 ELSE 0)
  /\ pc' = "sync_host"
  /\ UNCHANGED <<list_open_, submitted_, fresh, host, inCall, recording, op, torn>>

SyncCount ==
  /\ pc = "sync"
  /\ ~fresh \/ same_frame_syncs_ < MaxCount
  /\ same_frame_syncs_' = same_frame_syncs_ + (IF fresh THEN 1 ELSE 0)
  /\ pc' = "sync_host"
  /\ UNCHANGED <<list_open_, submitted_, fresh, host, inCall, recording, op, torn>>

SyncHost ==
  /\ pc = "sync_host"
  /\ hostBusy' = FALSE
  /\ pc' = "sync_flag"
  /\ UNCHANGED <<guest, hostList, refused, inCall, recording, op, torn>>

SyncFlagKept ==
  /\ pc = "sync_flag"
  /\ torn' = FALSE
  /\ Return
  /\ UNCHANGED <<guest, host, inCall, recording>>

SyncFlag ==
  /\ pc = "sync_flag"
  /\ submitted_' = FALSE
  /\ torn' = FALSE
  /\ Return
  /\ UNCHANGED <<list_open_, fresh, same_frame_syncs_, host, inCall, recording>>

-----------------------------------------------------------------------------
(* buffer_get_into(): byte i of the buffer is the number i.                *)

InGet == UNCHANGED <<guest, host, inCall, recording, op, torn>>
Goto(line) == pc' = line

Least(a, b) == IF a <= b THEN a ELSE b
RoundDown(x, unit) == x - (x % unit)
RoundUp(x, unit) == RoundDown(x + unit - 1, unit)

\* How large the staging buffer must be for a read of n bytes.
Wanted(n) == Least(StagingMax, RoundUp(n, Block))

\* Refused by the wrapper itself while submitted_; else the staging buffer
\* grows if it must.  Mutant: never refused.
GetNeverRefused == FALSE
GetRefused == submitted_

GetEnter ==
  /\ pc = "buffer_get_into"
  /\ IF GetRefused
     THEN op' = "none" /\ Goto("idle") /\ UNCHANGED read
     ELSE /\ \E off \in 0..BufBytes, n \in 0..BufBytes :
               /\ off + n <= BufBytes
               /\ get' = [off |-> off, n |-> n, out |-> <<>>, copied |-> FALSE]
               /\ Goto(IF n = 0 \/ staging.bytes >= Wanted(n) THEN "chunk"
                       ELSE IF staging.set THEN "staging_free" ELSE "staging_create")
          /\ UNCHANGED <<op, staging>>
  /\ UNCHANGED <<guest, host, inCall, recording, torn>>

GetReturn == op' = "none" /\ pc' = "idle" /\ get' = NoGet
InReturn == GetReturn /\ UNCHANGED <<guest, host, inCall, recording, torn, staging>>

\* The staging buffer given up, by a read that needs a larger one or by close():
\* its RID freed, then staging_, then staging_bytes_.
StagingFree ==
  /\ pc = "staging_free"
  /\ staging' = [staging EXCEPT !.live = FALSE]
  /\ Goto("staging_clear") /\ UNCHANGED get /\ InGet

StagingClear ==
  /\ pc = "staging_clear"
  /\ staging' = [staging EXCEPT !.set = FALSE]
  /\ Goto("staging_zero") /\ UNCHANGED get /\ InGet

StagingZero ==
  /\ pc = "staging_zero"
  /\ staging' = [staging EXCEPT !.bytes = 0]
  /\ Goto(IF op = "close" THEN "close_free" ELSE "staging_create")
  /\ UNCHANGED get /\ InGet

StagingCreate ==
  /\ pc = "staging_create"
  /\ \/ InReturn
     \/ /\ staging' = [staging EXCEPT !.set = TRUE, !.live = TRUE]
        /\ Goto("staging_bytes") /\ UNCHANGED get /\ InGet

StagingBytes ==
  /\ pc = "staging_bytes"
  /\ staging' = [staging EXCEPT !.bytes = Wanted(get.n)]
  /\ Goto("chunk") /\ UNCHANGED get /\ InGet

\* The words copied for the next bytes: from the word that holds the first of
\* them, as many as fit.  Mutants: more than fit; bytes past the words copied.
At == get.off + Len(get.out)
Rest == get.n - Len(get.out)
Skew == At % Word
Low == At - Skew
SpanUncapped == RoundUp(Skew + Least(Rest, staging.bytes), Word)
Span == Least(staging.bytes, RoundUp(Skew + Least(Rest, staging.bytes), Word))
TakeAll == Least(Rest, staging.bytes)
Take == Least(Least(Rest, staging.bytes), Span - Skew)

Chunk ==
  /\ pc = "chunk"
  /\ IF Rest = 0 THEN InReturn
     ELSE Goto(IF list_open_ THEN "recover_end" ELSE "chunk_copy") /\ UNCHANGED read /\ InGet

\* buffer_copy() of the span into the staging buffer, after its recover(): an
\* error if the staging buffer is gone, and without effect if it is recorded
\* between the host's submit and sync (rd_compute.h 117-119).
ChunkCopy ==
  /\ pc = "chunk_copy"
  /\ IF staging.live
     THEN Goto("chunk_get") /\ get' = [get EXCEPT !.copied = ~hostBusy] /\ UNCHANGED op
     ELSE GetReturn
  /\ refused' = (refused \/ hostList)
  /\ UNCHANGED <<guest, hostList, hostBusy, inCall, recording, torn, staging>>

\* Byte i of the bytes a chunk takes out of the staging buffer: one of the
\* buffer read if it lies in a span that was copied, and else what the staging
\* buffer held before.
ByteTaken(i) == IF get.copied /\ Skew + i <= Span THEN Low + Skew + i - 1 ELSE -1

\* buffer_get_data of the span, and the bytes wanted out of it; a short one
\* ends the read.
ChunkGet ==
  /\ pc = "chunk_get"
  /\ \/ InReturn
     \/ /\ get' = [get EXCEPT !.out = @ \o [i \in 1..Take |-> ByteTaken(i)], !.copied = FALSE]
        /\ Goto("chunk") /\ UNCHANGED staging /\ InGet

-----------------------------------------------------------------------------
\* close(): the staging buffer, the device if the wrapper owns it, the flags.
\* An adopted device is freed by the host once close() has answered
\* (ggml_stage.gd 82-88), so that nothing recorded survives either way.
Close ==
  /\ pc = "close"
  /\ Goto(IF staging.set THEN "staging_free" ELSE "close_free")
  /\ UNCHANGED read /\ InGet

CloseFree ==
  /\ pc = "close_free"
  /\ hostList' = FALSE /\ hostBusy' = FALSE
  /\ list_open_' = FALSE /\ submitted_' = FALSE
  /\ torn' = FALSE
  /\ Return
  /\ UNCHANGED <<fresh, same_frame_syncs_, refused, inCall, recording, read>>

\* adopt(): the flags of the device the host has just created (ggml_stage.gd
\* 40-41).  staging_ is left as it is: what it names is not this device's.
Adopt ==
  /\ inCall /\ op = "none" /\ ~recording
  /\ list_open_' = FALSE /\ submitted_' = FALSE
  /\ hostList' = FALSE /\ hostBusy' = FALSE
  /\ torn' = FALSE
  /\ staging' = [staging EXCEPT !.live = FALSE]
  /\ UNCHANGED <<fresh, same_frame_syncs_, refused, call, get>>

Step ==
  \/ RecoverEnd \/ RecoverFlag
  \/ ListBeginFlag \/ ListBeginHost \/ Dispatch \/ ListEndHost \/ ListEndFlag
  \/ BufferUpdateOrGet \/ BufferCopyOrClear
  \/ SubmitHost \/ SubmitFlag \/ SubmitFrame
  \/ SyncCount \/ SyncHost \/ SyncFlag

BufferGetInto ==
  \/ GetEnter \/ StagingFree \/ StagingClear \/ StagingZero \/ StagingCreate \/ StagingBytes
  \/ Chunk \/ ChunkCopy \/ ChunkGet

Next ==
  \/ (BeginCall \/ EndCall \/ NextFrame) /\ UNCHANGED read
  \/ \E m \in Methods : Enter(m) /\ UNCHANGED read
  \/ Step /\ UNCHANGED read
  \/ BufferGetInto
  \/ Close \/ CloseFree \/ Adopt \/ Kill

Spec == Init /\ [][Next]_vars

-----------------------------------------------------------------------------
DeviceTypes ==
  /\ list_open_ \in BOOLEAN /\ submitted_ \in BOOLEAN /\ fresh \in BOOLEAN
  /\ same_frame_syncs_ \in 0..MaxCount
  /\ hostList \in BOOLEAN /\ hostBusy \in BOOLEAN /\ refused \in BOOLEAN
  /\ inCall \in BOOLEAN /\ recording \in BOOLEAN
  /\ op \in Methods \cup {"none"} /\ pc \in Lines
  /\ torn \in BOOLEAN

ReadTypes ==
  /\ staging \in [set : BOOLEAN, bytes : 0..StagingMax, live : BOOLEAN]
  /\ get \in [off : 0..BufBytes, n : 0..BufBytes, out : Seq(Int), copied : BOOLEAN]

\* The types of the device's flags, of the host's state, of the call and of a
\* read in progress.
TypeOK == DeviceTypes /\ ReadTypes

\* Wherever the sandbox kills a vmcall, a compute list that is open on the
\* host is one list_open_ knows of: list_begin() raises the flag before its
\* host call and list_end() drops it after (rd_compute.cpp 500-534).
ListFlagCoversHost == hostList => list_open_

\* What recover() is for (rd_compute.h 153-159): after any history of killed
\* calls Godot never refuses a list_begin, buffer_update, buffer_copy or
\* buffer_clear because a list is still open.
NeverRefused == ~refused

\* rd_compute.cpp 367-412: a read is made of whole words that fit the staging
\* buffer and lie in the buffer read, each chunk goes on where the one before
\* ended, what is read is never more than was asked, and every byte of it is
\* the buffer's own: the refusal at line 368 keeps the copies off a busy device,
\* unless a kill has torn submitted_ from the host.
ReadsTheRange ==
  /\ Len(get.out) <= get.n
  /\ ~torn => \A k \in 1..Len(get.out) : get.out[k] = get.off + k - 1
  /\ pc \in {"chunk_copy", "chunk_get"} =>
       /\ Span <= staging.bytes /\ Low + Span <= BufBytes
       /\ Span % Word = 0 /\ Low % Word = 0 /\ Take > 0

\* What rd_compute.h 115-119 promises of buffer_get_into: it reads only while
\* nothing is submitted, so that no byte it returns is one the staging buffer
\* held before.
ReadsFreshBytes == \A k \in 1..Len(get.out) : get.out[k] = get.off + k - 1

\* submitted() tells the truth about the host between two Device calls, except
\* after a kill between the host's submit or sync and the flag; the next
\* submit(), sync() or change of device mends it.
SubmittedTruth == op = "none" /\ ~torn => submitted_ = hostBusy
=============================================================================

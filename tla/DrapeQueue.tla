----------------------------- MODULE DrapeQueue -----------------------------
(***************************************************************************)
(* What drape.elf promises whoever queues work on its session, whatever a  *)
(* forward, a fit or a backward does inside: the operations queued are     *)
(* done one after another in the order they were queued, each of them ends *)
(* with one verdict, its own, and none is passed over.  Only rd_close      *)
(* drops what is queued, and only a load of the scene, with nothing        *)
(* queued, forgets the last verdict.                                       *)
(***************************************************************************)
EXTENDS Sequences

VARIABLES
  todo,     \* the operations queued and not ended, the first one under way
  verdict   \* the last one that ended, and whether it is DONE

vars == <<todo, verdict>>

Operations == {"forward", "fit", "backward"}
NoVerdict == [op |-> "none", ok |-> TRUE]

Init == todo = <<>> /\ verdict = NoVerdict

\* drape_queue_forward, drape_queue_fit and drape_queue_backward; the first of
\* them after a changed knob loads the scene again.
Queue ==
  /\ \E o \in Operations : todo' = Append(todo, o)
  /\ \/ UNCHANGED verdict
     \/ todo = <<>> /\ verdict' = NoVerdict

\* The operation under way ends.
Finish ==
  /\ todo # <<>>
  /\ \E ok \in BOOLEAN : verdict' = [op |-> Head(todo), ok |-> ok]
  /\ todo' = Tail(todo)

\* drape_scene_*, and the rewind after a changed knob.
Load == todo = <<>> /\ verdict' = NoVerdict /\ UNCHANGED todo

\* rd_close.
Drop == todo' = <<>> /\ UNCHANGED verdict

Next == Queue \/ Finish \/ Load \/ Drop

\* Weak fairness of Finish, which is enabled while anything is queued.
Progress == []<>(todo = <<>>) \/ []<><<Finish>>_vars

Safety == Init /\ [][Next]_vars

Spec == Safety /\ Progress
=============================================================================

----------------------------- MODULE TaskQueue -----------------------------
(***************************************************************************)
(* What bthread::ExecutionQueue promises (execution_queue.h): tasks of one *)
(* priority start in the order they were submitted, each at most once; a   *)
(* cancelled task never starts; the call with is_queue_stopped() is the    *)
(* last one and happens only when nothing is pending.  ExecutionQueue.tla  *)
(* implements it.                                                          *)
(***************************************************************************)
EXTENDS Naturals, Sequences, SequencesExt

CONSTANT NoTask

VARIABLES pending,  \* tasks submitted, not started, not cancelled: records with a field high
          started,  \* the task that started last
          phase     \* "open", "closed" (stop() was called), "final" (the stopped call was made)

vars == <<pending, started, phase>>

Init == pending = <<>> /\ started = NoTask /\ phase = "open"

Open == phase = "final" /\ phase' = "open" /\ UNCHANGED <<pending, started>>

\* A caller that addressed the queue before stop() may still submit after it.
Submit == /\ phase # "final"
          /\ pending' # <<>> /\ Front(pending') = pending
          /\ UNCHANGED <<started, phase>>

\* The first pending task of its priority starts.
Start == \E i \in DOMAIN pending :
            /\ phase # "final"
            /\ \A j \in 1 .. i - 1 : pending[j].high # pending[i].high
            /\ started' = pending[i]
            /\ pending' = RemoveAt(pending, i)
            /\ UNCHANGED phase

Cancel == \E i \in DOMAIN pending :
            pending' = RemoveAt(pending, i) /\ UNCHANGED <<started, phase>>

Close == phase = "open" /\ phase' = "closed" /\ UNCHANGED <<pending, started>>

Finish == /\ phase = "closed" /\ pending = <<>>
          /\ phase' = "final" /\ UNCHANGED <<pending, started>>

Next == Open \/ Submit \/ Start \/ Cancel \/ Close \/ Finish

Spec == Init /\ [][Next]_vars
=============================================================================

----------------------- MODULE ExecutionQueuePthread -----------------------
(***************************************************************************)
(* The use_pthread mode of bthread::ExecutionQueue (execution_queue.cpp):  *)
(* how start_execute() hands a list to the resident pthread, how that      *)
(* pthread waits for the next list and quits, and how join() joins it.     *)
(* The list itself is ExecutionQueue.tla's; here a push either gets the    *)
(* right to execute (a new batch) or is consumed with the running batch.   *)
(***************************************************************************)
EXTENDS Naturals, FiniteSets

CONSTANTS Producers, Pthreads, NULL, MaxBatches, MaxLives

VARIABLES life,      \* version of _this_id
          pooled, join_butex,
          active,    \* _head # NULL: somebody has the right to execute
          stopping,  \* "no", "asked" (stop() was called), "pushed" (stop_task in the list)
          pthread_started, pid, current_head,
          mutex,     \* holder of _mutex, or NULL
          prod,      \* [pc, batch]
          pt,        \* [pc, head]
          batches, ran, created

vars == <<life, pooled, join_butex, active, stopping, pthread_started, pid, current_head,
          mutex, prod, pt, batches, ran, created>>
slot == <<life, pooled, join_butex>>
counts == <<batches, ran, created>>

Init == /\ life = 0 /\ pooled = FALSE /\ join_butex = 0
        /\ active = FALSE /\ stopping = "no"
        /\ pthread_started = FALSE /\ pid = NULL /\ current_head = 0
        /\ mutex = NULL
        /\ prod = [t \in Producers |-> [pc |-> "idle", batch |-> 0]]
        /\ pt = [p \in Pthreads |-> [pc |-> "none", head |-> 0]]
        /\ batches = 0 /\ ran = {} /\ created = 0

Prod(t, pc, b) == prod' = [prod EXCEPT ![t] = [pc |-> pc, batch |-> b]]
Pt(p, pc) == pt' = [pt EXCEPT ![p].pc = pc]

create(t) ==
  /\ prod[t].pc = "idle" /\ pooled /\ life < 2 * (MaxLives - 1)
  /\ pooled' = FALSE /\ life' = life + 2 /\ stopping' = "no"
  /\ pthread_started' = FALSE /\ current_head' = 0 /\ created' = 0
  /\ UNCHANGED <<join_butex, active, pid, mutex, prod, pt, batches, ran>>

\* execute() that finds the list empty; a push on a running batch changes nothing here.
push(t) ==
  /\ prod[t].pc = "idle" /\ ~pooled /\ stopping = "no" /\ ~active /\ batches < MaxBatches
  /\ active' = TRUE /\ batches' = batches + 1
  /\ Prod(t, "start", batches + 1)
  /\ UNCHANGED <<slot, stopping, pthread_started, pid, current_head, mutex, pt, ran, created>>

stop(t) ==
  /\ prod[t].pc = "idle" /\ ~pooled /\ stopping = "no"
  /\ stopping' = "asked" /\ Prod(t, "recycle", 0)
  /\ UNCHANGED <<slot, active, pthread_started, pid, current_head, mutex, pt, counts>>

\* _on_recycle(), once no caller holds a reference: the stop task joins the
\* running batch, or is a batch of its own.
recycle(t) ==
  /\ prod[t].pc = "recycle"
  /\ \A u \in Producers \ {t} : prod[u].pc \in {"idle", "join"}
  /\ stopping' = "pushed" /\ active' = TRUE
  /\ IF active THEN Prod(t, "idle", 0) /\ UNCHANGED batches
     ELSE Prod(t, "start", batches + 1) /\ batches' = batches + 1
  /\ UNCHANGED <<slot, pthread_started, pid, current_head, mutex, pt, ran, created>>

\* start_execute() with use_pthread: wake the pthread that was started, or create it.
signal(t) ==
  /\ prod[t].pc = "start" /\ pthread_started
  /\ mutex = NULL
  /\ current_head' = prod[t].batch
  /\ LET waiting == {p \in Pthreads : pt[p].pc = "wait"}
     IN IF waiting = {} THEN UNCHANGED pt ELSE \E p \in waiting : Pt(p, "lock")
  /\ Prod(t, "idle", 0)
  /\ UNCHANGED <<slot, active, stopping, pthread_started, pid, mutex, counts>>

pthread_create(t) ==
  /\ prod[t].pc = "start" /\ ~pthread_started
  /\ \E p \in Pthreads :
       /\ pt[p].pc = "none"
       /\ pid' = p
       /\ pt' = [pt EXCEPT ![p] = [pc |-> "born", head |-> prod[t].batch]]
  /\ created' = created + 1
  /\ Prod(t, "created", 0)
  /\ UNCHANGED <<slot, active, stopping, pthread_started, current_head, mutex, batches, ran>>

Started_Not == FALSE
Started == TRUE

set_started(t) ==
  /\ prod[t].pc = "created"
  /\ pthread_started' = Started
  /\ Prod(t, "idle", 0)
  /\ UNCHANGED <<slot, active, stopping, pid, current_head, mutex, pt, counts>>

\* join(): first the butex, then the pthread that pid names by then.
join(t) ==
  /\ prod[t].pc = "idle" /\ stopping # "no"
  /\ Prod(t, "join", life)
  /\ UNCHANGED <<slot, active, stopping, pthread_started, pid, current_head, mutex, pt, counts>>

Joined_ByButex(t) == join_butex # prod[t].batch
Joined(t) == join_butex # prod[t].batch /\ (pthread_started => pt[pid].pc = "dead")

joined(t) ==
  /\ prod[t].pc = "join" /\ Joined(t)
  /\ Prod(t, "idle", 0)
  /\ UNCHANGED <<slot, active, stopping, pthread_started, pid, current_head, mutex, pt, counts>>

-----------------------------------------------------------------------------
(* _execute_tasks_pthread().                                                *)

born(p) ==
  /\ pt[p].pc = "born"
  /\ current_head' = pt[p].head /\ Pt(p, "lock")
  /\ UNCHANGED <<slot, active, stopping, pthread_started, pid, mutex, prod, counts>>

lock(p) ==
  /\ pt[p].pc = "lock" /\ mutex = NULL
  /\ IF current_head # 0 THEN mutex' = p /\ Pt(p, "execute") ELSE Pt(p, "wait") /\ UNCHANGED mutex
  /\ UNCHANGED <<slot, active, stopping, pthread_started, pid, current_head, prod, counts>>

\* _execute_tasks(): the whole batch, until _more_tasks() gives the queue up.
_execute_tasks(p) ==
  /\ pt[p].pc = "execute"
  /\ ran' = ran \cup {current_head}
  /\ active' = FALSE
  /\ Pt(p, IF stopping = "pushed" THEN "destroy" ELSE "clear")
  /\ UNCHANGED <<slot, stopping, pthread_started, pid, current_head, mutex, prod, batches, created>>

destroy(p) ==
  /\ pt[p].pc = "destroy"
  /\ join_butex' = join_butex + 2 /\ pooled' = TRUE /\ Pt(p, "clear")
  /\ UNCHANGED <<life, active, stopping, pthread_started, pid, current_head, mutex, prod, counts>>

clear(p) ==
  /\ pt[p].pc = "clear"
  /\ current_head' = 0 /\ Pt(p, "check")
  /\ UNCHANGED <<slot, active, stopping, pthread_started, pid, mutex, prod, counts>>

StopSeen_Never == FALSE
StopSeen_Early == life = join_butex
StopSeen == life # join_butex

check(p) ==
  /\ pt[p].pc = "check"
  /\ mutex' = NULL
  /\ Pt(p, IF StopSeen THEN "dead" ELSE "lock")
  /\ UNCHANGED <<slot, active, stopping, pthread_started, pid, current_head, prod, counts>>

-----------------------------------------------------------------------------
Call(t) == create(t) \/ push(t) \/ stop(t) \/ join(t)
Continue(t) == recycle(t) \/ signal(t) \/ pthread_create(t) \/ set_started(t) \/ joined(t)
Run(p) == born(p) \/ lock(p) \/ _execute_tasks(p) \/ destroy(p) \/ clear(p) \/ check(p)

Next == (\E t \in Producers : Call(t) \/ Continue(t)) \/ (\E p \in Pthreads : Run(p))
Fairness == /\ \A t \in Producers : WF_vars(Continue(t))
            /\ \A p \in Pthreads : WF_vars(Run(p))
Spec == Init /\ [][Next]_vars /\ Fairness

-----------------------------------------------------------------------------
\* A batch that got the right to execute is executed by the pthread.
EveryBatchRuns == \A b \in 1 .. MaxBatches + MaxLives : []<>(batches >= b => b \in ran)

\* Once the stop task was pushed, every join() returns.
JoinReturns == \A t \in Producers : []<>(prod[t].pc # "join")

\* join() returns only when the stop task was executed and the pthread is gone.
JoinedIsGone == \A t \in Producers : joined(t) =>
  join_butex > prod[t].batch /\ \A p \in Pthreads : pt[p].pc \in {"none", "dead"}
JoinMeansGone == [][JoinedIsGone]_vars

\* "Start the execution bthread in background once": one pthread per queue.
StartedOnce == created <= 1
=============================================================================

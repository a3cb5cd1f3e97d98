------------------------------- MODULE Sched --------------------------------
(***************************************************************************)
(* Workers of bthread (task_group.cpp, task_control.cpp, parking_lot.h,    *)
(* remote_task_queue.h): tasks are put in the queue of a worker, workers   *)
(* take them from their own queue or steal them, and park when idle.  The  *)
(* run queue of a worker is the deque that WorkStealingQueue implements.   *)
(***************************************************************************)
EXTENDS Naturals, Sequences, FiniteSets

CONSTANTS Workers, Initial,  \* all workers, and those that init() starts
          Callers,           \* threads that are no workers
          Tasks, Lots, LotOf, \* the parking lot of each worker
          RqCapacity, RemoteCapacity,
          MayStop,           \* whether the workers are ever stopped
          MaxSwitch          \* bound on how often tasks yield or block

VARIABLES rq, remote,        \* _rq (oldest first) and _remote_rq of each worker
          nosignal, rnosignal, \* _num_nosignal and _remote_num_nosignal
          wk,       \* workers: [pc, cur, next, remained, left, stale, stop]
          sig,      \* signal_task() of a thread: [num, lots]
          task,     \* tasks: new, ready, blocked or done
          switches,
          ngroup,   \* workers that steal_task and choose_one_group see
          stopped   \* lots whose _pending_signal has the stop bit

vars == <<rq, remote, nosignal, rnosignal, wk, sig, task, switches, ngroup, stopped>>
queues == <<rq, remote, nosignal, rnosignal>>
control == <<switches, ngroup, stopped>>

Main == "main"       \* the main task of a worker
None == "none"
Signallers == Workers \cup Callers
Quiet == [num |-> 0, lots |-> {}]
Queues == {"rq", "remote"}
Requeues == {"signal", "nosignal", "ignoresignal"}

Worker(pc) == [pc |-> pc, cur |-> Main, next |-> None, remained |-> None, left |-> {},
               stale |-> FALSE, stop |-> FALSE]

Init == /\ rq = [w \in Workers |-> <<>>] /\ remote = [w \in Workers |-> <<>>]
        /\ nosignal = [w \in Workers |-> 0] /\ rnosignal = [w \in Workers |-> 0]
        /\ wk = [w \in Workers |-> Worker(IF w \in Initial THEN "wait" ELSE "none")]
        /\ sig = [x \in Signallers |-> Quiet]
        /\ task = [t \in Tasks |-> "new"] /\ switches = 0
        /\ ngroup = Initial /\ stopped = {}

-----------------------------------------------------------------------------
(* signal_task().                                                           *)

Signals(n) == [num |-> IF n > 2 THEN 2 ELSE n, lots |-> Lots]
Signalling(x) == sig[x].num > 0

Woken(S) == [w \in Workers |-> [wk[w] EXCEPT !.pc = IF w \in S THEN "remote" ELSE @]]
\* A signal to lot l makes the saved states differ, of workers that find nothing to run.
Searching(k) == \/ k.pc \in {"steal", "wait"}
                \/ k.pc = "switch" /\ k.next = Main
                \/ k.pc = "remained" /\ k.cur = Main
Stale(l, ks) == [w \in Workers |-> [ks[w] EXCEPT !.stale = @ \/ (LotOf[w] = l /\ Searching(ks[w]))]]

\* ParkingLot::signal(1) of the next lot: wakes one worker that sleeps in it, if any.
signal(x, l) ==
  LET asleep == {w \in Workers : wk[w].pc = "asleep" /\ LotOf[w] = l}
  IN /\ Signalling(x) /\ l \in sig[x].lots
     /\ \/ asleep = {} /\ wk' = Stale(l, wk) /\ sig' = [sig EXCEPT ![x].lots = @ \ {l}]
        \/ \E w \in asleep : /\ wk' = Stale(l, Woken({w}))
                             /\ sig' = [sig EXCEPT ![x] = IF @.num = 1 THEN Quiet
                                          ELSE [num |-> @.num - 1, lots |-> @.lots \ {l}]]
     /\ UNCHANGED <<queues, task, control>>

\* All lots were signalled and workers are wanting: add_workers() if any may be added.
add_workers(x) ==
  /\ Signalling(x) /\ sig[x].lots = {} /\ sig' = [sig EXCEPT ![x] = Quiet]
  /\ \/ (\A w \in Workers : wk[w].pc # "none") /\ UNCHANGED <<wk, ngroup>>
     \/ \E w \in Workers :
          /\ wk[w].pc = "none"
          /\ wk' = [wk EXCEPT ![w] = [Worker(IF ngroup = {} THEN "quit" ELSE "wait")
                                        EXCEPT !.stale = TRUE]]
          /\ ngroup' = IF ngroup = {} THEN {} ELSE ngroup \cup {w}
  /\ UNCHANGED <<queues, task, switches, stopped>>

-----------------------------------------------------------------------------
(* ready_to_run() of a worker and ready_to_run_remote() of any thread.      *)

\* The worker goes to `then`, by way of signal_task() if there is something to signal.
WithSignal_Dropped(w, n) == Quiet
WithSignal(w, n) == IF n > 0 THEN Signals(n) ELSE Quiet

\* `how' is "signal", "nosignal" (BTHREAD_NOSIGNAL) or "ignoresignal", which is push_rq() only.
ready_to_run(w, t, how) ==
  /\ Len(rq[w]) < RqCapacity /\ rq' = [rq EXCEPT ![w] = Append(@, t)]
  /\ nosignal' = [nosignal EXCEPT ![w] = IF how = "signal" THEN 0
                                         ELSE IF how = "nosignal" THEN @ + 1 ELSE @]
  /\ sig' = [sig EXCEPT ![w] = WithSignal(w, IF how = "signal" THEN 1 + nosignal[w] ELSE 0)]
  /\ UNCHANGED <<remote, rnosignal>>

\* push_rq(): the queue is full, what was not signalled is (and then it spins).
flush_nosignal_tasks(w) ==
  /\ nosignal[w] > 0 /\ nosignal' = [nosignal EXCEPT ![w] = 0]
  /\ sig' = [sig EXCEPT ![w] = Signals(nosignal[w])]
  /\ UNCHANGED <<rq, remote, rnosignal>>

ready_to_run_remote(x, w, t, quiet) ==
  /\ Len(remote[w]) < RemoteCapacity /\ remote' = [remote EXCEPT ![w] = Append(@, t)]
  /\ rnosignal' = [rnosignal EXCEPT ![w] = IF quiet THEN @ + 1 ELSE 0]
  /\ sig' = [sig EXCEPT ![x] = IF quiet THEN Quiet ELSE Signals(1 + rnosignal[w])]
  /\ UNCHANGED <<rq, nosignal>>

\* bthread_flush(), and the flush of a full _remote_rq.
flush_nosignal_tasks_remote(x, w) ==
  /\ ~Signalling(x) /\ rnosignal[w] > 0 /\ rnosignal' = [rnosignal EXCEPT ![w] = 0]
  /\ sig' = [sig EXCEPT ![x] = Signals(rnosignal[w])]
  /\ UNCHANGED <<rq, remote, nosignal, wk, task, control>>

\* A thread that is no worker starts a task, or makes one run again that was blocked
\* (butex_wake, the timer thread): choose_one_group() takes any group.
start_from_non_worker(x, t, w, quiet) ==
  /\ ~Signalling(x) /\ w \in ngroup /\ task[t] \in {"new", "blocked"}
  /\ quiet => task[t] = "new"
  /\ task' = [task EXCEPT ![t] = "ready"] /\ ready_to_run_remote(x, w, t, quiet)
  /\ UNCHANGED <<wk, control>>

-----------------------------------------------------------------------------
(* A task that runs on a worker.                                            *)

Running(w) == wk[w].pc = "run" /\ ~Signalling(w)
Goto(w, pc) == wk' = [wk EXCEPT ![w].pc = pc]

start_background(w, t, quiet) ==
  /\ Running(w) /\ task[t] \in {"new", "blocked"} /\ (quiet => task[t] = "new")
  /\ \/ /\ task' = [task EXCEPT ![t] = "ready"]
        /\ ready_to_run(w, t, IF quiet THEN "nosignal" ELSE "signal")
     \/ Len(rq[w]) = RqCapacity /\ flush_nosignal_tasks(w) /\ UNCHANGED task
  /\ UNCHANGED <<wk, control>>

\* The caller is put in the queue by the callback that runs after the switch: without a
\* signal when it is about to quit.  exchange() of a butex_wake does the same.
start_foreground(w, t, how) ==
  /\ Running(w) /\ task[t] \in {"new", "blocked"} /\ (how = "nosignal" => task[t] = "new")
  /\ task' = [task EXCEPT ![t] = "ready"]
  /\ wk' = [wk EXCEPT ![w] = [@ EXCEPT !.pc = "remained", !.cur = t, !.next = wk[w].cur,
                                       !.remained = how]]
  /\ UNCHANGED <<queues, sig, control>>

\* yield(), a blocking call (butex_wait, usleep) and the end of the task: sched().
sched(w, fn) ==
  /\ Running(w) /\ switches' = switches + (IF fn = "end" THEN 0 ELSE 1) /\ switches' <= MaxSwitch
  /\ wk' = [wk EXCEPT ![w] = [@ EXCEPT !.pc = "pop", !.remained = fn]]
  /\ UNCHANGED <<queues, sig, task, ngroup, stopped>>

bthread_flush(w) == /\ Running(w) /\ flush_nosignal_tasks(w)
                    /\ UNCHANGED <<wk, task, control>>

-----------------------------------------------------------------------------
(* The search for a task.                                                   *)

Found(w, t) == wk' = [wk EXCEPT ![w] = [@ EXCEPT !.pc = "switch", !.next = t, !.left = {},
                                                      !.stale = FALSE]]

pop(w) ==
  /\ wk[w].pc = "pop"
  /\ IF rq[w] = <<>> THEN Goto(w, "remote") /\ UNCHANGED rq
     ELSE LET n == Len(rq[w])
          IN Found(w, rq[w][n]) /\ rq' = [rq EXCEPT ![w] = SubSeq(@, 1, n - 1)]
  /\ UNCHANGED <<remote, nosignal, rnosignal, sig, task, control>>

\* steal_task(): the own _remote_rq, then the state of the lot is saved.
pop_remote(w) ==
  /\ wk[w].pc = "remote"
  /\ IF remote[w] = <<>> THEN Goto(w, "state") /\ UNCHANGED remote
     ELSE Found(w, Head(remote[w])) /\ remote' = [remote EXCEPT ![w] = Tail(@)]
  /\ UNCHANGED <<rq, nosignal, rnosignal, sig, task, control>>

get_state(w) ==
  /\ wk[w].pc = "state"
  /\ wk' = [wk EXCEPT ![w] = [@ EXCEPT !.pc = "steal", !.left = ngroup \X Queues, !.stale = FALSE,
                                       !.stop = LotOf[w] \in stopped]]
  /\ UNCHANGED <<queues, sig, task, control>>

\* TaskControl::steal_task(): the groups in any order, _rq before _remote_rq.
steal_task(w, g, q) ==
  /\ wk[w].pc = "steal" /\ <<g, q>> \in wk[w].left /\ (q = "remote" => <<g, "rq">> \notin wk[w].left)
  /\ LET from == IF q = "rq" THEN rq[g] ELSE remote[g]
     IN IF from = <<>> THEN wk' = [wk EXCEPT ![w].left = @ \ {<<g, q>>}] /\ UNCHANGED <<rq, remote>>
        ELSE /\ Found(w, Head(from))
             /\ rq' = IF q = "rq" THEN [rq EXCEPT ![g] = Tail(@)] ELSE rq
             /\ remote' = IF q = "remote" THEN [remote EXCEPT ![g] = Tail(@)] ELSE remote
  /\ UNCHANGED <<nosignal, rnosignal, sig, task, control>>

\* Nothing to run: sched() goes to the main task, wait_task() waits.
nothing(w) ==
  /\ wk[w].pc = "steal" /\ wk[w].left = {}
  /\ IF wk[w].cur = Main THEN Goto(w, "wait")
     ELSE wk' = [wk EXCEPT ![w] = [@ EXCEPT !.pc = "switch", !.next = Main]]
  /\ UNCHANGED <<queues, sig, task, control>>

\* sched_to(): the callback set by the previous task runs in the next one.
sched_to(w) ==
  /\ wk[w].pc = "switch"
  /\ wk' = [wk EXCEPT ![w] = [@ EXCEPT !.cur = wk[w].next, !.next = wk[w].cur, !.pc = "remained"]]
  /\ UNCHANGED <<queues, sig, task, control>>

Resumed(w) == [wk EXCEPT ![w] = [@ EXCEPT !.pc = IF wk[w].cur = Main THEN "wait" ELSE "run",
                                          !.next = None, !.remained = None]]

Previous_Current(w) == wk[w].cur
Previous(w) == wk[w].next

remained(w) ==
  LET prev == Previous(w)
  IN /\ wk[w].pc = "remained" /\ ~Signalling(w)
     /\ \/ /\ wk[w].remained \in Requeues /\ ready_to_run(w, prev, wk[w].remained)
           /\ wk' = Resumed(w) /\ UNCHANGED task
        \/ /\ wk[w].remained \in Requeues /\ Len(rq[w]) = RqCapacity /\ flush_nosignal_tasks(w)
           /\ UNCHANGED <<wk, task>>
        \/ /\ wk[w].remained \notin Requeues /\ wk' = Resumed(w)
           /\ task' = IF prev = Main THEN task
                      ELSE [task EXCEPT ![prev] = IF wk[w].remained = "end" THEN "done" ELSE "blocked"]
           /\ UNCHANGED <<queues, sig>>
     /\ UNCHANGED control

-----------------------------------------------------------------------------
(* wait_task() and stop_and_join().                                         *)

SavedStateHolds_Always(w) == TRUE
SavedStateHolds(w) == ~wk[w].stale

wait_task(w) ==
  /\ wk[w].pc = "wait" /\ ~Signalling(w)
  /\ Goto(w, IF wk[w].stop THEN "quit"
             ELSE IF SavedStateHolds(w) THEN "asleep" ELSE "remote")
  /\ UNCHANGED <<queues, sig, task, control>>

stop_groups == /\ MayStop /\ ngroup # {} /\ ngroup' = {}
               /\ UNCHANGED <<queues, wk, sig, task, switches, stopped>>

stop_lot(l) ==
  /\ ngroup = {} /\ l \notin stopped /\ stopped' = stopped \cup {l}
  /\ wk' = Stale(l, Woken({w \in Workers : wk[w].pc = "asleep" /\ LotOf[w] = l}))
  /\ UNCHANGED <<queues, sig, task, switches, ngroup>>

-----------------------------------------------------------------------------
Signal(x) == add_workers(x) \/ \E l \in Lots : signal(x, l)
Search(w) == \/ pop(w) \/ pop_remote(w) \/ get_state(w) \/ nothing(w) \/ sched_to(w)
             \/ remained(w) \/ wait_task(w)
             \/ \E g \in Workers, q \in Queues : steal_task(w, g, q)
UserCode(w) == \/ \E t \in Tasks, quiet \in BOOLEAN : start_background(w, t, quiet)
               \/ \E t \in Tasks, how \in Requeues : start_foreground(w, t, how)
               \/ \E fn \in {"signal", "block"} : sched(w, fn)
               \/ bthread_flush(w)
Flush(x) == \E w \in Workers : flush_nosignal_tasks_remote(x, w)
Start(x) == \E t \in Tasks, w \in Workers, quiet \in BOOLEAN : start_from_non_worker(x, t, w, quiet)
Stop == stop_groups \/ \E l \in Lots : stop_lot(l)

Next == \/ \E x \in Signallers : Signal(x)
        \/ \E w \in Workers : Search(w) \/ UserCode(w) \/ sched(w, "end")
        \/ \E x \in Callers : Flush(x) \/ Start(x)
        \/ Stop
Spec == Init /\ [][Next]_vars

\* Workers, signals and a stop that has begun go on; a task ends; a caller that started
\* tasks without signalling calls bthread_flush().
Fairness == /\ \A x \in Signallers : WF_vars(Signal(x))
            /\ \A w \in Workers : WF_vars(Search(w)) /\ WF_vars(sched(w, "end"))
            /\ \A x \in Callers : WF_vars(Flush(x))
            /\ WF_vars(ngroup = {} /\ Stop)
FairSpec == Spec /\ Fairness

-----------------------------------------------------------------------------
TasksOf(seq) == {seq[i] : i \in 1 .. Len(seq)}
Queued == UNION {TasksOf(rq[w]) \cup TasksOf(remote[w]) : w \in Workers}

\* Every variable has its type and no queue exceeds its capacity.
TypeOK ==
  /\ \A w \in Workers : Len(rq[w]) <= RqCapacity /\ Len(remote[w]) <= RemoteCapacity
  /\ \A w \in Workers : wk[w].cur \in Tasks \cup {Main} /\ nosignal[w] \in 0 .. Cardinality(Tasks)
  /\ \A t \in Tasks : task[t] \in {"new", "ready", "blocked", "done"}
  /\ ngroup \subseteq Workers /\ stopped \subseteq Lots

\* How many workers execute t or are about to, and how many places of a queue hold it.
Executing(t) == Cardinality({w \in Workers : wk[w].cur = t} \cup
                            {w \in Workers : wk[w].next = t})
Places(t) == Cardinality({<<w, i>> \in Workers \X (1 .. RqCapacity) : i <= Len(rq[w]) /\ rq[w][i] = t})
  + Cardinality({<<w, i>> \in Workers \X (1 .. RemoteCapacity) : i <= Len(remote[w]) /\ remote[w][i] = t})

\* A task that is ready is in one queue or on one worker: no task is lost, and none is
\* run by a worker while another one is still on its stack.
OnePlace == \A t \in Tasks : Executing(t) + Places(t) = IF task[t] = "ready" THEN 1 ELSE 0

\* No wake-up is missed: the workers never all sleep while a task is queued, unless a
\* signal is on its way or the task was started without one and not flushed yet.
NotAllAsleep ==
  Queued # {} /\ (\A x \in Signallers : ~Signalling(x)) /\ (\A w \in Workers : rnosignal[w] = 0)
    => \E w \in Workers : wk[w].pc \notin {"asleep", "none", "quit"} \/ ngroup = {}

\* No task is ready for ever without running, unless the workers are stopped.
EveryReadyRuns == \A t \in Tasks :
   []<>(task[t] = "ready" => ngroup = {} \/ \E w \in Workers : wk[w].cur = t)

\* stop_and_join() gets all workers to quit.
StopJoins == []<>(ngroup = {} => \A w \in Workers : wk[w].pc \in {"none", "quit"})
=============================================================================

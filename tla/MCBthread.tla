------------------------------ MODULE MCBthread ------------------------------
(* Safety of the scheduling of bthread: the run queue of a worker, the workers *)
(* and the timer thread, each on an instance of its own.  A behaviour is one   *)
(* of the component `part', the others do not move.                            *)
EXTENDS WorkStealingQueue, TimerThread, TLC
CONSTANTS a1, a2, w1, w2, l1, l2
VARIABLES part,
          rq, remote, nosignal, rnosignal, wk, sig, s_task, switches, ngroup, stopped

Workers == INSTANCE Sched WITH
             Workers <- {w1, w2}, Initial <- {w1}, Callers <- {"caller"}, Tasks <- {a1, a2},
             Lots <- {l1, l2}, LotOf <- (w1 :> l1 @@ w2 :> l2), RqCapacity <- 1,
             RemoteCapacity <- 1, MayStop <- FALSE, MaxSwitch <- 2, task <- s_task
\* Both threads are hashed to the same bucket.
SameBucket == "t1" :> "b1" @@ "t2" :> "b1"
\* The instance is such as the theorems are about.
ASSUME InstanceOK == TimerConstants

sched_vars == <<rq, remote, nosignal, rnosignal, wk, sig, s_task, switches, ngroup, stopped>>
mc_vars == <<part, vars, sched_vars, timer_vars>>
Only(p) == /\ part = p /\ UNCHANGED part
           /\ IF p = "deque" THEN TRUE ELSE UNCHANGED vars
           /\ IF p = "sched" THEN TRUE ELSE UNCHANGED sched_vars
           /\ IF p = "timer" THEN TRUE ELSE UNCHANGED timer_vars

\* The run queue and the timer thread stay as they are while others move, the workers have no
\* state then.
IdleSched == /\ rq = 0 /\ remote = 0 /\ nosignal = 0 /\ rnosignal = 0 /\ wk = 0 /\ sig = 0
             /\ s_task = 0 /\ switches = 0 /\ ngroup = 0 /\ stopped = 0
MCInit == /\ part \in {"deque", "sched", "timer"} /\ Init /\ TimerInit
          /\ IF part = "sched" THEN Workers!Init ELSE IdleSched
MCNext == \/ Only("deque") /\ Next
          \/ Only("sched") /\ Workers!Next
          \/ Only("timer") /\ TimerNext
MCSpec == MCInit /\ [][MCNext]_mc_vars
Symmetry == Permutations({a1, a2})

\* Sched: a ready task is in one queue or on one worker, any other task nowhere.
ReadyOnce == part = "sched" => Workers!TypeOK /\ Workers!OnePlace
\* Sched: the workers never all sleep while a task waits.
NotAllAsleep == part = "sched" => Workers!NotAllAsleep
==============================================================================

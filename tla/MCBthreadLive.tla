---------------------------- MODULE MCBthreadLive ----------------------------
(* Liveness of the components of bthread, each on a small instance of its own: *)
(* a behaviour is one of the component `part', the others do not move.         *)
EXTENDS Naturals, TLC
CONSTANTS t1, t2, t3, p1, p2, k1, i1, b1, n1, n2, Null
VARIABLES part,
          first_ver, locked_ver, butex, join_butex, pending_q, pooled, lock_waiters, join_waiters,
          pc, ver, range, expected, ever_contended, issued, nerrors,
          value, waiters, waiter_lock, bw, wk, er, w_calls,
          q_conf, vref, q, q_pooled, node, q_th, ex, calls, pending, started, finals, handles,
          life, p_pooled, p_join, active, stopping, pthread_started, pid, current_head, mutex,
          prod, pt, batches, p_ran, created,
          rq, remote, nosignal, rnosignal, s_wk, sig, task, switches, ngroup, stopped,
          timer, bucket, nearest, signalled, stop, now, th, tt, ran, removed,
          conf, word, mq, seq, cq, bound, items, m_th, interrupts,
          count, asleep, owner, destroyed, et

Id == INSTANCE BthreadId WITH
        Threads <- {t1, t2, t3}, VerMod <- 7, IdMaxRange <- 1, MaxErrors <- 0,
        WrapEnabled <- FALSE, ResetContended <- FALSE, UnlockDoomed <- FALSE
Word == INSTANCE Butex WITH
        Bthreads <- {t1}, Pthreads <- {p1}, Wakers <- {k1}, Interrupters <- {i1},
        Butexes <- {b1}, Interruptees <- {t1}, Uninit <- {Null, n1}, Wild <- n1,
        MaxValue <- 1, MaxCalls <- 2, calls <- w_calls
Queue == INSTANCE ExecutionQueue WITH
        Threads <- {t1, t2}, Bthreads <- {b1}, Nodes <- {n1, n2}, NULL <- Null,
        UNCONNECTED <- t3, NoTask <- k1, conf <- q_conf, th <- q_th, pooled <- q_pooled,
        Confs <- {[ops |-> {"execute", "stop", "join"}, calls |-> 3, creates |-> 1,
                   options |-> {[high |-> TRUE, in_place |-> FALSE]}]}
\* One producer: with a second one the code may start a second pthread.
Resident == INSTANCE ExecutionQueuePthread WITH
        Producers <- {t1}, Pthreads <- {p1, p2}, NULL <- Null, MaxBatches <- 3, MaxLives <- 1,
        pooled <- p_pooled, join_butex <- p_join, ran <- p_ran
Workers == INSTANCE Sched WITH
        Workers <- {"w1", "w2"}, Initial <- {"w1"}, Callers <- {"caller"}, Tasks <- {"a1"},
        Lots <- {"l1", "l2"}, LotOf <- ("w1" :> "l1" @@ "w2" :> "l2"), RqCapacity <- 1,
        RemoteCapacity <- 1, MayStop <- TRUE, MaxSwitch <- 1, wk <- s_wk
Timer == INSTANCE TimerThread WITH
        Threads <- {"t1"}, Slots <- {"s1"}, Buckets <- {"b1"}, BucketOf <- ("t1" :> "b1"),
        Times <- {1, 2}, MaxNow <- 2, MaxVer <- 2, task <- timer

\* Three consumers and a producer that broadcasts without the lock, or two of each with signals
\* under it.
Conf(consumers, broadcast, inside, n) ==
  [role |-> [t \in {"t1", "t2", "t3", "t4"} |-> IF t \in consumers THEN "consumer" ELSE "producer"],
   locks |-> [t \in {"t1", "t2", "t3", "t4"} |-> "lock"], broadcast |-> broadcast,
   inside |-> inside, timed |-> {}, interrupts |-> 0, items |-> n]
Lock == INSTANCE Mutex WITH
        LockUsers <- {"t1", "t2", "t3", "t4"}, th <- m_th,
        Confs <- {Conf({"t1", "t2", "t3"}, TRUE, FALSE, 3), Conf({"t1", "t2"}, FALSE, TRUE, 1)}
Event == INSTANCE CountdownEvent WITH
        Signallers <- {"s1", "s2"}, EventWaiters <- {"w1", "w2"}, Initial <- 3,
        Sigs <- ("s1" :> 1 @@ "s2" :> 2)

id_vars == <<first_ver, locked_ver, butex, join_butex, pending_q, pooled, lock_waiters, join_waiters,
             pc, ver, range, expected, ever_contended, issued, nerrors>>
word_vars == <<value, waiters, waiter_lock, bw, wk, er, w_calls>>
queue_vars == <<q_conf, vref, q, q_pooled, node, q_th, ex, calls, pending, started, finals, handles>>
resident_vars == <<life, p_pooled, p_join, active, stopping, pthread_started, pid, current_head,
                   mutex, prod, pt, batches, p_ran, created>>
sched_vars == <<rq, remote, nosignal, rnosignal, s_wk, sig, task, switches, ngroup, stopped>>
timer_vars == <<timer, bucket, nearest, signalled, stop, now, th, tt, ran, removed>>
mutex_vars == <<conf, word, mq, seq, cq, bound, items, m_th, interrupts>>
event_vars == <<count, asleep, owner, destroyed, et>>
vars == <<part, id_vars, word_vars, queue_vars, resident_vars, sched_vars, timer_vars, mutex_vars,
          event_vars>>
Only(p) == /\ part = p /\ UNCHANGED part
           /\ IF p = "id" THEN TRUE ELSE UNCHANGED id_vars
           /\ IF p = "butex" THEN TRUE ELSE UNCHANGED word_vars
           /\ IF p = "queue" THEN UNCHANGED q_conf ELSE UNCHANGED queue_vars
           /\ IF p = "pthread" THEN TRUE ELSE UNCHANGED resident_vars
           /\ IF p = "sched" THEN TRUE ELSE UNCHANGED sched_vars
           /\ IF p = "timer" THEN TRUE ELSE UNCHANGED timer_vars
           /\ IF p = "mutex" THEN TRUE ELSE UNCHANGED mutex_vars
           /\ IF p = "event" THEN TRUE ELSE UNCHANGED event_vars

Init == /\ part \in {"id", "butex", "queue", "pthread", "sched", "timer", "mutex", "event"}
        /\ Id!Init /\ Word!ButexInit /\ Queue!Init /\ Resident!Init
        /\ Workers!Init /\ Timer!TimerInit /\ Lock!MutexInit /\ Event!EventInit
        /\ part # "mutex" => conf = Conf({"t1", "t2"}, FALSE, TRUE, 1)
        /\ part # "event" => owner = "w1"
Next == \/ Only("id") /\ Id!Next
        \/ Only("butex") /\ Word!ButexNext
        \/ Only("queue") /\ Queue!Next
        \/ Only("pthread") /\ Resident!Next
        \/ Only("sched") /\ Workers!Next
        \/ Only("timer") /\ Timer!TimerNext
        \/ Only("mutex") /\ Lock!MutexNext
        \/ Only("event") /\ Event!EventNext

\* The fairness of each component.  As the parts exclude each other, fairness of a disjunction
\* of actions of different parts is fairness of each.
InId(A) == part = "id" /\ A /\ Only("id")
InWord(A) == part = "butex" /\ A /\ Only("butex")
InQueue(A) == part = "queue" /\ A /\ Only("queue")
InResident(A) == part = "pthread" /\ A /\ Only("pthread")
InSched(A) == part = "sched" /\ A /\ Only("sched")
InTimer(A) == part = "timer" /\ A /\ Only("timer")
User(t, e) == \/ part = "mutex" /\ Lock!Step(t) /\ Only("mutex")
              \/ part = "event" /\ Event!EventContinue(e) /\ Only("event")
Fairness ==
  /\ WF_vars(InId(Id!Continue(t1)) \/ InWord(Word!Wait(t1)) \/ InQueue(Queue!Continue(t1))
             \/ InResident(Resident!Continue(t1)) \/ InSched(Workers!Signal("w1")) \/ InTimer(Timer!Tick)
             \/ User("t1", "s1"))
  /\ WF_vars(InId(Id!Continue(t2)) \/ InWord(Word!Wait(p1)) \/ InQueue(Queue!Continue(t2))
             \/ InResident(Resident!Run(p1)) \/ InSched(Workers!Signal("w2")) \/ InTimer(Timer!Run)
             \/ User("t2", "s2"))
  /\ WF_vars(InId(Id!Continue(t3)) \/ InWord(Word!Timer(t1) \/ Word!Erase(t1)) \/ InQueue(Queue!Work(t1))
             \/ InResident(Resident!Run(p2)) \/ InSched(Workers!Signal("caller"))
             \/ InTimer(Timer!Stopped /\ Timer!stop_and_join) \/ User("t3", "w1"))
  /\ WF_vars(InId(Id!Release(t1)) \/ InWord(Word!Timer(p1) \/ Word!Erase(p1)) \/ InQueue(Queue!Work(t2))
             \/ InSched(Workers!Search("w1")) \/ InTimer(Timer!Call("t1")) \/ User("t4", "w2"))
  /\ WF_vars(InId(Id!Release(t2)) \/ InWord(Word!Interrupted(i1) \/ Word!Erase(i1))
             \/ InQueue(Queue!Work(b1)) \/ InSched(Workers!Search("w2")))
  /\ WF_vars(InId(Id!Release(t3)) \/ InWord(Word!Waking(k1)) \/ InSched(Workers!sched("w1", "end")))
  /\ WF_vars(InSched(Workers!sched("w2", "end")))
  /\ WF_vars(InSched(Workers!Flush("caller")))
  /\ WF_vars(InSched(ngroup = {} /\ Workers!Stop))
FairSpec == Init /\ [][Next]_vars /\ Fairness

\* What follows holds of the initial state, so that it is about one part each.
\* BthreadId: threads that sleep in bthread_id_lock or in bthread_id_join wake up.
SleepersWake == Id!SleepersWake
\* Butex: a wait with a deadline returns, and so does one for a word that has changed.
WaitsEnd == Word!TimedWaitReturns /\ Word!ChangeWakes
\* ExecutionQueue, in bthreads or on a resident pthread: every task that was pushed is executed or
\* cancelled; a stopped queue ends and its joiners return.
QueueEnds == /\ Queue!EveryTaskStarts /\ Queue!StopCompletes
             /\ Resident!EveryBatchRuns /\ Resident!JoinReturns
\* Sched: every task that is in a queue runs unless the workers are stopped, and stop_and_join()
\* gets all workers to quit.
\* TimerThread: a task that is neither unscheduled nor stopped runs when its time comes.
TasksRun == Workers!EveryReadyRuns /\ Workers!StopJoins /\ Timer!EveryTaskRuns
\* Mutex: whoever waits for it gets it or gives up, and no signal or broadcast of the condition
\* variable is lost.  CountdownEvent: at zero every waiter returns.
WaitersProceed == /\ Lock!LockGranted /\ []<>(part = "mutex" => Lock!ConsumersDone)
                  /\ Event!ZeroWakes
==============================================================================

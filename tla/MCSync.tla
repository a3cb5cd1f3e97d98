------------------------------- MODULE MCSync --------------------------------
(* Safety of bthread_id, of butex, of the mutex, condition variable and        *)
(* countdown event built on it, and of ExecutionQueue, each on an instance of  *)
(* its own.  A behaviour is one of the component `part', the others do not     *)
(* move.                                                                       *)
EXTENDS BthreadId, Butex, Mutex, CountdownEvent, TLC
CONSTANTS t1, t2, b1, b2, n1, n2, n3, NULL, UNCONNECTED, NoTask
VARIABLES part,
          q_conf, vref, q, q_pooled, node, q_th, ex, q_calls, pending, started, finals, handles

\* Tasks of both priorities; tasks executed in place; two lives of the slot.
Conf(options, ops, c, n) == [options |-> options, ops |-> ops, calls |-> c, creates |-> n]
Opt(high, in_place) == [high |-> high, in_place |-> in_place]
Producing == {"execute", "stop", "cancel"}
Queue == INSTANCE ExecutionQueue WITH
        Threads <- {t1, t2}, Bthreads <- {b1, b2}, Nodes <- {n1, n2, n3},
        conf <- q_conf, pooled <- q_pooled, th <- q_th, calls <- q_calls,
        Confs <- {Conf({Opt(FALSE, FALSE), Opt(TRUE, FALSE)}, Producing, 3, 1),
                  Conf({Opt(FALSE, TRUE), Opt(TRUE, FALSE), Opt(TRUE, TRUE)}, Producing, 3, 1),
                  Conf({Opt(TRUE, FALSE)}, {"create", "execute", "stop", "join"}, 4, 2)}

\* Three consumers and a producer, two of each, or a plain user of the mutex and a timeout.
MutexConf(consumers, broadcasts, within, n) ==
  [role |-> [t \in LockUsers |-> IF t \in consumers THEN "consumer" ELSE "producer"],
   locks |-> [t \in LockUsers |-> "lock"], broadcast |-> broadcasts,
   inside |-> within, timed |-> {}, interrupts |-> 0, items |-> n]
WithUser(c, how) == [c EXCEPT !.role["t3"] = "user", !.locks["t3"] = how,
                              !.timed = {"t1", "t3"}, !.interrupts = 1]
MutexConfs == {MutexConf({"t1", "t2", "t3"}, TRUE, i, 3) : i \in BOOLEAN}
              \cup {MutexConf({"t1", "t2"}, FALSE, i, 1) : i \in BOOLEAN}
              \cup {WithUser(MutexConf({"t1", "t2"}, b, TRUE, 2), how) :
                      b \in BOOLEAN, how \in {"try", "timed", "lock"}}
EventSigs == "s1" :> 1 @@ "s2" :> 2

\* The instances are such as the theorems are about.
ASSUME InstancesOK == ButexConstants /\ MutexConstants /\ EventConstants

queue_vars == <<q_conf, vref, q, q_pooled, node, q_th, ex, q_calls, pending, started, finals, handles>>
mc_vars == <<part, vars, butex_vars, queue_vars, mutex_vars, event_vars>>
Only(p) == /\ part = p /\ UNCHANGED part
           /\ IF p = "id" THEN TRUE ELSE UNCHANGED vars
           /\ IF p = "butex" THEN TRUE ELSE UNCHANGED butex_vars
           /\ IF p = "queue" THEN TRUE ELSE UNCHANGED queue_vars
           /\ IF p = "mutex" THEN TRUE ELSE UNCHANGED mutex_vars
           /\ IF p = "event" THEN TRUE ELSE UNCHANGED event_vars

\* The parts that do not move stay in one initial state, the queue has none.
IdleQueue == /\ q_conf = 0 /\ vref = 0 /\ q = 0 /\ q_pooled = 0 /\ node = 0 /\ q_th = 0 /\ ex = 0
             /\ q_calls = 0 /\ pending = 0 /\ started = 0 /\ finals = 0 /\ handles = 0
MCInit == /\ part \in {"id", "butex", "queue", "mutex", "event"}
          /\ Init /\ ButexInit /\ MutexInit /\ EventInit
          /\ IF part = "queue" THEN Queue!Init ELSE IdleQueue
          /\ part # "mutex" => conf = CHOOSE c \in Confs : TRUE
          /\ part # "event" => owner = CHOOSE t \in EventWaiters : TRUE
MCNext == \/ Only("id") /\ Next
          \/ Only("butex") /\ ButexNext
          \/ Only("queue") /\ Queue!Next
          \/ Only("mutex") /\ MutexNext
          \/ Only("event") /\ EventNext
MCSpec == MCInit /\ [][MCNext]_mc_vars
\* The threads of bthread_id are n1, n2 and n3, the butexes t1 and t2.
Symmetry == Permutations({t1, t2}) \cup Permutations({b1, b2}) \cup Permutations({n1, n2, n3})

\* ExecutionQueue: one consumer at a time, an exact count of high-priority tasks, the CHECKs on the
\* list hold, and a queue in the pool has no task left.
QueueSafe == part = "queue" => /\ Queue!TypeOK /\ Queue!OneConsumer /\ Queue!HighCountExact
                               /\ Queue!ListChecks /\ Queue!PooledClean
\* ExecutionQueue: the list protocol implements the abstract queue, and join() returns after the
\* queue stopped.
ImplementsTaskQueue ==
  /\ part = "queue" => Queue!Promise!Init
  /\ [][part = "queue" => Queue!ReturnsAfterStop /\ [Queue!Promise!Next]_(Queue!Promise!vars)]_mc_vars
==============================================================================

--------------------------- MODULE ExecutionQueue ---------------------------
(***************************************************************************)
(* bthread::ExecutionQueue of brpc-1.9.0/src/bthread/execution_queue.cpp   *)
(* and execution_queue_inl.h: one slot of the resource pool through its    *)
(* successive lives, callers that create, execute, cancel, stop and join   *)
(* it, and the bthreads (or in-place callers) that run the tasks.  The     *)
(* list is pushed by exchange(_head) and connected afterwards; its         *)
(* consumer reverses what was pushed, node by node.  A task is <<node,     *)
(* version>>.  pending, started and finals are history variables.          *)
(***************************************************************************)
EXTENDS Naturals, Sequences, FiniteSets, SequencesExt

CONSTANTS Threads, Bthreads, Nodes, NULL, UNCONNECTED, NoTask,
          Confs       \* the workloads, see conf

VARIABLES conf,       \* options: the TaskOptions callers use, records [high, in_place];
                      \* ops: the entry points they use; calls, creates: bounds of both
          vref,       \* _versioned_ref: [ver, ref]
          q,          \* [head, hi, stopped, join, id]: _head, _high_priority_tasks, ...
          pooled,     \* the slot is in the resource pool
          node,       \* TaskNode objects
          th,         \* callers
          ex,         \* _execute_tasks() of a bthread, or the in-place branch of a caller
          calls,      \* address() calls so far
          pending, started, finals, handles

core == <<vref, q, pooled, node, th, ex, calls>>
vars == <<conf, core, pending, started, finals, handles>>

Workers == Threads \cup Bthreads
IdleThread == [pc |-> "idle", id |-> 0, node |-> NULL, opt |-> [high |-> FALSE, in_place |-> FALSE],
               ver |-> 0, derefs |-> 0, prev |-> NULL]
IdleWorker == [pc |-> "idle", head |-> NULL, tail |-> NULL, hp |-> FALSE, cur |-> NULL,
               num |-> 0, brk |-> FALSE, destroy |-> FALSE, p |-> NULL, rtail |-> NULL, old |-> NULL]

\* The slot has been created once; the next lives are created by callers.
Init == /\ conf \in Confs
        /\ vref = [ver |-> 0, ref |-> 1]
        /\ q = [head |-> NULL, hi |-> 0, stopped |-> FALSE, join |-> 0, id |-> 0]
        /\ pooled = FALSE
        /\ node = [n \in Nodes |-> [free |-> TRUE, version |-> 0, status |-> "UNEXECUTED",
                                    iterated |-> FALSE, high |-> FALSE, in_place |-> FALSE,
                                    stop |-> FALSE, next |-> UNCONNECTED]]
        /\ th = [t \in Threads |-> IdleThread]
        /\ ex = [w \in Workers |-> IdleWorker]
        /\ calls = 0
        /\ pending = <<>> /\ started = NoTask /\ finals = {} /\ handles = {}

history == <<pending, started, finals, handles>>
Goto(t, pc) == th' = [th EXCEPT ![t].pc = pc]
\* A call goes on to give back its references, or returns.
After(t) == th' = [th EXCEPT ![t] = IF th[t].derefs = 0 THEN IdleThread
                                    ELSE [@ EXCEPT !.pc = "deref", !.prev = NULL, !.node = NULL]]
Task(n) == [node |-> n, version |-> node[n].version, high |-> node[n].high]

-----------------------------------------------------------------------------
(* execution_queue_start(), address() and the versioned reference.          *)

create(t) ==
  /\ th[t].pc = "idle" /\ "create" \in conf.ops
  /\ pooled /\ vref.ver < 2 * conf.creates
  /\ pooled' = FALSE
  /\ q' = [q EXCEPT !.stopped = FALSE, !.id = vref.ver]
  /\ vref' = [vref EXCEPT !.ref = @ + 1]
  /\ UNCHANGED <<node, th, ex, calls, history>>

\* The ids handed out so far: one even version per life.
Ids == {v \in 0 .. q.id : v % 2 = 0}

\* address(): the reference is taken before the version is compared.
address(t, op, id, opt) ==
  /\ th[t].pc = "idle" /\ op \in conf.ops
  /\ calls < conf.calls /\ calls' = calls + 1
  /\ vref' = [vref EXCEPT !.ref = @ + 1]
  /\ th' = [th EXCEPT ![t] = [IdleThread EXCEPT
               !.pc = IF vref.ver = id THEN op ELSE "unaddress",
               !.id = id, !.opt = opt, !.ver = vref.ver,
               !.derefs = IF vref.ver = id THEN 1 ELSE 0]]
  /\ UNCHANGED <<q, pooled, node, ex, history>>

LastRef == vref.ref = 1

\* address() gives back the reference it took on a slot of another version.
unaddress(t) ==
  /\ th[t].pc = "unaddress"
  /\ vref' = [vref EXCEPT !.ref = @ - 1]
  /\ th' = [th EXCEPT ![t] = IF LastRef /\ vref.ver % 2 = 1
                              THEN [@ EXCEPT !.pc = "unaddress_cas", !.ver = vref.ver]
                              ELSE IdleThread]
  /\ UNCHANGED <<q, pooled, node, ex, calls, history>>

\* dereference(): one fetch_sub for each reference the call still holds.
dereference(t) ==
  /\ th[t].pc = "deref"
  /\ vref' = [vref EXCEPT !.ref = @ - 1]
  /\ th' = [th EXCEPT ![t] = IF LastRef
                              THEN [@ EXCEPT !.pc = "deref_cas", !.ver = vref.ver, !.derefs = @ - 1]
                              ELSE IF th[t].derefs > 1 THEN [@ EXCEPT !.derefs = @ - 1]
                              ELSE IdleThread]
  /\ UNCHANGED <<q, pooled, node, ex, calls, history>>

\* The version guard of dereference(), with the _this_id it reads after the decrement.
IdMatches(t) == th[t].ver \in {q.id, q.id + 1}

Won_AnyVersion(t) == vref.ref = 0
Won(t) == /\ vref = [ver |-> th[t].ver, ref |-> 0]
          /\ th[t].pc = "deref_cas" => IdMatches(t)

\* Who saw 1 -> 0 tries to move the version past the life of the id; the one
\* that succeeds pushes the stop task (_on_recycle()).
recycle(t) ==
  /\ th[t].pc \in {"unaddress_cas", "deref_cas"}
  /\ IF Won(t)
     THEN \E n \in Nodes :
            /\ node[n].free
            /\ vref' = [ver |-> IF th[t].pc = "deref_cas" THEN q.id + 2 ELSE vref.ver + 1,
                        ref |-> 0]
            /\ node' = [node EXCEPT ![n] = [@ EXCEPT !.free = FALSE, !.stop = TRUE,
                                              !.high = FALSE, !.in_place = FALSE,
                                              !.next = UNCONNECTED, !.status = "UNEXECUTED",
                                              !.iterated = FALSE]]
            /\ th' = [th EXCEPT ![t].pc = "exchange", ![t].node = n]
     ELSE UNCHANGED <<vref, node>> /\ th' = [th EXCEPT ![t] = IdleThread]
  /\ UNCHANGED <<q, pooled, ex, calls, history>>

-----------------------------------------------------------------------------
(* execute() and start_execute().                                           *)

execute(t) ==
  /\ th[t].pc = "execute"
  /\ IF q.stopped
     THEN Goto(t, "deref") /\ UNCHANGED node
     ELSE \E n \in Nodes :
            /\ node[n].free
            /\ node' = [node EXCEPT ![n] = [@ EXCEPT !.free = FALSE, !.stop = FALSE,
                              !.high = th[t].opt.high, !.in_place = th[t].opt.in_place,
                              !.next = UNCONNECTED, !.status = "UNEXECUTED",
                              !.iterated = FALSE]]
            /\ th' = [th EXCEPT ![t].node = n,
                                ![t].pc = IF th[t].opt.high THEN "hi_add" ELSE "exchange"]
  /\ UNCHANGED <<vref, q, pooled, ex, calls, history>>

Announced_Missing(c) == c
Announced(c) == c + 1

hi_add(t) ==
  /\ th[t].pc = "hi_add"
  /\ q' = [q EXCEPT !.hi = Announced(@)] /\ Goto(t, "exchange")
  /\ UNCHANGED <<vref, pooled, node, ex, calls, history>>

\* Who finds the queue empty gets the right to execute.
RightToExecute_Always(prev) == TRUE
RightToExecute(prev) == prev = NULL

\* The push: the node is in the queue but not yet connected to what is below it.
exchange(t) ==
  /\ th[t].pc = "exchange"
  /\ q' = [q EXCEPT !.head = th[t].node]
  /\ IF RightToExecute(q.head)
     THEN Goto(t, "start")
     ELSE th' = [th EXCEPT ![t].pc = "connect", ![t].prev = q.head]
  /\ pending' = IF node[th[t].node].stop THEN pending ELSE Append(pending, Task(th[t].node))
  /\ UNCHANGED <<vref, pooled, node, ex, calls, started, finals, handles>>

connect(t) ==
  /\ th[t].pc = "connect"
  /\ node' = [node EXCEPT ![th[t].node].next = th[t].prev]
  /\ handles' = IF node[th[t].node].stop THEN handles ELSE handles \cup {Task(th[t].node)}
  /\ After(t)
  /\ UNCHANGED <<vref, q, pooled, ex, calls, pending, started, finals>>

\* The pusher that found the queue empty runs the task in place or starts a bthread.
start(t) ==
  /\ th[t].pc = "start"
  /\ LET n == th[t].node IN
     /\ node' = [node EXCEPT ![n].next = NULL]
     /\ \E w \in IF node[n].in_place THEN {t} ELSE Bthreads :
          /\ ex[w].pc = "idle"
          /\ ex' = [ex EXCEPT ![w] = [IdleWorker EXCEPT !.pc = IF w = t THEN "execute" ELSE "loop",
                                        !.head = n, !.hp = (w = t) /\ node[n].high]]
          /\ IF w = t THEN Goto(t, "in_place") ELSE After(t)
     /\ handles' = IF node[n].stop THEN handles ELSE handles \cup {Task(n)}
  /\ UNCHANGED <<vref, q, pooled, calls, pending, started, finals>>

\* stop(): the version makes later address() fail, _stopped later execute().
stop(t) ==
  /\ th[t].pc = "stop"
  /\ IF vref.ver = th[t].id
     THEN vref' = [vref EXCEPT !.ver = @ + 1] /\ Goto(t, "set_stopped")
     ELSE Goto(t, "deref") /\ UNCHANGED vref
  /\ UNCHANGED <<q, pooled, node, ex, calls, history>>

set_stopped(t) ==
  /\ th[t].pc = "set_stopped"
  /\ q' = [q EXCEPT !.stopped = TRUE]
  /\ th' = [th EXCEPT ![t].pc = "deref", ![t].derefs = 2]
  /\ UNCHANGED <<vref, pooled, node, ex, calls, history>>

SameVersion_Ignored(h) == TRUE
SameVersion(h) == node[h.node].version = h.version

\* execution_queue_cancel(handle), whatever became of the node since.
cancel(t, h) ==
  /\ th[t].pc = "idle" /\ "cancel" \in conf.ops
  /\ SameVersion(h) /\ node[h.node].status = "UNEXECUTED"
  /\ node' = [node EXCEPT ![h.node].status = "EXECUTED"]
  /\ pending' = SelectSeq(pending, LAMBDA k : k # h)
  /\ UNCHANGED <<vref, q, pooled, th, ex, calls, started, finals, handles>>

join(t, id) ==
  /\ th[t].pc = "idle" /\ "join" \in conf.ops
  /\ th' = [th EXCEPT ![t] = [IdleThread EXCEPT !.pc = "join", !.id = id]]
  /\ UNCHANGED <<vref, q, pooled, node, ex, calls, history>>

JoinOver_OnStop(id) == vref.ver # id
JoinOver_Never(id) == q.join > id + 2
JoinOver(id) == q.join # id

joined(t) ==
  /\ th[t].pc = "join" /\ JoinOver(th[t].id)
  /\ th' = [th EXCEPT ![t] = IdleThread]
  /\ UNCHANGED <<vref, q, pooled, node, ex, calls, history>>

-----------------------------------------------------------------------------
(* The consumer: _execute_tasks(), or the in-place branch of start_execute(). *)

RECURSIVE Chain(_)
Chain(n) == IF n = NULL THEN <<>> ELSE <<n>> \o Chain(node[n].next)

Returned(nd, S) ==
  [n \in Nodes |-> IF n \in S THEN [nd[n] EXCEPT !.free = TRUE, !.version = @ + 1,
                                                  !.status = "UNEXECUTED"] ELSE nd[n]]

\* Top of the loop: drop an iterated head, look at the high-priority counter.
loop(w) ==
  /\ ex[w].pc = "loop"
  /\ LET h == ex[w].head
         drop == node[h].iterated
     IN /\ node' = IF drop THEN Returned(node, {h}) ELSE node
        /\ ex' = [ex EXCEPT ![w].head = IF drop THEN node[h].next ELSE h,
                            ![w].hp = q.hi > 0, ![w].pc = "execute"]
  /\ UNCHANGED <<vref, q, pooled, th, calls, history>>

\* _execute(): the stop task, or an iterator at the head of the list.
_execute(w) ==
  /\ ex[w].pc = "execute"
  /\ LET h == ex[w].head IN
     IF node[h].stop
     THEN /\ node' = [node EXCEPT ![h].iterated = TRUE, ![h].status = "EXECUTED"]
          /\ finals' = finals \cup {q.id}
          /\ ex' = [ex EXCEPT ![w].destroy = TRUE, ![w].num = 1, ![w].cur = NULL,
                              ![w].pc = "end"]
     ELSE /\ ex' = [ex EXCEPT ![w].cur = h, ![w].num = 0, ![w].brk = FALSE, ![w].pc = "iter"]
          /\ UNCHANGED <<node, finals>>
  /\ UNCHANGED <<vref, q, pooled, th, calls, pending, started, handles>>

\* peek_to_execute() and the mark of operator++.
Peeked_StatusKept(nd) == [nd EXCEPT !.iterated = TRUE]
Peeked(nd) == [nd EXCEPT !.iterated = TRUE, !.status = "EXECUTING"]

\* TaskIteratorBase::operator++: the next task of the iterator's priority is
\* peeked; a normal iterator gives way to high-priority tasks.
iterate(w) ==
  /\ ex[w].pc = "iter"
  /\ LET e == ex[w]
         from == IF node[e.cur].iterated THEN node[e.cur].next ELSE e.cur
         list == Chain(from)
         mine(n) == node[n].high = e.hp
         peekable(n) == mine(n) /\ ~node[n].iterated /\ node[n].status = "UNEXECUTED"
         at == SelectInSeq(list, LAMBDA n : node[n].stop \/ peekable(n))
         seen == IF at = 0 THEN list ELSE SubSeq(list, 1, at - 1)
         skipped == {n \in ToSet(seen) : mine(n)}
         found == at # 0 /\ ~node[list[at]].stop
     IN IF ~e.hp /\ q.hi > 0
        THEN /\ ex' = [ex EXCEPT ![w].pc = "end", ![w].brk = TRUE, ![w].cur = from]
             /\ UNCHANGED <<node, pending, started>>
        ELSE /\ node' = [n \in Nodes |->
                  IF found /\ n = list[at]
                  THEN Peeked(node[n])
                  ELSE IF n \in skipped THEN [node[n] EXCEPT !.iterated = TRUE] ELSE node[n]]
             /\ ex' = [ex EXCEPT ![w].cur = IF at = 0 THEN NULL ELSE list[at],
                    ![w].num = @ + Cardinality({n \in skipped : ~node[n].iterated})
                                 + (IF found THEN 1 ELSE 0),
                    ![w].pc = IF found THEN "iter" ELSE "end"]
             /\ IF found
                THEN /\ started' = Task(list[at])
                     /\ pending' = SelectSeq(pending, LAMBDA k : k # Task(list[at]))
                ELSE UNCHANGED <<pending, started>>
  /\ UNCHANGED <<vref, q, pooled, th, calls, finals, handles>>

\* The tasks the counter is lowered by.
Iterated_Twice(e) == 2 * e.num
Iterated_None(e) == 0
Iterated(e) == e.num

\* ~TaskIteratorBase(), the counter, and the release of what was iterated.
finish(w) ==
  /\ ex[w].pc = "end"
  /\ LET e == ex[w]
         list == Chain(e.head)
         before == {list[i] : i \in {j \in DOMAIN list : e.cur \notin ToSet(SubSeq(list, 1, j))}}
         last == {n \in {e.cur} \ {NULL} : e.brk}
         done == {n \in before \cup last : node[n].iterated /\ node[n].high = e.hp}
         marked == [n \in Nodes |-> IF n \in done /\ ~e.destroy
                                     THEN [node[n] EXCEPT !.status = "EXECUTED"] ELSE node[n]]
         keep == IF w \in Threads THEN 1
                 ELSE LET i == SelectInSeq(list, LAMBDA n : ~node[n].iterated)
                      IN IF i = 0 THEN Len(list) ELSE i
     IN /\ node' = Returned(marked, {list[i] : i \in 1 .. keep - 1})
        /\ q' = IF e.hp THEN [q EXCEPT !.hi = @ - Iterated(e)] ELSE q
        /\ ex' = [ex EXCEPT ![w].head = list[keep],
                            ![w].tail = IF @ = NULL THEN Last(list) ELSE @,
                            ![w].pc = "more"]
  /\ UNCHANGED <<vref, pooled, th, calls, history>>

\* The consumer is done: its bthread ends, or its in-place caller goes on.
Leave(w) == IF w \in Threads THEN After(w) ELSE UNCHANGED th

Uniterated_Ignored(n) == FALSE
Uniterated(n) == ~node[n].iterated

\* _more_tasks(): give the queue up, keep what is not iterated, or take what
\* was pushed meanwhile.
more_tasks(w) ==
  /\ ex[w].pc = "more"
  /\ LET e == ex[w]
     IN IF q.head # e.tail
        THEN /\ ex' = [ex EXCEPT ![w].p = q.head, ![w].old = e.tail, ![w].tail = q.head,
                                 ![w].pc = "reverse"]
             /\ UNCHANGED <<q, node, th>>
        ELSE IF Uniterated(e.head)
        THEN /\ ex' = [ex EXCEPT ![w].pc = IF w \in Threads THEN "spawn" ELSE "loop"]
             /\ UNCHANGED <<q, node, th>>
        ELSE /\ q' = [q EXCEPT !.head = NULL]
             /\ node' = Returned(node, {e.head})
             /\ ex' = [ex EXCEPT ![w] = [IdleWorker EXCEPT
                                  !.pc = IF e.destroy THEN "destroy" ELSE "idle"]]
             /\ Leave(w)
  /\ UNCHANGED <<vref, pooled, calls, history>>

\* One round of the reversal; it waits for a pusher that has not connected.
reverse(w) ==
  /\ ex[w].pc = "reverse"
  /\ LET e == ex[w]
         rest == node[e.p].next
         turned == [node EXCEPT ![e.p].next = e.rtail]
     IN /\ rest # UNCONNECTED
        /\ IF rest = e.old
           THEN /\ node' = [turned EXCEPT ![e.old].next = e.p]
                /\ ex' = [ex EXCEPT ![w].p = NULL, ![w].rtail = NULL, ![w].old = NULL,
                                    ![w].pc = IF w \in Threads THEN "spawn" ELSE "loop"]
           ELSE /\ node' = turned
                /\ ex' = [ex EXCEPT ![w].rtail = e.p, ![w].p = rest]
  /\ UNCHANGED <<vref, q, pooled, th, calls, history>>

\* The in-place caller hands what is left to a bthread.
spawn(w) ==
  /\ ex[w].pc = "spawn"
  /\ \E b \in Bthreads :
       /\ ex[b].pc = "idle"
       /\ ex' = [ex EXCEPT ![w] = IdleWorker,
                           ![b] = [IdleWorker EXCEPT !.pc = "loop", !.head = ex[w].head]]
  /\ Leave(w)
  /\ UNCHANGED <<vref, q, pooled, node, calls, history>>

\* The stop task was executed: joiners are woken and the slot returned.
destroy(w) ==
  /\ ex[w].pc = "destroy"
  /\ q' = [q EXCEPT !.join = @ + 2]
  /\ pooled' = TRUE
  /\ ex' = [ex EXCEPT ![w] = IdleWorker]
  /\ UNCHANGED <<vref, node, th, calls, history>>

-----------------------------------------------------------------------------
Call(t) ==
  \/ create(t)
  \/ \E opt \in conf.options : address(t, "execute", q.id, opt)
  \/ \E id \in Ids : address(t, "stop", id, IdleThread.opt) \/ join(t, id)
  \/ \E h \in handles : cancel(t, h)
Continue(t) ==
  \/ unaddress(t) \/ dereference(t) \/ recycle(t) \/ execute(t) \/ hi_add(t) \/ exchange(t)
  \/ connect(t) \/ start(t) \/ stop(t) \/ set_stopped(t) \/ joined(t)
Work(w) ==
  \/ loop(w) \/ _execute(w) \/ iterate(w) \/ finish(w) \/ more_tasks(w)
  \/ reverse(w) \/ spawn(w) \/ destroy(w)

Next == /\ (\E t \in Threads : Call(t) \/ Continue(t)) \/ (\E w \in Workers : Work(w))
        /\ UNCHANGED conf
Spec == Init /\ [][Next]_vars

\* Threads that are inside a call, and bthreads, keep running.
Fairness == /\ \A t \in Threads : WF_vars(Continue(t) /\ UNCHANGED conf)
            /\ \A w \in Workers : WF_vars(Work(w) /\ UNCHANGED conf)
FairSpec == Spec /\ Fairness

-----------------------------------------------------------------------------
TypeOK ==
  /\ vref \in [ver : 0 .. 2 * conf.creates, ref : 0 .. Cardinality(Threads) + 1]
  /\ q \in [head : Nodes \cup {NULL}, hi : 0 .. conf.calls, stopped : BOOLEAN,
            join : 0 .. 2 * conf.creates, id : 0 .. 2 * conf.creates]
  /\ pooled \in BOOLEAN
  /\ node \in [Nodes -> [free : BOOLEAN, version : Nat, iterated : BOOLEAN, high : BOOLEAN,
                status : {"UNEXECUTED", "EXECUTING", "EXECUTED"}, in_place : BOOLEAN,
                stop : BOOLEAN, next : Nodes \cup {NULL, UNCONNECTED}]]
  /\ \A t \in Threads : th[t].node \in Nodes \cup {NULL} /\ th[t].derefs \in 0 .. 2
  /\ \A w \in Workers : ex[w].cur \in Nodes \cup {NULL} /\ ex[w].num \in 0 .. conf.calls

Consumers == {w \in Workers : ex[w].pc \notin {"idle", "destroy"}}

\* Exactly one party owns the list while _head is not NULL (the pusher that got
\* NULL from the exchange, or one consumer), and none owns it otherwise: tasks
\* of a queue never run concurrently.
OneConsumer ==
  LET starters == {t \in Threads : th[t].pc = "start"}
  IN Cardinality(Consumers) + Cardinality(starters) = IF q.head = NULL THEN 0 ELSE 1

\* _high_priority_tasks counts the high-priority tasks that were announced and
\* are not yet accounted for by the running iterator, no more and no less.
HighCountExact ==
  LET announced == {n \in Nodes : /\ ~node[n].free /\ node[n].high /\ ~node[n].iterated
                                  /\ \A t \in Threads : th[t].pc = "hi_add" => th[t].node # n}
      counted == {w \in Consumers : ex[w].hp /\ ex[w].pc \in {"iter", "end"}}
  IN q.hi = Cardinality(announced) + (IF counted = {} THEN 0 ELSE ex[CHOOSE w \in counted : TRUE].num)

\* The CHECKs of create(): a slot back in the pool has no task, no count, and
\* no caller or consumer that still works on it.
PooledClean ==
  pooled => /\ q.head = NULL /\ q.hi = 0 /\ q.stopped /\ q.join = q.id + 2
            /\ \A t \in Threads : th[t].pc \in {"idle", "unaddress", "unaddress_cas", "deref_cas", "join"}
            /\ \A w \in Workers : ex[w].pc = "idle"

\* The CHECKs of the consumer: an iterated node it releases is never
\* UNEXECUTED, the list it hands to _more_tasks() ends at its tail, and the
\* stop task is the last node of the list.
ListChecks ==
  \A w \in Consumers :
    /\ \A n \in Nodes : ~node[n].free /\ node[n].iterated => node[n].status # "UNEXECUTED"
    /\ ex[w].pc = "loop" /\ node[ex[w].head].iterated => node[ex[w].head].next # NULL
    /\ ex[w].pc = "more" => node[ex[w].tail].next = NULL
    /\ ex[w].pc = "more" /\ node[ex[w].head].iterated /\ q.head = ex[w].tail
         => ex[w].head = ex[w].tail
    /\ ex[w].pc = "execute" /\ node[ex[w].head].stop
         => q.head = ex[w].head /\ node[ex[w].head].next = NULL /\ ~pooled /\ q.stopped

ReturnsAfterStop == \A t \in Threads : joined(t) => th[t].id \in finals
\* join(id) returns only after the call with is_queue_stopped() of that life.
JoinAfterStop == [][ReturnsAfterStop]_vars

\* The tasks of one priority start in the order they were pushed, each once; a
\* cancelled task never starts; the stopped call is made once per life, last.
phase == IF q.id \in finals THEN "final" ELSE IF vref.ver = q.id THEN "open" ELSE "closed"
Promise == INSTANCE TaskQueue
ImplementsTaskQueue == Promise!Spec

\* dereference() reads _this_id after it gave up its reference, and says with
\* LOG(FATAL) "Invalid id" that it still belongs to the version it saw.
DereferenceSeesItsId == \A t \in Threads : th[t].pc = "deref_cas" => IdMatches(t)

\* Every submitted task starts or is cancelled (submissions are bounded here).
EveryTaskStarts == []<>(pending = <<>>)

\* After stop(), the stopped call is made, and every join() of that life returns.
StopCompletes ==
  /\ []<>(phase # "closed")
  /\ \A t \in Threads : []<>(th[t].pc = "join" => vref.ver <= th[t].id)
=============================================================================

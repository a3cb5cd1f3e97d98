------------------------------- MODULE Butex -------------------------------
(***************************************************************************)
(* bthread/butex.cpp, with TaskGroup::interrupt of bthread/task_group.cpp: *)
(* the futex-like word that every blocking call of bthread is built on.    *)
(*                                                                         *)
(* A thread waits with an on-stack waiter linked into the butex.  It may   *)
(* be a bthread, which leaves its worker and is queued by wait_for_butex   *)
(* from the next context, or a bthread in pthread mode, which sleeps on a  *)
(* futex of its own.  Four parties race to take it out: a waker, the timer *)
(* thread, an interrupter and, in pthread mode, the waiter itself.         *)
(*                                                                         *)
(* A critical section of waiter_lock is one step, but for wait_for_butex:  *)
(* it reads `interrupted' and writes `container', which an interrupter     *)
(* writes and reads without the lock, so it is two steps with the lock     *)
(* held in between.                                                        *)
(***************************************************************************)
EXTENDS Naturals, Sequences, Functions

CONSTANTS
  Bthreads,       \* waiters that are bthreads
  Pthreads,       \* waiters that are bthreads in pthread mode
  Wakers,         \* callers of butex_wake*
  Interrupters,   \* callers of bthread_interrupt
  Butexes,        \* the words
  Interruptees,   \* the waiters whose identifier an interrupter knows
  Uninit,         \* what the never-initialised pw.container may hold
  Null, Wild,     \* no butex; an address that is not a butex
  MaxValue,       \* bound on the stores to a word
  MaxCalls        \* bound on the calls of butex_wait and bthread_interrupt

Waiters == Bthreads \cup Pthreads
Erasers == Waiters \cup Interrupters

\* What the proofs need of the constants: the sets are disjoint, and what pw.container may hold
\* before it is written does not matter, because nobody interrupts a thread in pthread mode, or
\* it is Null.
ButexConstants ==
  /\ Bthreads \cap Pthreads = {} /\ Waiters \cap Interrupters = {}
  /\ (Butexes \cap Wakers) \cup (Butexes \cap Erasers) \cup (Wakers \cap Erasers) = {}
  /\ Null \notin Butexes \cup Waiters /\ Wild \notin Butexes \cup {Null}
  /\ Interruptees \subseteq Waiters /\ Uninit \subseteq Butexes \cup {Null, Wild}
  /\ Interruptees \cap Pthreads = {} \/ Uninit = {Null}
  /\ MaxValue \in Nat /\ MaxCalls \in Nat

VARIABLES
  value,          \* Butex::value
  waiters,        \* Butex::waiters
  waiter_lock,    \* the butexes whose lock wait_for_butex is holding
  bw,             \* the threads that wait, with their waiter and TaskMeta
  wk,             \* the wakers: pc, butex, the batch they removed
  er,             \* the calls of erase_from_butex: pc, waiter, container read
  calls           \* calls of butex_wait and bthread_interrupt so far

butex_vars == <<value, waiters, waiter_lock, bw, wk, er, calls>>
queue == <<value, waiters, waiter_lock>>

ButexInit ==
  /\ value = [b \in Butexes |-> 0] /\ waiters = [b \in Butexes |-> <<>>] /\ waiter_lock = {}
  /\ bw = [w \in Waiters |->
       [pc |-> "out", butex |-> Null, expected |-> 0, timed |-> FALSE, rc |-> "none",
        container |-> Null, state |-> "READY", sig |-> FALSE,   \* the waiter
        sleep_id |-> FALSE, timer |-> "none",                   \* sleep_id # 0, and its task
        interrupted |-> FALSE, current_waiter |-> FALSE,        \* TaskMeta
        runnable |-> 0,                            \* times it stands in a run queue
        woken |-> FALSE,                           \* a waker made it run again (history)
        moved |-> FALSE]]                          \* it stands in a list it was moved to (history)
  /\ wk = [k \in Wakers |-> [pc |-> "idle", butex |-> Null, batch |-> <<>>]]
  /\ er = [e \in Erasers |-> [pc |-> "idle", w |-> Null, b |-> Null]]
  /\ calls = 0

\* A waiter as it is initialised.
Fresh(t) == [t EXCEPT !.container = Null, !.state = "READY", !.sig = FALSE, !.sleep_id = FALSE,
                      !.timer = "none", !.moved = FALSE]
WaiterGoto(w, pc) == bw' = [bw EXCEPT ![w].pc = pc]
Unmatched(w) == value[bw[w].butex] # bw[w].expected
Unlocked(w) == bw[w].butex \notin waiter_lock

-----------------------------------------------------------------------------
(* butex_wait, for a bthread *)

\* The caller has read the word, decided to wait for it to change, and calls.
butex_wait_call(w, b, t) ==
  /\ bw[w].pc = "out" /\ calls < MaxCalls
  /\ calls' = calls + 1
  /\ bw' = [bw EXCEPT ![w] = [Fresh(@) EXCEPT !.pc = "check", !.butex = b, !.timed = t,
                                             !.expected = value[b], !.woken = FALSE]]
  /\ UNCHANGED <<queue, wk, er>>

\* The call returns: its arguments and its waiter are gone.
WaiterReturn(w, r) == [Fresh(bw[w]) EXCEPT !.pc = "out", !.rc = r, !.butex = Null, !.expected = 0,
                                           !.timed = FALSE]

\* The value differs, or the deadline has passed: nothing is queued.
butex_wait_refuse(w) ==
  /\ bw[w].pc = "check"
  /\ \/ Unmatched(w) /\ bw' = [bw EXCEPT ![w] = WaiterReturn(w, "EWOULDBLOCK")]
     \/ /\ ~Unmatched(w) /\ w \in Bthreads /\ bw[w].timed
        /\ bw' = [bw EXCEPT ![w] = WaiterReturn(w, "ETIMEDOUT")]
  /\ UNCHANGED <<queue, wk, er, calls>>

\* A fresh waiter, published in the task; wait_for_butex will run in the next
\* context, after this bthread has left its worker.
butex_wait(w) ==
  /\ bw[w].pc = "check" /\ w \in Bthreads /\ ~Unmatched(w)
  /\ bw' = [bw EXCEPT ![w].pc = "remained", ![w].current_waiter = TRUE]
  /\ UNCHANGED <<queue, wk, er, calls>>

UnmatchedNow_Ignored(w) == FALSE
UnmatchedNow(w) == Unmatched(w)

\* wait_for_butex under waiter_lock: unmatched, or interrupted before it was
\* queued, and the bthread runs again at once; or it is about to be queued.
wait_for_butex_check(w) ==
  /\ bw[w].pc = "remained" /\ Unlocked(w)
  /\ IF UnmatchedNow(w) \/ bw[w].state # "READY" \/ bw[w].interrupted
     THEN /\ bw' = [bw EXCEPT ![w].state = IF UnmatchedNow(w) THEN "UNMATCHEDVALUE" ELSE @,
                               ![w].runnable = @ + 1, ![w].pc = "sleep"]
          /\ UNCHANGED waiter_lock
     ELSE waiter_lock' = waiter_lock \cup {bw[w].butex} /\ WaiterGoto(w, "append")
  /\ UNCHANGED <<value, waiters, wk, er, calls>>

\* Does TimerThread::schedule() get the timeout?
Scheduled_Never(w) == FALSE
Scheduled(w) == bw[w].timed

\* Queue the waiter, schedule its timeout, release the lock and return.
wait_for_butex(w) ==
  /\ bw[w].pc = "append"
  /\ waiters' = [waiters EXCEPT ![bw[w].butex] = Append(@, w)]
  /\ waiter_lock' = waiter_lock \ {bw[w].butex}
  /\ bw' = [bw EXCEPT ![w].container = bw[w].butex, ![w].pc = "sleep",
                      ![w].sleep_id = Scheduled(w),
                      ![w].timer = IF Scheduled(w) THEN "scheduled" ELSE @]
  /\ UNCHANGED <<value, wk, er, calls>>

InRunQueue_Ignored(w) == TRUE
InRunQueue(w) == bw[w].runnable > 0

\* A worker takes the bthread from a run queue and continues it.
sched(w) ==
  /\ bw[w].pc = "sleep" /\ InRunQueue(w)
  /\ bw' = [bw EXCEPT ![w].runnable = @ - 1, ![w].pc = "unsleep"]
  /\ UNCHANGED <<queue, wk, er, calls>>

\* unsleep_if_necessary: a running callback is left alone, a pending one is
\* unscheduled, and only then the waiter forgets its timer.
Unsleep(t) ==
  [t EXCEPT !.sleep_id = @ /\ t.timer = "running",
            !.timer = IF t.sleep_id /\ @ = "scheduled" THEN "over" ELSE @]

\* Spin until the timer callback no longer uses the waiter.
butex_wait_unsleep(w) ==
  /\ bw[w].pc = "unsleep" /\ ~(bw[w].sleep_id /\ bw[w].timer = "running")
  /\ bw' = [bw EXCEPT ![w] = [Unsleep(bw[w]) EXCEPT !.pc = "exchange"]]
  /\ UNCHANGED <<queue, wk, er, calls>>

WaiterIsBack_NoSpin(w) == TRUE
WaiterIsBack(w) == bw[w].current_waiter

\* Spin until no interrupter holds the waiter.  Both kinds of wait do this.
butex_wait_exchange(w) ==
  /\ bw[w].pc = "exchange" /\ WaiterIsBack(w)
  /\ bw' = [bw EXCEPT ![w].current_waiter = FALSE, ![w].pc = "return"]
  /\ UNCHANGED <<queue, wk, er, calls>>

OfState_NoTimeout(s) == IF s = "UNMATCHEDVALUE" THEN "EWOULDBLOCK" ELSE "0"
OfState(s) == CASE s = "TIMEDOUT" -> "ETIMEDOUT"
                [] s = "UNMATCHEDVALUE" -> "EWOULDBLOCK"
                [] OTHER -> "0"

\* What butex_wait returns, 0 or its errno.
Result(w) ==
  LET rc == IF w \in Pthreads THEN bw[w].rc ELSE OfState(bw[w].state)
  IN  IF bw[w].interrupted /\ rc = "0" THEN "EINTR" ELSE rc

\* Consume the interruption and return.
butex_wait_return(w) ==
  /\ bw[w].pc = "return"
  /\ bw' = [bw EXCEPT ![w] = [WaiterReturn(w, Result(w)) EXCEPT !.interrupted = FALSE]]
  /\ UNCHANGED <<queue, wk, er, calls>>

-----------------------------------------------------------------------------
(* butex_wait, in pthread mode *)

\* butex_wait_from_pthread publishes `pw', whose container is not initialised.
butex_wait_from_pthread(w) ==
  /\ bw[w].pc = "check" /\ w \in Pthreads /\ ~Unmatched(w)
  /\ \E c \in Uninit :
       bw' = [bw EXCEPT ![w].pc = "pthread", ![w].container = c, ![w].current_waiter = TRUE,
                        ![w].rc = "0"]
  /\ UNCHANGED <<queue, wk, er, calls>>

\* Under waiter_lock: unmatched, interrupted, or queued.
pthread_queue(w) ==
  /\ bw[w].pc = "pthread" /\ Unlocked(w)
  /\ \/ /\ Unmatched(w)
        /\ bw' = [bw EXCEPT ![w].rc = "EWOULDBLOCK", ![w].pc = "exchange"]
        /\ UNCHANGED waiters
     \/ /\ ~Unmatched(w) /\ bw[w].interrupted
        /\ bw' = [bw EXCEPT ![w].interrupted = FALSE, ![w].rc = "EINTR", ![w].pc = "exchange"]
        /\ UNCHANGED waiters
     \/ /\ ~Unmatched(w) /\ ~bw[w].interrupted
        /\ waiters' = [waiters EXCEPT ![bw[w].butex] = Append(@, w)]
        /\ bw' = [bw EXCEPT ![w].container = bw[w].butex, ![w].pc = "wait"]
  /\ UNCHANGED <<value, waiter_lock, wk, er, calls>>

\* futex_wait_private was woken, found sig already changed, was interrupted by
\* a signal or timed out; when sig is set by then, the wait is over.
wait_pthread(w) ==
  /\ bw[w].pc = "wait" /\ er[w].pc = "idle" /\ bw[w].sig
  /\ \E r \in {"0", "EWOULDBLOCK", "EINTR", "ETIMEDOUT"} :
       /\ r = "ETIMEDOUT" => bw[w].timed
       /\ bw' = [bw EXCEPT ![w].rc = r, ![w].pc = "exchange"]
  /\ UNCHANGED <<queue, wk, er, calls>>

\* The deadline passes: the waiter sets out to remove itself.
wait_pthread_timeout(w) ==
  /\ w \in Pthreads /\ bw[w].pc = "wait" /\ er[w].pc = "idle" /\ bw[w].timed
  /\ er' = [er EXCEPT ![w].pc = "load", ![w].w = w]
  /\ UNCHANGED <<queue, bw, wk, calls>>

SelfErased_Always(w) == TRUE
SelfErased(w) == er[w].pc = "erased" \/ bw[w].sig

\* It removed itself, or someone else did and the signal is already there; or
\* the signal is still to come, and it is waited for without a deadline.
wait_pthread_erased(w) ==
  /\ bw[w].pc = "wait" /\ er[w].pc \in {"erased", "missed"}
  /\ er' = [er EXCEPT ![w].pc = "idle", ![w].w = Null]
  /\ bw' = IF SelfErased(w) THEN [bw EXCEPT ![w].rc = "ETIMEDOUT", ![w].pc = "exchange"]
                            ELSE [bw EXCEPT ![w].timed = FALSE]
  /\ UNCHANGED <<queue, wk, calls>>

-----------------------------------------------------------------------------
(* erase_from_butex: by the timer callback, an interrupter or the waiter *)

\* Load the container, without the lock.
erase_load(e) ==
  /\ er[e].pc = "load"
  /\ LET b == bw[er[e].w].container
     IN er' = [er EXCEPT ![e].b = b, ![e].pc = IF b = Null THEN "missed" ELSE "lock"]
  /\ UNCHANGED <<queue, bw, wk, calls>>

\* RemoveFromList: w leaves the list it is in.
Without(q, w) ==
  LET at == CHOOSE i \in DOMAIN q : q[i] = w
  IN  IF w \in Range(q) THEN SubSeq(q, 1, at - 1) \o SubSeq(q, at + 1, Len(q)) ELSE q

StillContains_NoRecheck(e) == TRUE
StillContains(e) == bw[er[e].w].container = er[e].b

\* Take that butex's lock and look again: the waiter may have been requeued.
erase_from_butex(e) ==
  LET w == er[e].w
  IN /\ er[e].pc = "lock" /\ er[e].b \in Butexes \ waiter_lock
     /\ IF StillContains(e)
        THEN /\ waiters' = [waiters EXCEPT ![er[e].b] = Without(@, w)]
             /\ bw' = [bw EXCEPT ![w].container = Null, ![w].moved = FALSE,
                         ![w].state = IF w \in Pthreads THEN @
                                      ELSE IF e \in Interrupters THEN "INTERRUPTED" ELSE "TIMEDOUT"]
             /\ er' = [er EXCEPT ![e].pc = IF e \in Pthreads THEN "erased" ELSE "wake", ![e].b = Null]
        ELSE er' = [er EXCEPT ![e].pc = "load", ![e].b = Null] /\ UNCHANGED <<waiters, bw>>
     /\ UNCHANGED <<value, waiter_lock, wk, calls>>

\* ready_to_run_general or wakeup_pthread.
MakeRunnable(w, t) ==
  IF w \in Bthreads THEN [t EXCEPT !.runnable = @ + 1] ELSE [t EXCEPT !.sig = TRUE]

erase_wakeup(e) ==
  /\ er[e].pc = "wake"
  /\ bw' = [bw EXCEPT ![er[e].w] = MakeRunnable(er[e].w, @)]
  /\ er' = [er EXCEPT ![e].pc = "erased"]
  /\ UNCHANGED <<queue, wk, calls>>

-----------------------------------------------------------------------------
(* The timer thread *)

\* Task::run_and_delete starts the callback unless it was unscheduled.
timer_fire(w) ==
  /\ w \in Bthreads /\ bw[w].timer = "scheduled"
  /\ bw' = [bw EXCEPT ![w].timer = "running"]
  /\ er' = [er EXCEPT ![w].pc = "load", ![w].w = w]
  /\ UNCHANGED <<queue, wk, calls>>

timer_over(w) ==
  /\ w \in Bthreads /\ bw[w].timer = "running" /\ er[w].pc \in {"erased", "missed"}
  /\ bw' = [bw EXCEPT ![w].timer = "over"]
  /\ er' = [er EXCEPT ![w].pc = "idle", ![w].w = Null]
  /\ UNCHANGED <<queue, wk, calls>>

-----------------------------------------------------------------------------
(* TaskGroup::interrupt *)

\* interrupt_and_consume_waiters, under version_lock: take the waiter ...
interrupt_and_consume_waiters(i, w) ==
  /\ er[i].pc = "idle" /\ calls < MaxCalls
  /\ \A j \in Interrupters : er[j].pc \notin {"flag", "flag_only"}
  /\ calls' = calls + 1
  /\ bw' = [bw EXCEPT ![w].current_waiter = FALSE]
  /\ er' = [er EXCEPT ![i].w = w, ![i].pc = IF bw[w].current_waiter THEN "flag" ELSE "flag_only"]
  /\ UNCHANGED <<queue, wk>>

\* ... then say that the bthread is interrupted.  Without a waiter, that is all.
interrupt_set(i) ==
  /\ i \in Interrupters /\ er[i].pc \in {"flag", "flag_only"}
  /\ bw' = [bw EXCEPT ![er[i].w].interrupted = TRUE]
  /\ er' = [er EXCEPT ![i].pc = IF @ = "flag" THEN "load" ELSE "idle",
                      ![i].w = IF er[i].pc = "flag" THEN @ ELSE Null]
  /\ UNCHANGED <<queue, wk, calls>>

\* set_butex_waiter gives the waiter back.
set_butex_waiter(i) ==
  /\ i \in Interrupters /\ er[i].pc \in {"erased", "missed"}
  /\ bw' = [bw EXCEPT ![er[i].w].current_waiter = TRUE]
  /\ er' = [er EXCEPT ![i].pc = "idle", ![i].w = Null]
  /\ UNCHANGED <<queue, wk, calls>>

-----------------------------------------------------------------------------
(* The wakers *)

\* The user changes the word; a wake_all on it will follow.
store_value(k, b) ==
  /\ wk[k].pc = "idle" /\ value[b] < MaxValue
  /\ value' = [value EXCEPT ![b] = @ + 1]
  /\ wk' = [wk EXCEPT ![k].pc = "stored", ![k].butex = b]
  /\ UNCHANGED <<waiters, waiter_lock, bw, er, calls>>

\* The waiters in q leave their queue and lose their container; those of moved get m.
Take(k, q, moved, m) ==
  /\ wk' = [wk EXCEPT ![k] = [pc |-> IF q = <<>> THEN "idle" ELSE "waking", butex |-> Null,
                              batch |-> q]]
  /\ bw' = [w \in Waiters |-> [bw[w] EXCEPT !.container = IF w \in Range(q) THEN Null
                                                 ELSE IF w \in Range(moved) THEN m ELSE @,
                                           !.moved = w \in Range(moved) \/ (@ /\ w \notin Range(q))]]
  /\ UNCHANGED <<value, waiter_lock, er, calls>>

butex_wake(k, b) ==
  /\ wk[k].pc = "idle" /\ b \notin waiter_lock /\ waiters[b] # <<>>
  /\ waiters' = [waiters EXCEPT ![b] = Tail(@)]
  /\ Take(k, <<Head(waiters[b])>>, <<>>, Null)

\* Of two waiters in the list q, is v made to run before w?  Pthreads come first, in order, then
\* the bthreads from the last; butex_wake_all keeps the first bthread, f, for the end.
Position(q, w) == CHOOSE i \in DOMAIN q : q[i] = w
Before(q, v, w, f) ==
  \/ v \in Pthreads /\ w \in Bthreads
  \/ {v, w} \subseteq Pthreads /\ Position(q, v) < Position(q, w)
  \/ /\ {v, w} \subseteq Bthreads /\ v # f /\ v # w
     /\ w = f \/ Position(q, v) > Position(q, w)
InOrder(q, f) == {r \in [DOMAIN q -> Range(q)] :
                    /\ Range(r) = Range(q)
                    /\ \A i, j \in DOMAIN q : i < j => Before(q, r[i], r[j], f)}
FirstBthread(q) == CHOOSE f \in Bthreads \cup {Null} :
  IF Range(q) \cap Bthreads = {} THEN f = Null
  ELSE f \in Range(q) /\ \A w \in Range(q) \cap Bthreads : Position(q, f) <= Position(q, w)

butex_wake_all(k, b) ==
  /\ \/ wk[k].pc = "idle" /\ waiters[b] # <<>>
     \/ wk[k].pc = "stored" /\ wk[k].butex = b
  /\ b \notin waiter_lock
  /\ waiters' = [waiters EXCEPT ![b] = <<>>]
  /\ \E r \in InOrder(waiters[b], FirstBthread(waiters[b])) : Take(k, r, <<>>, Null)

\* Everyone but one bthread, which stays queued.
butex_wake_except(k, b, x) ==
  /\ wk[k].pc = "idle" /\ b \notin waiter_lock /\ waiters[b] # <<>>
  /\ waiters' = [waiters EXCEPT ![b] = IF x \in Range(@) THEN <<x>> ELSE <<>>]
  /\ \E r \in InOrder(Without(waiters[b], x), Null) : Take(k, r, <<>>, Null)

\* The front is woken, everyone else goes on waiting on m.
butex_requeue(k, b, m) ==
  /\ wk[k].pc = "idle" /\ b # m /\ {b, m} \cap waiter_lock = {} /\ waiters[b] # <<>>
  /\ waiters' = [waiters EXCEPT ![b] = <<>>, ![m] = @ \o Tail(waiters[b])]
  /\ Take(k, <<Head(waiters[b])>>, Tail(waiters[b]), m)

\* After the lock is released, each removed waiter is made to run again; a
\* bthread first loses its timer.
wake_next(k) ==
  /\ wk[k].pc = "waking"
  /\ LET w == Head(wk[k].batch)
         t == IF w \in Bthreads THEN Unsleep(bw[w]) ELSE bw[w]
     IN bw' = [bw EXCEPT ![w] = [MakeRunnable(w, t) EXCEPT !.woken = TRUE]]
  /\ wk' = [wk EXCEPT ![k].batch = Tail(@), ![k].pc = IF Len(wk[k].batch) = 1 THEN "idle" ELSE @]
  /\ UNCHANGED <<queue, er, calls>>

-----------------------------------------------------------------------------
Wait(w) == \/ butex_wait_refuse(w) \/ butex_wait(w) \/ wait_for_butex_check(w)
           \/ wait_for_butex(w) \/ butex_wait_from_pthread(w) \/ pthread_queue(w)
           \/ wait_pthread(w) \/ wait_pthread_timeout(w) \/ wait_pthread_erased(w)
           \/ sched(w) \/ butex_wait_unsleep(w) \/ butex_wait_exchange(w)
           \/ butex_wait_return(w)
Timer(w) == timer_fire(w) \/ timer_over(w)
Erase(e) == erase_load(e) \/ erase_from_butex(e) \/ erase_wakeup(e)
Interrupted(i) == interrupt_set(i) \/ set_butex_waiter(i)
Wake(k) == \E b \in Butexes :
             \/ store_value(k, b) \/ butex_wake(k, b) \/ butex_wake_all(k, b)
             \/ \E x \in Bthreads : butex_wake_except(k, b, x)
             \/ \E m \in Butexes : butex_requeue(k, b, m)
Waking(k) == \/ wake_next(k)
             \/ wk[k].pc = "stored" /\ \E b \in Butexes : butex_wake_all(k, b)

ButexNext ==
  \/ \E w \in Waiters : \/ Wait(w) \/ Timer(w)
                        \/ \E b \in Butexes, t \in BOOLEAN : butex_wait_call(w, b, t)
  \/ \E e \in Erasers : Erase(e)
  \/ \E i \in Interrupters : Interrupted(i)
  \/ \E i \in Interrupters, w \in Interruptees : interrupt_and_consume_waiters(i, w)
  \/ \E k \in Wakers : Wake(k) \/ wake_next(k)

ButexSpec == ButexInit /\ [][ButexNext]_butex_vars

\* Workers run what is in their queues, spinning threads get the processor,
\* the timer thread runs due tasks and a called function runs to its end.
\* Nothing makes a user call butex_wait, butex_wake* or bthread_interrupt.
ButexFairness ==
  /\ \A w \in Waiters : WF_butex_vars(Wait(w)) /\ WF_butex_vars(Timer(w) \/ Erase(w))
  /\ \A i \in Interrupters : WF_butex_vars(Interrupted(i) \/ Erase(i))
  /\ \A k \in Wakers : WF_butex_vars(Waking(k))
ButexFairSpec == ButexSpec /\ ButexFairness

-----------------------------------------------------------------------------
Asleep == {"sleep", "wait"}
Thread ==
  [pc : {"out", "check", "remained", "append", "sleep", "unsleep", "exchange", "return", "pthread",
         "wait"},
   butex : Butexes \cup {Null}, expected : Nat, timed : BOOLEAN,
   rc : {"none", "0", "EWOULDBLOCK", "ETIMEDOUT", "EINTR"}, container : Butexes \cup {Null, Wild},
   state : {"READY", "TIMEDOUT", "INTERRUPTED", "UNMATCHEDVALUE"}, sig : BOOLEAN,
   sleep_id : BOOLEAN, timer : {"none", "scheduled", "running", "over"},
   interrupted : BOOLEAN, current_waiter : BOOLEAN, runnable : Nat, woken : BOOLEAN, moved : BOOLEAN]
Waker == [pc : {"idle", "stored", "waking"}, butex : Butexes \cup {Null}, batch : Seq(Waiters)]
Eraser == [pc : {"idle", "flag", "flag_only", "load", "lock", "wake", "erased", "missed"},
           w : Waiters \cup {Null}, b : Butexes \cup {Null, Wild}]

\* Every word, queue and program counter keeps its type; in particular no
\* bthread is taken from a run queue it does not stand in.
ButexTypeOK ==
  /\ value \in [Butexes -> 0 .. MaxValue] /\ waiters \in [Butexes -> Seq(Waiters)]
  /\ waiter_lock \subseteq Butexes /\ calls \in 0 .. MaxCalls
  /\ bw \in [Waiters -> Thread] /\ wk \in [Wakers -> Waker] /\ er \in [Erasers -> Eraser]

\* Who is bound to make the waiter run again: the butexes it is queued in, the
\* wakers that removed it, the erasers that removed it.
Resumers(w) ==
  {b \in Butexes : w \in Range(waiters[b])}
    \cup {k \in Wakers : w \in Range(wk[k].batch)}
    \cup {e \in Erasers : er[e].w = w /\ er[e].pc = "wake"}
OneResumer(w) == \E r \in Resumers(w) : Resumers(w) = {r}

\* A bthread asleep in butex_wait stands in a run queue once, or exactly one
\* party will put it there; in no other state does anyone.  So a waker, the
\* timer and an interrupter that race for it neither forget it nor make it run
\* twice ("at most one thread may wake up the waiter").
WokenOnce(w) ==
  IF bw[w].pc = "sleep"
  THEN \/ bw[w].runnable = 1 /\ Resumers(w) = {}
       \/ bw[w].runnable = 0 /\ OneResumer(w)
  ELSE bw[w].runnable = 0 /\ Resumers(w) = {}
WokenExactlyOnce == \A w \in Bthreads : WokenOnce(w)

\* A thread asleep on its futex has been signalled, or exactly one party will
\* signal it, or it has just removed itself.
SignalledOnce(w) ==
  /\ bw[w].pc = "wait" =>
       \/ (bw[w].sig \/ er[w].pc = "erased") /\ Resumers(w) = {}
       \/ ~bw[w].sig /\ er[w].pc # "erased" /\ OneResumer(w)
  /\ bw[w].pc # "wait" => Resumers(w) = {}
SignalledExactlyOnce == \A w \in Pthreads : SignalledOnce(w)

\* The waiter is on the stack of butex_wait: whoever holds a pointer to it (the
\* timer callback, an interrupter, a waker that removed it) is done with it
\* before butex_wait returns.
InUse(w) ==
  /\ \A i \in Interrupters :
       er[i].w = w /\ er[i].pc \notin {"idle", "flag_only"} =>
         bw[w].pc \notin {"out", "check", "return"}
  /\ w \in Bthreads /\ er[w].pc # "idle" => bw[w].pc \in {"sleep", "unsleep"}
  /\ \A k \in Wakers : w \in Range(wk[k].batch) => bw[w].pc \in {"sleep", "wait"}
NoUseAfterReturn == \A w \in Waiters : InUse(w)

Stored(b) == \E k \in Wakers : wk[k].pc = "stored" /\ wk[k].butex = b

\* No lost wake-up: a waiter still queued in a butex whose word is no longer
\* the one it expected is about to be removed by whoever changed the word.
NoMissedWake ==
  \A b \in Butexes : \A w \in Range(waiters[b]) :
    bw[w].butex = b /\ ~bw[w].moved /\ Unmatched(w) => Stored(b)

\* butex_wait says 0 only to a thread that a waker removed from the queue.
ZeroMeansWoken == \A w \in Waiters : bw[w].pc = "out" /\ bw[w].rc = "0" => bw[w].woken

\* erase_from_butex only follows a container that is a butex.
ContainerIsButex == \A e \in Erasers : er[e].pc = "lock" => er[e].b \in Butexes

\* Waiting is safe: all of the above together, what ButexProofs proves of ButexSpec.
ButexSafe == /\ ButexTypeOK /\ WokenExactlyOnce /\ SignalledExactlyOnce /\ NoUseAfterReturn
             /\ NoMissedWake /\ ZeroMeansWoken /\ ContainerIsButex

\* The inductive invariant.  Lists have no waiter twice; an eraser uses the waiter it was called
\* for; a lock is held by the one that appends, whom a change of the word does not escape.
Lists == /\ \A b \in Butexes : IsInjective(waiters[b])
         /\ \A k \in Wakers : IsInjective(wk[k].batch) /\ (wk[k].pc = "waking" <=> wk[k].batch # <<>>)
Erasing(e) == /\ er[e].pc # "idle" => /\ er[e].w \in Waiters /\ (e \in Waiters => er[e].w = e)
                                      /\ (e \in Interrupters => er[e].w \in Interruptees)
              /\ er[e].pc = "idle" => er[e].w = Null
              /\ er[e].pc = "lock" => er[e].b \in Butexes
              /\ er[e].pc \in {"flag", "flag_only"} => e \in Interrupters
              /\ er[e].pc = "wake" => e \notin Pthreads
Appending(w) == bw[w].pc = "append" =>
  /\ bw[w].butex \in waiter_lock /\ (Unmatched(w) => Stored(bw[w].butex))
  /\ \A v \in Waiters : bw[v].pc = "append" /\ bw[v].butex = bw[w].butex => v = w

\* A queued waiter knows the list it is in.
Contained(w) ==
  /\ \A b \in Butexes : w \in Range(waiters[b]) <=> bw[w].container = b /\ bw[w].pc \in Asleep
  /\ bw[w].container # Null => \/ bw[w].pc \in Asleep /\ bw[w].container \in Butexes
                               \/ w \in Pthreads \ Interruptees /\ bw[w].pc \in {"pthread", "exchange", "return"}
\* The kind of a waiter says where it may be, and who is using it.
Place(w) == /\ bw[w].pc # "out" => bw[w].butex \in Butexes
            /\ IF w \in Bthreads THEN bw[w].pc \notin {"pthread", "wait"}
               ELSE bw[w].pc \in {"out", "check", "pthread", "wait", "exchange", "return"}
Timed(w) ==
  IF w \in Bthreads
  THEN /\ bw[w].timer \in {"scheduled", "running"} => bw[w].sleep_id /\ bw[w].pc \in {"sleep", "unsleep"}
       /\ er[w].pc # "idle" <=> bw[w].timer = "running"
  ELSE bw[w].timer = "none" /\ (er[w].pc # "idle" => bw[w].pc = "wait")
\* An interrupter i has taken the waiter w from its task.
Holds(i, w) == er[i].w = w /\ er[i].pc \notin {"idle", "flag_only"}
Held(w) == /\ bw[w].current_waiter => bw[w].pc \notin {"out", "check", "return"}
           /\ \A i \in Interrupters : Holds(i, w) => /\ ~bw[w].current_waiter
                                                     /\ bw[w].pc \notin {"out", "check", "return"}
                                                     /\ \A j \in Interrupters : Holds(j, w) => i = j
\* Who runs again without a waker's help was interrupted, timed out or never queued.
Up(w) == \/ bw[w].pc \in {"unsleep", "exchange", "return"} \/ bw[w].runnable > 0
         \/ bw[w].pc = "sleep" /\ er[w].pc = "wake"
Flagged(w) ==
  \A i \in Interrupters : Holds(i, w) /\ er[i].pc # "flag" =>
    bw[w].interrupted \/ (w \in Pthreads /\ bw[w].pc \notin {"pthread", "wait"})
Excused(w) ==
  IF w \in Bthreads
  THEN /\ bw[w].pc \in {"check", "remained", "append"} => bw[w].state = "READY"
       /\ Up(w) => \/ bw[w].woken \/ bw[w].interrupted
                   \/ bw[w].state \in {"TIMEDOUT", "UNMATCHEDVALUE"}
  ELSE /\ bw[w].pc \in {"check", "pthread"} => ~bw[w].sig
       /\ bw[w].pc = "wait" /\ bw[w].sig => bw[w].woken \/ bw[w].interrupted
       /\ bw[w].pc \in {"exchange", "return"} /\ bw[w].rc = "0" => bw[w].woken \/ bw[w].interrupted
Sound(w) == /\ Appending(w) /\ Contained(w) /\ Place(w) /\ Timed(w) /\ Held(w) /\ Flagged(w)
            /\ Excused(w)
ButexInv == /\ ButexSafe /\ Lists /\ \A e \in Erasers : Erasing(e)
            /\ \A w \in Waiters : Sound(w)

\* Only a wait without a deadline, in the list of its butex, may last for ever: one with a
\* deadline returns whatever the wakers do, and so does one that was taken off the list.
TimedWaitReturns == \A w \in Waiters :
  []<>(bw[w].pc # "out" => ~bw[w].timed /\ \E b \in Butexes : w \in Range(waiters[b]))

\* No wait for a word that has changed lasts for ever (words only grow here).
ChangeWakes == \A w \in Waiters : []<>(bw[w].pc # "out" => ~Unmatched(w))

\* "bthread_interrupt() guarantees that Thread2 is woken up reliably no matter
\* how the 2 threads are interleaved."
InterruptWakes == \A w \in Interruptees : bw[w].interrupted ~> bw[w].pc = "out"
=============================================================================

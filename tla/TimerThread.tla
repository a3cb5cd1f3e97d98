---------------------------- MODULE TimerThread -----------------------------
(***************************************************************************)
(* bthread::TimerThread (timer_thread.cpp): tasks are put in the bucket of *)
(* the calling thread, the timer thread pulls the buckets into its heap,   *)
(* runs what is due and sleeps on a futex until the nearest run time.      *)
(***************************************************************************)
EXTENDS Naturals, FiniteSets, FiniteSetsExt

CONSTANTS Threads, Slots, Buckets,
          BucketOf,  \* the bucket that each thread is hashed to
          Times,     \* when tasks are to run
          MaxNow,    \* bound on the clock
          MaxVer     \* bound on the versions of a slot

NoSlot == "NULL"
\* What the theorems of SchedulerProofs assume: there is a last time.
TimerConstants == /\ Times \subseteq Nat /\ \E m \in Times : \A x \in Times : x <= m
                  /\ BucketOf \in [Threads -> Buckets] /\ MaxVer \in Nat /\ NoSlot \notin Slots

VARIABLES task,      \* slots: [version, id, run_time, pooled]
          bucket,    \* [nearest, list] of each bucket
          nearest,   \* TimerThread::_nearest_run_time
          signalled, \* _nsignals has changed since the timer thread read it
          stop,      \* how far stop_and_join() got
          now,
          th,        \* callers of schedule(): [pc, time]
          tt,        \* the timer thread: [pc, heap, left, unseen, cur, next]
          ran,       \* how often the task of each identifier ran
          removed    \* identifiers whose unschedule() returned 0

timer_vars == <<task, bucket, nearest, signalled, stop, now, th, tt, ran, removed>>
shared == <<nearest, signalled, stop>>
history == <<ran, removed>>

MAX == 1 + Max(Times)
Versions == {2 * n : n \in 1 .. MaxVer}
Ids == Slots \X Versions
Idle == [pc |-> "idle", time |-> 0]

TimerInit == /\ task = [s \in Slots |-> [version |-> 2, id |-> 0, run_time |-> 0, pooled |-> TRUE]]
             /\ bucket = [b \in Buckets |-> [nearest |-> MAX, list |-> {}]]
             /\ nearest = MAX /\ signalled = FALSE /\ stop = "no" /\ now = 0
             /\ th = [t \in Threads |-> Idle]
             /\ tt = [pc |-> "top", heap |-> {}, left |-> {}, unseen |-> {}, cur |-> NoSlot,
                      next |-> MAX]
             /\ ran = [i \in Ids |-> 0] /\ removed = {}

Stopped == stop # "no"
Id(s) == <<s, task[s].id>>
RunTime(s) == task[s].run_time

-----------------------------------------------------------------------------
(* schedule(), unschedule() and stop_and_join().                            *)

\* schedule() refuses once it has seen _stop.
call(t) == /\ th[t].pc = "idle" /\ ~Stopped /\ th' = [th EXCEPT ![t].pc = "called"]
           /\ UNCHANGED <<task, bucket, shared, now, tt, history>>

Earlier(b, time) == time < bucket[b].nearest

\* Bucket::schedule, under the mutex of the bucket.
Bucket_schedule(t, s, time) ==
  LET b == BucketOf[t]
  IN /\ th[t].pc = "called"
     /\ task[s].pooled /\ task[s].version \in Versions
     /\ task' = [task EXCEPT ![s] = [version |-> @.version, id |-> @.version, run_time |-> time,
                                     pooled |-> FALSE]]
     /\ bucket' = [bucket EXCEPT ![b].list = @ \cup {s},
                                 ![b].nearest = IF Earlier(b, time) THEN time ELSE @]
     /\ th' = [th EXCEPT ![t] = IF Earlier(b, time) THEN [pc |-> "update", time |-> time] ELSE Idle]
     /\ UNCHANGED <<shared, now, tt, history>>

\* The rest of schedule(): a task that is the earliest of all signals the timer thread.
Nearest_Kept(t) == nearest
Nearest(t) == th[t].time

schedule(t) ==
  /\ th[t].pc = "update"
  /\ IF th[t].time < nearest
     THEN /\ nearest' = Nearest(t) /\ signalled' = TRUE
          /\ th' = [th EXCEPT ![t].pc = "wake"]
     ELSE th' = [th EXCEPT ![t] = Idle] /\ UNCHANGED <<nearest, signalled>>
  /\ UNCHANGED <<task, bucket, stop, now, tt, history>>

Awake == [tt EXCEPT !.pc = "top", !.next = MAX]
futex_wake == tt' = IF tt.pc = "sleeping" THEN Awake ELSE tt

wake(t) ==
  /\ th[t].pc = "wake" /\ th' = [th EXCEPT ![t] = Idle] /\ futex_wake
  /\ UNCHANGED <<task, bucket, shared, now, history>>

\* unschedule() of any identifier that was ever returned.
unschedule(i) ==
  /\ task[i[1]].version = i[2] /\ task[i[1]].id = i[2] /\ ~task[i[1]].pooled
  /\ task' = [task EXCEPT ![i[1]].version = i[2] + 2] /\ removed' = removed \cup {i}
  /\ UNCHANGED <<bucket, shared, now, th, tt, ran>>

\* stop_and_join() stores _stop, then under the mutex makes the timer thread pull again,
\* then wakes it; a task that calls it does not wait for its own thread.
stop_and_join ==
  /\ \/ stop = "no" /\ stop' = "stored" /\ UNCHANGED <<nearest, signalled, tt>>
     \/ stop = "stored" /\ nearest' = 0 /\ signalled' = TRUE /\ stop' = "signalled" /\ UNCHANGED tt
     \/ stop = "signalled" /\ stop' = "woken" /\ futex_wake /\ UNCHANGED <<nearest, signalled>>
     \/ /\ stop = "no" /\ tt.pc = "running" /\ nearest' = 0 /\ signalled' = TRUE /\ stop' = "woken"
        /\ UNCHANGED tt
  /\ UNCHANGED <<task, bucket, now, th, history>>

-----------------------------------------------------------------------------
(* TimerThread::run().                                                      *)

loop == /\ tt.pc = "top" /\ tt' = [tt EXCEPT !.pc = IF Stopped THEN "ended" ELSE "clear"]
        /\ UNCHANGED <<task, bucket, shared, now, th, history>>

\* _nearest_run_time is cleared before the buckets are pulled.
clear ==
  /\ tt.pc = "clear" /\ nearest' = MAX
  /\ tt' = [tt EXCEPT !.pc = "pull", !.left = Buckets,
                      !.unseen = {b \in Buckets : bucket[b].list = {}}]
  /\ UNCHANGED <<task, bucket, signalled, stop, now, th, history>>

Unscheduled(b) == {s \in bucket[b].list : task[s].version # task[s].id}
Kept_All(b) == bucket[b].list
Kept(b) == bucket[b].list \ Unscheduled(b)

\* consume_tasks() looks at _task_head without the mutex: it may miss what came since
\* clear.  Tasks that were unscheduled are deleted (try_delete).
consume_tasks(b) ==
  /\ tt.pc = "pull" /\ b \in tt.left
  /\ \/ /\ b \in tt.unseen /\ tt' = [tt EXCEPT !.left = @ \ {b}]
        /\ UNCHANGED <<task, bucket>>
     \/ /\ bucket' = [bucket EXCEPT ![b] = [nearest |-> MAX, list |-> {}]]
        /\ task' = [s \in Slots |-> [task[s] EXCEPT !.pooled = @ \/ s \in Unscheduled(b)]]
        /\ tt' = [tt EXCEPT !.left = @ \ {b}, !.heap = @ \cup Kept(b)]
  /\ UNCHANGED <<shared, now, th, history>>

pulled == /\ tt.pc = "pull" /\ tt.left = {}
          /\ tt' = [tt EXCEPT !.pc = "check", !.unseen = {}]
          /\ UNCHANGED <<task, bucket, shared, now, th, history>>

Due(s) == s \in tt.heap /\ (\A x \in tt.heap : RunTime(s) <= RunTime(x)) /\ RunTime(s) <= now

\* A task earlier than the one about to run was scheduled meanwhile: pull again.
IsNearest_Unchecked(s) == TRUE
IsNearest(s) == RunTime(s) <= nearest

check(s) ==
  /\ tt.pc = "check" /\ Due(s)
  /\ tt' = IF IsNearest(s) THEN [tt EXCEPT !.pc = "popped", !.heap = @ \ {s}, !.cur = s]
           ELSE [tt EXCEPT !.pc = "top"]
  /\ UNCHANGED <<task, bucket, shared, now, th, history>>

\* Task::run_and_delete: the callback of a task that was not unscheduled runs.
Scheduled_Unchecked(s) == TRUE
Scheduled(s) == task[s].version = task[s].id

run_and_delete ==
  /\ tt.pc = "popped"
  /\ IF Scheduled(tt.cur)
     THEN /\ task' = [task EXCEPT ![tt.cur].version = @ + 1] /\ tt' = [tt EXCEPT !.pc = "running"]
          /\ ran' = [ran EXCEPT ![Id(tt.cur)] = @ + 1]
     ELSE /\ task' = [task EXCEPT ![tt.cur].pooled = TRUE]
          /\ tt' = [tt EXCEPT !.pc = "check", !.cur = NoSlot]
          /\ UNCHANGED ran
  /\ UNCHANGED <<bucket, shared, now, th, removed>>

Deleted_SameVersion(s) == task[s].id
Deleted(s) == task[s].id + 2

fn_returned ==
  /\ tt.pc = "running"
  /\ task' = [task EXCEPT ![tt.cur].version = Deleted(tt.cur), ![tt.cur].pooled = TRUE]
  /\ tt' = [tt EXCEPT !.pc = "check", !.cur = NoSlot]
  /\ UNCHANGED <<bucket, shared, now, th, history>>

\* Nothing is due: sleep until the earliest task, unless an earlier one came meanwhile.
NextRunTime == Min({MAX} \cup {RunTime(s) : s \in tt.heap})

prepare ==
  /\ tt.pc = "check" /\ ~\E s \in tt.heap : Due(s)
  /\ IF NextRunTime > nearest
     THEN tt' = [tt EXCEPT !.pc = "top"] /\ UNCHANGED nearest
     ELSE /\ nearest' = NextRunTime
          /\ tt' = [tt EXCEPT !.pc = "sleep", !.next = NextRunTime]
  /\ signalled' = (signalled /\ NextRunTime > nearest)
  /\ UNCHANGED <<task, bucket, stop, now, th, history>>

SignalCame_Ignored == FALSE
SignalCame == signalled

futex_wait ==
  /\ tt.pc = "sleep"
  /\ tt' = IF SignalCame THEN Awake ELSE [tt EXCEPT !.pc = "sleeping"]
  /\ UNCHANGED <<task, bucket, shared, now, th, history>>

timed_out ==
  /\ tt.pc = "sleeping" /\ tt.next <= now /\ tt' = Awake
  /\ UNCHANGED <<task, bucket, shared, now, th, history>>

Tick == now < MaxNow /\ now' = now + 1 /\ UNCHANGED <<task, bucket, shared, th, tt, history>>

-----------------------------------------------------------------------------
Run == \/ loop \/ clear \/ (\E b \in Buckets : consume_tasks(b)) \/ pulled \/ (\E s \in Slots : check(s))
       \/ run_and_delete \/ fn_returned \/ prepare \/ futex_wait \/ timed_out
Call(t) == schedule(t) \/ wake(t)
TimerNext == \/ Run \/ Tick \/ stop_and_join
             \/ \E t \in Threads : call(t) \/ Call(t) \/ \E s \in Slots, x \in Times : Bucket_schedule(t, s, x)
             \/ \E i \in Ids : unschedule(i)
TimerSpec == TimerInit /\ [][TimerNext]_timer_vars

\* Time passes; the timer thread and a schedule() that has begun go on.
TimerFairness == /\ WF_timer_vars(Tick) /\ WF_timer_vars(Run) /\ WF_timer_vars(Stopped /\ stop_and_join)
                 /\ \A t \in Threads : WF_timer_vars(Call(t))
TimerFairSpec == TimerSpec /\ TimerFairness

-----------------------------------------------------------------------------
Waiting(s) == ~task[s].pooled /\ task[s].version = task[s].id

TaskSlot == [version : Nat, id : Nat, run_time : 0 .. MAX, pooled : BOOLEAN]
Bucket == [nearest : 0 .. MAX, list : SUBSET Slots]
Caller == [pc : {"idle", "called", "update", "wake"}, time : 0 .. MAX]
Runner == [pc : {"top", "clear", "pull", "check", "popped", "running", "sleep", "sleeping", "ended"},
           heap : SUBSET Slots, left : SUBSET Buckets, unseen : SUBSET Buckets,
           cur : Slots \cup {NoSlot}, next : 0 .. MAX]

\* Every variable has its type; the slots of a bucket, of the heap and the one that is popped
\* are different ones, none of them in the pool.
TimerTypeOK ==
  /\ task \in [Slots -> TaskSlot] /\ bucket \in [Buckets -> Bucket]
  /\ nearest \in 0 .. MAX /\ signalled \in BOOLEAN /\ now \in Nat
  /\ stop \in {"no", "stored", "signalled", "woken"}
  /\ th \in [Threads -> Caller] /\ tt \in Runner
  /\ ran \in [Ids -> Nat] /\ removed \subseteq Ids
OnePlace ==
  /\ \A b \in Buckets : bucket[b].list \cap (tt.heap \cup {tt.cur}) = {}
  /\ \A b, c \in Buckets : b # c => bucket[b].list \cap bucket[c].list = {}
  /\ tt.cur \notin tt.heap /\ (tt.cur \in Slots <=> tt.pc \in {"popped", "running"})
  /\ \A s \in tt.heap \cup ({tt.cur} \cap Slots) : ~task[s].pooled
  /\ \A b \in Buckets : \A s \in bucket[b].list : ~task[s].pooled

\* A task runs at most once, and not at all after an unschedule() that returned 0.
RunsOnceOrRemoved == \A i \in Ids : ran[i] + (IF i \in removed THEN 1 ELSE 0) <= 1

\* A scheduler in b that is about to make an earlier run time than x known.
Announced(b, x) == \E t \in Threads : /\ th[t].pc = "update" /\ BucketOf[t] = b
                                      /\ th[t].time < x

\* The timer thread does not sleep while a bucket holds an earlier task than it will wake up
\* for, unless its scheduler is still to announce it or a scheduler is about to wake the thread.
NotOvertaken ==
  \A b \in Buckets : \A s \in bucket[b].list :
    tt.pc = "sleeping" /\ ~Stopped /\ RunTime(s) < tt.next
      => Announced(b, tt.next) \/ \E t \in Threads : th[t].pc = "wake"

\* When run() decides to run a task, every earlier one in a bucket is one whose scheduler has
\* not announced it yet.
PicksEarliest == tt.pc = "check" /\ tt'.pc = "popped" /\ ~Stopped =>
  \A b \in Buckets : \A s \in bucket[b].list :
    RunTime(s) < RunTime(tt'.cur) => Announced(b, RunTime(tt'.cur))
RunsEarliest == [][PicksEarliest]_timer_vars

\* The version of a task taken out is the one of its identifier or says it was removed
\* (the CHECK of try_delete and the impossible branch of run_and_delete).
VersionChecks ==
  \A s \in Slots : ~task[s].pooled =>
     task[s].version - task[s].id \in (IF tt.pc = "running" /\ tt.cur = s THEN {1} ELSE {0, 2})

\* The timer thread is safe: the above.
TimerSafe == TimerTypeOK /\ OnePlace /\ RunsOnceOrRemoved /\ VersionChecks /\ NotOvertaken

\* What makes it inductive.  The versions that a slot has still to go through are unused.
Unused == \A i \in Ids : i[2] >= task[i[1]].version => ran[i] = 0 /\ i \notin removed
\* A bucket knows its earliest task.
BucketNearest == \A b \in Buckets : /\ bucket[b].list = {} => bucket[b].nearest = MAX
                                    /\ \A s \in bucket[b].list : bucket[b].nearest <= RunTime(s)
\* _nearest_run_time is no later than a bucket's, or a scheduler is about to make it so, but for
\* the buckets that are still to be pulled.
Covered == \A b \in Buckets \ (tt.left \ tt.unseen) :
   nearest <= bucket[b].nearest
     \/ \E t \in Threads : th[t].pc = "update" /\ BucketOf[t] = b /\ th[t].time <= bucket[b].nearest
\* A run time earlier than the one the timer thread sleeps until was signalled.
Signalled == /\ tt.pc = "sleep" /\ nearest < tt.next => signalled
             /\ tt.pc = "sleeping" /\ nearest < tt.next => Stopped \/ \E t \in Threads : th[t].pc = "wake"
TimerInv == /\ TimerSafe /\ Unused /\ BucketNearest /\ Covered /\ Signalled
            /\ tt.pc # "pull" => tt.left = {} /\ tt.unseen = {}
            /\ \A s \in Slots : ~task[s].pooled => task[s].id \in Versions

\* A task that is neither unscheduled nor stopped runs when its time has come.
EveryTaskRuns == \A s \in Slots : \A v \in Versions :
   []<>(task[s].id >= v => Stopped \/ <<s, v>> \in removed \/ ran[<<s, v>>] = 1)

\* stop_and_join() ends the timer thread: it pulls again, sees _stop and leaves.
StopEnds == Stopped ~> tt.pc = "ended"
=============================================================================

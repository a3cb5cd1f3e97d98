--------------------------- MODULE SchedulerProofs ---------------------------
(***************************************************************************)
(* What two parts of the scheduler promise: TimerThread for any number of  *)
(* threads, buckets, slots and run times, and WorkStealingQueue for every  *)
(* capacity, number of thieves and number of items.                        *)
(***************************************************************************)
EXTENDS WorkStealingQueue, TimerThread, WellFoundedInduction, TLAPS

\* Most steps need no arithmetic; those that do name the SMT solver.
USE Zenon

-----------------------------------------------------------------------------
(* Run times.                                                               *)

\* MAX, the run time of nothing, is later than every run time.
LEMMA MaxFacts == ASSUME TimerConstants PROVE MAX \in Nat /\ \A x \in Times : x \in 0 .. MAX
  <1>1. PICK m \in Times : \A x \in Times : x <= m BY DEF TimerConstants
  <1>2. Max(Times) \in Times /\ \A x \in Times : x <= Max(Times)
    BY <1>1 DEF Max, TimerConstants
  <1>3. Max(Times) \in Nat /\ MAX = 1 + Max(Times) /\ Times \subseteq Nat
    BY <1>2 DEF MAX, TimerConstants
  <1> HIDE DEF MAX
  <1> QED BY <1>2, <1>3, SMTT(30)

\* Every set of times has a first one.
LEMMA MinFacts ==
  ASSUME NEW T \in SUBSET Nat, T # {} PROVE Min(T) \in T
  <1>1. PICK x \in T : \A y \in T : ~(<<y, x>> \in OpToRel(<, Nat))
    BY NatLessThanWellFounded, WFMin
  <1>2. ASSUME NEW y \in T PROVE x <= y
    <2>1. y < x => <<y, x>> \in OpToRel(<, Nat) BY DEF OpToRel
    <2>2. ~(y < x) BY <1>1, <2>1
    <2> QED BY <2>2, SMTT(30)
  <1> QED BY <1>2 DEF Min

\* The time that run() sleeps until is one of a task, or MAX.
LEMMA NextRunTimeFacts ==
  ASSUME TimerConstants, TimerTypeOK PROVE NextRunTime \in 0 .. MAX
  <1> DEFINE T == {MAX} \cup {RunTime(s) : s \in tt.heap}
  <1>1. T \subseteq 0 .. MAX BY MaxFacts, SMTT(30) DEF TimerTypeOK, TaskSlot, Runner, RunTime
  <1>2. T \in SUBSET Nat /\ T # {} BY <1>1, MaxFacts, SMTT(30)
  <1> QED BY <1>1, <1>2, MinFacts DEF NextRunTime

-----------------------------------------------------------------------------
(* The inductive invariant.                                                 *)

PullingLeft == tt.pc # "pull" => tt.left = {} /\ tt.unseen = {}
IdsKnown == \A s \in Slots : ~task[s].pooled => task[s].id \in Versions

\* That no earlier task is overlooked follows from the rest.
LEMMA Overtaken ==
  ASSUME TimerConstants, TimerTypeOK, BucketNearest, Covered, Signalled, PullingLeft PROVE NotOvertaken
  <1> SUFFICES ASSUME NEW b \in Buckets, NEW s \in bucket[b].list, tt.pc = "sleeping", ~Stopped,
                      RunTime(s) < tt.next
               PROVE  Announced(b, tt.next) \/ \E t \in Threads : th[t].pc = "wake"
    BY DEF NotOvertaken
  <1>1. /\ bucket[b].nearest \in Nat /\ RunTime(s) \in Nat /\ nearest \in Nat /\ tt.next \in Nat
        /\ \A t \in Threads : th[t].time \in Nat
    BY MaxFacts, SMTT(30) DEF TimerTypeOK, RunTime, TaskSlot, Bucket, Caller, Runner
  <1>2. bucket[b].nearest < tt.next BY <1>1, SMTT(30) DEF BucketNearest
  <1>3. CASE nearest <= bucket[b].nearest BY <1>1, <1>2, <1>3, SMTT(30) DEF Signalled
  <1>4. CASE \E t \in Threads : /\ th[t].pc = "update" /\ BucketOf[t] = b
                                 /\ th[t].time <= bucket[b].nearest
    BY <1>1, <1>2, <1>4, SMTT(30) DEF Announced
  <1> QED BY <1>3, <1>4 DEF Covered, PullingLeft

\* The invariant without what follows from it.
Core == /\ TimerTypeOK /\ OnePlace /\ RunsOnceOrRemoved /\ VersionChecks /\ Unused /\ BucketNearest
        /\ Covered /\ Signalled /\ PullingLeft /\ IdsKnown
LEMMA CoreSuffices == ASSUME TimerConstants PROVE Core <=> TimerInv
  BY Overtaken DEF Core, TimerInv, TimerSafe, PullingLeft, IdsKnown
LEMMA CoreSufficesNext == ASSUME TimerConstants PROVE Core' <=> TimerInv'
  BY CoreSuffices, PTL

\* Nothing is scheduled.
LEMMA InitCore == ASSUME TimerConstants PROVE TimerInit => Core
  <1> SUFFICES ASSUME TimerInit PROVE Core OBVIOUS
  <1> USE MaxFacts DEF TimerInit, Idle
  <1>1. TimerTypeOK
    <2>1. task \in [Slots -> TaskSlot] BY SMTT(30) DEF TaskSlot
    <2>2. bucket \in [Buckets -> Bucket] BY SMTT(30) DEF Bucket
    <2>3. th \in [Threads -> Caller] BY SMTT(30) DEF Caller
    <2>4. /\ nearest \in 0 .. MAX /\ now \in Nat
          /\ ran \in [Ids -> Nat] /\ removed \subseteq Ids
      BY SMTT(30)
    <2>5. tt \in Runner BY SMTT(30) DEF Runner
    <2>6. signalled \in BOOLEAN /\ stop \in {"no", "stored", "signalled", "woken"} OBVIOUS
    <2> QED BY <2>1, <2>2, <2>3, <2>4, <2>5, <2>6 DEF TimerTypeOK
  <1>2. OnePlace BY DEF OnePlace, TimerConstants
  <1>3. RunsOnceOrRemoved BY SMTT(30) DEF RunsOnceOrRemoved
  <1>4. VersionChecks /\ IdsKnown BY DEF VersionChecks, IdsKnown
  <1>5. Unused BY DEF Unused
  <1>6. BucketNearest /\ Covered BY SMTT(30) DEF BucketNearest, Covered
  <1>7. Signalled /\ PullingLeft BY DEF Signalled, PullingLeft
  <1> QED BY <1>1, <1>2, <1>3, <1>4, <1>5, <1>6, <1>7 DEF Core

\* The timer thread that woke up is as it was, but at the start of its loop.
LEMMA AwakeFacts ==
  ASSUME TimerConstants, TimerTypeOK
  PROVE  /\ Awake \in Runner /\ Awake.pc = "top" /\ Awake.heap = tt.heap /\ Awake.left = tt.left
         /\ Awake.unseen = tt.unseen /\ Awake.cur = tt.cur
  <1>1. tt \in Runner BY DEF TimerTypeOK
  <1>2. MAX \in 0 .. MAX BY MaxFacts, SMTT(30)
  <1> QED BY <1>1, <1>2 DEF Awake, Runner

\* schedule() begins.
LEMMA call_Step == ASSUME TimerConstants, Core, NEW t \in Threads, call(t) PROVE Core'
  <1> USE MaxFacts DEF Core, call, Idle, shared, history, Stopped
  <1>1. TimerTypeOK' BY DEF TimerTypeOK, TaskSlot, Caller, Runner, Ids
  <1>2. OnePlace' BY DEF TimerTypeOK, OnePlace, TaskSlot, Bucket, Runner
  <1>3. RunsOnceOrRemoved' BY DEF RunsOnceOrRemoved, TimerTypeOK, Unused, Ids
  <1>4. VersionChecks' BY DEF VersionChecks, TimerTypeOK, OnePlace, TaskSlot, Bucket, Runner
  <1>5. Unused' BY DEF Unused, TimerTypeOK, TaskSlot, Ids
  <1>6. BucketNearest' BY DEF BucketNearest, TimerTypeOK, TaskSlot, Bucket, RunTime
  <1>7. Covered' BY DEF Covered, TimerTypeOK, Bucket, Caller, Runner, BucketNearest, PullingLeft
  <1>8. Signalled' BY DEF Signalled, TimerTypeOK, Caller, Runner
  <1>9. PullingLeft' BY DEF PullingLeft, TimerTypeOK, Runner
  <1>10. IdsKnown' BY DEF IdsKnown, TimerTypeOK, TaskSlot
  <1> QED BY <1>1, <1>2, <1>3, <1>4, <1>5, <1>6, <1>7, <1>8, <1>9, <1>10 DEF Core

\* schedule() announces a run time that is the earliest of its bucket.
LEMMA schedule_Step == ASSUME TimerConstants, Core, NEW t \in Threads, schedule(t) PROVE Core'
  <1> USE MaxFacts DEF Core, schedule, Nearest, Idle, history, Stopped
  <1>1. TimerTypeOK'
    <2>1. th' \in [Threads -> Caller] /\ nearest' \in 0 .. MAX BY SMTT(30) DEF TimerTypeOK, Caller
    <2>2. signalled' \in BOOLEAN BY DEF TimerTypeOK
    <2> QED BY <2>1, <2>2 DEF TimerTypeOK
  <1>2. OnePlace' BY DEF TimerTypeOK, OnePlace, TaskSlot, Bucket, Runner
  <1>3. RunsOnceOrRemoved' BY DEF RunsOnceOrRemoved, TimerTypeOK, Unused, Ids
  <1>4. VersionChecks' BY DEF VersionChecks, TimerTypeOK, OnePlace, TaskSlot, Bucket, Runner
  <1>5. Unused' BY DEF Unused, TimerTypeOK, TaskSlot, Ids
  <1>6. BucketNearest' BY DEF BucketNearest, TimerTypeOK, TaskSlot, Bucket, RunTime
  <1>7. Covered'
    <2> SUFFICES ASSUME NEW b \in Buckets \ (tt.left \ tt.unseen)
                 PROVE  nearest' <= bucket[b].nearest
                          \/ \E u \in Threads : /\ th'[u].pc = "update" /\ BucketOf[u] = b
                                                 /\ th'[u].time <= bucket[b].nearest
      BY DEF Covered
    <2>1. /\ nearest \in Nat /\ bucket[b].nearest \in Nat /\ th[t].time \in Nat
          /\ nearest' <= nearest /\ nearest' <= th[t].time /\ nearest' \in Nat
          /\ \A u \in Threads \ {t} : th'[u] = th[u]
      BY SMTT(30) DEF TimerTypeOK, Bucket, Caller
    <2>2. CASE nearest <= bucket[b].nearest BY <2>1, <2>2, SMTT(30)
    <2>3. CASE \E u \in Threads : /\ th[u].pc = "update" /\ BucketOf[u] = b
                                   /\ th[u].time <= bucket[b].nearest
      BY <2>1, <2>3, SMTT(30)
    <2> QED BY <2>2, <2>3 DEF Covered
  <1>8. Signalled' BY SMTT(30) DEF Signalled, TimerTypeOK, Caller, Runner
  <1>9. PullingLeft' BY DEF PullingLeft, TimerTypeOK, Runner
  <1>10. IdsKnown' BY DEF IdsKnown, TimerTypeOK, TaskSlot
  <1> QED BY <1>1, <1>2, <1>3, <1>4, <1>5, <1>6, <1>7, <1>8, <1>9, <1>10 DEF Core

\* schedule() wakes the timer thread.
LEMMA wake_Step == ASSUME TimerConstants, Core, NEW t \in Threads, wake(t) PROVE Core'
  <1> USE MaxFacts, AwakeFacts DEF Core, wake, Idle, futex_wake, shared, history, Stopped
  <1>1. TimerTypeOK'
    <2>1. tt' \in Runner BY DEF TimerTypeOK
    <2>2. th' \in [Threads -> Caller] BY SMTT(30) DEF TimerTypeOK, Caller
    <2> QED BY <2>1, <2>2 DEF TimerTypeOK
  <1>2. OnePlace' BY DEF TimerTypeOK, OnePlace, TaskSlot, Bucket, Runner
  <1>3. RunsOnceOrRemoved' BY DEF RunsOnceOrRemoved, TimerTypeOK, Unused, Ids
  <1>4. VersionChecks' BY DEF VersionChecks, TimerTypeOK, OnePlace, TaskSlot, Bucket, Runner
  <1>5. Unused' BY DEF Unused, TimerTypeOK, TaskSlot, Ids
  <1>6. BucketNearest' BY DEF BucketNearest, TimerTypeOK, TaskSlot, Bucket, RunTime
  <1>7. Covered' BY DEF Covered, TimerTypeOK, Bucket, Caller, Runner, BucketNearest, PullingLeft
  <1>8. Signalled' BY DEF Signalled, TimerTypeOK, Caller, Runner
  <1>9. PullingLeft' BY DEF PullingLeft, TimerTypeOK, Runner
  <1>10. IdsKnown' BY DEF IdsKnown, TimerTypeOK, TaskSlot
  <1> QED BY <1>1, <1>2, <1>3, <1>4, <1>5, <1>6, <1>7, <1>8, <1>9, <1>10 DEF Core

\* stop_and_join().
LEMMA stop_and_join_Step == ASSUME TimerConstants, Core, stop_and_join PROVE Core'
  <1> USE MaxFacts, AwakeFacts DEF Core, stop_and_join, futex_wake, history, Stopped
  <1>1. TimerTypeOK'
    <2>1. tt' \in Runner BY DEF TimerTypeOK
    <2>2. nearest' \in 0 .. MAX /\ stop' \in {"no", "stored", "signalled", "woken"}
      BY SMTT(30) DEF TimerTypeOK
    <2>3. signalled' \in BOOLEAN BY DEF TimerTypeOK
    <2> QED BY <2>1, <2>2, <2>3 DEF TimerTypeOK
  <1>2. OnePlace' BY DEF TimerTypeOK, OnePlace, TaskSlot, Bucket, Runner
  <1>3. RunsOnceOrRemoved' BY DEF RunsOnceOrRemoved, TimerTypeOK, Unused, Ids
  <1>4. VersionChecks' BY DEF VersionChecks, TimerTypeOK, OnePlace, TaskSlot, Bucket, Runner
  <1>5. Unused' BY DEF Unused, TimerTypeOK, TaskSlot, Ids
  <1>6. BucketNearest' BY DEF BucketNearest, TimerTypeOK, TaskSlot, Bucket, RunTime
  <1>7. Covered' BY SMTT(30) DEF Covered, TimerTypeOK, Bucket, Caller, Runner, BucketNearest, PullingLeft
  <1>8. Signalled' BY DEF Signalled, TimerTypeOK, Caller, Runner
  <1>9. PullingLeft' BY DEF PullingLeft, TimerTypeOK, Runner
  <1>10. IdsKnown' BY DEF IdsKnown, TimerTypeOK, TaskSlot
  <1> QED BY <1>1, <1>2, <1>3, <1>4, <1>5, <1>6, <1>7, <1>8, <1>9, <1>10 DEF Core

\* Time passes.
LEMMA Tick_Step == ASSUME TimerConstants, Core, Tick PROVE Core'
  <1> USE MaxFacts DEF Core, Tick, shared, history, Stopped
  <1>1. TimerTypeOK' BY SMTT(30) DEF TimerTypeOK, TaskSlot, Caller, Runner, Ids
  <1>2. OnePlace' BY DEF TimerTypeOK, OnePlace, TaskSlot, Bucket, Runner
  <1>3. RunsOnceOrRemoved' BY DEF RunsOnceOrRemoved, TimerTypeOK, Unused, Ids
  <1>4. VersionChecks' BY DEF VersionChecks, TimerTypeOK, OnePlace, TaskSlot, Bucket, Runner
  <1>5. Unused' BY DEF Unused, TimerTypeOK, TaskSlot, Ids
  <1>6. BucketNearest' BY DEF BucketNearest, TimerTypeOK, TaskSlot, Bucket, RunTime
  <1>7. Covered' BY DEF Covered, TimerTypeOK, Bucket, Caller, Runner, BucketNearest, PullingLeft
  <1>8. Signalled' BY DEF Signalled, TimerTypeOK, Caller, Runner
  <1>9. PullingLeft' BY DEF PullingLeft, TimerTypeOK, Runner
  <1>10. IdsKnown' BY DEF IdsKnown, TimerTypeOK, TaskSlot
  <1> QED BY <1>1, <1>2, <1>3, <1>4, <1>5, <1>6, <1>7, <1>8, <1>9, <1>10 DEF Core

\* run() looks at _stop.
LEMMA loop_Step == ASSUME TimerConstants, Core, loop PROVE Core'
  <1> USE MaxFacts DEF Core, loop, shared, history, Stopped
  <1>1. TimerTypeOK' BY DEF TimerTypeOK, TaskSlot, Caller, Runner, Ids
  <1>2. OnePlace' BY DEF TimerTypeOK, OnePlace, TaskSlot, Bucket, Runner
  <1>3. RunsOnceOrRemoved' BY DEF RunsOnceOrRemoved, TimerTypeOK, Unused, Ids
  <1>4. VersionChecks' BY DEF VersionChecks, TimerTypeOK, OnePlace, TaskSlot, Bucket, Runner
  <1>5. Unused' BY DEF Unused, TimerTypeOK, TaskSlot, Ids
  <1>6. BucketNearest' BY DEF BucketNearest, TimerTypeOK, TaskSlot, Bucket, RunTime
  <1>7. Covered' BY DEF Covered, TimerTypeOK, Bucket, Caller, Runner, BucketNearest, PullingLeft
  <1>8. Signalled' BY DEF Signalled, TimerTypeOK, Caller, Runner
  <1>9. PullingLeft' BY DEF PullingLeft, TimerTypeOK, Runner
  <1>10. IdsKnown' BY DEF IdsKnown, TimerTypeOK, TaskSlot
  <1> QED BY <1>1, <1>2, <1>3, <1>4, <1>5, <1>6, <1>7, <1>8, <1>9, <1>10 DEF Core

\* run() clears _nearest_run_time: every bucket is to be pulled, or has nothing earlier.
LEMMA clear_Step == ASSUME TimerConstants, Core, clear PROVE Core'
  <1> USE MaxFacts DEF Core, clear, history, Stopped
  <1>1. TimerTypeOK'
    <2>1. tt' \in Runner BY DEF TimerTypeOK, Runner
    <2> QED BY <2>1, SMTT(30) DEF TimerTypeOK
  <1>2. OnePlace' BY DEF TimerTypeOK, OnePlace, TaskSlot, Bucket, Runner
  <1>3. RunsOnceOrRemoved' BY DEF RunsOnceOrRemoved, TimerTypeOK, Unused, Ids
  <1>4. VersionChecks' BY DEF VersionChecks, TimerTypeOK, OnePlace, TaskSlot, Bucket, Runner
  <1>5. Unused' BY DEF Unused, TimerTypeOK, TaskSlot, Ids
  <1>6. BucketNearest' BY DEF BucketNearest, TimerTypeOK, TaskSlot, Bucket, RunTime
  <1>7. Covered' BY SMTT(30) DEF Covered, TimerTypeOK, Bucket, Caller, Runner, BucketNearest, PullingLeft
  <1>8. Signalled' BY DEF Signalled, TimerTypeOK, Caller, Runner
  <1>9. PullingLeft' BY DEF PullingLeft, TimerTypeOK, Runner
  <1>10. IdsKnown' BY DEF IdsKnown, TimerTypeOK, TaskSlot
  <1> QED BY <1>1, <1>2, <1>3, <1>4, <1>5, <1>6, <1>7, <1>8, <1>9, <1>10 DEF Core

\* All buckets were pulled.
LEMMA pulled_Step == ASSUME TimerConstants, Core, pulled PROVE Core'
  <1> USE MaxFacts DEF Core, pulled, shared, history, Stopped
  <1>1. TimerTypeOK' BY DEF TimerTypeOK, TaskSlot, Caller, Runner, Ids
  <1>2. OnePlace' BY DEF TimerTypeOK, OnePlace, TaskSlot, Bucket, Runner
  <1>3. RunsOnceOrRemoved' BY DEF RunsOnceOrRemoved, TimerTypeOK, Unused, Ids
  <1>4. VersionChecks' BY DEF VersionChecks, TimerTypeOK, OnePlace, TaskSlot, Bucket, Runner
  <1>5. Unused' BY DEF Unused, TimerTypeOK, TaskSlot, Ids
  <1>6. BucketNearest' BY DEF BucketNearest, TimerTypeOK, TaskSlot, Bucket, RunTime
  <1>7. Covered' BY DEF Covered, TimerTypeOK, Bucket, Caller, Runner, BucketNearest, PullingLeft
  <1>8. Signalled' BY DEF Signalled, TimerTypeOK, Caller, Runner
  <1>9. PullingLeft' BY DEF PullingLeft, TimerTypeOK, Runner
  <1>10. IdsKnown' BY DEF IdsKnown, TimerTypeOK, TaskSlot
  <1> QED BY <1>1, <1>2, <1>3, <1>4, <1>5, <1>6, <1>7, <1>8, <1>9, <1>10 DEF Core

\* run() takes the first task of the heap or pulls again.
LEMMA check_Step == ASSUME TimerConstants, Core, NEW s \in Slots, check(s) PROVE Core'
  <1> USE MaxFacts DEF Core, check, IsNearest, Due, shared, history, Stopped
  <1>1. TimerTypeOK' BY DEF TimerTypeOK, TaskSlot, Caller, Runner, Ids
  <1>2. OnePlace' BY SMTT(30) DEF TimerTypeOK, OnePlace, TaskSlot, Bucket, Runner
  <1>3. RunsOnceOrRemoved' BY DEF RunsOnceOrRemoved, TimerTypeOK, Unused, Ids
  <1>4. VersionChecks' BY DEF VersionChecks, TimerTypeOK, OnePlace, TaskSlot, Bucket, Runner
  <1>5. Unused' BY DEF Unused, TimerTypeOK, TaskSlot, Ids
  <1>6. BucketNearest' BY DEF BucketNearest, TimerTypeOK, TaskSlot, Bucket, RunTime
  <1>7. Covered' BY DEF Covered, TimerTypeOK, Bucket, Caller, Runner, BucketNearest, PullingLeft
  <1>8. Signalled' BY DEF Signalled, TimerTypeOK, Caller, Runner
  <1>9. PullingLeft' BY DEF PullingLeft, TimerTypeOK, Runner
  <1>10. IdsKnown' BY DEF IdsKnown, TimerTypeOK, TaskSlot
  <1> QED BY <1>1, <1>2, <1>3, <1>4, <1>5, <1>6, <1>7, <1>8, <1>9, <1>10 DEF Core

\* run() sleeps, unless it was signalled.
LEMMA futex_wait_Step == ASSUME TimerConstants, Core, futex_wait PROVE Core'
  <1> USE MaxFacts, AwakeFacts DEF Core, futex_wait, SignalCame, shared, history, Stopped
  <1>1. TimerTypeOK'
    <2>1. tt' \in Runner BY DEF TimerTypeOK, Runner
    <2> QED BY <2>1 DEF TimerTypeOK
  <1>2. OnePlace' BY DEF TimerTypeOK, OnePlace, TaskSlot, Bucket, Runner
  <1>3. RunsOnceOrRemoved' BY DEF RunsOnceOrRemoved, TimerTypeOK, Unused, Ids
  <1>4. VersionChecks' BY DEF VersionChecks, TimerTypeOK, OnePlace, TaskSlot, Bucket, Runner
  <1>5. Unused' BY DEF Unused, TimerTypeOK, TaskSlot, Ids
  <1>6. BucketNearest' BY DEF BucketNearest, TimerTypeOK, TaskSlot, Bucket, RunTime
  <1>7. Covered' BY DEF Covered, TimerTypeOK, Bucket, Caller, Runner, BucketNearest, PullingLeft
  <1>8. Signalled' BY DEF Signalled, TimerTypeOK, Caller, Runner
  <1>9. PullingLeft' BY DEF PullingLeft, TimerTypeOK, Runner
  <1>10. IdsKnown' BY DEF IdsKnown, TimerTypeOK, TaskSlot
  <1> QED BY <1>1, <1>2, <1>3, <1>4, <1>5, <1>6, <1>7, <1>8, <1>9, <1>10 DEF Core

\* The time that run() sleeps until has come.
LEMMA timed_out_Step == ASSUME TimerConstants, Core, timed_out PROVE Core'
  <1> USE MaxFacts, AwakeFacts DEF Core, timed_out, shared, history, Stopped
  <1>1. TimerTypeOK'
    <2>1. tt' \in Runner BY DEF TimerTypeOK
    <2> QED BY <2>1 DEF TimerTypeOK
  <1>2. OnePlace' BY DEF TimerTypeOK, OnePlace, TaskSlot, Bucket, Runner
  <1>3. RunsOnceOrRemoved' BY DEF RunsOnceOrRemoved, TimerTypeOK, Unused, Ids
  <1>4. VersionChecks' BY DEF VersionChecks, TimerTypeOK, OnePlace, TaskSlot, Bucket, Runner
  <1>5. Unused' BY DEF Unused, TimerTypeOK, TaskSlot, Ids
  <1>6. BucketNearest' BY DEF BucketNearest, TimerTypeOK, TaskSlot, Bucket, RunTime
  <1>7. Covered' BY DEF Covered, TimerTypeOK, Bucket, Caller, Runner, BucketNearest, PullingLeft
  <1>8. Signalled' BY DEF Signalled, TimerTypeOK, Caller, Runner
  <1>9. PullingLeft' BY DEF PullingLeft, TimerTypeOK, Runner
  <1>10. IdsKnown' BY DEF IdsKnown, TimerTypeOK, TaskSlot
  <1> QED BY <1>1, <1>2, <1>3, <1>4, <1>5, <1>6, <1>7, <1>8, <1>9, <1>10 DEF Core

\* An identifier is a slot and a version.
LEMMA IdFacts ==
  ASSUME TimerConstants
  PROVE  /\ Versions \subseteq Nat
         /\ \A i \in Ids : i = <<i[1], i[2]>> /\ i[1] \in Slots /\ i[2] \in Versions
         /\ \A s \in Slots, v \in Versions : <<s, v>> \in Ids /\ <<s, v>>[1] = s /\ <<s, v>>[2] = v
  BY SMTT(30) DEF Ids, Versions, TimerConstants

\* unschedule() returns 0: the task had not run, and its version says that it never will.
LEMMA unschedule_Step == ASSUME TimerConstants, Core, NEW i \in Ids, unschedule(i) PROVE Core'
  <1> USE MaxFacts DEF Core, unschedule, shared, Stopped
  <1>0. /\ i[1] \in Slots /\ i[2] \in Nat /\ \A s \in Slots : task[s] \in TaskSlot
        /\ task'[i[1]] = [task[i[1]] EXCEPT !.version = i[2] + 2] /\ task' \in [Slots -> TaskSlot]
        /\ \A s \in Slots \ {i[1]} : task'[s] = task[s]
    BY IdFacts, SMTT(30) DEF TimerTypeOK, TaskSlot
  <1>1. TimerTypeOK' BY <1>0 DEF TimerTypeOK
  <1>2. OnePlace' BY <1>0, SMTT(30) DEF TimerTypeOK, OnePlace, TaskSlot, Bucket, Runner
  <1>3. RunsOnceOrRemoved'
    <2>1. ran[i] = 0 BY <1>0, SMTT(30) DEF Unused
    <2> QED BY <2>1, SMTT(30) DEF RunsOnceOrRemoved, TimerTypeOK
  <1>4. VersionChecks' BY <1>0, SMTT(30) DEF VersionChecks, OnePlace, TaskSlot
  <1>5. Unused'
    <2> SUFFICES ASSUME NEW j \in Ids, j[2] >= task'[j[1]].version PROVE ran[j] = 0 /\ j \notin removed'
      BY DEF Unused
    <2>1. j[1] \in Slots /\ j[2] \in Nat BY IdFacts
    <2>2. j[2] >= task[j[1]].version /\ j # i BY <1>0, <2>1, SMTT(30) DEF TaskSlot
    <2> QED BY <2>2 DEF Unused
  <1>6. BucketNearest' BY <1>0, SMTT(30) DEF BucketNearest, TimerTypeOK, TaskSlot, Bucket, RunTime
  <1>7. Covered' BY DEF Covered
  <1>8. Signalled' BY DEF Signalled
  <1>9. PullingLeft' BY DEF PullingLeft
  <1>10. IdsKnown' BY <1>0 DEF IdsKnown, TaskSlot
  <1> QED BY <1>1, <1>2, <1>3, <1>4, <1>5, <1>6, <1>7, <1>8, <1>9, <1>10 DEF Core

\* run_and_delete() runs the task, if it was not unscheduled, or returns its slot.
LEMMA run_and_delete_Step == ASSUME TimerConstants, Core, run_and_delete PROVE Core'
  <1> USE MaxFacts DEF Core, run_and_delete, shared, Stopped
  <1> DEFINE c == tt.cur
  <1>a. /\ c \in Slots /\ ~task[c].pooled /\ tt \in Runner /\ task \in [Slots -> TaskSlot]
        /\ task[c].id \in Versions /\ task[c].id \in Nat
    BY IdFacts DEF OnePlace, TimerTypeOK, IdsKnown
  <1>b. /\ task' \in [Slots -> TaskSlot] /\ tt' \in Runner
        /\ \A s \in Slots \ {c} : task'[s] = task[s]
        /\ task'[c].id = task[c].id /\ task'[c].run_time = task[c].run_time
        /\ tt'.heap = tt.heap /\ tt'.left = tt.left /\ tt'.unseen = tt.unseen
        /\ tt'.pc \in {"running", "check"} /\ tt.pc = "popped"
    <2>1. CASE Scheduled(c)
      <3>1. /\ task' = [task EXCEPT ![c].version = @ + 1] /\ tt' = [tt EXCEPT !.pc = "running"]
            /\ tt.pc = "popped"
        BY <2>1
      <3> QED BY <1>a, <3>1, SMTT(30) DEF TaskSlot, Runner
    <2>2. CASE ~Scheduled(c)
      <3>1. /\ task' = [task EXCEPT ![c].pooled = TRUE] /\ tt.pc = "popped"
            /\ tt' = [tt EXCEPT !.pc = "check", !.cur = NoSlot]
        BY <2>2
      <3> QED BY <1>a, <3>1, ZenonT(20) DEF TaskSlot, Runner
    <2> QED BY <2>1, <2>2
  <1>c. \/ /\ Scheduled(c) /\ task'[c].version = task[c].id + 1 /\ ~task'[c].pooled
           /\ tt'.pc = "running" /\ tt'.cur = c /\ ran' = [ran EXCEPT ![Id(c)] = @ + 1]
        \/ /\ task'[c].version = task[c].version /\ task'[c].pooled
           /\ tt'.pc = "check" /\ tt'.cur = NoSlot /\ ran' = ran
    <2>1. CASE Scheduled(c)
      <3>1. /\ task' = [task EXCEPT ![c].version = @ + 1] /\ tt' = [tt EXCEPT !.pc = "running"]
            /\ ran' = [ran EXCEPT ![Id(c)] = @ + 1] /\ task[c].version = task[c].id
        BY <2>1 DEF Scheduled
      <3> QED BY <1>a, <2>1, <3>1, SMTT(30) DEF TaskSlot, Runner
    <2>2. CASE ~Scheduled(c)
      <3>1. /\ task' = [task EXCEPT ![c].pooled = TRUE] /\ ran' = ran
            /\ tt' = [tt EXCEPT !.pc = "check", !.cur = NoSlot]
        BY <2>2
      <3> QED BY <1>a, <3>1, SMTT(30) DEF TaskSlot, Runner
    <2> QED BY <2>1, <2>2
  <1>d. Id(c) \in Ids /\ Id(c)[1] = c /\ Id(c)[2] = task[c].id BY <1>a, IdFacts DEF Id
  <1> HIDE DEF run_and_delete, c
  <1>e. UNCHANGED <<bucket, nearest, signalled, stop, now, th, removed>> BY DEF run_and_delete
  <1>1. TimerTypeOK' BY <1>b, <1>c, <1>d, <1>e, SMTT(30) DEF TimerTypeOK
  <1>2. OnePlace'
    BY <1>a, <1>b, <1>c, <1>e, SMTT(30) DEF OnePlace, TimerTypeOK, Bucket, Runner, c, TimerConstants
  <1>3. RunsOnceOrRemoved'
    <2>1. Scheduled(c) => ran[Id(c)] = 0 /\ Id(c) \notin removed
      BY <1>a, <1>d, SMTT(30) DEF Scheduled, Unused
    <2> QED BY <1>c, <1>d, <1>e, <2>1, SMTT(30) DEF RunsOnceOrRemoved, TimerTypeOK
  <1>4. VersionChecks' BY <1>a, <1>b, <1>c, SMTT(30) DEF VersionChecks, TaskSlot
  <1>5. Unused'
    <2> SUFFICES ASSUME NEW j \in Ids, j[2] >= task'[j[1]].version PROVE ran'[j] = 0 /\ j \notin removed
      BY <1>e DEF Unused
    <2>1. j[1] \in Slots /\ j[2] \in Nat BY IdFacts
    <2>2. j[2] >= task[j[1]].version /\ (Scheduled(c) => j # Id(c) \/ task'[c].pooled)
      BY <1>a, <1>b, <1>c, <1>d, <2>1, SMTT(30) DEF TaskSlot, Scheduled
    <2> QED BY <1>c, <1>d, <2>2 DEF Unused, TimerTypeOK
  <1>6. BucketNearest' BY <1>a, <1>b, <1>e DEF BucketNearest, TimerTypeOK, Bucket, RunTime
  <1>7. Covered' BY <1>b, <1>e DEF Covered
  <1>8. Signalled' BY <1>b, <1>e DEF Signalled
  <1>9. PullingLeft' BY <1>b, <1>e DEF PullingLeft
  <1>10. IdsKnown' BY <1>a, <1>b, <1>c DEF IdsKnown
  <1> QED BY <1>1, <1>2, <1>3, <1>4, <1>5, <1>6, <1>7, <1>8, <1>9, <1>10 DEF Core

\* fn(arg) returned: the slot goes back with the next version.
LEMMA fn_returned_Step == ASSUME TimerConstants, Core, fn_returned PROVE Core'
  <1> USE MaxFacts DEF Core, shared, history, Stopped
  <1> DEFINE c == tt.cur
  <1>a. /\ c \in Slots /\ ~task[c].pooled /\ tt \in Runner /\ task \in [Slots -> TaskSlot]
        /\ task[c].version = task[c].id + 1
    BY SMTT(30) DEF OnePlace, TimerTypeOK, VersionChecks, fn_returned, TaskSlot
  <1>b. /\ task' \in [Slots -> TaskSlot] /\ tt' \in Runner
        /\ \A s \in Slots \ {c} : task'[s] = task[s]
        /\ task'[c].version = task[c].id + 2 /\ task'[c].pooled
        /\ task'[c].run_time = task[c].run_time
        /\ tt'.heap = tt.heap /\ tt'.left = tt.left /\ tt'.unseen = tt.unseen
        /\ tt'.pc = "check" /\ tt.pc = "running" /\ tt'.cur = NoSlot
    BY <1>a, SMTT(30) DEF fn_returned, Deleted, TaskSlot, Runner
  <1>e. UNCHANGED <<bucket, nearest, signalled, stop, now, th, ran, removed>> BY DEF fn_returned
  <1>f. c = tt.cur OBVIOUS
  <1> HIDE DEF c
  <1>1. TimerTypeOK' BY <1>b, <1>e DEF TimerTypeOK
  <1>2. OnePlace'
    BY <1>a, <1>b, <1>e, <1>f, SMTT(30) DEF OnePlace, TimerTypeOK, Bucket, Runner, TimerConstants
  <1>3. RunsOnceOrRemoved' BY <1>e DEF RunsOnceOrRemoved
  <1>4. VersionChecks' BY <1>a, <1>b, <1>f DEF VersionChecks, TaskSlot
  <1>5. Unused'
    <2> SUFFICES ASSUME NEW j \in Ids, j[2] >= task'[j[1]].version PROVE ran[j] = 0 /\ j \notin removed
      BY <1>e DEF Unused
    <2>1. j[1] \in Slots /\ j[2] \in Nat BY IdFacts
    <2>2. j[2] >= task[j[1]].version BY <1>a, <1>b, <2>1, SMTT(30) DEF TaskSlot
    <2> QED BY <2>2 DEF Unused
  <1>6. BucketNearest' BY <1>a, <1>b, <1>e DEF BucketNearest, TimerTypeOK, Bucket, RunTime
  <1>7. Covered' BY <1>b, <1>e DEF Covered
  <1>8. Signalled' BY <1>b, <1>e DEF Signalled
  <1>9. PullingLeft' BY <1>b, <1>e DEF PullingLeft
  <1>10. IdsKnown' BY <1>a, <1>b DEF IdsKnown
  <1> QED BY <1>1, <1>2, <1>3, <1>4, <1>5, <1>6, <1>7, <1>8, <1>9, <1>10 DEF Core

\* run() decides to sleep until NextRunTime, or pulls again.
LEMMA prepare_Step == ASSUME TimerConstants, Core, prepare PROVE Core'
  <1> USE MaxFacts DEF Core, history, Stopped
  <1>a. /\ NextRunTime \in 0 .. MAX /\ nearest \in 0 .. MAX /\ tt \in Runner
    BY NextRunTimeFacts DEF TimerTypeOK
  <1>b. /\ tt' \in Runner /\ tt'.heap = tt.heap /\ tt'.cur = tt.cur /\ tt'.left = tt.left
        /\ tt'.unseen = tt.unseen /\ nearest' \in 0 .. MAX /\ nearest' <= nearest
        /\ tt.pc = "check"
        /\ \/ tt'.pc = "top"
           \/ tt'.pc = "sleep" /\ nearest' = tt'.next
    <2>1. CASE NextRunTime > nearest
      <3>1. tt' = [tt EXCEPT !.pc = "top"] /\ nearest' = nearest /\ tt.pc = "check"
        BY <2>1 DEF prepare
      <3> QED BY <1>a, <3>1, SMTT(30) DEF Runner
    <2>2. CASE ~(NextRunTime > nearest)
      <3>1. /\ tt' = [tt EXCEPT !.pc = "sleep", !.next = NextRunTime] /\ nearest' = NextRunTime
            /\ tt.pc = "check"
        BY <2>2 DEF prepare
      <3>2. nearest' \in 0 .. MAX /\ nearest' <= nearest BY <1>a, <2>2, <3>1, SMTT(30)
      <3>3. /\ tt' \in Runner /\ tt'.heap = tt.heap /\ tt'.cur = tt.cur /\ tt'.left = tt.left
            /\ tt'.unseen = tt.unseen /\ tt'.pc = "sleep" /\ tt'.next = NextRunTime
        BY <1>a, <3>1 DEF Runner
      <3> QED BY <3>1, <3>2, <3>3
    <2> QED BY <2>1, <2>2
  <1>c. UNCHANGED <<task, bucket, stop, now, th, ran, removed>> BY DEF prepare
  <1>d. signalled' \in BOOLEAN BY DEF prepare
  <1>1. TimerTypeOK' BY <1>b, <1>c, <1>d DEF TimerTypeOK
  <1>2. OnePlace' BY <1>b, <1>c DEF OnePlace
  <1>3. RunsOnceOrRemoved' BY <1>c DEF RunsOnceOrRemoved
  <1>4. VersionChecks' BY <1>b, <1>c DEF VersionChecks
  <1>5. Unused' BY <1>c DEF Unused
  <1>6. BucketNearest' BY <1>c DEF BucketNearest, RunTime
  <1>7. Covered' BY <1>a, <1>b, <1>c, SMTT(30) DEF Covered, TimerTypeOK, Bucket
  <1>8. Signalled' BY <1>a, <1>b, SMTT(30) DEF Signalled
  <1>9. PullingLeft' BY <1>b DEF PullingLeft
  <1>10. IdsKnown' BY <1>c DEF IdsKnown
  <1> QED BY <1>1, <1>2, <1>3, <1>4, <1>5, <1>6, <1>7, <1>8, <1>9, <1>10 DEF Core

\* run() pulls a bucket: what was unscheduled goes back to the pool, the rest into the heap.
LEMMA consume_tasks_Step == ASSUME TimerConstants, Core, NEW b \in Buckets, consume_tasks(b) PROVE Core'
  <1> USE MaxFacts DEF Core, shared, history, Stopped
  <1>a. /\ tt \in Runner /\ tt.pc = "pull" /\ b \in tt.left
        /\ UNCHANGED <<nearest, signalled, stop, now, th, ran, removed>>
    BY DEF consume_tasks, TimerTypeOK
  <1>b. CASE b \in tt.unseen /\ tt' = [tt EXCEPT !.left = @ \ {b}] /\ UNCHANGED <<task, bucket>>
    <2>a. /\ tt' \in Runner /\ tt'.pc = tt.pc /\ tt'.heap = tt.heap /\ tt'.cur = tt.cur
          /\ tt'.left = tt.left \ {b} /\ tt'.unseen = tt.unseen /\ tt'.next = tt.next
      BY <1>a, <1>b DEF Runner
    <2>1. TimerTypeOK' BY <1>a, <1>b, <2>a DEF TimerTypeOK
    <2>2. OnePlace' /\ VersionChecks' BY <1>b, <2>a DEF OnePlace, VersionChecks
    <2>3. RunsOnceOrRemoved' /\ Unused' BY <1>a, <1>b DEF RunsOnceOrRemoved, Unused
    <2>4. BucketNearest' /\ IdsKnown' BY <1>b DEF BucketNearest, RunTime, IdsKnown
    <2>5. Covered' BY <1>a, <1>b, <2>a, SMTT(30) DEF Covered
    <2>6. Signalled' /\ PullingLeft' BY <1>a, <2>a DEF Signalled, PullingLeft
    <2> QED BY <2>1, <2>2, <2>3, <2>4, <2>5, <2>6
  <1>c. CASE /\ bucket' = [bucket EXCEPT ![b] = [nearest |-> MAX, list |-> {}]]
             /\ task' = [s \in Slots |-> [task[s] EXCEPT !.pooled = @ \/ s \in Unscheduled(b)]]
             /\ tt' = [tt EXCEPT !.left = @ \ {b}, !.heap = @ \cup Kept(b)]
    <2>a. /\ bucket[b].list \subseteq Slots
          /\ Kept(b) = {s \in bucket[b].list : s \notin Unscheduled(b)}
          /\ Unscheduled(b) \subseteq bucket[b].list
      BY DEF TimerTypeOK, Bucket, Kept, Unscheduled
    <2>b. /\ tt' \in Runner /\ tt'.pc = tt.pc /\ tt'.heap = tt.heap \cup Kept(b) /\ tt'.cur = tt.cur
          /\ tt'.left = tt.left \ {b} /\ tt'.unseen = tt.unseen /\ tt'.next = tt.next
      BY <1>a, <1>c, <2>a DEF Runner
    <2>c. /\ task' \in [Slots -> TaskSlot]
          /\ \A s \in Slots : /\ task'[s].version = task[s].version /\ task'[s].id = task[s].id
                              /\ task'[s].run_time = task[s].run_time
                              /\ task'[s].pooled = (task[s].pooled \/ s \in Unscheduled(b))
      <3>1. ASSUME NEW s \in Slots
            PROVE  /\ task'[s].version = task[s].version /\ task'[s].id = task[s].id
                   /\ task'[s].run_time = task[s].run_time /\ task'[s] \in TaskSlot
                   /\ task'[s].pooled = (task[s].pooled \/ s \in Unscheduled(b))
        <4>1. task'[s] = [task[s] EXCEPT !.pooled = @ \/ s \in Unscheduled(b)] BY <1>c
        <4>2. task[s] \in TaskSlot BY DEF TimerTypeOK
        <4> QED BY <4>1, <4>2 DEF TaskSlot
      <3>2. task' = [s \in Slots |-> task'[s]] BY <1>c
      <3> QED BY <3>1, <3>2
    <2>d. /\ bucket' \in [Buckets -> Bucket] /\ bucket'[b] = [nearest |-> MAX, list |-> {}]
          /\ \A c \in Buckets \ {b} : bucket'[c] = bucket[c]
      BY <1>c, SMTT(30) DEF TimerTypeOK, Bucket
    <2>1. TimerTypeOK' BY <1>a, <2>b, <2>c, <2>d DEF TimerTypeOK
    <2>2. OnePlace'
      <3>1. /\ \A c \in Buckets : bucket'[c].list \subseteq bucket[c].list
            /\ bucket'[b].list = {} /\ tt.heap \subseteq Slots
        BY <1>a, <2>d, SMTT(30) DEF Runner
      <3>2. \A c \in Buckets : bucket'[c].list \cap (tt'.heap \cup {tt'.cur}) = {}
        BY <2>a, <2>b, <2>d, <3>1 DEF OnePlace
      <3>3. \A c, d \in Buckets : c # d => bucket'[c].list \cap bucket'[d].list = {}
        BY <3>1, SMTT(30) DEF OnePlace
      <3>4. tt'.cur \notin tt'.heap /\ (tt'.cur \in Slots <=> tt'.pc \in {"popped", "running"})
        BY <2>a, <2>b DEF OnePlace
      <3>5. \A s \in tt'.heap \cup ({tt'.cur} \cap Slots) : ~task'[s].pooled
        BY <2>a, <2>b, <2>c, <3>1 DEF OnePlace
      <3>6. ASSUME NEW c \in Buckets, NEW s \in bucket'[c].list PROVE ~task'[s].pooled
        <4>1. c # b /\ s \in bucket[c].list /\ s \in Slots BY <2>d, <3>1, <3>6 DEF TimerTypeOK, Bucket
        <4>2. s \notin Unscheduled(b) /\ ~task[s].pooled BY <2>a, <4>1 DEF OnePlace
        <4> QED BY <2>c, <4>1, <4>2
      <3> QED BY <3>2, <3>3, <3>4, <3>5, <3>6 DEF OnePlace
    <2>3. VersionChecks' BY <2>b, <2>c DEF VersionChecks
    <2>4. RunsOnceOrRemoved' BY <1>a DEF RunsOnceOrRemoved
    <2>5. Unused' BY <1>a, <2>c, IdFacts DEF Unused
    <2>6. BucketNearest' BY <2>c, <2>d, SMTT(30) DEF BucketNearest, TimerTypeOK, Bucket, RunTime
    <2>7. Covered' BY <1>a, <2>b, <2>d, SMTT(30) DEF Covered, TimerTypeOK
    <2>8. Signalled' /\ PullingLeft' BY <1>a, <2>b DEF Signalled, PullingLeft
    <2>9. IdsKnown' BY <2>c DEF IdsKnown
    <2> QED BY <2>1, <2>2, <2>3, <2>4, <2>5, <2>6, <2>7, <2>8, <2>9
  <1> QED BY <1>b, <1>c DEF consume_tasks

\* Bucket::schedule takes a slot of the pool and puts it in the bucket of the thread.
LEMMA Bucket_schedule_Step ==
  ASSUME TimerConstants, Core, NEW t \in Threads, NEW s \in Slots, NEW x \in Times, Bucket_schedule(t, s, x)
  PROVE  Core'
  <1> USE MaxFacts DEF Core, shared, history, Stopped
  <1> DEFINE b == BucketOf[t]
  <1>a. /\ b \in Buckets /\ x \in 0 .. MAX /\ th[t].pc = "called" /\ task[s].pooled
        /\ task[s].version \in Versions /\ task[s] \in TaskSlot
        /\ UNCHANGED <<nearest, signalled, stop, now, tt, ran, removed>>
    BY DEF Bucket_schedule, TimerConstants, TimerTypeOK
  <1>b. /\ task' \in [Slots -> TaskSlot] /\ \A u \in Slots \ {s} : task'[u] = task[u]
        /\ task'[s] = [version |-> task[s].version, id |-> task[s].version, run_time |-> x, pooled |-> FALSE]
    BY <1>a DEF Bucket_schedule, TimerTypeOK, TaskSlot
  <1>c. /\ bucket' \in [Buckets -> Bucket] /\ \A c \in Buckets \ {b} : bucket'[c] = bucket[c]
        /\ bucket'[b].list = bucket[b].list \cup {s}
        /\ bucket'[b].nearest = IF Earlier(b, x) THEN x ELSE bucket[b].nearest
    BY <1>a, SMTT(30) DEF Bucket_schedule, TimerTypeOK, Bucket
  <1>d. /\ th' \in [Threads -> Caller] /\ \A u \in Threads \ {t} : th'[u] = th[u]
        /\ th'[t] = IF Earlier(b, x) THEN [pc |-> "update", time |-> x] ELSE Idle
    BY <1>a, SMTT(30) DEF Bucket_schedule, TimerTypeOK, Caller, Idle
  <1>e. b = BucketOf[t] OBVIOUS
  <1>f. /\ s \notin tt.heap /\ s # tt.cur /\ \A c \in Buckets : s \notin bucket[c].list
        /\ \A c \in Buckets : bucket[c].list \subseteq Slots /\ bucket[c].nearest \in 0 .. MAX
        /\ \A c \in Buckets : \A u \in bucket[c].list : RunTime(u)' = RunTime(u)
    BY <1>a, <1>b, SMTT(30) DEF OnePlace, TimerTypeOK, Bucket, RunTime
  <1> HIDE DEF b
  <1>1. TimerTypeOK' BY <1>a, <1>b, <1>c, <1>d DEF TimerTypeOK
  <1>2. OnePlace'
    <2>1. \A c \in Buckets : \/ bucket'[c].list = bucket[c].list
                             \/ c = b /\ bucket'[c].list = bucket[c].list \cup {s}
      BY <1>c
    <2>2. \A c \in Buckets : bucket'[c].list \cap (tt'.heap \cup {tt'.cur}) = {}
      BY <1>a, <1>f, <2>1, SMTT(30) DEF OnePlace
    <2>3. \A c, d \in Buckets : c # d => bucket'[c].list \cap bucket'[d].list = {}
      BY <1>f, <2>1, SMTT(30) DEF OnePlace
    <2>4. tt'.cur \notin tt'.heap /\ (tt'.cur \in Slots <=> tt'.pc \in {"popped", "running"})
      BY <1>a DEF OnePlace
    <2>5. \A u \in tt'.heap \cup ({tt'.cur} \cap Slots) : ~task'[u].pooled
      BY <1>a, <1>b DEF OnePlace, TimerTypeOK, Runner
    <2>6. \A c \in Buckets : \A u \in bucket'[c].list : ~task'[u].pooled
      BY <1>b, <1>f, <2>1, SMTT(30) DEF OnePlace
    <2> QED BY <2>2, <2>3, <2>4, <2>5, <2>6 DEF OnePlace
  <1>3. RunsOnceOrRemoved' BY <1>a DEF RunsOnceOrRemoved
  <1>4. VersionChecks'
    <2>1. task'[s].version - task'[s].id = 0 BY <1>a, <1>b, SMTT(30) DEF TaskSlot
    <2>2. ~(tt'.pc = "running" /\ tt'.cur = s) BY <1>a, <1>f
    <2>3. \A u \in Slots \ {s} : task'[u] = task[u] /\ tt' = tt BY <1>a, <1>b
    <2> QED BY <2>1, <2>2, <2>3 DEF VersionChecks
  <1>5. Unused' BY <1>a, <1>b, IdFacts, SMTT(30) DEF Unused
  <1>6. BucketNearest'
    <2>1. ASSUME NEW c \in Buckets, c # b
          PROVE  /\ bucket'[c].list = {} => bucket'[c].nearest = MAX
                 /\ \A u \in bucket'[c].list : bucket'[c].nearest <= RunTime(u)'
      BY <1>c, <1>f, <2>1, SMTT(30) DEF BucketNearest
    <2>2. RunTime(s)' = x BY <1>b, SMTT(30) DEF RunTime
    <2>3. \A u \in bucket[b].list : RunTime(u) \in Nat
      BY <1>a, <1>f, SMTT(30) DEF TimerTypeOK, TaskSlot, RunTime
    <2>4. \A u \in bucket'[b].list : bucket'[b].nearest <= RunTime(u)'
      BY <1>a, <1>c, <1>f, <2>2, <2>3, SMTT(30) DEF BucketNearest, Earlier
    <2> QED BY <1>c, <2>1, <2>4 DEF BucketNearest
  <1>7. Covered'
    <2> SUFFICES ASSUME NEW c \in Buckets \ (tt.left \ tt.unseen)
                 PROVE  nearest <= bucket'[c].nearest
                          \/ \E u \in Threads : /\ th'[u].pc = "update" /\ BucketOf[u] = c
                                                /\ th'[u].time <= bucket'[c].nearest
      BY <1>a DEF Covered
    <2>1. CASE c = b /\ Earlier(b, x)
      BY <1>a, <1>c, <1>d, <1>e, <2>1, SMTT(30)
    <2>2. CASE ~(c = b /\ Earlier(b, x))
      <3>1. bucket'[c].nearest = bucket[c].nearest BY <1>c, <2>2
      <3> QED BY <1>a, <1>d, <3>1 DEF Covered
    <2> QED BY <2>1, <2>2
  <1>8. Signalled' BY <1>a, <1>d DEF Signalled
  <1>9. PullingLeft' BY <1>a DEF PullingLeft
  <1>10. IdsKnown' BY <1>a, <1>b, SMTT(30) DEF IdsKnown
  <1> QED BY <1>1, <1>2, <1>3, <1>4, <1>5, <1>6, <1>7, <1>8, <1>9, <1>10 DEF Core

\* The invariant is inductive.
LEMMA NextCore == ASSUME TimerConstants, Core, [TimerNext]_timer_vars PROVE Core'
  <1>1. CASE UNCHANGED timer_vars
    BY <1>1
       DEF timer_vars, Core, TimerTypeOK, OnePlace, RunsOnceOrRemoved, VersionChecks, Unused, BucketNearest,
                RunTime, Covered, Signalled, Stopped, PullingLeft, IdsKnown
  <1>2. CASE Run
    BY <1>2, loop_Step, clear_Step, consume_tasks_Step, pulled_Step, check_Step, run_and_delete_Step,
       fn_returned_Step, prepare_Step, futex_wait_Step, timed_out_Step DEF Run
  <1>3. ASSUME NEW t \in Threads,
               call(t) \/ Call(t) \/ \E s \in Slots, x \in Times : Bucket_schedule(t, s, x)
        PROVE  Core'
    BY <1>3, call_Step, schedule_Step, wake_Step, Bucket_schedule_Step DEF Call
  <1> QED BY <1>1, <1>2, <1>3, Tick_Step, stop_and_join_Step, unschedule_Step DEF TimerNext

\* TimerThread, for any number of threads, buckets, slots and run times: a task runs at most
\* once and not after an unschedule() that returned 0; the CHECK of try_delete and the
\* "impossible" branch of run_and_delete hold; and the timer thread does not sleep beyond the run
\* time of a task in a bucket unless somebody is still to announce it or to wake the thread.
THEOREM TimerIsSafe == ASSUME TimerConstants PROVE TimerSpec => []TimerSafe
  <1>1. Core => TimerSafe BY CoreSuffices DEF TimerInv
  <1> QED BY <1>1, InitCore, NextCore, PTL DEF TimerSpec

\* When run() pops the first task of its heap, every earlier task in a bucket is one whose
\* schedule() has not reached _nearest_run_time yet.
THEOREM EarliestRuns == ASSUME TimerConstants PROVE TimerSpec => RunsEarliest
  <1>1. ASSUME Core, [TimerNext]_timer_vars PROVE PicksEarliest
    <2> SUFFICES ASSUME tt.pc = "check", tt'.pc = "popped", NEW b \in Buckets, NEW s \in bucket[b].list,
                        RunTime(s) < RunTime(tt'.cur)
                 PROVE  Announced(b, RunTime(tt'.cur))
      BY DEF PicksEarliest
    <2>1. PICK c \in Slots : tt' = [tt EXCEPT !.pc = "popped", !.heap = @ \ {c}, !.cur = c] /\ IsNearest(c)
      BY <1>1, ZenonT(20)
         DEF TimerNext, timer_vars, Run, Call, loop, clear, consume_tasks, pulled, check, run_and_delete,
                  fn_returned, prepare, futex_wait, timed_out, Tick, stop_and_join, futex_wake, Awake,
                  call, schedule, wake, Bucket_schedule, unschedule, Core, TimerTypeOK, Runner
    <2>2. tt'.cur = c BY <1>1, <2>1 DEF Core, TimerTypeOK, Runner
    <2>3. /\ bucket[b].nearest \in Nat /\ RunTime(s) \in Nat /\ RunTime(c) \in Nat /\ nearest \in Nat
          /\ \A t \in Threads : th[t].time \in Nat
      BY <1>1, MaxFacts, SMTT(30) DEF Core, TimerTypeOK, Bucket, TaskSlot, Caller, RunTime
    <2>4. bucket[b].nearest < RunTime(c) /\ RunTime(c) <= nearest
      BY <1>1, <2>1, <2>2, <2>3, SMTT(30) DEF Core, BucketNearest, IsNearest
    <2>5. PICK t \in Threads : /\ th[t].pc = "update" /\ BucketOf[t] = b
                               /\ th[t].time <= bucket[b].nearest
      BY <1>1, <2>3, <2>4, SMTT(30) DEF Core, Covered, PullingLeft
    <2> QED BY <2>2, <2>3, <2>4, <2>5, SMTT(30) DEF Announced
  <1>2. ASSUME Core, [TimerNext]_timer_vars PROVE [PicksEarliest]_timer_vars BY <1>1, <1>2
  <1> QED BY <1>2, InitCore, NextCore, PTL DEF TimerSpec, RunsEarliest

-----------------------------------------------------------------------------
(* The work-stealing queue.                                                 *)

USE DEF OwnerState, ThiefState

(* The ring: indexes less than a capacity apart have different slots.       *)

\* Division with remainder, as the slot of an index (b & (_capacity - 1)) uses it.
LEMMA DivMod ==
  ASSUME NEW n \in Nat, n > 0, NEW i \in Nat
  PROVE  i = n * (i \div n) + (i % n) /\ i % n \in 0 .. n - 1 /\ i \div n \in Nat
  BY SMTT(30)

\* Multiples of n are n apart.
LEMMA Multiples ==
  ASSUME NEW n \in Nat, n > 0, NEW a \in Int, NEW b \in Int, a < b
  PROVE  n * b - n * a >= n
  BY SMTT(30)

\* A slot is an index of the buffer.
LEMMA SlotType == \A i \in Nat : Slot(i) \in 0 .. Capacity - 1
  BY DivMod, CapacityAssumption DEF Slot

\* Two indexes of the queue never share a slot of the buffer.
LEMMA SlotDistinct ==
  ASSUME NEW i \in Nat, NEW j \in Nat, i # j, j < i + Capacity, i < j + Capacity
  PROVE  Slot(i) # Slot(j)
<1> DEFINE qi == i \div Capacity
           qj == j \div Capacity
<1>1. /\ i = Capacity * qi + Slot(i) /\ qi \in Nat /\ Slot(i) \in 0 .. Capacity - 1
      /\ j = Capacity * qj + Slot(j) /\ qj \in Nat /\ Slot(j) \in 0 .. Capacity - 1
  BY DivMod, CapacityAssumption DEF Slot
<1>2. qi < qj => Capacity * qj - Capacity * qi >= Capacity
  BY <1>1, Multiples, CapacityAssumption, SMTT(30)
<1>3. qj < qi => Capacity * qi - Capacity * qj >= Capacity
  BY <1>1, Multiples, CapacityAssumption, SMTT(30)
<1>4. Capacity * qi \in Int /\ Capacity * qj \in Int
  BY <1>1, CapacityAssumption, SMT
<1> HIDE DEF qi, qj
<1> QED  BY <1>1, <1>2, <1>3, <1>4, CapacityAssumption, SMT

-----------------------------------------------------------------------------
(* The inductive invariant.                                                 *)

\* How far the owner is: what it stored in _bottom and what it knows of _top.
OwnerInv ==
  /\ top <= Bottom
  /\ owner.pc = "store" => owner.newb + 1 = bottom
  /\ owner.pc \in {"load", "cas", "restore"} => owner.newb = bottom
  /\ owner.pc = "cas" => top >= bottom
  /\ owner.pc = "restore" => top = bottom + 1

\* A thief whose t is still _top holds an index of the queue and the item at it.
ThiefInv ==
  \A h \in Thieves :
    /\ thief[h].t <= top
    /\ thief[h].pc \in {"read", "cas"} /\ thief[h].t = top => top < Bottom
    /\ thief[h].pc = "cas" /\ thief[h].t = top => thief[h].val = buffer[Slot(top)]

\* The items of the queue were pushed, are different, and were given to nobody.
HeldInv ==
  /\ \A i \in top .. Bottom - 1 : buffer[Slot(i)] \in 1 .. pushed /\ taken[buffer[Slot(i)]] = 0
  /\ \A i, j \in top .. Bottom - 1 : i < j => buffer[Slot(i)] # buffer[Slot(j)]

\* Every other item that was pushed was given to somebody once.
TakenInv ==
  \A k \in Items : /\ taken[k] <= 1
                   /\ k > pushed => taken[k] = 0
                   /\ k <= pushed => taken[k] = 1 \/ \E i \in top .. Bottom - 1 : buffer[Slot(i)] = k

IInv == TypeOK /\ OwnerInv /\ ThiefInv /\ HeldInv /\ TakenInv

\* The queue starts empty.
LEMMA InitIInv == Init => IInv
  BY CapacityAssumption, MaxPushAssumption, SMTT(30)
     DEF Init, IInv, TypeOK, OwnerInv, ThiefInv, HeldInv, TakenInv, Bottom, Items

\* push() writes a slot that no index of the queue has.
LEMMA PushIInv == ASSUME IInv, push PROVE IInv'
<1>1. /\ Bottom = bottom /\ Bottom' = bottom + 1 /\ top' = top /\ bottom < top + Capacity
      /\ bottom' = bottom /\ bottom \in Nat /\ top \in Nat /\ top <= bottom
  BY CapacityAssumption, SMT DEF IInv, TypeOK, OwnerInv, push, Full, Bottom
<1>2. Slot(bottom) \in 0 .. Capacity - 1
  BY <1>1, SlotType
<1>3. /\ buffer'[Slot(bottom)] = pushed + 1
      /\ \A i \in top .. bottom - 1 : buffer'[Slot(i)] = buffer[Slot(i)]
  <2>1. \A i \in top .. bottom - 1 : Slot(i) # Slot(bottom) /\ Slot(i) \in 0 .. Capacity - 1
    BY <1>1, SlotDistinct, SlotType, CapacityAssumption, SMT
  <2> QED  BY <1>2, <2>1, SMT DEF push, IInv, TypeOK
<1>a. pushed' = pushed + 1 /\ thief' = thief /\ taken' = taken /\ pushed < MaxPush /\ pushed \in Nat
  BY MaxPushAssumption, SMT DEF push, IInv, TypeOK
<1>4. TypeOK'
  <2>1. buffer' \in [0 .. Capacity - 1 -> 0 .. MaxPush]
    BY <1>2, <1>a, MaxPushAssumption, SMT DEF push, IInv, TypeOK
  <2>2. owner' \in OwnerState
    <3>1. owner \in OwnerState
      BY DEF IInv, TypeOK
    <3>2. owner' = [owner EXCEPT !.pc = "publish"]
      BY DEF push
    <3> QED  BY <3>1, <3>2
  <2>3. bottom' \in Nat /\ top' \in Nat /\ pushed' \in 0 .. MaxPush /\ Bottom' <= top' + Capacity
    BY <1>1, <1>a, CapacityAssumption, MaxPushAssumption, SMT
  <2> QED  BY <2>1, <2>2, <2>3, <1>a DEF IInv, TypeOK
<1>5. OwnerInv'
  BY <1>1, SMT DEF IInv, TypeOK, OwnerInv, push
<1>6. ThiefInv'
  <2> SUFFICES ASSUME NEW h \in Thieves
               PROVE  /\ thief[h].t <= top
                      /\ thief[h].pc \in {"read", "cas"} /\ thief[h].t = top => top < bottom + 1
                      /\ thief[h].pc = "cas" /\ thief[h].t = top => thief[h].val = buffer'[Slot(top)]
    BY <1>1, <1>a DEF ThiefInv
  <2>1. top < bottom => buffer'[Slot(top)] = buffer[Slot(top)]
    BY <1>1, <1>3, SMT
  <2> QED  BY <1>1, <2>1, SMT DEF IInv, ThiefInv
<1>7. HeldInv'
  <2>1. \A i \in top .. bottom - 1 : buffer'[Slot(i)] \in 1 .. pushed /\ taken[buffer'[Slot(i)]] = 0
    BY <1>1, <1>3 DEF IInv, HeldInv
  <2>2. \A i, j \in top .. bottom - 1 : i < j => buffer'[Slot(i)] # buffer'[Slot(j)]
    BY <1>1, <1>3 DEF IInv, HeldInv
  <2>3. pushed + 1 \in Items /\ taken[pushed + 1] = 0
    BY <1>a, MaxPushAssumption, SMT DEF IInv, TakenInv, Items
  <2>4. \A i \in top .. bottom : i = bottom \/ i \in top .. bottom - 1
    BY <1>1, SMT
  <2>5. \A i \in top .. bottom : buffer'[Slot(i)] \in 1 .. pushed + 1 /\ taken[buffer'[Slot(i)]] = 0
    BY <1>3, <1>a, <2>1, <2>3, <2>4, SMT
  <2>6. ASSUME NEW i \in top .. bottom, NEW j \in top .. bottom, i < j
        PROVE  buffer'[Slot(i)] # buffer'[Slot(j)]
    <3>1. i \in top .. bottom - 1
      BY <2>6, <1>1, SMT
    <3>2. buffer'[Slot(i)] # pushed + 1
      BY <3>1, <2>1, <1>a, SMT
    <3> QED  BY <2>2, <2>4, <2>6, <3>1, <3>2, <1>3
  <2> QED  BY <1>1, <1>a, <2>5, <2>6, SMT DEF HeldInv
<1>8. TakenInv'
  <2> SUFFICES ASSUME NEW k \in Items
               PROVE  /\ taken[k] <= 1
                      /\ k > pushed + 1 => taken[k] = 0
                      /\ k <= pushed + 1 =>
                           taken[k] = 1 \/ \E i \in top .. bottom : buffer'[Slot(i)] = k
    BY <1>1, <1>a, SMT DEF TakenInv
  <2>1. taken[k] <= 1 /\ (k > pushed + 1 => taken[k] = 0)
    BY <1>a, MaxPushAssumption, SMT DEF IInv, TakenInv, Items
  <2>2. CASE k = pushed + 1
    BY <2>1, <2>2, <1>1, <1>3, SMT
  <2>3. CASE k <= pushed
    BY <2>1, <2>3, <1>1, <1>3, SMT DEF IInv, TakenInv
  <2> QED  BY <2>1, <2>2, <2>3, <1>a, MaxPushAssumption, SMT DEF Items
<1> QED  BY <1>4, <1>5, <1>6, <1>7, <1>8 DEF IInv

\* The steps of the owner that take nothing leave the queue as it is.
LEMMA OwnerIInv == ASSUME IInv, publish \/ pop \/ pop_store \/ pop_restore PROVE IInv'
<1>1. Bottom' = Bottom /\ top' = top /\ buffer' = buffer /\ thief' = thief /\ taken' = taken /\ pushed' = pushed
  BY SMT DEF IInv, TypeOK, OwnerInv, Bottom, publish, pop, pop_store, pop_restore, Restored
<1>2. TypeOK'
  BY <1>1, SMT DEF IInv, TypeOK, publish, pop, pop_store, pop_restore, Restored
<1>3. OwnerInv'
  BY <1>1, SMT DEF IInv, TypeOK, OwnerInv, publish, pop, pop_store, pop_restore, Restored
<1>4. ThiefInv' /\ HeldInv' /\ TakenInv'
  BY <1>1 DEF IInv, ThiefInv, HeldInv, TakenInv
<1> QED  BY <1>2, <1>3, <1>4 DEF IInv

\* pop() of an item that is not the last takes the one at the bottom.
LEMMA PopLoadIInv == ASSUME IInv, pop_load PROVE IInv'
<1>0. /\ owner.pc = "load" /\ owner.newb = bottom /\ bottom \in Nat /\ top \in Nat
      /\ top <= bottom + 1 /\ Bottom = bottom + 1
      /\ bottom' = bottom /\ top' = top /\ buffer' = buffer /\ thief' = thief /\ pushed' = pushed
      /\ pushed \in Nat /\ pushed <= MaxPush
  BY MaxPushAssumption, SMT DEF IInv, TypeOK, OwnerInv, Bottom, pop_load
<1>1. CASE top > owner.newb \/ IsLast
  <2>1. Bottom' = Bottom /\ taken' = taken
    BY <1>0, <1>1, SMT DEF pop_load, Bottom, IInv, TypeOK
  <2>2. OwnerInv' /\ TypeOK'
    BY <1>0, <1>1, <2>1, SMT DEF pop_load, IInv, OwnerInv, TypeOK, IsLast
  <2> QED  BY <1>0, <2>1, <2>2, SMTT(30) DEF IInv, ThiefInv, HeldInv, TakenInv
<1>2. CASE ~(top > owner.newb) /\ ~IsLast
  <2> DEFINE item == buffer[Slot(bottom)]
  <2>1. /\ Bottom' = bottom /\ top < bottom /\ owner' = [owner EXCEPT !.pc = "idle"]
        /\ taken' = [taken EXCEPT ![item] = @ + 1]
    BY <1>0, <1>2, SMT DEF pop_load, Bottom, IsLast, Take, IInv, TypeOK
  <2>2. bottom \in top .. Bottom - 1 /\ \A i \in top .. bottom - 1 : i \in top .. Bottom - 1 /\ i < bottom
    BY <1>0, <2>1, SMT
  <2>3. item \in 1 .. pushed /\ item \in Items /\ taken[item] = 0
    BY <2>2, <1>0, MaxPushAssumption, SMT DEF IInv, HeldInv, Items
  <2>4. taken \in [Items -> Nat]
    BY DEF IInv, TypeOK
  <2> HIDE DEF item
  <2>5. taken'[item] = 1 /\ \A k \in Items : k # item => taken'[k] = taken[k]
    BY <2>1, <2>3, <2>4, SMT
  <2>6. \A i \in top .. bottom - 1 : buffer[Slot(i)] # item
    BY <2>2 DEF IInv, HeldInv, item
  <2>7. TypeOK' /\ OwnerInv'
    <3>1. taken' \in [Items -> Nat]
      BY <2>1, <2>3, <2>4, SMT
    <3>2. owner' \in OwnerState
      BY <2>1 DEF IInv, TypeOK
    <3>3. owner'.pc = "idle"
      BY <2>1 DEF IInv, TypeOK
    <3>4. Bottom' <= top' + Capacity /\ top' <= Bottom'
      BY <1>0, <2>1, CapacityAssumption, SMT DEF IInv, TypeOK
    <3> QED  BY <1>0, <3>1, <3>2, <3>3, <3>4 DEF IInv, TypeOK, OwnerInv
  <2>8. ThiefInv'
    BY <1>0, <2>1, SMT DEF IInv, TypeOK, ThiefInv
  <2>9. HeldInv'
    <3>1. \A i \in top .. bottom - 1 : buffer[Slot(i)] \in 1 .. pushed /\ buffer[Slot(i)] \in Items
      BY <2>2, <1>0, MaxPushAssumption, SMT DEF IInv, HeldInv, Items
    <3> QED  BY <1>0, <2>1, <2>2, <2>5, <2>6, <3>1, SMTT(30) DEF IInv, HeldInv
  <2>10. TakenInv'
    <3> SUFFICES ASSUME NEW k \in Items
                 PROVE  /\ taken'[k] <= 1
                        /\ k > pushed => taken'[k] = 0
                        /\ k <= pushed => taken'[k] = 1 \/ \E i \in top .. bottom - 1 : buffer[Slot(i)] = k
      BY <1>0, <2>1 DEF TakenInv
    <3>1. CASE k = item
      BY <3>1, <2>3, <2>5, <1>0, SMT
    <3>2. CASE k # item
      <4>1. taken'[k] <= 1 /\ (k > pushed => taken'[k] = 0)
        BY <3>2, <2>5 DEF IInv, TakenInv
      <4>2. k <= pushed => taken'[k] = 1 \/ \E i \in top .. Bottom - 1 : buffer[Slot(i)] = k
        BY <3>2, <2>5 DEF IInv, TakenInv
      <4>3. \A i \in top .. Bottom - 1 : i = bottom \/ i \in top .. bottom - 1
        BY <1>0, SMT
      <4> QED  BY <4>1, <4>2, <4>3, <3>2 DEF item
    <3> QED  BY <3>1, <3>2
  <2> QED  BY <2>7, <2>8, <2>9, <2>10 DEF IInv
<1> QED  BY <1>1, <1>2

\* Whoever wins the compare-and-swap of _top takes the item at the top.
LEMMA TakeTop ==
  ASSUME IInv, top < Bottom, top' = top + 1, Bottom' = Bottom, buffer' = buffer, pushed' = pushed,
         Take(buffer[Slot(top)])
  PROVE  HeldInv' /\ TakenInv' /\ taken' \in [Items -> Nat]
<1> DEFINE item == buffer[Slot(top)]
<1>0. top \in Nat /\ Bottom \in Nat /\ pushed \in Nat /\ pushed <= MaxPush /\ taken \in [Items -> Nat]
  BY MaxPushAssumption, SMT DEF IInv, TypeOK, Bottom
<1>1. top \in top .. Bottom - 1 /\ \A i \in top + 1 .. Bottom - 1 : i \in top .. Bottom - 1 /\ top < i
  BY <1>0, SMT
<1>2. item \in 1 .. pushed /\ item \in Items /\ taken[item] = 0
  BY <1>0, <1>1, MaxPushAssumption, SMT DEF IInv, HeldInv, Items
<1>3. taken' = [taken EXCEPT ![item] = @ + 1]
  BY DEF Take
<1> HIDE DEF item
<1>4. taken' \in [Items -> Nat] /\ taken'[item] = 1 /\ \A k \in Items : k # item => taken'[k] = taken[k]
  BY <1>0, <1>2, <1>3, SMT
<1>5. \A i \in top + 1 .. Bottom - 1 : buffer[Slot(i)] # item
  BY <1>1 DEF IInv, HeldInv, item
<1>6. HeldInv'
  <2>1. \A i \in top + 1 .. Bottom - 1 : buffer[Slot(i)] \in 1 .. pushed /\ buffer[Slot(i)] \in Items
    BY <1>0, <1>1, MaxPushAssumption, SMT DEF IInv, HeldInv, Items
  <2> QED  BY <1>1, <1>4, <1>5, <2>1, SMTT(30) DEF IInv, HeldInv
<1>7. TakenInv'
  <2> SUFFICES ASSUME NEW k \in Items
               PROVE  /\ taken'[k] <= 1
                      /\ k > pushed => taken'[k] = 0
                      /\ k <= pushed =>
                           taken'[k] = 1 \/ \E i \in top + 1 .. Bottom - 1 : buffer[Slot(i)] = k
    BY DEF TakenInv
  <2>1. CASE k = item
    BY <2>1, <1>0, <1>2, <1>4, SMT
  <2>2. CASE k # item
    <3>1. taken'[k] <= 1 /\ (k > pushed => taken'[k] = 0)
      BY <2>2, <1>4 DEF IInv, TakenInv
    <3>2. k <= pushed => taken'[k] = 1 \/ \E i \in top .. Bottom - 1 : buffer[Slot(i)] = k
      BY <2>2, <1>4 DEF IInv, TakenInv
    <3>3. \A i \in top .. Bottom - 1 : i = top \/ i \in top + 1 .. Bottom - 1
      BY <1>0, SMT
    <3> QED  BY <3>1, <3>2, <3>3, <2>2 DEF item
  <2> QED  BY <2>1, <2>2
<1> QED  BY <1>4, <1>6, <1>7

\* pop() of the last item, against the thieves.
LEMMA PopCasIInv == ASSUME IInv, pop_cas PROVE IInv'
<1>0. /\ owner.pc = "cas" /\ owner.newb = bottom /\ bottom \in Nat /\ top \in Nat
      /\ bottom <= top /\ top <= bottom + 1 /\ Bottom = bottom + 1 /\ Bottom' = bottom + 1
      /\ bottom' = bottom /\ buffer' = buffer /\ thief' = thief /\ pushed' = pushed
  BY SMT DEF IInv, TypeOK, OwnerInv, Bottom, pop_cas
<1>1. /\ owner' \in OwnerState
      /\ owner'.pc = "restore" /\ owner'.newb = bottom
  BY <1>0 DEF pop_cas, IInv, TypeOK
<1>2. CASE top = owner.newb
  <2>1. top' = top + 1 /\ Take(buffer[Slot(top)]) /\ top < Bottom
    BY <1>0, <1>2, SMT DEF pop_cas
  <2>2. HeldInv' /\ TakenInv' /\ taken' \in [Items -> Nat]
    BY <1>0, <2>1, TakeTop
  <2>3. OwnerInv' /\ TypeOK'
    BY <1>0, <1>1, <1>2, <2>1, <2>2, CapacityAssumption, SMT DEF IInv, OwnerInv, TypeOK
  <2>4. ThiefInv'
    BY <1>0, <2>1, SMT DEF IInv, TypeOK, ThiefInv
  <2> QED  BY <2>2, <2>3, <2>4 DEF IInv
<1>3. CASE top # owner.newb
  <2>1. top' = top /\ taken' = taken /\ top = bottom + 1
    BY <1>0, <1>3, SMT DEF pop_cas
  <2>2. OwnerInv' /\ TypeOK'
    BY <1>0, <1>1, <2>1, SMT DEF IInv, OwnerInv, TypeOK
  <2> QED  BY <1>0, <2>1, <2>2, SMTT(30) DEF IInv, ThiefInv, HeldInv, TakenInv
<1> QED  BY <1>2, <1>3

\* The steps of steal() before its compare-and-swap change the thief only.
LEMMA StealIInv ==
  ASSUME IInv, NEW h \in Thieves, steal(h) \/ steal_check(h) \/ steal_read(h) PROVE IInv'
<1>0. /\ bottom \in Nat /\ top \in Nat /\ bottom <= Bottom /\ Bottom' = Bottom
      /\ UNCHANGED <<bottom, top, buffer, owner, pushed, taken>>
  BY SMT DEF IInv, TypeOK, Bottom, steal, steal_check, steal_read
<1>1. thief' \in [Thieves -> ThiefState]
  <2>1. thief \in [Thieves -> ThiefState]
    BY DEF IInv, TypeOK
  <2>2. CASE steal(h)
    <3>1. [pc |-> "check", t |-> top, val |-> thief[h].val] \in ThiefState
      BY <1>0, <2>1, SMT
    <3> QED  BY <2>1, <2>2, <3>1 DEF steal
  <2>3. CASE steal_check(h)
    BY <1>0, <2>1, <2>3, SMT DEF steal_check
  <2>4. CASE steal_read(h)
    <3>1. thief[h].t \in Nat
      BY <2>1
    <3>2. buffer[Slot(thief[h].t)] \in 0 .. MaxPush
      BY <3>1, SlotType DEF IInv, TypeOK
    <3>3. [pc |-> "cas", t |-> thief[h].t, val |-> buffer[Slot(thief[h].t)]] \in ThiefState
      BY <2>1, <3>2, SMT
    <3> QED  BY <2>1, <2>4, <3>3 DEF steal_read
  <2> QED  BY <2>2, <2>3, <2>4
<1>2. ThiefInv'
  <2>0. thief \in [Thieves -> ThiefState]
    BY DEF IInv, TypeOK
  <2> SUFFICES ASSUME NEW g \in Thieves
               PROVE  /\ thief'[g].t <= top
                      /\ thief'[g].pc \in {"read", "cas"} /\ thief'[g].t = top => top < Bottom
                      /\ thief'[g].pc = "cas" /\ thief'[g].t = top => thief'[g].val = buffer[Slot(top)]
    BY <1>0 DEF ThiefInv
  <2>1. CASE g # h
    <3>1. thief'[g] = thief[g]
      BY <2>0, <2>1 DEF steal, steal_check, steal_read
    <3> QED  BY <3>1 DEF IInv, ThiefInv
  <2>2. CASE g = h /\ steal(h)
    BY <2>0, <2>2, <1>0, SMT DEF steal
  <2>3. CASE g = h /\ steal_check(h)
    <3>1. /\ thief'[h].t = thief[h].t /\ thief[h].t \in Nat /\ thief[h].t <= top
          /\ thief'[h].pc = IF thief[h].t >= bottom THEN "idle" ELSE "read"
      BY <2>0, <2>3, SMT DEF steal_check, IInv, ThiefInv
    <3>2. Bottom \in Nat
      BY <1>0, SMT DEF Bottom
    <3> QED  BY <1>0, <2>3, <3>1, <3>2, SMT
  <2>4. CASE g = h /\ steal_read(h)
    BY <2>0, <2>4, <1>0, SMT DEF steal_read, IInv, ThiefInv
  <2> QED  BY <2>1, <2>2, <2>3, <2>4
<1> QED  BY <1>0, <1>1, <1>2 DEF IInv, TypeOK, OwnerInv, HeldInv, TakenInv

\* steal() wins the compare-and-swap only if nobody took the item it read.
LEMMA StealCasIInv == ASSUME IInv, NEW h \in Thieves, steal_cas(h) PROVE IInv'
<1>0. /\ bottom \in Nat /\ top \in Nat /\ Bottom' = Bottom /\ Bottom \in Nat
      /\ UNCHANGED <<bottom, buffer, owner, pushed>>
  BY SMT DEF IInv, TypeOK, Bottom, steal_cas
<1>1. thief \in [Thieves -> ThiefState]
  BY DEF IInv, TypeOK
<1>2. CASE CasWins(h)
  <2>1. /\ top' = top + 1 /\ top < Bottom /\ Take(buffer[Slot(top)])
        /\ thief' = [thief EXCEPT ![h].pc = "idle"]
    BY <1>1, <1>2 DEF steal_cas, CasWins, IInv, ThiefInv
  <2>2. HeldInv' /\ TakenInv' /\ taken' \in [Items -> Nat]
    BY <1>0, <2>1, TakeTop
  <2>3. thief' \in [Thieves -> ThiefState]
    BY <1>1, <2>1, SMT
  <2>4. top' <= Bottom' /\ Bottom' <= top' + Capacity /\ top' \in Nat
    BY <1>0, <2>1, CapacityAssumption, SMT DEF IInv, TypeOK
  <2>5. TypeOK'
    BY <1>0, <2>2, <2>3, <2>4 DEF IInv, TypeOK
  <2>6. owner.pc # "restore"
    BY <1>0, <2>1, SMT DEF IInv, OwnerInv, Bottom
  <2>7. OwnerInv'
    BY <1>0, <2>1, <2>4, <2>6, SMT DEF IInv, OwnerInv
  <2>8. \A g \in Thieves : thief'[g].t = thief[g].t /\ thief[g].t \in Nat /\ thief[g].t <= top
    BY <1>1, <2>1, SMT DEF IInv, ThiefInv
  <2>9. ThiefInv'
    BY <1>0, <2>1, <2>8, SMT DEF ThiefInv
  <2> QED  BY <2>2, <2>5, <2>7, <2>9 DEF IInv
<1>3. CASE ~CasWins(h)
  <2>1. top' = top /\ taken' = taken /\ thief' = [thief EXCEPT ![h] = [pc |-> "check", t |-> top, val |-> @.val]]
    BY <1>3 DEF steal_cas
  <2>2. thief' \in [Thieves -> ThiefState]
    <3>1. [pc |-> "check", t |-> top, val |-> thief[h].val] \in ThiefState
      BY <1>0, <1>1, SMT
    <3> QED  BY <1>1, <2>1, <3>1
  <2>3. ThiefInv'
    <3>1. thief'[h].t = top /\ thief'[h].pc = "check"
      BY <1>1, <2>1
    <3>2. \A g \in Thieves : g # h => thief'[g] = thief[g]
      BY <1>1, <2>1
    <3>3. top <= top
      BY <1>0, SMT
    <3> QED  BY <1>0, <2>1, <3>1, <3>2, <3>3 DEF IInv, ThiefInv
  <2> QED  BY <1>0, <2>1, <2>2, <2>3 DEF IInv, TypeOK, OwnerInv, HeldInv, TakenInv
<1> QED  BY <1>2, <1>3

\* Every step of the owner and of the thieves keeps the invariant.
LEMMA NextIInv == IInv /\ [Next]_vars => IInv'
<1> SUFFICES ASSUME IInv, [Next]_vars PROVE IInv'
  OBVIOUS
<1>1. CASE UNCHANGED vars
  BY <1>1, SMTT(30) DEF vars, IInv, TypeOK, OwnerInv, ThiefInv, HeldInv, TakenInv, Bottom
<1>2. CASE Next
  BY <1>2, PushIInv, OwnerIInv, PopLoadIInv, PopCasIInv, StealIInv, StealCasIInv DEF Next
<1> QED  BY <1>1, <1>2

\* The invariant holds in every reachable state.
LEMMA Invariance == Spec => []IInv
  BY InitIInv, NextIInv, PTL DEF Spec

\* Whatever the capacity and the number of thieves, pop() and steal() never give the same
\* item to two callers.
THEOREM ItemsTakenOnce == Spec => []TakenOnce
<1>1. IInv => TakenOnce
  BY DEF IInv, TakenInv, TakenOnce
<1> QED  BY <1>1, Invariance, PTL

\* Whatever the capacity and the number of thieves, an item that push() accepted stays in
\* the queue until pop() or steal() returns it.
THEOREM NoItemLost == Spec => []NothingLost
<1>1. IInv => NothingLost
  <2> SUFFICES ASSUME IInv, NEW k \in 1 .. pushed PROVE k \in Held \/ taken[k] = 1
    BY DEF NothingLost
  <2>1. k \in Items /\ k <= pushed
    BY MaxPushAssumption, SMT DEF IInv, TypeOK, Items
  <2> QED  BY <2>1 DEF IInv, TakenInv, Held
<1> QED  BY <1>1, Invariance, PTL

\* The queue keeps its types and never holds more than its capacity: push() cannot
\* overwrite an item that is still there.
THEOREM QueueTypeOK == Spec => []TypeOK
<1>1. IInv => TypeOK
  BY DEF IInv
<1> QED  BY <1>1, Invariance, PTL
=============================================================================

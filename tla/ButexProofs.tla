----------------------------- MODULE ButexProofs -----------------------------
(***************************************************************************)
(* A thread in butex_wait is made to run again exactly once, whichever of  *)
(* wakers, timer, interrupters and itself race for its waiter, and nobody  *)
(* uses the waiter after butex_wait returned: for any number of threads,   *)
(* words, wakers and interrupters.                                         *)
(***************************************************************************)
EXTENDS Butex, SequenceTheorems, TLAPS

-----------------------------------------------------------------------------
(* The invariant is about the whole, and about each waiter.                 *)

\* What is said of the lists, the erasers and the locks.
Whole == /\ ButexTypeOK /\ Lists /\ NoMissedWake
         /\ \A e \in Erasers : Erasing(e)
         /\ \A w \in Waiters : Appending(w)

\* What is said of the waiter w.
Once(w) == /\ w \in Bthreads => WokenOnce(w)
           /\ w \in Pthreads => SignalledOnce(w)
Zero(w) == bw[w].pc = "out" /\ bw[w].rc = "0" => bw[w].woken
Mine(w) == /\ Contained(w) /\ Place(w) /\ Timed(w) /\ Held(w) /\ Flagged(w) /\ Excused(w)
           /\ Once(w) /\ InUse(w) /\ Zero(w)

\* The invariant has these two parts.
LEMMA Parts == ButexInv <=> Whole /\ \A w \in Waiters : Mine(w)
<1>1. ASSUME ButexInv PROVE Whole /\ \A w \in Waiters : Mine(w)
  BY <1>1, Zenon DEF ButexInv, ButexSafe, Whole, Mine, Once, Zero, Sound, WokenExactlyOnce, SignalledExactlyOnce,
              NoUseAfterReturn, ZeroMeansWoken
<1>2. ASSUME Whole, \A w \in Waiters : Mine(w) PROVE ButexInv
  BY <1>2, Zenon DEF ButexInv, ButexSafe, Whole, Mine, Once, Zero, Sound, WokenExactlyOnce, SignalledExactlyOnce,
              NoUseAfterReturn, ZeroMeansWoken, ContainerIsButex, Erasing, Waiters
<1> QED BY <1>1, <1>2, Zenon

\* The same in the next state.
LEMMA PartsNext == Whole' /\ (\A w \in Waiters : Mine(w)') => ButexInv'
<1> SUFFICES ASSUME Whole', \A w \in Waiters : Mine(w)' PROVE ButexInv'
  OBVIOUS
<1> QED
  BY Zenon DEF ButexInv, ButexSafe, Whole, Mine, Once, Zero, Sound, WokenExactlyOnce, SignalledExactlyOnce,
         NoUseAfterReturn, ZeroMeansWoken, ContainerIsButex, Erasing, Waiters

\* A step does not concern the waiter u: its thread, the lists it is in and the erasers that
\* use it stay as they are.
Untouched(u) == /\ bw'[u] = bw[u]
                /\ \A b \in Butexes : u \in Range(waiters'[b]) <=> u \in Range(waiters[b])
                /\ \A k \in Wakers : u \in Range(wk'[k].batch) <=> u \in Range(wk[k].batch)
                /\ \A e \in Erasers : er'[e].w = u \/ er[e].w = u \/ e = u => er'[e] = er[e]

\* What is said of such a waiter stays true.
LEMMA Alone == ASSUME NEW u \in Waiters, Mine(u), Untouched(u) PROVE Mine(u)'
<1>1. Resumers(u)' = Resumers(u) BY Zenon DEF Resumers, Untouched
<1>2. u \in Erasers /\ er'[u] = er[u] /\ bw'[u] = bw[u] /\ Interrupters \subseteq Erasers
  BY Zenon DEF Untouched, Erasers
<1>3. \A i \in Interrupters : Holds(i, u)' <=> Holds(i, u) BY <1>2, Zenon DEF Untouched, Holds
<1>4. Contained(u)' /\ Place(u)' /\ Timed(u)' BY <1>2, Zenon DEF Mine, Untouched, Contained, Place, Timed
<1>5. Held(u)' BY <1>2, <1>3, Zenon DEF Mine, Held
<1>6. Flagged(u)' BY <1>2, <1>3, Zenon DEF Mine, Flagged, Untouched, Holds
<1>7. Excused(u)' /\ Zero(u)' BY <1>2, Zenon DEF Mine, Excused, Up, Zero
<1>8. Once(u)' BY <1>1, <1>2 DEF Mine, Once, WokenOnce, SignalledOnce, OneResumer
<1>9. InUse(u)' BY <1>2, Zenon DEF Mine, InUse, Untouched
<1> QED BY <1>4, <1>5, <1>6, <1>7, <1>8, <1>9, Zenon DEF Mine

-----------------------------------------------------------------------------
(* Steps that concern one waiter and leave the lists alone.                 *)

\* At most the thread w moves ...
Moves(w) == /\ bw' \in [Waiters -> Thread] /\ \A u \in Waiters : u # w => bw'[u] = bw[u]
            /\ UNCHANGED <<value, waiters, waiter_lock, wk>>
\* ... and erasers that use w, or are about to.
Concerns(w) == /\ er' \in [Erasers -> Eraser]
               /\ \A e \in Erasers : \/ er'[e] = er[e]
                                     \/ {er[e].w, er'[e].w} \subseteq {w, Null} /\ (e \in Waiters => e = w)
\* A waiter that is queued, or is about to be, goes on waiting for the same word.
Keeps(w) ==
  (\E b \in Butexes : w \in Range(waiters[b])) \/ bw'[w].pc = "append" =>
    /\ bw'[w].butex = bw[w].butex /\ bw'[w].expected = bw[w].expected
    /\ (bw'[w].moved <=> bw[w].moved) /\ (bw'[w].pc = "append" => bw[w].pc = "append")

\* What is queued is a waiter.
LEMMA QueuedIsWaiter ==
  ASSUME NEW q \in [Butexes -> Seq(Waiters)], NEW b \in Butexes, NEW u \in Range(q[b]) PROVE u \in Waiters
<1>1. PICK i \in DOMAIN q[b] : q[b][i] = u BY Zenon DEF Range
<1>2. q[b] \in Seq(Waiters) BY Zenon
<1> QED BY <1>1, <1>2, SMTT(30)

\* Such a step preserves the invariant if it preserves what is said of w and of the erasers.
LEMMA OneWaiter ==
  ASSUME ButexConstants, ButexInv, NEW w \in Waiters, Moves(w), Concerns(w), Keeps(w),
         calls' \in 0 .. MaxCalls, \A e \in Erasers : Erasing(e)', Mine(w)'
  PROVE  ButexInv'
<1>1. Whole /\ \A u \in Waiters : Mine(u) BY Parts, Zenon
<1>2. bw' \in [Waiters -> Thread] /\ \A u \in Waiters : u # w => bw'[u] = bw[u]
  BY Zenon DEF Moves
<1>3. ASSUME NEW u \in Waiters, u # w PROVE Mine(u)'
  <2>1. u # Null BY Zenon DEF ButexConstants
  <2>2. Untouched(u) BY <1>2, <1>3, <2>1, Zenon DEF Untouched, Moves, Concerns
  <2> QED BY <1>1, <2>2, Alone, Zenon
<1>4. ButexTypeOK' BY <1>1, <1>2, Zenon DEF Whole, ButexTypeOK, Moves, Concerns
<1>5. Lists' BY <1>1, Zenon DEF Whole, Lists, Moves
<1>6. NoMissedWake'
  <2> SUFFICES ASSUME NEW b \in Butexes, NEW u \in Range(waiters[b]), bw'[u].butex = b, ~bw'[u].moved,
                      value[b] # bw'[u].expected
               PROVE  Stored(b)'
    BY Zenon DEF NoMissedWake, Moves, Unmatched
  <2>1. u \in Waiters BY <1>1, QueuedIsWaiter, Zenon DEF Whole, ButexTypeOK
  <2>2. bw[u].butex = b /\ ~bw[u].moved /\ bw[u].expected = bw'[u].expected BY <1>2, <2>1, Zenon DEF Keeps
  <2> QED BY <1>1, <2>2, Zenon DEF Whole, NoMissedWake, Unmatched, Stored, Moves
<1>7. ASSUME NEW u \in Waiters PROVE Appending(u)'
  <2>1. \A v \in Waiters : bw'[v].pc = "append" => /\ bw[v].pc = "append" /\ bw'[v].butex = bw[v].butex
                                                   /\ bw'[v].expected = bw[v].expected
    BY <1>2, Zenon DEF Keeps
  <2> QED BY <1>1, <2>1 DEF Whole, Appending, Unmatched, Stored, Moves
<1> QED BY <1>3, <1>4, <1>5, <1>6, <1>7, PartsNext, Zenon DEF Whole

\* The same when no eraser moves either.
LEMMA ThreadStep ==
  ASSUME ButexConstants, ButexInv, NEW w \in Waiters, Moves(w), UNCHANGED er, Keeps(w),
         calls' \in 0 .. MaxCalls, Mine(w)'
  PROVE  ButexInv'
<1>1. Whole BY Parts, Zenon
<1>2. Concerns(w) BY <1>1, Zenon DEF Concerns, Whole, ButexTypeOK
<1>3. \A e \in Erasers : Erasing(e)' BY <1>1, Zenon DEF Whole, Erasing
<1> QED BY <1>2, <1>3, OneWaiter, Zenon

\* Lists and erasers that do not move say the same of w.
LEMMA SameAround ==
  ASSUME NEW w \in Waiters, UNCHANGED <<waiters, wk, er>>
  PROVE  /\ Resumers(w)' = Resumers(w)
         /\ \A i \in Interrupters : (Holds(i, w)' <=> Holds(i, w)) /\ er'[i] = er[i]
         /\ er'[w] = er[w]
BY Zenon DEF Resumers, Holds

\* The thread of a waiter in the state of the invariant.
LEMMA ThreadType == ASSUME ButexInv, NEW w \in Waiters PROVE bw[w] \in Thread /\ Whole /\ Mine(w)
BY Parts, Zenon DEF Whole, ButexTypeOK

\* A thread that has one field changed is a thread.
LEMMA Update ==
  ASSUME NEW t \in Thread
  PROVE  /\ \A x \in {"out", "check", "remained", "append", "sleep", "unsleep", "exchange", "return",
                      "pthread", "wait"} : [t EXCEPT !.pc = x] \in Thread
         /\ \A x \in Butexes \cup {Null} : [t EXCEPT !.butex = x] \in Thread
         /\ \A x \in Nat : [t EXCEPT !.expected = x] \in Thread /\ [t EXCEPT !.runnable = x] \in Thread
         /\ \A x \in {"none", "0", "EWOULDBLOCK", "ETIMEDOUT", "EINTR"} : [t EXCEPT !.rc = x] \in Thread
         /\ \A x \in Butexes \cup {Null, Wild} : [t EXCEPT !.container = x] \in Thread
         /\ \A x \in {"READY", "TIMEDOUT", "INTERRUPTED", "UNMATCHEDVALUE"} : [t EXCEPT !.state = x] \in Thread
         /\ \A x \in {"none", "scheduled", "running", "over"} : [t EXCEPT !.timer = x] \in Thread
         /\ \A x \in BOOLEAN : /\ [t EXCEPT !.timed = x] \in Thread /\ [t EXCEPT !.sig = x] \in Thread
                               /\ [t EXCEPT !.sleep_id = x] \in Thread
                               /\ [t EXCEPT !.interrupted = x] \in Thread
                               /\ [t EXCEPT !.current_waiter = x] \in Thread
                               /\ [t EXCEPT !.woken = x] \in Thread /\ [t EXCEPT !.moved = x] \in Thread
<1>1. \A x \in {"out", "check", "remained", "append", "sleep", "unsleep", "exchange", "return", "pthread",
                "wait"} : [t EXCEPT !.pc = x] \in Thread
  BY Zenon DEF Thread
<1>2. \A x \in Butexes \cup {Null} : [t EXCEPT !.butex = x] \in Thread BY Zenon DEF Thread
<1>3. \A x \in Nat : [t EXCEPT !.expected = x] \in Thread BY Zenon DEF Thread
<1>4. \A x \in Nat : [t EXCEPT !.runnable = x] \in Thread BY Zenon DEF Thread
<1>5. \A x \in {"none", "0", "EWOULDBLOCK", "ETIMEDOUT", "EINTR"} : [t EXCEPT !.rc = x] \in Thread BY Zenon DEF Thread
<1>6. \A x \in Butexes \cup {Null, Wild} : [t EXCEPT !.container = x] \in Thread BY Zenon DEF Thread
<1>7. \A x \in {"READY", "TIMEDOUT", "INTERRUPTED", "UNMATCHEDVALUE"} : [t EXCEPT !.state = x] \in Thread
  BY Zenon DEF Thread
<1>8. \A x \in {"none", "scheduled", "running", "over"} : [t EXCEPT !.timer = x] \in Thread BY Zenon DEF Thread
<1>9. \A x \in BOOLEAN : [t EXCEPT !.timed = x] \in Thread BY Zenon DEF Thread
<1>10. \A x \in BOOLEAN : [t EXCEPT !.sig = x] \in Thread BY Zenon DEF Thread
<1>11. \A x \in BOOLEAN : [t EXCEPT !.sleep_id = x] \in Thread BY Zenon DEF Thread
<1>12. \A x \in BOOLEAN : [t EXCEPT !.interrupted = x] \in Thread BY Zenon DEF Thread
<1>13. \A x \in BOOLEAN : [t EXCEPT !.current_waiter = x] \in Thread BY Zenon DEF Thread
<1>14. \A x \in BOOLEAN : [t EXCEPT !.woken = x] \in Thread BY Zenon DEF Thread
<1>15. \A x \in BOOLEAN : [t EXCEPT !.moved = x] \in Thread BY Zenon DEF Thread
<1> QED BY <1>1, <1>2, <1>3, <1>4, <1>5, <1>6, <1>7, <1>8, <1>9, <1>10, <1>11, <1>12, <1>13, <1>14, <1>15, Zenon

\* A waiter that is set up anew is a thread.
LEMMA FreshThread == ASSUME NEW t \in Thread PROVE Fresh(t) \in Thread
BY Update, Zenon DEF Fresh

\* Unscheduling the timer of a thread changes what is said of the timer.
LEMMA UnsleepIs ==
  ASSUME NEW t \in Thread
  PROVE  \E s \in BOOLEAN, m \in {"none", "scheduled", "running", "over"} :
           /\ Unsleep(t) = [t EXCEPT !.sleep_id = s, !.timer = m]
           /\ s <=> t.sleep_id /\ t.timer = "running"
           /\ m = IF t.sleep_id /\ t.timer = "scheduled" THEN "over" ELSE t.timer
<1> DEFINE s == t.sleep_id /\ t.timer = "running"
           m == IF t.sleep_id /\ t.timer = "scheduled" THEN "over" ELSE t.timer
<1>1. s \in BOOLEAN OBVIOUS
<1>2. m \in {"none", "scheduled", "running", "over"} BY Zenon DEF Thread
<1>3. Unsleep(t) = [t EXCEPT !.sleep_id = s, !.timer = m] BY Zenon DEF Unsleep
<1> QED BY <1>1, <1>2, <1>3, Zenon

\* butex_wait is called.
LEMMA butex_wait_call_Step == ASSUME ButexConstants, ButexInv, NEW w \in Waiters, NEW b \in Butexes, NEW x \in BOOLEAN, butex_wait_call(w, b, x) PROVE ButexInv'
<1>1. bw[w] \in Thread /\ Whole /\ Mine(w) /\ (w \in Bthreads <=> w \notin Pthreads)
  BY ThreadType, Zenon DEF ButexConstants, Waiters
<1>a. bw[w].pc = "out" BY <1>1, Zenon DEF butex_wait_call
<1> DEFINE t == [Fresh(bw[w]) EXCEPT !.pc = "check", !.butex = b, !.timed = x, !.expected = value[b], !.woken = FALSE]
<1>2. /\ Resumers(w)' = Resumers(w) /\ er'[w] = er[w] /\ UNCHANGED <<waiters, wk, er>>
      /\ \A i \in Interrupters : (Holds(i, w)' <=> Holds(i, w)) /\ er'[i] = er[i]
  BY SameAround, Zenon DEF butex_wait_call, queue
<1>v. value[b] \in Nat BY <1>1 DEF Whole, ButexTypeOK, ButexConstants
<1>f. Fresh(bw[w]) \in Thread BY <1>1, FreshThread, Zenon
<1>3. t \in Thread BY <1>f, Update, <1>v, Zenon
<1>4. bw' = [bw EXCEPT ![w] = t] BY Zenon DEF butex_wait_call, Fresh
<1>5. Moves(w) BY <1>1, <1>3, <1>4, Zenon DEF Moves, Whole, ButexTypeOK, butex_wait_call, queue
<1>6. bw'[w] = t BY <1>1, <1>4, Zenon DEF Whole, ButexTypeOK
<1>7. /\ bw'[w].pc = "check" /\ bw'[w].butex = b /\ bw'[w].expected = value[b]
      /\ bw'[w].timed = x /\ bw'[w].rc = bw[w].rc /\ bw'[w].container = Null
      /\ bw'[w].state = "READY" /\ bw'[w].sig = FALSE /\ bw'[w].sleep_id = FALSE
      /\ bw'[w].timer = "none" /\ bw'[w].interrupted = bw[w].interrupted
      /\ bw'[w].current_waiter = bw[w].current_waiter /\ bw'[w].runnable = bw[w].runnable
      /\ bw'[w].woken = FALSE /\ bw'[w].moved = FALSE
  BY <1>1, <1>6 DEF Thread, Fresh
<1>c0. Contained(w)' BY <1>1, <1>2, <1>7, <1>a, Zenon DEF Mine, Contained, Asleep
<1>c1. Place(w)' BY <1>1, <1>2, <1>7, <1>a, Zenon DEF Mine, Place
<1>c2. Timed(w)' BY <1>1, <1>2, <1>7, <1>a, Zenon DEF Mine, Timed
<1>c3. Held(w)' BY <1>1, <1>2, <1>7, <1>a, Zenon DEF Mine, Held
<1>c4. Flagged(w)' BY <1>1, <1>2, <1>7, <1>a, Zenon DEF Mine, Flagged
<1>c5. Excused(w)' BY <1>1, <1>2, <1>7, <1>a DEF Mine, Excused, Up, Once, WokenOnce
<1>c6. Once(w)' BY <1>1, <1>2, <1>7, <1>a, Zenon DEF Mine, Once, WokenOnce, SignalledOnce, OneResumer
<1>c7. InUse(w)' BY <1>1, <1>2, <1>7, <1>a, Zenon DEF Mine, InUse, Timed, Held, Holds
<1>c8. Zero(w)' BY <1>1, <1>2, <1>7, <1>a, Zenon DEF Mine, Zero
<1>8. Mine(w)' BY <1>c0, <1>c1, <1>c2, <1>c3, <1>c4, <1>c5, <1>c6, <1>c7, <1>c8, Zenon DEF Mine
<1>9. Keeps(w) BY <1>1, <1>7, <1>a, Zenon DEF Keeps, Mine, Contained, Asleep
<1>10. calls' \in 0 .. MaxCalls BY <1>1 DEF Whole, ButexTypeOK, butex_wait_call, ButexConstants
<1> QED BY <1>2, <1>5, <1>8, <1>9, <1>10, ThreadStep, Zenon

\* A bthread that waits publishes its waiter and leaves its worker.
LEMMA butex_wait_Step == ASSUME ButexConstants, ButexInv, NEW w \in Waiters, butex_wait(w) PROVE ButexInv'
<1>1. bw[w] \in Thread /\ Whole /\ Mine(w) /\ (w \in Bthreads <=> w \notin Pthreads)
  BY ThreadType, Zenon DEF ButexConstants, Waiters
<1>a. bw[w].pc = "check" /\ w \in Bthreads BY <1>1, Zenon DEF butex_wait
<1> DEFINE t == [bw[w] EXCEPT !.pc = "remained", !.current_waiter = TRUE]
<1>2. /\ Resumers(w)' = Resumers(w) /\ er'[w] = er[w] /\ UNCHANGED <<waiters, wk, er>>
      /\ \A i \in Interrupters : (Holds(i, w)' <=> Holds(i, w)) /\ er'[i] = er[i]
  BY SameAround, Zenon DEF butex_wait, queue
<1>3. t \in Thread BY <1>1, Update, Zenon
<1>4. bw' = [bw EXCEPT ![w] = t] BY Zenon DEF butex_wait
<1>5. Moves(w) BY <1>1, <1>3, <1>4, Zenon DEF Moves, Whole, ButexTypeOK, butex_wait, queue
<1>6. bw'[w] = t BY <1>1, <1>4, Zenon DEF Whole, ButexTypeOK
<1>7. /\ bw'[w].pc = "remained" /\ bw'[w].butex = bw[w].butex
      /\ bw'[w].expected = bw[w].expected /\ bw'[w].timed = bw[w].timed /\ bw'[w].rc = bw[w].rc
      /\ bw'[w].container = bw[w].container /\ bw'[w].state = bw[w].state
      /\ bw'[w].sig = bw[w].sig /\ bw'[w].sleep_id = bw[w].sleep_id
      /\ bw'[w].timer = bw[w].timer /\ bw'[w].interrupted = bw[w].interrupted
      /\ bw'[w].current_waiter = TRUE /\ bw'[w].runnable = bw[w].runnable
      /\ bw'[w].woken = bw[w].woken /\ bw'[w].moved = bw[w].moved
  BY <1>1, <1>6, Zenon DEF Thread
<1>c0. Contained(w)' BY <1>1, <1>2, <1>7, <1>a, Zenon DEF Mine, Contained, Asleep
<1>c1. Place(w)' BY <1>1, <1>2, <1>7, <1>a, Zenon DEF Mine, Place
<1>c2. Timed(w)' BY <1>1, <1>2, <1>7, <1>a, Zenon DEF Mine, Timed
<1>c3. Held(w)' BY <1>1, <1>2, <1>7, <1>a, Zenon DEF Mine, Held
<1>c4. Flagged(w)' BY <1>1, <1>2, <1>7, <1>a, Zenon DEF Mine, Flagged
<1>c5. Excused(w)' BY <1>1, <1>2, <1>7, <1>a, Zenon DEF Mine, Excused, Up
<1>c6. Once(w)' BY <1>1, <1>2, <1>7, <1>a, Zenon DEF Mine, Once, WokenOnce, SignalledOnce, OneResumer
<1>c7. InUse(w)' BY <1>1, <1>2, <1>7, <1>a, Zenon DEF Mine, InUse
<1>c8. Zero(w)' BY <1>1, <1>2, <1>7, <1>a, Zenon DEF Mine, Zero
<1>8. Mine(w)' BY <1>c0, <1>c1, <1>c2, <1>c3, <1>c4, <1>c5, <1>c6, <1>c7, <1>c8, Zenon DEF Mine
<1>9. Keeps(w) BY <1>1, <1>7, <1>a, Zenon DEF Keeps, Mine, Contained, Asleep
<1>10. calls' \in 0 .. MaxCalls BY <1>1, Zenon DEF Whole, ButexTypeOK, butex_wait
<1> QED BY <1>2, <1>5, <1>8, <1>9, <1>10, ThreadStep, Zenon

\* A worker continues a bthread that stands in its run queue.
LEMMA sched_Step == ASSUME ButexConstants, ButexInv, NEW w \in Waiters, sched(w) PROVE ButexInv'
<1>1. bw[w] \in Thread /\ Whole /\ Mine(w) /\ (w \in Bthreads <=> w \notin Pthreads)
  BY ThreadType, Zenon DEF ButexConstants, Waiters
<1>a. bw[w].pc = "sleep" /\ bw[w].runnable > 0 BY <1>1, Zenon DEF sched, InRunQueue
<1> DEFINE t == [bw[w] EXCEPT !.runnable = 0, !.pc = "unsleep"]
<1>2. /\ Resumers(w)' = Resumers(w) /\ er'[w] = er[w] /\ UNCHANGED <<waiters, wk, er>>
      /\ \A i \in Interrupters : (Holds(i, w)' <=> Holds(i, w)) /\ er'[i] = er[i]
  BY SameAround, Zenon DEF sched, queue
<1>g. Resumers(w) = {} /\ w \in Bthreads /\ bw[w].runnable = 1 BY <1>1, <1>a DEF Mine, Once, Place, WokenOnce
<1>h. /\ \A b \in Butexes : w \notin Range(waiters[b])
      /\ \A k \in Wakers : w \notin Range(wk[k].batch)
      /\ bw[w].container = Null
  <2>1. /\ \A b \in Butexes : w \notin Range(waiters[b])
        /\ \A k \in Wakers : w \notin Range(wk[k].batch)
    BY <1>g, Zenon DEF Resumers
  <2> QED BY <1>1, <1>a, <1>g, <2>1, Zenon DEF Mine, Contained, Asleep
<1>q. bw' = [bw EXCEPT ![w] = [bw[w] EXCEPT !.runnable = bw[w].runnable - 1, !.pc = "unsleep"]]
  BY Zenon DEF sched
<1>n. bw[w].runnable - 1 = 0 BY <1>g
<1>3. t \in Thread BY <1>1, Update, Zenon
<1>4. bw' = [bw EXCEPT ![w] = t] BY <1>n, <1>q, Zenon
<1>5. Moves(w) BY <1>1, <1>3, <1>4, Zenon DEF Moves, Whole, ButexTypeOK, sched, queue
<1>6. bw'[w] = t BY <1>1, <1>4, Zenon DEF Whole, ButexTypeOK
<1>7. /\ bw'[w].pc = "unsleep" /\ bw'[w].butex = bw[w].butex
      /\ bw'[w].expected = bw[w].expected /\ bw'[w].timed = bw[w].timed /\ bw'[w].rc = bw[w].rc
      /\ bw'[w].container = bw[w].container /\ bw'[w].state = bw[w].state
      /\ bw'[w].sig = bw[w].sig /\ bw'[w].sleep_id = bw[w].sleep_id
      /\ bw'[w].timer = bw[w].timer /\ bw'[w].interrupted = bw[w].interrupted
      /\ bw'[w].current_waiter = bw[w].current_waiter /\ bw'[w].runnable = 0
      /\ bw'[w].woken = bw[w].woken /\ bw'[w].moved = bw[w].moved
  BY <1>1, <1>6, Zenon DEF Thread
<1>c0. Contained(w)' BY <1>1, <1>2, <1>7, <1>a, <1>h, Zenon DEF Mine, Contained, Asleep
<1>c1. Place(w)' BY <1>1, <1>2, <1>7, <1>a, Zenon DEF Mine, Place
<1>c2. Timed(w)' BY <1>1, <1>2, <1>7, <1>a, Zenon DEF Mine, Timed
<1>c3. Held(w)' BY <1>1, <1>2, <1>7, <1>a, Zenon DEF Mine, Held
<1>c4. Flagged(w)' BY <1>1, <1>2, <1>7, <1>a, Zenon DEF Mine, Flagged
<1>c5. Excused(w)' BY <1>1, <1>2, <1>7, <1>a, <1>g, Zenon DEF Mine, Excused, Up
<1>c6. Once(w)' BY <1>1, <1>2, <1>7, <1>a, <1>g, Zenon DEF Mine, Once, WokenOnce, SignalledOnce, OneResumer
<1>c7. InUse(w)' BY <1>1, <1>2, <1>7, <1>a, <1>h, Zenon DEF Mine, InUse
<1>c8. Zero(w)' BY <1>1, <1>2, <1>7, <1>a, Zenon DEF Mine, Zero
<1>8. Mine(w)' BY <1>c0, <1>c1, <1>c2, <1>c3, <1>c4, <1>c5, <1>c6, <1>c7, <1>c8, Zenon DEF Mine
<1>9. Keeps(w) BY <1>1, <1>7, <1>a, Zenon DEF Keeps, Mine, Contained, Asleep
<1>10. calls' \in 0 .. MaxCalls BY <1>1, Zenon DEF Whole, ButexTypeOK, sched
<1> QED BY <1>2, <1>5, <1>8, <1>9, <1>10, ThreadStep, Zenon

\* A bthread that runs again unschedules its timer, which is not running.
LEMMA butex_wait_unsleep_Step == ASSUME ButexConstants, ButexInv, NEW w \in Waiters, butex_wait_unsleep(w) PROVE ButexInv'
<1>1. bw[w] \in Thread /\ Whole /\ Mine(w) /\ (w \in Bthreads <=> w \notin Pthreads)
  BY ThreadType, Zenon DEF ButexConstants, Waiters
<1>a. bw[w].pc = "unsleep" /\ ~(bw[w].sleep_id /\ bw[w].timer = "running") BY <1>1, Zenon DEF butex_wait_unsleep
<1>p. PICK s \in BOOLEAN, m \in {"none", "scheduled", "running", "over"} :
           /\ Unsleep(bw[w]) = [bw[w] EXCEPT !.sleep_id = s, !.timer = m]
           /\ s <=> bw[w].sleep_id /\ bw[w].timer = "running"
           /\ m = IF bw[w].sleep_id /\ bw[w].timer = "scheduled" THEN "over" ELSE bw[w].timer
  BY <1>1, UnsleepIs, Zenon
<1> DEFINE t == [[bw[w] EXCEPT !.sleep_id = s, !.timer = m] EXCEPT !.pc = "exchange"]
<1>2. /\ Resumers(w)' = Resumers(w) /\ er'[w] = er[w] /\ UNCHANGED <<waiters, wk, er>>
      /\ \A i \in Interrupters : (Holds(i, w)' <=> Holds(i, w)) /\ er'[i] = er[i]
  BY SameAround, Zenon DEF butex_wait_unsleep, queue
<1>n. w \in Bthreads /\ er[w].pc = "idle" /\ m \notin {"scheduled", "running"}
  BY <1>1, <1>a, <1>p, Zenon DEF Mine, Timed, Place
<1>3. t \in Thread BY <1>1, Update, Zenon
<1>4. bw' = [bw EXCEPT ![w] = t] BY <1>p, Zenon DEF butex_wait_unsleep
<1>5. Moves(w) BY <1>1, <1>3, <1>4, Zenon DEF Moves, Whole, ButexTypeOK, butex_wait_unsleep, queue
<1>6. bw'[w] = t BY <1>1, <1>4, Zenon DEF Whole, ButexTypeOK
<1>7. /\ bw'[w].pc = "exchange" /\ bw'[w].butex = bw[w].butex
      /\ bw'[w].expected = bw[w].expected /\ bw'[w].timed = bw[w].timed /\ bw'[w].rc = bw[w].rc
      /\ bw'[w].container = bw[w].container /\ bw'[w].state = bw[w].state
      /\ bw'[w].sig = bw[w].sig /\ bw'[w].sleep_id = s /\ bw'[w].timer = m
      /\ bw'[w].interrupted = bw[w].interrupted /\ bw'[w].current_waiter = bw[w].current_waiter
      /\ bw'[w].runnable = bw[w].runnable /\ bw'[w].woken = bw[w].woken
      /\ bw'[w].moved = bw[w].moved
  BY <1>1, <1>6, SMTT(30) DEF Thread
<1>c0. Contained(w)' BY <1>1, <1>2, <1>7, <1>a, <1>n, Zenon DEF Mine, Contained, Asleep
<1>c1. Place(w)' BY <1>1, <1>2, <1>7, <1>a, <1>n, Zenon DEF Mine, Place
<1>c2. Timed(w)' BY <1>1, <1>2, <1>7, <1>a, <1>n, Zenon DEF Mine, Timed
<1>c3. Held(w)' BY <1>1, <1>2, <1>7, <1>a, <1>n, Zenon DEF Mine, Held
<1>c4. Flagged(w)' BY <1>1, <1>2, <1>7, <1>a, <1>n, Zenon DEF Mine, Flagged
<1>c5. Excused(w)' BY <1>1, <1>2, <1>7, <1>a, <1>n, Zenon DEF Mine, Excused, Up
<1>c6. Once(w)' BY <1>1, <1>2, <1>7, <1>a, <1>n, Zenon DEF Mine, Once, WokenOnce, SignalledOnce, OneResumer
<1>c7. InUse(w)' BY <1>1, <1>2, <1>7, <1>a, <1>n, Zenon DEF Mine, InUse
<1>c8. Zero(w)' BY <1>1, <1>2, <1>7, <1>a, <1>n, Zenon DEF Mine, Zero
<1>8. Mine(w)' BY <1>c0, <1>c1, <1>c2, <1>c3, <1>c4, <1>c5, <1>c6, <1>c7, <1>c8, Zenon DEF Mine
<1>9. Keeps(w) BY <1>1, <1>7, <1>a, Zenon DEF Keeps, Mine, Contained, Asleep
<1>10. calls' \in 0 .. MaxCalls BY <1>1, Zenon DEF Whole, ButexTypeOK, butex_wait_unsleep
<1> QED BY <1>2, <1>5, <1>8, <1>9, <1>10, ThreadStep, Zenon

\* A thread takes its waiter back.
LEMMA butex_wait_exchange_Step == ASSUME ButexConstants, ButexInv, NEW w \in Waiters, butex_wait_exchange(w) PROVE ButexInv'
<1>1. bw[w] \in Thread /\ Whole /\ Mine(w) /\ (w \in Bthreads <=> w \notin Pthreads)
  BY ThreadType, Zenon DEF ButexConstants, Waiters
<1>a. bw[w].pc = "exchange" /\ bw[w].current_waiter BY <1>1, Zenon DEF butex_wait_exchange, WaiterIsBack
<1> DEFINE t == [bw[w] EXCEPT !.current_waiter = FALSE, !.pc = "return"]
<1>2. /\ Resumers(w)' = Resumers(w) /\ er'[w] = er[w] /\ UNCHANGED <<waiters, wk, er>>
      /\ \A i \in Interrupters : (Holds(i, w)' <=> Holds(i, w)) /\ er'[i] = er[i]
  BY SameAround, Zenon DEF butex_wait_exchange, queue
<1>3. t \in Thread BY <1>1, Update, Zenon
<1>4. bw' = [bw EXCEPT ![w] = t] BY Zenon DEF butex_wait_exchange
<1>5. Moves(w) BY <1>1, <1>3, <1>4, Zenon DEF Moves, Whole, ButexTypeOK, butex_wait_exchange, queue
<1>6. bw'[w] = t BY <1>1, <1>4, Zenon DEF Whole, ButexTypeOK
<1>7. /\ bw'[w].pc = "return" /\ bw'[w].butex = bw[w].butex /\ bw'[w].expected = bw[w].expected
      /\ bw'[w].timed = bw[w].timed /\ bw'[w].rc = bw[w].rc
      /\ bw'[w].container = bw[w].container /\ bw'[w].state = bw[w].state
      /\ bw'[w].sig = bw[w].sig /\ bw'[w].sleep_id = bw[w].sleep_id
      /\ bw'[w].timer = bw[w].timer /\ bw'[w].interrupted = bw[w].interrupted
      /\ bw'[w].current_waiter = FALSE /\ bw'[w].runnable = bw[w].runnable
      /\ bw'[w].woken = bw[w].woken /\ bw'[w].moved = bw[w].moved
  BY <1>1, <1>6, Zenon DEF Thread
<1>c0. Contained(w)' BY <1>1, <1>2, <1>7, <1>a, Zenon DEF Mine, Contained, Asleep
<1>c1. Place(w)' BY <1>1, <1>2, <1>7, <1>a, Zenon DEF Mine, Place
<1>c2. Timed(w)' BY <1>1, <1>2, <1>7, <1>a, Zenon DEF Mine, Timed
<1>c3. Held(w)' BY <1>1, <1>2, <1>7, <1>a, Zenon DEF Mine, Held
<1>c4. Flagged(w)' BY <1>1, <1>2, <1>7, <1>a, Zenon DEF Mine, Flagged
<1>c5. Excused(w)' BY <1>1, <1>2, <1>7, <1>a, Zenon DEF Mine, Excused, Up
<1>c6. Once(w)' BY <1>1, <1>2, <1>7, <1>a, Zenon DEF Mine, Once, WokenOnce, SignalledOnce, OneResumer
<1>c7. InUse(w)' BY <1>1, <1>2, <1>7, <1>a, Zenon DEF Mine, InUse, Held, Holds
<1>c8. Zero(w)' BY <1>1, <1>2, <1>7, <1>a, Zenon DEF Mine, Zero
<1>8. Mine(w)' BY <1>c0, <1>c1, <1>c2, <1>c3, <1>c4, <1>c5, <1>c6, <1>c7, <1>c8, Zenon DEF Mine
<1>9. Keeps(w) BY <1>1, <1>7, <1>a, Zenon DEF Keeps, Mine, Contained, Asleep
<1>10. calls' \in 0 .. MaxCalls BY <1>1, Zenon DEF Whole, ButexTypeOK, butex_wait_exchange
<1> QED BY <1>2, <1>5, <1>8, <1>9, <1>10, ThreadStep, Zenon

\* butex_wait returns at once.
LEMMA butex_wait_refuse_Step == ASSUME ButexConstants, ButexInv, NEW w \in Waiters, butex_wait_refuse(w) PROVE ButexInv'
<1>1. bw[w] \in Thread /\ Whole /\ Mine(w) /\ (w \in Bthreads <=> w \notin Pthreads)
  BY ThreadType, Zenon DEF ButexConstants, Waiters
<1>a. bw[w].pc = "check" BY <1>1, Zenon DEF butex_wait_refuse
<1>r. PICK r \in {"EWOULDBLOCK", "ETIMEDOUT"} : bw' = [bw EXCEPT ![w] = WaiterReturn(w, r)] BY Zenon DEF butex_wait_refuse
<1> DEFINE t == WaiterReturn(w, r)
<1>2. /\ Resumers(w)' = Resumers(w) /\ er'[w] = er[w] /\ UNCHANGED <<waiters, wk, er>>
      /\ \A i \in Interrupters : (Holds(i, w)' <=> Holds(i, w)) /\ er'[i] = er[i]
  BY SameAround, Zenon DEF butex_wait_refuse, queue
<1>f. Fresh(bw[w]) \in Thread BY <1>1, FreshThread, Zenon
<1>3. t \in Thread BY <1>f, Update, Zenon DEF WaiterReturn
<1>4. bw' = [bw EXCEPT ![w] = t] BY <1>r, Zenon
<1>5. Moves(w) BY <1>1, <1>3, <1>4, Zenon DEF Moves, Whole, ButexTypeOK, butex_wait_refuse, queue
<1>6. bw'[w] = t BY <1>1, <1>4, Zenon DEF Whole, ButexTypeOK
<1>7. /\ bw'[w].pc = "out" /\ bw'[w].butex = Null /\ bw'[w].expected = 0
      /\ bw'[w].timed = FALSE /\ bw'[w].rc = r /\ bw'[w].container = Null
      /\ bw'[w].state = "READY" /\ bw'[w].sig = FALSE /\ bw'[w].sleep_id = FALSE
      /\ bw'[w].timer = "none" /\ bw'[w].interrupted = bw[w].interrupted
      /\ bw'[w].current_waiter = bw[w].current_waiter /\ bw'[w].runnable = bw[w].runnable
      /\ bw'[w].woken = bw[w].woken /\ bw'[w].moved = FALSE
  BY <1>1, <1>6 DEF Thread, Fresh, WaiterReturn
<1>c0. Contained(w)' BY <1>1, <1>2, <1>7, <1>a, Zenon DEF Mine, Contained, Asleep
<1>c1. Place(w)' BY <1>1, <1>2, <1>7, <1>a, Zenon DEF Mine, Place
<1>c2. Timed(w)' BY <1>1, <1>2, <1>7, <1>a, Zenon DEF Mine, Timed
<1>c3. Held(w)' BY <1>1, <1>2, <1>7, <1>a, Zenon DEF Mine, Held
<1>c4. Flagged(w)' BY <1>1, <1>2, <1>7, <1>a, Zenon DEF Mine, Flagged
<1>c5. Excused(w)' BY <1>1, <1>2, <1>7, <1>a, Zenon DEF Mine, Excused, Up, Once, WokenOnce
<1>c6. Once(w)' BY <1>1, <1>2, <1>7, <1>a, Zenon DEF Mine, Once, WokenOnce, SignalledOnce, OneResumer
<1>c7. InUse(w)' BY <1>1, <1>2, <1>7, <1>a, Zenon DEF Mine, InUse, Timed, Held, Holds
<1>c8. Zero(w)' BY <1>1, <1>2, <1>7, <1>a, Zenon DEF Mine, Zero
<1>8. Mine(w)' BY <1>c0, <1>c1, <1>c2, <1>c3, <1>c4, <1>c5, <1>c6, <1>c7, <1>c8, Zenon DEF Mine
<1>9. Keeps(w) BY <1>1, <1>7, <1>a, Zenon DEF Keeps, Mine, Contained, Asleep
<1>10. calls' \in 0 .. MaxCalls BY <1>1, Zenon DEF Whole, ButexTypeOK, butex_wait_refuse
<1> QED BY <1>2, <1>5, <1>8, <1>9, <1>10, ThreadStep, Zenon

\* butex_wait returns after it waited.
LEMMA butex_wait_return_Step == ASSUME ButexConstants, ButexInv, NEW w \in Waiters, butex_wait_return(w) PROVE ButexInv'
<1>1. bw[w] \in Thread /\ Whole /\ Mine(w) /\ (w \in Bthreads <=> w \notin Pthreads)
  BY ThreadType, Zenon DEF ButexConstants, Waiters
<1>a. bw[w].pc = "return" BY <1>1, Zenon DEF butex_wait_return
<1> DEFINE r == Result(w)
<1>r. r \in {"none", "0", "EWOULDBLOCK", "ETIMEDOUT", "EINTR"} BY <1>1, Zenon DEF Result, OfState, Thread
<1>z. r = "0" => bw[w].woken BY <1>1, <1>a, Zenon DEF Result, OfState, Thread, Mine, Excused, Up
<1>q. bw' = [bw EXCEPT ![w] = [WaiterReturn(w, r) EXCEPT !.interrupted = FALSE]] BY Zenon DEF butex_wait_return
<1> HIDE DEF r
<1> DEFINE t == [WaiterReturn(w, r) EXCEPT !.interrupted = FALSE]
<1>2. /\ Resumers(w)' = Resumers(w) /\ er'[w] = er[w] /\ UNCHANGED <<waiters, wk, er>>
      /\ \A i \in Interrupters : (Holds(i, w)' <=> Holds(i, w)) /\ er'[i] = er[i]
  BY SameAround, Zenon DEF butex_wait_return, queue
<1>f. Fresh(bw[w]) \in Thread BY <1>1, FreshThread, Zenon
<1>y. WaiterReturn(w, r) \in Thread BY <1>f, Update, <1>r, Zenon DEF WaiterReturn
<1>3. t \in Thread BY <1>1, Update, <1>y, Zenon
<1>4. bw' = [bw EXCEPT ![w] = t] BY <1>q, Zenon
<1>5. Moves(w) BY <1>1, <1>3, <1>4, Zenon DEF Moves, Whole, ButexTypeOK, butex_wait_return, queue
<1>6. bw'[w] = t BY <1>1, <1>4, Zenon DEF Whole, ButexTypeOK
<1>7. /\ bw'[w].pc = "out" /\ bw'[w].butex = Null /\ bw'[w].expected = 0
      /\ bw'[w].timed = FALSE /\ bw'[w].rc = r /\ bw'[w].container = Null
      /\ bw'[w].state = "READY" /\ bw'[w].sig = FALSE /\ bw'[w].sleep_id = FALSE
      /\ bw'[w].timer = "none" /\ bw'[w].interrupted = FALSE
      /\ bw'[w].current_waiter = bw[w].current_waiter /\ bw'[w].runnable = bw[w].runnable
      /\ bw'[w].woken = bw[w].woken /\ bw'[w].moved = FALSE
  BY <1>1, <1>6 DEF Thread, Fresh, WaiterReturn
<1>c0. Contained(w)' BY <1>1, <1>2, <1>7, <1>a, Zenon DEF Mine, Contained, Asleep
<1>c1. Place(w)' BY <1>1, <1>2, <1>7, <1>a, Zenon DEF Mine, Place
<1>c2. Timed(w)' BY <1>1, <1>2, <1>7, <1>a, Zenon DEF Mine, Timed
<1>c3. Held(w)' BY <1>1, <1>2, <1>7, <1>a, Zenon DEF Mine, Held
<1>c4. Flagged(w)' BY <1>1, <1>2, <1>7, <1>a, Zenon DEF Mine, Flagged, Held
<1>c5. Excused(w)' BY <1>1, <1>2, <1>7, <1>a DEF Mine, Excused, Up, Once, WokenOnce
<1>c6. Once(w)' BY <1>1, <1>2, <1>7, <1>a, Zenon DEF Mine, Once, WokenOnce, SignalledOnce, OneResumer
<1>c7. InUse(w)' BY <1>1, <1>2, <1>7, <1>a, Zenon DEF Mine, InUse, Timed, Held, Holds
<1>c8. Zero(w)' BY <1>1, <1>2, <1>7, <1>a, <1>z, Zenon DEF Mine, Zero
<1>8. Mine(w)' BY <1>c0, <1>c1, <1>c2, <1>c3, <1>c4, <1>c5, <1>c6, <1>c7, <1>c8, Zenon DEF Mine
<1>9. Keeps(w) BY <1>1, <1>7, <1>a, Zenon DEF Keeps, Mine, Contained, Asleep
<1>10. calls' \in 0 .. MaxCalls BY <1>1, Zenon DEF Whole, ButexTypeOK, butex_wait_return
<1> QED BY <1>2, <1>5, <1>8, <1>9, <1>10, ThreadStep, Zenon

\* wait_for_butex does not queue the waiter.
LEMMA wait_for_butex_check_Runs == ASSUME ButexConstants, ButexInv, NEW w \in Waiters, wait_for_butex_check(w),
         UnmatchedNow(w) \/ bw[w].state # "READY" \/ bw[w].interrupted PROVE ButexInv'
<1>1. bw[w] \in Thread /\ Whole /\ Mine(w) /\ (w \in Bthreads <=> w \notin Pthreads)
  BY ThreadType, Zenon DEF ButexConstants, Waiters
<1>a. bw[w].pc = "remained" BY <1>1, Zenon DEF wait_for_butex_check
<1> DEFINE st == IF UnmatchedNow(w) THEN "UNMATCHEDVALUE" ELSE bw[w].state
<1>n. w \in Bthreads /\ bw[w].runnable = 0 /\ Resumers(w) = {} /\ bw[w].state = "READY"
  BY <1>1, <1>a, Zenon DEF Mine, Place, Once, WokenOnce, Excused
<1>s. /\ st \in {"READY", "TIMEDOUT", "INTERRUPTED", "UNMATCHEDVALUE"} /\ (st = "UNMATCHEDVALUE" \/ bw[w].interrupted)
  BY <1>n, Zenon
<1>q. bw' = [bw EXCEPT ![w] = [bw[w] EXCEPT !.state = st, !.runnable = bw[w].runnable + 1, !.pc = "sleep"]]
  BY Zenon DEF wait_for_butex_check
<1>m. bw[w].runnable + 1 = 1 BY <1>n
<1> HIDE DEF st
<1> DEFINE t == [bw[w] EXCEPT !.state = st, !.runnable = 1, !.pc = "sleep"]
<1>2. /\ Resumers(w)' = Resumers(w) /\ er'[w] = er[w] /\ UNCHANGED <<waiters, wk, er>>
      /\ \A i \in Interrupters : (Holds(i, w)' <=> Holds(i, w)) /\ er'[i] = er[i]
  BY SameAround, Zenon DEF wait_for_butex_check, queue
<1>3. t \in Thread BY <1>1, Update, <1>s, Zenon
<1>4. bw' = [bw EXCEPT ![w] = t] BY <1>m, <1>q, Zenon
<1>5. Moves(w) BY <1>1, <1>3, <1>4, Zenon DEF Moves, Whole, ButexTypeOK, wait_for_butex_check, queue
<1>6. bw'[w] = t BY <1>1, <1>4, Zenon DEF Whole, ButexTypeOK
<1>7. /\ bw'[w].pc = "sleep" /\ bw'[w].butex = bw[w].butex /\ bw'[w].expected = bw[w].expected
      /\ bw'[w].timed = bw[w].timed /\ bw'[w].rc = bw[w].rc
      /\ bw'[w].container = bw[w].container /\ bw'[w].state = st /\ bw'[w].sig = bw[w].sig
      /\ bw'[w].sleep_id = bw[w].sleep_id /\ bw'[w].timer = bw[w].timer
      /\ bw'[w].interrupted = bw[w].interrupted /\ bw'[w].current_waiter = bw[w].current_waiter
      /\ bw'[w].runnable = 1 /\ bw'[w].woken = bw[w].woken /\ bw'[w].moved = bw[w].moved
  BY <1>1, <1>6, Zenon DEF Thread
<1>c0. Contained(w)' BY <1>1, <1>2, <1>7, <1>a, <1>n, <1>s DEF Mine, Contained, Asleep, ButexConstants
<1>c1. Place(w)' BY <1>1, <1>2, <1>7, <1>a, <1>n, <1>s, Zenon DEF Mine, Place
<1>c2. Timed(w)' BY <1>1, <1>2, <1>7, <1>a, <1>n, <1>s, Zenon DEF Mine, Timed
<1>c3. Held(w)' BY <1>1, <1>2, <1>7, <1>a, <1>n, <1>s, Zenon DEF Mine, Held
<1>c4. Flagged(w)' BY <1>1, <1>2, <1>7, <1>a, <1>n, <1>s, Zenon DEF Mine, Flagged
<1>c5. Excused(w)' BY <1>1, <1>2, <1>7, <1>a, <1>n, <1>s, Zenon DEF Mine, Excused, Up
<1>c6. Once(w)' BY <1>1, <1>2, <1>7, <1>a, <1>n, <1>s, Zenon DEF Mine, Once, WokenOnce, SignalledOnce, OneResumer
<1>c7. InUse(w)' BY <1>1, <1>2, <1>7, <1>a, <1>n, <1>s, Zenon DEF Mine, InUse
<1>c8. Zero(w)' BY <1>1, <1>2, <1>7, <1>a, <1>n, <1>s, Zenon DEF Mine, Zero
<1>8. Mine(w)' BY <1>c0, <1>c1, <1>c2, <1>c3, <1>c4, <1>c5, <1>c6, <1>c7, <1>c8, Zenon DEF Mine
<1>9. Keeps(w) BY <1>1, <1>7, <1>a, Zenon DEF Keeps, Mine, Contained, Asleep
<1>10. calls' \in 0 .. MaxCalls BY <1>1, Zenon DEF Whole, ButexTypeOK, wait_for_butex_check
<1> QED BY <1>2, <1>5, <1>8, <1>9, <1>10, ThreadStep, Zenon

\* A thread in pthread mode publishes a waiter whose container may hold anything.
LEMMA butex_wait_from_pthread_Step == ASSUME ButexConstants, ButexInv, NEW w \in Waiters, butex_wait_from_pthread(w) PROVE ButexInv'
<1>1. bw[w] \in Thread /\ Whole /\ Mine(w) /\ (w \in Bthreads <=> w \notin Pthreads)
  BY ThreadType, Zenon DEF ButexConstants, Waiters
<1>a. bw[w].pc = "check" /\ w \in Pthreads BY <1>1, Zenon DEF butex_wait_from_pthread
<1>u. PICK c \in Uninit : bw' = [bw EXCEPT ![w].pc = "pthread", ![w].container = c, ![w].current_waiter = TRUE,
                                          ![w].rc = "0"]
  BY Zenon DEF butex_wait_from_pthread
<1> DEFINE t == [bw[w] EXCEPT !.pc = "pthread", !.container = c, !.current_waiter = TRUE, !.rc = "0"]
<1>2. /\ Resumers(w)' = Resumers(w) /\ er'[w] = er[w] /\ UNCHANGED <<waiters, wk, er>>
      /\ \A i \in Interrupters : (Holds(i, w)' <=> Holds(i, w)) /\ er'[i] = er[i]
  BY SameAround, Zenon DEF butex_wait_from_pthread, queue
<1>c. c \in Butexes \cup {Null, Wild} /\ (c # Null => w \notin Interruptees) BY <1>a, Zenon DEF ButexConstants
<1>3. t \in Thread BY <1>1, Update, <1>c, Zenon
<1>4. bw' = [bw EXCEPT ![w] = t] BY <1>u, Zenon
<1>5. Moves(w) BY <1>1, <1>3, <1>4, Zenon DEF Moves, Whole, ButexTypeOK, butex_wait_from_pthread, queue
<1>6. bw'[w] = t BY <1>1, <1>4, Zenon DEF Whole, ButexTypeOK
<1>7. /\ bw'[w].pc = "pthread" /\ bw'[w].butex = bw[w].butex
      /\ bw'[w].expected = bw[w].expected /\ bw'[w].timed = bw[w].timed /\ bw'[w].rc = "0"
      /\ bw'[w].container = c /\ bw'[w].state = bw[w].state /\ bw'[w].sig = bw[w].sig
      /\ bw'[w].sleep_id = bw[w].sleep_id /\ bw'[w].timer = bw[w].timer
      /\ bw'[w].interrupted = bw[w].interrupted /\ bw'[w].current_waiter = TRUE
      /\ bw'[w].runnable = bw[w].runnable /\ bw'[w].woken = bw[w].woken
      /\ bw'[w].moved = bw[w].moved
  BY <1>1, <1>6, SMTT(30) DEF Thread
<1>c0. Contained(w)' BY <1>1, <1>2, <1>7, <1>a, <1>c, Zenon DEF Mine, Contained, Asleep
<1>c1. Place(w)' BY <1>1, <1>2, <1>7, <1>a, Zenon DEF Mine, Place
<1>c2. Timed(w)' BY <1>1, <1>2, <1>7, <1>a, Zenon DEF Mine, Timed
<1>c3. Held(w)' BY <1>1, <1>2, <1>7, <1>a, Zenon DEF Mine, Held
<1>c4. Flagged(w)' BY <1>1, <1>2, <1>7, <1>a, Zenon DEF Mine, Flagged, Held
<1>c5. Excused(w)' BY <1>1, <1>2, <1>7, <1>a, Zenon DEF Mine, Excused, Up
<1>c6. Once(w)' BY <1>1, <1>2, <1>7, <1>a, Zenon DEF Mine, Once, WokenOnce, SignalledOnce, OneResumer
<1>c7. InUse(w)' BY <1>1, <1>2, <1>7, <1>a, Zenon DEF Mine, InUse
<1>c8. Zero(w)' BY <1>1, <1>2, <1>7, <1>a, Zenon DEF Mine, Zero
<1>8. Mine(w)' BY <1>c0, <1>c1, <1>c2, <1>c3, <1>c4, <1>c5, <1>c6, <1>c7, <1>c8, Zenon DEF Mine
<1>9. Keeps(w) BY <1>1, <1>7, <1>a, Zenon DEF Keeps, Mine, Contained, Asleep
<1>10. calls' \in 0 .. MaxCalls BY <1>1, Zenon DEF Whole, ButexTypeOK, butex_wait_from_pthread
<1> QED BY <1>2, <1>5, <1>8, <1>9, <1>10, ThreadStep, Zenon

\* The word has changed before a thread in pthread mode queued its waiter.
LEMMA pthread_queue_Unmatched == ASSUME ButexConstants, ButexInv, NEW w \in Waiters, pthread_queue(w),
         Unmatched(w) PROVE ButexInv'
<1>1. bw[w] \in Thread /\ Whole /\ Mine(w) /\ (w \in Bthreads <=> w \notin Pthreads)
  BY ThreadType, Zenon DEF ButexConstants, Waiters
<1>a. bw[w].pc = "pthread" /\ w \in Pthreads BY <1>1, Zenon DEF pthread_queue, Mine, Place
<1> DEFINE t == [bw[w] EXCEPT !.rc = "EWOULDBLOCK", !.pc = "exchange"]
<1>2. /\ Resumers(w)' = Resumers(w) /\ er'[w] = er[w] /\ UNCHANGED <<waiters, wk, er>>
      /\ \A i \in Interrupters : (Holds(i, w)' <=> Holds(i, w)) /\ er'[i] = er[i]
  BY SameAround, Zenon DEF pthread_queue, queue
<1>3. t \in Thread BY <1>1, Update, Zenon
<1>4. bw' = [bw EXCEPT ![w] = t] BY Zenon DEF pthread_queue
<1>5. Moves(w) BY <1>1, <1>3, <1>4, Zenon DEF Moves, Whole, ButexTypeOK, pthread_queue, queue
<1>6. bw'[w] = t BY <1>1, <1>4, Zenon DEF Whole, ButexTypeOK
<1>7. /\ bw'[w].pc = "exchange" /\ bw'[w].butex = bw[w].butex
      /\ bw'[w].expected = bw[w].expected /\ bw'[w].timed = bw[w].timed
      /\ bw'[w].rc = "EWOULDBLOCK" /\ bw'[w].container = bw[w].container
      /\ bw'[w].state = bw[w].state /\ bw'[w].sig = bw[w].sig
      /\ bw'[w].sleep_id = bw[w].sleep_id /\ bw'[w].timer = bw[w].timer
      /\ bw'[w].interrupted = bw[w].interrupted /\ bw'[w].current_waiter = bw[w].current_waiter
      /\ bw'[w].runnable = bw[w].runnable /\ bw'[w].woken = bw[w].woken
      /\ bw'[w].moved = bw[w].moved
  BY <1>1, <1>6, Zenon DEF Thread
<1>c0. Contained(w)' BY <1>1, <1>2, <1>7, <1>a, Zenon DEF Mine, Contained, Asleep
<1>c1. Place(w)' BY <1>1, <1>2, <1>7, <1>a, Zenon DEF Mine, Place
<1>c2. Timed(w)' BY <1>1, <1>2, <1>7, <1>a, Zenon DEF Mine, Timed
<1>c3. Held(w)' BY <1>1, <1>2, <1>7, <1>a, Zenon DEF Mine, Held
<1>c4. Flagged(w)' BY <1>1, <1>2, <1>7, <1>a, Zenon DEF Mine, Flagged
<1>c5. Excused(w)' BY <1>1, <1>2, <1>7, <1>a, Zenon DEF Mine, Excused, Up
<1>c6. Once(w)' BY <1>1, <1>2, <1>7, <1>a, Zenon DEF Mine, Once, WokenOnce, SignalledOnce, OneResumer
<1>c7. InUse(w)' BY <1>1, <1>2, <1>7, <1>a, Zenon DEF Mine, InUse
<1>c8. Zero(w)' BY <1>1, <1>2, <1>7, <1>a, Zenon DEF Mine, Zero
<1>8. Mine(w)' BY <1>c0, <1>c1, <1>c2, <1>c3, <1>c4, <1>c5, <1>c6, <1>c7, <1>c8, Zenon DEF Mine
<1>9. Keeps(w) BY <1>1, <1>7, <1>a, Zenon DEF Keeps, Mine, Contained, Asleep
<1>10. calls' \in 0 .. MaxCalls BY <1>1, Zenon DEF Whole, ButexTypeOK, pthread_queue
<1> QED BY <1>2, <1>5, <1>8, <1>9, <1>10, ThreadStep, Zenon

\* It was interrupted before it queued its waiter.
LEMMA pthread_queue_Interrupted == ASSUME ButexConstants, ButexInv, NEW w \in Waiters, pthread_queue(w),
         ~Unmatched(w), bw[w].interrupted PROVE ButexInv'
<1>1. bw[w] \in Thread /\ Whole /\ Mine(w) /\ (w \in Bthreads <=> w \notin Pthreads)
  BY ThreadType, Zenon DEF ButexConstants, Waiters
<1>a. bw[w].pc = "pthread" /\ w \in Pthreads BY <1>1, Zenon DEF pthread_queue, Mine, Place
<1> DEFINE t == [bw[w] EXCEPT !.interrupted = FALSE, !.rc = "EINTR", !.pc = "exchange"]
<1>2. /\ Resumers(w)' = Resumers(w) /\ er'[w] = er[w] /\ UNCHANGED <<waiters, wk, er>>
      /\ \A i \in Interrupters : (Holds(i, w)' <=> Holds(i, w)) /\ er'[i] = er[i]
  BY SameAround, Zenon DEF pthread_queue, queue
<1>3. t \in Thread BY <1>1, Update, Zenon
<1>4. bw' = [bw EXCEPT ![w] = t] BY Zenon DEF pthread_queue
<1>5. Moves(w) BY <1>1, <1>3, <1>4, Zenon DEF Moves, Whole, ButexTypeOK, pthread_queue, queue
<1>6. bw'[w] = t BY <1>1, <1>4, Zenon DEF Whole, ButexTypeOK
<1>7. /\ bw'[w].pc = "exchange" /\ bw'[w].butex = bw[w].butex
      /\ bw'[w].expected = bw[w].expected /\ bw'[w].timed = bw[w].timed /\ bw'[w].rc = "EINTR"
      /\ bw'[w].container = bw[w].container /\ bw'[w].state = bw[w].state
      /\ bw'[w].sig = bw[w].sig /\ bw'[w].sleep_id = bw[w].sleep_id
      /\ bw'[w].timer = bw[w].timer /\ bw'[w].interrupted = FALSE
      /\ bw'[w].current_waiter = bw[w].current_waiter /\ bw'[w].runnable = bw[w].runnable
      /\ bw'[w].woken = bw[w].woken /\ bw'[w].moved = bw[w].moved
  BY <1>1, <1>6, SMTT(30) DEF Thread
<1>c0. Contained(w)' BY <1>1, <1>2, <1>7, <1>a, Zenon DEF Mine, Contained, Asleep
<1>c1. Place(w)' BY <1>1, <1>2, <1>7, <1>a, Zenon DEF Mine, Place
<1>c2. Timed(w)' BY <1>1, <1>2, <1>7, <1>a, Zenon DEF Mine, Timed
<1>c3. Held(w)' BY <1>1, <1>2, <1>7, <1>a, Zenon DEF Mine, Held
<1>c4. Flagged(w)' BY <1>1, <1>2, <1>7, <1>a, Zenon DEF Mine, Flagged
<1>c5. Excused(w)' BY <1>1, <1>2, <1>7, <1>a, Zenon DEF Mine, Excused, Up
<1>c6. Once(w)' BY <1>1, <1>2, <1>7, <1>a, Zenon DEF Mine, Once, WokenOnce, SignalledOnce, OneResumer
<1>c7. InUse(w)' BY <1>1, <1>2, <1>7, <1>a, Zenon DEF Mine, InUse
<1>c8. Zero(w)' BY <1>1, <1>2, <1>7, <1>a, Zenon DEF Mine, Zero
<1>8. Mine(w)' BY <1>c0, <1>c1, <1>c2, <1>c3, <1>c4, <1>c5, <1>c6, <1>c7, <1>c8, Zenon DEF Mine
<1>9. Keeps(w) BY <1>1, <1>7, <1>a, Zenon DEF Keeps, Mine, Contained, Asleep
<1>10. calls' \in 0 .. MaxCalls BY <1>1, Zenon DEF Whole, ButexTypeOK, pthread_queue
<1> QED BY <1>2, <1>5, <1>8, <1>9, <1>10, ThreadStep, Zenon

\* A signalled thread in pthread mode is awake.
LEMMA wait_pthread_Step == ASSUME ButexConstants, ButexInv, NEW w \in Waiters, wait_pthread(w) PROVE ButexInv'
<1>1. bw[w] \in Thread /\ Whole /\ Mine(w) /\ (w \in Bthreads <=> w \notin Pthreads)
  BY ThreadType, Zenon DEF ButexConstants, Waiters
<1>a. bw[w].pc = "wait" /\ er[w].pc = "idle" /\ bw[w].sig BY <1>1, Zenon DEF wait_pthread
<1>r. PICK r \in {"0", "EWOULDBLOCK", "EINTR", "ETIMEDOUT"} : bw' = [bw EXCEPT ![w].rc = r, ![w].pc = "exchange"]
  BY Zenon DEF wait_pthread
<1> DEFINE t == [bw[w] EXCEPT !.rc = r, !.pc = "exchange"]
<1>2. /\ Resumers(w)' = Resumers(w) /\ er'[w] = er[w] /\ UNCHANGED <<waiters, wk, er>>
      /\ \A i \in Interrupters : (Holds(i, w)' <=> Holds(i, w)) /\ er'[i] = er[i]
  BY SameAround, Zenon DEF wait_pthread, queue
<1>g. Resumers(w) = {} /\ w \in Pthreads BY <1>1, <1>a, Zenon DEF Mine, Once, Place, SignalledOnce, OneResumer
<1>h. /\ \A b \in Butexes : w \notin Range(waiters[b])
      /\ \A k \in Wakers : w \notin Range(wk[k].batch)
      /\ bw[w].container = Null
  <2>1. /\ \A b \in Butexes : w \notin Range(waiters[b])
        /\ \A k \in Wakers : w \notin Range(wk[k].batch)
    BY <1>g, Zenon DEF Resumers
  <2> QED BY <1>1, <1>a, <1>g, <2>1, Zenon DEF Mine, Contained, Asleep
<1>3. t \in Thread BY <1>1, Update, Zenon
<1>4. bw' = [bw EXCEPT ![w] = t] BY <1>r, Zenon
<1>5. Moves(w) BY <1>1, <1>3, <1>4, Zenon DEF Moves, Whole, ButexTypeOK, wait_pthread, queue
<1>6. bw'[w] = t BY <1>1, <1>4, Zenon DEF Whole, ButexTypeOK
<1>7. /\ bw'[w].pc = "exchange" /\ bw'[w].butex = bw[w].butex
      /\ bw'[w].expected = bw[w].expected /\ bw'[w].timed = bw[w].timed /\ bw'[w].rc = r
      /\ bw'[w].container = bw[w].container /\ bw'[w].state = bw[w].state
      /\ bw'[w].sig = bw[w].sig /\ bw'[w].sleep_id = bw[w].sleep_id
      /\ bw'[w].timer = bw[w].timer /\ bw'[w].interrupted = bw[w].interrupted
      /\ bw'[w].current_waiter = bw[w].current_waiter /\ bw'[w].runnable = bw[w].runnable
      /\ bw'[w].woken = bw[w].woken /\ bw'[w].moved = bw[w].moved
  BY <1>1, <1>6, Zenon DEF Thread
<1>c0. Contained(w)' BY <1>1, <1>2, <1>7, <1>a, <1>h, Zenon DEF Mine, Contained, Asleep
<1>c1. Place(w)' BY <1>1, <1>2, <1>7, <1>a, Zenon DEF Mine, Place
<1>c2. Timed(w)' BY <1>1, <1>2, <1>7, <1>a, Zenon DEF Mine, Timed
<1>c3. Held(w)' BY <1>1, <1>2, <1>7, <1>a, Zenon DEF Mine, Held
<1>c4. Flagged(w)' BY <1>1, <1>2, <1>7, <1>a, Zenon DEF Mine, Flagged
<1>c5. Excused(w)' BY <1>1, <1>2, <1>7, <1>a, <1>g, Zenon DEF Mine, Excused, Up
<1>c6. Once(w)' BY <1>1, <1>2, <1>7, <1>a, <1>g, Zenon DEF Mine, Once, WokenOnce, SignalledOnce, OneResumer
<1>c7. InUse(w)' BY <1>1, <1>2, <1>7, <1>a, <1>h, Zenon DEF Mine, InUse
<1>c8. Zero(w)' BY <1>1, <1>2, <1>7, <1>a, Zenon DEF Mine, Zero
<1>8. Mine(w)' BY <1>c0, <1>c1, <1>c2, <1>c3, <1>c4, <1>c5, <1>c6, <1>c7, <1>c8, Zenon DEF Mine
<1>9. Keeps(w) BY <1>1, <1>7, <1>a, Zenon DEF Keeps, Mine, Contained, Asleep
<1>10. calls' \in 0 .. MaxCalls BY <1>1, Zenon DEF Whole, ButexTypeOK, wait_pthread
<1> QED BY <1>2, <1>5, <1>8, <1>9, <1>10, ThreadStep, Zenon

-----------------------------------------------------------------------------
(* Steps of the erasers that leave the lists alone.                         *)

\* A thread in pthread mode sets out to remove itself.
LEMMA wait_pthread_timeout_Step == ASSUME ButexConstants, ButexInv, NEW w \in Waiters, wait_pthread_timeout(w) PROVE ButexInv'
<1>1. /\ bw[w] \in Thread /\ Whole /\ Mine(w) /\ (w \in Bthreads <=> w \notin Pthreads) /\ w # Null
      /\ w \in Erasers /\ Erasing(w) /\ er \in [Erasers -> Eraser] /\ bw \in [Waiters -> Thread]
      /\ w \in Erasers /\ w \notin Interrupters /\ Interrupters \subseteq Erasers /\ Waiters \subseteq Erasers
  BY ThreadType, Zenon DEF ButexConstants, Waiters, Erasers, Whole, ButexTypeOK
<1>a. w \in Pthreads /\ bw[w].pc = "wait" /\ er[w].pc = "idle" BY <1>1, Zenon DEF wait_pthread_timeout
<1>b. UNCHANGED <<value, waiters, waiter_lock, wk>> BY Zenon DEF wait_pthread_timeout, queue
<1>7. bw' = bw BY Zenon DEF wait_pthread_timeout
<1>5. Moves(w) BY <1>1, <1>7, <1>b, Zenon DEF Moves
<1>e. /\ er' \in [Erasers -> Eraser] /\ er'[w].pc = "load" /\ er'[w].w = w /\ er'[w].b = er[w].b
      /\ \A d \in Erasers : d # w => er'[d] = er[d]
  BY <1>1, <1>a, Zenon DEF Eraser, wait_pthread_timeout
<1>f. Concerns(w) BY <1>1, <1>a, <1>e, Zenon DEF Concerns, Erasing
<1>g. \A d \in Erasers : Erasing(d)' BY <1>1, <1>a, <1>e, SMTT(30) DEF Whole, Erasing
<1>2. Resumers(w)' = Resumers(w) BY <1>1, <1>a, <1>b, <1>e, Zenon DEF Resumers
<1>h. \A j \in Interrupters : j # w => (Holds(j, w)' <=> Holds(j, w)) /\ er'[j] = er[j] BY <1>1, <1>e, Zenon DEF Holds
<1>c0. Contained(w)' BY <1>1, <1>7, <1>a, <1>b, Zenon DEF Mine, Contained, Asleep
<1>c1. Place(w)' BY <1>1, <1>7, <1>a, Zenon DEF Mine, Place
<1>c2. Timed(w)' BY <1>1, <1>7, <1>a, <1>e, Zenon DEF Mine, Timed
<1>c3. Held(w)' BY <1>1, <1>7, <1>a, <1>e, <1>h, Zenon DEF Mine, Held, Holds
<1>c4. Flagged(w)' BY <1>1, <1>7, <1>a, <1>e, <1>h, Zenon DEF Mine, Flagged, Holds
<1>c5. Excused(w)' BY <1>1, <1>7, <1>a, <1>e, Zenon DEF Mine, Excused, Up
<1>c6. Once(w)' BY <1>1, <1>7, <1>a, <1>2, <1>e, Zenon DEF Mine, Once, WokenOnce, SignalledOnce, OneResumer
<1>c7. InUse(w)' BY <1>1, <1>7, <1>a, <1>b, <1>e, <1>h, Zenon DEF Mine, InUse
<1>c8. Zero(w)' BY <1>1, <1>7, <1>a, Zenon DEF Mine, Zero
<1>8. Mine(w)' BY <1>c0, <1>c1, <1>c2, <1>c3, <1>c4, <1>c5, <1>c6, <1>c7, <1>c8, Zenon DEF Mine
<1>9. Keeps(w) BY <1>1, <1>7, <1>a, Zenon DEF Keeps
<1>10. calls' \in 0 .. MaxCalls BY <1>1, Zenon DEF Whole, ButexTypeOK, wait_pthread_timeout
<1> QED BY <1>5, <1>8, <1>9, <1>10, <1>f, <1>g, OneWaiter, Zenon

\* The timer thread starts the callback of a bthread.
LEMMA timer_fire_Step == ASSUME ButexConstants, ButexInv, NEW w \in Waiters, timer_fire(w) PROVE ButexInv'
<1>1. /\ bw[w] \in Thread /\ Whole /\ Mine(w) /\ (w \in Bthreads <=> w \notin Pthreads) /\ w # Null
      /\ w \in Erasers /\ Erasing(w) /\ er \in [Erasers -> Eraser] /\ bw \in [Waiters -> Thread]
      /\ w \in Erasers /\ w \notin Interrupters /\ Interrupters \subseteq Erasers /\ Waiters \subseteq Erasers
  BY ThreadType, Zenon DEF ButexConstants, Waiters, Erasers, Whole, ButexTypeOK
<1>a. w \in Bthreads /\ bw[w].timer = "scheduled" /\ bw[w].pc \in {"sleep", "unsleep"} /\ er[w].pc = "idle" BY <1>1, Zenon DEF timer_fire, Mine, Timed
<1>b. UNCHANGED <<value, waiters, waiter_lock, wk>> BY Zenon DEF timer_fire, queue
<1> DEFINE t == [bw[w] EXCEPT !.timer = "running"]
<1>3. t \in Thread BY <1>1, Update, Zenon
<1>4. bw' = [bw EXCEPT ![w] = t] BY Zenon DEF timer_fire
<1>5. Moves(w) BY <1>1, <1>3, <1>4, <1>b, Zenon DEF Moves
<1>6. bw'[w] = t BY <1>1, <1>4, Zenon
<1>7. /\ bw'[w].pc = bw[w].pc /\ bw'[w].butex = bw[w].butex /\ bw'[w].expected = bw[w].expected
      /\ bw'[w].timed = bw[w].timed /\ bw'[w].rc = bw[w].rc
      /\ bw'[w].container = bw[w].container /\ bw'[w].state = bw[w].state
      /\ bw'[w].sig = bw[w].sig /\ bw'[w].sleep_id = bw[w].sleep_id /\ bw'[w].timer = "running"
      /\ bw'[w].interrupted = bw[w].interrupted /\ bw'[w].current_waiter = bw[w].current_waiter
      /\ bw'[w].runnable = bw[w].runnable /\ bw'[w].woken = bw[w].woken
      /\ bw'[w].moved = bw[w].moved
  BY <1>1, <1>6, Zenon DEF Thread
<1>e. /\ er' \in [Erasers -> Eraser] /\ er'[w].pc = "load" /\ er'[w].w = w /\ er'[w].b = er[w].b
      /\ \A d \in Erasers : d # w => er'[d] = er[d]
  BY <1>1, <1>a, Zenon DEF Eraser, timer_fire
<1>f. Concerns(w) BY <1>1, <1>a, <1>e, Zenon DEF Concerns, Erasing
<1>g. \A d \in Erasers : Erasing(d)' BY <1>1, <1>a, <1>e, SMTT(30) DEF Whole, Erasing
<1>2. Resumers(w)' = Resumers(w) BY <1>1, <1>a, <1>b, <1>e, Zenon DEF Resumers
<1>h. \A j \in Interrupters : j # w => (Holds(j, w)' <=> Holds(j, w)) /\ er'[j] = er[j] BY <1>1, <1>e, Zenon DEF Holds
<1>c0. Contained(w)' BY <1>1, <1>7, <1>a, <1>b, Zenon DEF Mine, Contained, Asleep
<1>c1. Place(w)' BY <1>1, <1>7, <1>a, Zenon DEF Mine, Place
<1>c2. Timed(w)' BY <1>1, <1>7, <1>a, <1>e, Zenon DEF Mine, Timed
<1>c3. Held(w)' BY <1>1, <1>7, <1>a, <1>e, <1>h, Zenon DEF Mine, Held, Holds
<1>c4. Flagged(w)' BY <1>1, <1>7, <1>a, <1>e, <1>h, Zenon DEF Mine, Flagged, Holds
<1>c5. Excused(w)' BY <1>1, <1>7, <1>a, <1>e, Zenon DEF Mine, Excused, Up
<1>c6. Once(w)' BY <1>1, <1>7, <1>a, <1>2, <1>e, SMTT(30) DEF Mine, Once, WokenOnce, SignalledOnce, OneResumer
<1>c7. InUse(w)' BY <1>1, <1>7, <1>a, <1>b, <1>e, <1>h, Zenon DEF Mine, InUse
<1>c8. Zero(w)' BY <1>1, <1>7, <1>a, Zenon DEF Mine, Zero
<1>8. Mine(w)' BY <1>c0, <1>c1, <1>c2, <1>c3, <1>c4, <1>c5, <1>c6, <1>c7, <1>c8, Zenon DEF Mine
<1>9. Keeps(w) BY <1>1, <1>7, <1>a, Zenon DEF Keeps
<1>10. calls' \in 0 .. MaxCalls BY <1>1, Zenon DEF Whole, ButexTypeOK, timer_fire
<1> QED BY <1>5, <1>8, <1>9, <1>10, <1>f, <1>g, OneWaiter, Zenon

\* The callback is over.
LEMMA timer_over_Step == ASSUME ButexConstants, ButexInv, NEW w \in Waiters, timer_over(w) PROVE ButexInv'
<1>1. /\ bw[w] \in Thread /\ Whole /\ Mine(w) /\ (w \in Bthreads <=> w \notin Pthreads) /\ w # Null
      /\ w \in Erasers /\ Erasing(w) /\ er \in [Erasers -> Eraser] /\ bw \in [Waiters -> Thread]
      /\ w \in Erasers /\ w \notin Interrupters /\ Interrupters \subseteq Erasers /\ Waiters \subseteq Erasers
  BY ThreadType, Zenon DEF ButexConstants, Waiters, Erasers, Whole, ButexTypeOK
<1>a. w \in Bthreads /\ bw[w].timer = "running" /\ bw[w].pc \in {"sleep", "unsleep"} /\ er[w].pc \in {"erased", "missed"} BY <1>1, Zenon DEF timer_over, Mine, Timed
<1>b. UNCHANGED <<value, waiters, waiter_lock, wk>> BY Zenon DEF timer_over, queue
<1> DEFINE t == [bw[w] EXCEPT !.timer = "over"]
<1>3. t \in Thread BY <1>1, Update, Zenon
<1>4. bw' = [bw EXCEPT ![w] = t] BY Zenon DEF timer_over
<1>5. Moves(w) BY <1>1, <1>3, <1>4, <1>b, Zenon DEF Moves
<1>6. bw'[w] = t BY <1>1, <1>4, Zenon
<1>7. /\ bw'[w].pc = bw[w].pc /\ bw'[w].butex = bw[w].butex /\ bw'[w].expected = bw[w].expected
      /\ bw'[w].timed = bw[w].timed /\ bw'[w].rc = bw[w].rc
      /\ bw'[w].container = bw[w].container /\ bw'[w].state = bw[w].state
      /\ bw'[w].sig = bw[w].sig /\ bw'[w].sleep_id = bw[w].sleep_id /\ bw'[w].timer = "over"
      /\ bw'[w].interrupted = bw[w].interrupted /\ bw'[w].current_waiter = bw[w].current_waiter
      /\ bw'[w].runnable = bw[w].runnable /\ bw'[w].woken = bw[w].woken
      /\ bw'[w].moved = bw[w].moved
  BY <1>1, <1>6, Zenon DEF Thread
<1>e. /\ er' \in [Erasers -> Eraser] /\ er'[w].pc = "idle" /\ er'[w].w = Null /\ er'[w].b = er[w].b
      /\ \A d \in Erasers : d # w => er'[d] = er[d]
  BY <1>1, <1>a, Zenon DEF Eraser, timer_over
<1>f. Concerns(w) BY <1>1, <1>a, <1>e, Zenon DEF Concerns, Erasing
<1>g. \A d \in Erasers : Erasing(d)' BY <1>1, <1>a, <1>e DEF Whole, Erasing
<1>2. Resumers(w)' = Resumers(w) BY <1>1, <1>a, <1>b, <1>e, Zenon DEF Resumers
<1>h. \A j \in Interrupters : j # w => (Holds(j, w)' <=> Holds(j, w)) /\ er'[j] = er[j] BY <1>1, <1>e, Zenon DEF Holds
<1>c0. Contained(w)' BY <1>1, <1>7, <1>a, <1>b, Zenon DEF Mine, Contained, Asleep
<1>c1. Place(w)' BY <1>1, <1>7, <1>a, Zenon DEF Mine, Place
<1>c2. Timed(w)' BY <1>1, <1>7, <1>a, <1>e, Zenon DEF Mine, Timed
<1>c3. Held(w)' BY <1>1, <1>7, <1>a, <1>e, <1>h, Zenon DEF Mine, Held, Holds
<1>c4. Flagged(w)' BY <1>1, <1>7, <1>a, <1>e, <1>h, Zenon DEF Mine, Flagged, Holds
<1>c5. Excused(w)' BY <1>1, <1>7, <1>a, <1>e, Zenon DEF Mine, Excused, Up
<1>c6. Once(w)' BY <1>1, <1>7, <1>a, <1>2, <1>e, SMTT(30) DEF Mine, Once, WokenOnce, SignalledOnce, OneResumer
<1>c7. InUse(w)' BY <1>1, <1>7, <1>a, <1>b, <1>e, <1>h, Zenon DEF Mine, InUse
<1>c8. Zero(w)' BY <1>1, <1>7, <1>a, Zenon DEF Mine, Zero
<1>8. Mine(w)' BY <1>c0, <1>c1, <1>c2, <1>c3, <1>c4, <1>c5, <1>c6, <1>c7, <1>c8, Zenon DEF Mine
<1>9. Keeps(w) BY <1>1, <1>7, <1>a, Zenon DEF Keeps
<1>10. calls' \in 0 .. MaxCalls BY <1>1, Zenon DEF Whole, ButexTypeOK, timer_over
<1> QED BY <1>5, <1>8, <1>9, <1>10, <1>f, <1>g, OneWaiter, Zenon

\* A thread in pthread mode removed itself, or was signalled meanwhile: its wait is over.
LEMMA wait_pthread_erased_Over == ASSUME ButexConstants, ButexInv, NEW w \in Waiters, wait_pthread_erased(w), SelfErased(w) PROVE ButexInv'
<1>1. /\ bw[w] \in Thread /\ Whole /\ Mine(w) /\ (w \in Bthreads <=> w \notin Pthreads) /\ w # Null
      /\ w \in Erasers /\ Erasing(w) /\ er \in [Erasers -> Eraser] /\ bw \in [Waiters -> Thread]
      /\ w \in Erasers /\ w \notin Interrupters /\ Interrupters \subseteq Erasers /\ Waiters \subseteq Erasers
  BY ThreadType, Zenon DEF ButexConstants, Waiters, Erasers, Whole, ButexTypeOK
<1>a. w \in Pthreads /\ bw[w].pc = "wait" /\ er[w].pc \in {"erased", "missed"} BY <1>1, Zenon DEF wait_pthread_erased, Mine, Place
<1>s. Resumers(w) = {} BY <1>1, <1>a, Zenon DEF Mine, Once, SignalledOnce, SelfErased
<1>d. /\ \A b \in Butexes : w \notin Range(waiters[b])
      /\ \A k \in Wakers : w \notin Range(wk[k].batch)
      /\ bw[w].container = Null
  <2>1. /\ \A b \in Butexes : w \notin Range(waiters[b])
        /\ \A k \in Wakers : w \notin Range(wk[k].batch)
    BY <1>s, Zenon DEF Resumers
  <2> QED BY <1>1, <1>a, <2>1, Zenon DEF Mine, Contained, Asleep
<1>b. UNCHANGED <<value, waiters, waiter_lock, wk>> BY Zenon DEF wait_pthread_erased, queue
<1> DEFINE t == [bw[w] EXCEPT !.rc = "ETIMEDOUT", !.pc = "exchange"]
<1>3. t \in Thread BY <1>1, Update, Zenon
<1>4. bw' = [bw EXCEPT ![w] = t] BY Zenon DEF wait_pthread_erased
<1>5. Moves(w) BY <1>1, <1>3, <1>4, <1>b, Zenon DEF Moves
<1>6. bw'[w] = t BY <1>1, <1>4, Zenon
<1>7. /\ bw'[w].pc = "exchange" /\ bw'[w].butex = bw[w].butex
      /\ bw'[w].expected = bw[w].expected /\ bw'[w].timed = bw[w].timed
      /\ bw'[w].rc = "ETIMEDOUT" /\ bw'[w].container = bw[w].container
      /\ bw'[w].state = bw[w].state /\ bw'[w].sig = bw[w].sig
      /\ bw'[w].sleep_id = bw[w].sleep_id /\ bw'[w].timer = bw[w].timer
      /\ bw'[w].interrupted = bw[w].interrupted /\ bw'[w].current_waiter = bw[w].current_waiter
      /\ bw'[w].runnable = bw[w].runnable /\ bw'[w].woken = bw[w].woken
      /\ bw'[w].moved = bw[w].moved
  BY <1>1, <1>6, Zenon DEF Thread
<1>e. /\ er' \in [Erasers -> Eraser] /\ er'[w].pc = "idle" /\ er'[w].w = Null /\ er'[w].b = er[w].b
      /\ \A d \in Erasers : d # w => er'[d] = er[d]
  BY <1>1, <1>a, Zenon DEF Eraser, wait_pthread_erased
<1>f. Concerns(w) BY <1>1, <1>a, <1>e, Zenon DEF Concerns, Erasing
<1>g. \A d \in Erasers : Erasing(d)' BY <1>1, <1>a, <1>e, SMTT(30) DEF Whole, Erasing
<1>2. Resumers(w)' = Resumers(w) BY <1>1, <1>a, <1>b, <1>e, Zenon DEF Resumers
<1>h. \A j \in Interrupters : j # w => (Holds(j, w)' <=> Holds(j, w)) /\ er'[j] = er[j] BY <1>1, <1>e, Zenon DEF Holds
<1>c0. Contained(w)' BY <1>1, <1>7, <1>a, <1>b, <1>d, Zenon DEF Mine, Contained, Asleep
<1>c1. Place(w)' BY <1>1, <1>7, <1>a, Zenon DEF Mine, Place
<1>c2. Timed(w)' BY <1>1, <1>7, <1>a, <1>e, Zenon DEF Mine, Timed
<1>c3. Held(w)' BY <1>1, <1>7, <1>a, <1>e, <1>h, Zenon DEF Mine, Held, Holds
<1>c4. Flagged(w)' BY <1>1, <1>7, <1>a, <1>e, <1>h, Zenon DEF Mine, Flagged, Holds
<1>c5. Excused(w)' BY <1>1, <1>7, <1>a, <1>e, Zenon DEF Mine, Excused, Up
<1>c6. Once(w)' BY <1>1, <1>7, <1>a, <1>2, <1>e, <1>s, Zenon DEF Mine, Once, WokenOnce, SignalledOnce, OneResumer
<1>c7. InUse(w)' BY <1>1, <1>7, <1>a, <1>b, <1>e, <1>h, <1>d, Zenon DEF Mine, InUse
<1>c8. Zero(w)' BY <1>1, <1>7, <1>a, Zenon DEF Mine, Zero
<1>8. Mine(w)' BY <1>c0, <1>c1, <1>c2, <1>c3, <1>c4, <1>c5, <1>c6, <1>c7, <1>c8, Zenon DEF Mine
<1>9. Keeps(w) BY <1>1, <1>7, <1>a, Zenon DEF Keeps
<1>10. calls' \in 0 .. MaxCalls BY <1>1, Zenon DEF Whole, ButexTypeOK, wait_pthread_erased
<1> QED BY <1>5, <1>8, <1>9, <1>10, <1>f, <1>g, OneWaiter, Zenon

\* Someone else removed it: it waits for the signal.
LEMMA wait_pthread_erased_Waits == ASSUME ButexConstants, ButexInv, NEW w \in Waiters, wait_pthread_erased(w), ~SelfErased(w) PROVE ButexInv'
<1>1. /\ bw[w] \in Thread /\ Whole /\ Mine(w) /\ (w \in Bthreads <=> w \notin Pthreads) /\ w # Null
      /\ w \in Erasers /\ Erasing(w) /\ er \in [Erasers -> Eraser] /\ bw \in [Waiters -> Thread]
      /\ w \in Erasers /\ w \notin Interrupters /\ Interrupters \subseteq Erasers /\ Waiters \subseteq Erasers
  BY ThreadType, Zenon DEF ButexConstants, Waiters, Erasers, Whole, ButexTypeOK
<1>a. w \in Pthreads /\ bw[w].pc = "wait" /\ er[w].pc = "missed" /\ ~bw[w].sig BY <1>1, Zenon DEF wait_pthread_erased, SelfErased, Mine, Place
<1>b. UNCHANGED <<value, waiters, waiter_lock, wk>> BY Zenon DEF wait_pthread_erased, queue
<1> DEFINE t == [bw[w] EXCEPT !.timed = FALSE]
<1>3. t \in Thread BY <1>1, Update, Zenon
<1>4. bw' = [bw EXCEPT ![w] = t] BY Zenon DEF wait_pthread_erased
<1>5. Moves(w) BY <1>1, <1>3, <1>4, <1>b, Zenon DEF Moves
<1>6. bw'[w] = t BY <1>1, <1>4, Zenon
<1>7. /\ bw'[w].pc = bw[w].pc /\ bw'[w].butex = bw[w].butex /\ bw'[w].expected = bw[w].expected
      /\ bw'[w].timed = FALSE /\ bw'[w].rc = bw[w].rc /\ bw'[w].container = bw[w].container
      /\ bw'[w].state = bw[w].state /\ bw'[w].sig = bw[w].sig
      /\ bw'[w].sleep_id = bw[w].sleep_id /\ bw'[w].timer = bw[w].timer
      /\ bw'[w].interrupted = bw[w].interrupted /\ bw'[w].current_waiter = bw[w].current_waiter
      /\ bw'[w].runnable = bw[w].runnable /\ bw'[w].woken = bw[w].woken
      /\ bw'[w].moved = bw[w].moved
  BY <1>1, <1>6, Zenon DEF Thread
<1>e. /\ er' \in [Erasers -> Eraser] /\ er'[w].pc = "idle" /\ er'[w].w = Null /\ er'[w].b = er[w].b
      /\ \A d \in Erasers : d # w => er'[d] = er[d]
  BY <1>1, <1>a, Zenon DEF Eraser, wait_pthread_erased
<1>f. Concerns(w) BY <1>1, <1>a, <1>e, Zenon DEF Concerns, Erasing
<1>g. \A d \in Erasers : Erasing(d)' BY <1>1, <1>a, <1>e, SMTT(30) DEF Whole, Erasing
<1>2. Resumers(w)' = Resumers(w) BY <1>1, <1>a, <1>b, <1>e, Zenon DEF Resumers
<1>h. \A j \in Interrupters : j # w => (Holds(j, w)' <=> Holds(j, w)) /\ er'[j] = er[j] BY <1>1, <1>e, Zenon DEF Holds
<1>c0. Contained(w)' BY <1>1, <1>7, <1>a, <1>b, Zenon DEF Mine, Contained, Asleep
<1>c1. Place(w)' BY <1>1, <1>7, <1>a, Zenon DEF Mine, Place
<1>c2. Timed(w)' BY <1>1, <1>7, <1>a, <1>e, Zenon DEF Mine, Timed
<1>c3. Held(w)' BY <1>1, <1>7, <1>a, <1>e, <1>h, Zenon DEF Mine, Held, Holds
<1>c4. Flagged(w)' BY <1>1, <1>7, <1>a, <1>e, <1>h, Zenon DEF Mine, Flagged, Holds
<1>c5. Excused(w)' BY <1>1, <1>7, <1>a, <1>e, Zenon DEF Mine, Excused, Up
<1>c6. Once(w)' BY <1>1, <1>7, <1>a, <1>2, <1>e, Zenon DEF Mine, Once, WokenOnce, SignalledOnce, OneResumer
<1>c7. InUse(w)' BY <1>1, <1>7, <1>a, <1>b, <1>e, <1>h, Zenon DEF Mine, InUse
<1>c8. Zero(w)' BY <1>1, <1>7, <1>a, Zenon DEF Mine, Zero
<1>8. Mine(w)' BY <1>c0, <1>c1, <1>c2, <1>c3, <1>c4, <1>c5, <1>c6, <1>c7, <1>c8, Zenon DEF Mine
<1>9. Keeps(w) BY <1>1, <1>7, <1>a, Zenon DEF Keeps
<1>10. calls' \in 0 .. MaxCalls BY <1>1, Zenon DEF Whole, ButexTypeOK, wait_pthread_erased
<1> QED BY <1>5, <1>8, <1>9, <1>10, <1>f, <1>g, OneWaiter, Zenon

\* An eraser reads the container of its waiter.
LEMMA erase_load_Step == ASSUME ButexConstants, ButexInv, NEW e \in Erasers, erase_load(e) PROVE ButexInv'
<1>0. Whole /\ Erasing(e) /\ er[e].pc # "idle" BY Parts, Zenon DEF Whole, Erasers, erase_load
<1>w. PICK w \in Waiters : er[e].w = w BY <1>0, Zenon DEF Erasing
<1>1. /\ bw[w] \in Thread /\ Whole /\ Mine(w) /\ (w \in Bthreads <=> w \notin Pthreads) /\ w # Null
      /\ e \in Erasers /\ Erasing(e) /\ er \in [Erasers -> Eraser] /\ bw \in [Waiters -> Thread]
      /\ w \in Erasers /\ w \notin Interrupters /\ Interrupters \subseteq Erasers /\ Waiters \subseteq Erasers
  BY ThreadType, Zenon DEF ButexConstants, Waiters, Erasers, Whole, ButexTypeOK
<1>a. er[e].pc = "load" BY <1>1, <1>w, Zenon DEF erase_load
<1>b. UNCHANGED <<value, waiters, waiter_lock, wk>> BY Zenon DEF erase_load, queue
<1>k. bw[w].container \in Butexes \cup {Null, Wild} /\ (bw[w].container # Null => bw[w].container \in Butexes)
  <2>1. bw[w].container # Null => w \notin Pthreads \ Interruptees \/ bw[w].pc \notin {"pthread", "exchange", "return"}
    BY <1>1, <1>a, <1>w, Zenon DEF Erasing, Mine, Timed, Erasers
  <2> QED BY <1>1, <2>1, Zenon DEF Mine, Contained, Thread
<1> DEFINE p == IF bw[w].container = Null THEN "missed" ELSE "lock"
<1>p. p \in {"missed", "lock"} /\ (p = "lock" => bw[w].container \in Butexes) BY <1>k, Zenon
<1>q. er' = [er EXCEPT ![e].b = bw[w].container, ![e].pc = p] BY <1>w, Zenon DEF erase_load
<1> HIDE DEF p
<1>7. bw' = bw BY Zenon DEF erase_load
<1>5. Moves(w) BY <1>1, <1>7, <1>b, Zenon DEF Moves
<1>e. /\ er' \in [Erasers -> Eraser] /\ er'[e].pc = p /\ er'[e].w = er[e].w /\ er'[e].b = bw[w].container
      /\ \A d \in Erasers : d # e => er'[d] = er[d]
  BY <1>1, <1>a, <1>w, <1>k, <1>p, <1>q, Zenon DEF Eraser
<1>f. Concerns(w) BY <1>1, <1>a, <1>e, <1>w, Zenon DEF Concerns, Erasing
<1>g. \A d \in Erasers : Erasing(d)' BY <1>1, <1>a, <1>e, <1>w, <1>p, SMTT(30) DEF Whole, Erasing
<1>2. Resumers(w)' = Resumers(w) BY <1>1, <1>a, <1>b, <1>e, <1>w, <1>p, Zenon DEF Resumers
<1>h. \A j \in Interrupters : j # e => (Holds(j, w)' <=> Holds(j, w)) /\ er'[j] = er[j] BY <1>1, <1>e, Zenon DEF Holds
<1>c0. Contained(w)' BY <1>1, <1>7, <1>a, <1>b, <1>w, Zenon DEF Mine, Contained, Asleep
<1>c1. Place(w)' BY <1>1, <1>7, <1>a, Zenon DEF Mine, Place
<1>c2. Timed(w)' BY <1>1, <1>7, <1>a, <1>e, <1>w, <1>p, Zenon DEF Mine, Timed
<1>c3. Held(w)' BY <1>1, <1>7, <1>a, <1>e, <1>h, <1>w, <1>p, Zenon DEF Mine, Held, Holds
<1>c4. Flagged(w)' BY <1>1, <1>7, <1>a, <1>e, <1>h, <1>w, <1>p, Zenon DEF Mine, Flagged, Holds
<1>c5. Excused(w)' BY <1>1, <1>7, <1>a, <1>e, <1>w, <1>p, Zenon DEF Mine, Excused, Up
<1>c6. Once(w)' BY <1>1, <1>7, <1>a, <1>2, <1>e, <1>w, <1>p, Zenon DEF Mine, Once, WokenOnce, SignalledOnce, OneResumer
<1>c7. InUse(w)' BY <1>1, <1>7, <1>a, <1>b, <1>e, <1>h, <1>w, <1>p, Zenon DEF Mine, InUse
<1>c8. Zero(w)' BY <1>1, <1>7, <1>a, Zenon DEF Mine, Zero
<1>8. Mine(w)' BY <1>c0, <1>c1, <1>c2, <1>c3, <1>c4, <1>c5, <1>c6, <1>c7, <1>c8, Zenon DEF Mine
<1>9. Keeps(w) BY <1>1, <1>7, <1>a, Zenon DEF Keeps
<1>10. calls' \in 0 .. MaxCalls BY <1>1, Zenon DEF Whole, ButexTypeOK, erase_load
<1> QED BY <1>5, <1>8, <1>9, <1>10, <1>f, <1>g, OneWaiter, Zenon

\* The waiter is no longer where the eraser looked for it: it starts again.
LEMMA erase_from_butex_Again == ASSUME ButexConstants, ButexInv, NEW e \in Erasers, erase_from_butex(e), ~StillContains(e) PROVE ButexInv'
<1>0. Whole /\ Erasing(e) /\ er[e].pc # "idle" BY Parts, Zenon DEF Whole, Erasers, erase_from_butex
<1>w. PICK w \in Waiters : er[e].w = w BY <1>0, Zenon DEF Erasing
<1>1. /\ bw[w] \in Thread /\ Whole /\ Mine(w) /\ (w \in Bthreads <=> w \notin Pthreads) /\ w # Null
      /\ e \in Erasers /\ Erasing(e) /\ er \in [Erasers -> Eraser] /\ bw \in [Waiters -> Thread]
      /\ w \in Erasers /\ w \notin Interrupters /\ Interrupters \subseteq Erasers /\ Waiters \subseteq Erasers
  BY ThreadType, Zenon DEF ButexConstants, Waiters, Erasers, Whole, ButexTypeOK
<1>a. er[e].pc = "lock" BY <1>1, <1>w, Zenon DEF erase_from_butex
<1>b. UNCHANGED <<value, waiters, waiter_lock, wk>> BY Zenon DEF erase_from_butex
<1>7. bw' = bw BY Zenon DEF erase_from_butex
<1>5. Moves(w) BY <1>1, <1>7, <1>b, Zenon DEF Moves
<1>e. /\ er' \in [Erasers -> Eraser] /\ er'[e].pc = "load" /\ er'[e].w = er[e].w /\ er'[e].b = Null
      /\ \A d \in Erasers : d # e => er'[d] = er[d]
  BY <1>1, <1>a, <1>w, SMTT(30) DEF Eraser, erase_from_butex
<1>f. Concerns(w) BY <1>1, <1>a, <1>e, <1>w, Zenon DEF Concerns, Erasing
<1>g. \A d \in Erasers : Erasing(d)' BY <1>1, <1>a, <1>e, <1>w, SMTT(30) DEF Whole, Erasing
<1>2. Resumers(w)' = Resumers(w) BY <1>1, <1>a, <1>b, <1>e, <1>w, Zenon DEF Resumers
<1>h. \A j \in Interrupters : j # e => (Holds(j, w)' <=> Holds(j, w)) /\ er'[j] = er[j] BY <1>1, <1>e, Zenon DEF Holds
<1>c0. Contained(w)' BY <1>1, <1>7, <1>a, <1>b, <1>w, Zenon DEF Mine, Contained, Asleep
<1>c1. Place(w)' BY <1>1, <1>7, <1>a, Zenon DEF Mine, Place
<1>c2. Timed(w)' BY <1>1, <1>7, <1>a, <1>e, <1>w, Zenon DEF Mine, Timed
<1>c3. Held(w)' BY <1>1, <1>7, <1>a, <1>e, <1>h, <1>w, Zenon DEF Mine, Held, Holds
<1>c4. Flagged(w)' BY <1>1, <1>7, <1>a, <1>e, <1>h, <1>w, Zenon DEF Mine, Flagged, Holds
<1>c5. Excused(w)' BY <1>1, <1>7, <1>a, <1>e, <1>w, Zenon DEF Mine, Excused, Up
<1>c6. Once(w)' BY <1>1, <1>7, <1>a, <1>2, <1>e, <1>w, Zenon DEF Mine, Once, WokenOnce, SignalledOnce, OneResumer
<1>c7. InUse(w)' BY <1>1, <1>7, <1>a, <1>b, <1>e, <1>h, <1>w, Zenon DEF Mine, InUse
<1>c8. Zero(w)' BY <1>1, <1>7, <1>a, Zenon DEF Mine, Zero
<1>8. Mine(w)' BY <1>c0, <1>c1, <1>c2, <1>c3, <1>c4, <1>c5, <1>c6, <1>c7, <1>c8, Zenon DEF Mine
<1>9. Keeps(w) BY <1>1, <1>7, <1>a, Zenon DEF Keeps
<1>10. calls' \in 0 .. MaxCalls BY <1>1, Zenon DEF Whole, ButexTypeOK, erase_from_butex
<1> QED BY <1>5, <1>8, <1>9, <1>10, <1>f, <1>g, OneWaiter, Zenon

\* An interrupter takes the waiter of a thread, if there is one.
LEMMA interrupt_and_consume_waiters_Step == ASSUME ButexConstants, ButexInv, NEW i \in Interrupters, NEW w \in Interruptees, interrupt_and_consume_waiters(i, w) PROVE ButexInv'
<1>0. w \in Waiters /\ i \notin Waiters BY Zenon DEF ButexConstants
<1>1. /\ bw[w] \in Thread /\ Whole /\ Mine(w) /\ (w \in Bthreads <=> w \notin Pthreads) /\ w # Null
      /\ i \in Erasers /\ Erasing(i) /\ er \in [Erasers -> Eraser] /\ bw \in [Waiters -> Thread]
      /\ w \in Erasers /\ w \notin Interrupters /\ Interrupters \subseteq Erasers /\ Waiters \subseteq Erasers
  BY <1>0, ThreadType, Zenon DEF ButexConstants, Waiters, Erasers, Whole, ButexTypeOK
<1>a. er[i].pc = "idle" /\ er[i].w = Null BY <1>1, Zenon DEF interrupt_and_consume_waiters, Erasing
<1> DEFINE p == IF bw[w].current_waiter THEN "flag" ELSE "flag_only"
<1>p. p \in {"flag", "flag_only"} /\ (p = "flag" <=> bw[w].current_waiter) OBVIOUS
<1>q. er' = [er EXCEPT ![i].w = w, ![i].pc = p] BY Zenon DEF interrupt_and_consume_waiters
<1> HIDE DEF p
<1>b. UNCHANGED <<value, waiters, waiter_lock, wk>> BY Zenon DEF interrupt_and_consume_waiters, queue
<1> DEFINE t == [bw[w] EXCEPT !.current_waiter = FALSE]
<1>3. t \in Thread BY <1>1, Update, Zenon
<1>4. bw' = [bw EXCEPT ![w] = t] BY Zenon DEF interrupt_and_consume_waiters
<1>5. Moves(w) BY <1>1, <1>3, <1>4, <1>b, Zenon DEF Moves
<1>6. bw'[w] = t BY <1>0, <1>1, <1>4, Zenon
<1>7. /\ bw'[w].pc = bw[w].pc /\ bw'[w].butex = bw[w].butex /\ bw'[w].expected = bw[w].expected
      /\ bw'[w].timed = bw[w].timed /\ bw'[w].rc = bw[w].rc
      /\ bw'[w].container = bw[w].container /\ bw'[w].state = bw[w].state
      /\ bw'[w].sig = bw[w].sig /\ bw'[w].sleep_id = bw[w].sleep_id
      /\ bw'[w].timer = bw[w].timer /\ bw'[w].interrupted = bw[w].interrupted
      /\ bw'[w].current_waiter = FALSE /\ bw'[w].runnable = bw[w].runnable
      /\ bw'[w].woken = bw[w].woken /\ bw'[w].moved = bw[w].moved
  BY <1>1, <1>6, Zenon DEF Thread
<1>e. /\ er' \in [Erasers -> Eraser] /\ er'[i].pc = p /\ er'[i].w = w /\ er'[i].b = er[i].b
      /\ \A d \in Erasers : d # i => er'[d] = er[d]
  BY <1>1, <1>a, <1>p, <1>q DEF Eraser
<1>f. Concerns(w) BY <1>0, <1>1, <1>a, <1>e, Zenon DEF Concerns, Erasing
<1>g. \A d \in Erasers : Erasing(d)' BY <1>0, <1>1, <1>a, <1>e, <1>p, SMTT(30) DEF Whole, Erasing
<1>2. Resumers(w)' = Resumers(w) BY <1>1, <1>a, <1>b, <1>e, <1>p, Zenon DEF Resumers
<1>h. \A j \in Interrupters : j # i => (Holds(j, w)' <=> Holds(j, w)) /\ er'[j] = er[j] BY <1>1, <1>e, Zenon DEF Holds
<1>c0. Contained(w)' BY <1>1, <1>7, <1>a, <1>b, Zenon DEF Mine, Contained, Asleep
<1>c1. Place(w)' BY <1>1, <1>7, <1>a, Zenon DEF Mine, Place
<1>c2. Timed(w)' BY <1>1, <1>7, <1>a, <1>e, <1>p, SMTT(30) DEF Mine, Timed
<1>c3. Held(w)' BY <1>1, <1>7, <1>a, <1>e, <1>h, <1>p, SMTT(30) DEF Mine, Held, Holds
<1>c4. Flagged(w)' BY <1>1, <1>7, <1>a, <1>e, <1>h, <1>p, SMTT(30) DEF Mine, Flagged, Holds
<1>c5. Excused(w)' BY <1>1, <1>7, <1>a, <1>e, <1>p, SMTT(30) DEF Mine, Excused, Up
<1>c6. Once(w)' BY <1>1, <1>7, <1>a, <1>2, <1>e, <1>p, SMTT(30) DEF Mine, Once, WokenOnce, SignalledOnce, OneResumer
<1>c7. InUse(w)' BY <1>1, <1>7, <1>a, <1>b, <1>e, <1>h, <1>p, Zenon DEF Mine, InUse, Held, Holds
<1>c8. Zero(w)' BY <1>1, <1>7, <1>a, Zenon DEF Mine, Zero
<1>8. Mine(w)' BY <1>c0, <1>c1, <1>c2, <1>c3, <1>c4, <1>c5, <1>c6, <1>c7, <1>c8, Zenon DEF Mine
<1>9. Keeps(w) BY <1>1, <1>7, <1>a, Zenon DEF Keeps
<1>10. calls' \in 0 .. MaxCalls BY <1>1 DEF Whole, ButexTypeOK, interrupt_and_consume_waiters, ButexConstants
<1> QED BY <1>0, <1>5, <1>8, <1>9, <1>10, <1>f, <1>g, OneWaiter, Zenon

\* It says that the thread is interrupted, and sets out to remove the waiter it took.
LEMMA interrupt_set_Waiter == ASSUME ButexConstants, ButexInv, NEW i \in Interrupters, interrupt_set(i), er[i].pc = "flag" PROVE ButexInv'
<1>0. Whole /\ Erasing(i) /\ er[i].pc # "idle" BY Parts, Zenon DEF Whole, Erasers, interrupt_set
<1>w. PICK w \in Waiters : er[i].w = w BY <1>0, Zenon DEF Erasing
<1>1. /\ bw[w] \in Thread /\ Whole /\ Mine(w) /\ (w \in Bthreads <=> w \notin Pthreads) /\ w # Null
      /\ i \in Erasers /\ Erasing(i) /\ er \in [Erasers -> Eraser] /\ bw \in [Waiters -> Thread]
      /\ w \in Erasers /\ w \notin Interrupters /\ Interrupters \subseteq Erasers /\ Waiters \subseteq Erasers
  BY ThreadType, Zenon DEF ButexConstants, Waiters, Erasers, Whole, ButexTypeOK
<1>a. er[i].pc = "flag" BY <1>1, <1>w, Zenon DEF interrupt_set
<1>b. UNCHANGED <<value, waiters, waiter_lock, wk>> BY Zenon DEF interrupt_set, queue
<1> DEFINE t == [bw[w] EXCEPT !.interrupted = TRUE]
<1>3. t \in Thread BY <1>1, Update, Zenon
<1>4. bw' = [bw EXCEPT ![w] = t] BY <1>w, Zenon DEF interrupt_set
<1>5. Moves(w) BY <1>1, <1>3, <1>4, <1>b, Zenon DEF Moves
<1>6. bw'[w] = t BY <1>1, <1>4, Zenon
<1>7. /\ bw'[w].pc = bw[w].pc /\ bw'[w].butex = bw[w].butex /\ bw'[w].expected = bw[w].expected
      /\ bw'[w].timed = bw[w].timed /\ bw'[w].rc = bw[w].rc
      /\ bw'[w].container = bw[w].container /\ bw'[w].state = bw[w].state
      /\ bw'[w].sig = bw[w].sig /\ bw'[w].sleep_id = bw[w].sleep_id
      /\ bw'[w].timer = bw[w].timer /\ bw'[w].interrupted = TRUE
      /\ bw'[w].current_waiter = bw[w].current_waiter /\ bw'[w].runnable = bw[w].runnable
      /\ bw'[w].woken = bw[w].woken /\ bw'[w].moved = bw[w].moved
  BY <1>1, <1>6, Zenon DEF Thread
<1>e. /\ er' \in [Erasers -> Eraser] /\ er'[i].pc = "load" /\ er'[i].w = er[i].w /\ er'[i].b = er[i].b
      /\ \A d \in Erasers : d # i => er'[d] = er[d]
  BY <1>1, <1>a, <1>w, Zenon DEF Eraser, interrupt_set
<1>f. Concerns(w) BY <1>1, <1>a, <1>e, <1>w, Zenon DEF Concerns, Erasing
<1>g. \A d \in Erasers : Erasing(d)' BY <1>1, <1>a, <1>e, <1>w, SMTT(30) DEF Whole, Erasing
<1>2. Resumers(w)' = Resumers(w) BY <1>1, <1>a, <1>b, <1>e, <1>w, Zenon DEF Resumers
<1>h. \A j \in Interrupters : j # i => (Holds(j, w)' <=> Holds(j, w)) /\ er'[j] = er[j] BY <1>1, <1>e, Zenon DEF Holds
<1>c0. Contained(w)' BY <1>1, <1>7, <1>a, <1>b, <1>w, SMTT(30) DEF Mine, Contained, Asleep
<1>c1. Place(w)' BY <1>1, <1>7, <1>a, Zenon DEF Mine, Place
<1>c2. Timed(w)' BY <1>1, <1>7, <1>a, <1>e, <1>w, SMTT(30) DEF Mine, Timed
<1>c3. Held(w)' BY <1>1, <1>7, <1>a, <1>e, <1>h, <1>w, Zenon DEF Mine, Held, Holds
<1>c4. Flagged(w)' BY <1>1, <1>7, <1>a, <1>e, <1>h, <1>w, Zenon DEF Mine, Flagged, Holds
<1>c5. Excused(w)' BY <1>1, <1>7, <1>a, <1>e, <1>w, Zenon DEF Mine, Excused, Up
<1>c6. Once(w)' BY <1>1, <1>7, <1>a, <1>2, <1>e, <1>w, SMTT(30) DEF Mine, Once, WokenOnce, SignalledOnce, OneResumer
<1>c7. InUse(w)' BY <1>1, <1>7, <1>a, <1>b, <1>e, <1>h, <1>w, Zenon DEF Mine, InUse
<1>c8. Zero(w)' BY <1>1, <1>7, <1>a, Zenon DEF Mine, Zero
<1>8. Mine(w)' BY <1>c0, <1>c1, <1>c2, <1>c3, <1>c4, <1>c5, <1>c6, <1>c7, <1>c8, Zenon DEF Mine
<1>9. Keeps(w) BY <1>1, <1>7, <1>a, Zenon DEF Keeps
<1>10. calls' \in 0 .. MaxCalls BY <1>1, Zenon DEF Whole, ButexTypeOK, interrupt_set
<1> QED BY <1>5, <1>8, <1>9, <1>10, <1>f, <1>g, OneWaiter, Zenon

\* It says so, and has no waiter to remove.
LEMMA interrupt_set_Only == ASSUME ButexConstants, ButexInv, NEW i \in Interrupters, interrupt_set(i), er[i].pc = "flag_only" PROVE ButexInv'
<1>0. Whole /\ Erasing(i) /\ er[i].pc # "idle" BY Parts, Zenon DEF Whole, Erasers, interrupt_set
<1>w. PICK w \in Waiters : er[i].w = w BY <1>0, Zenon DEF Erasing
<1>1. /\ bw[w] \in Thread /\ Whole /\ Mine(w) /\ (w \in Bthreads <=> w \notin Pthreads) /\ w # Null
      /\ i \in Erasers /\ Erasing(i) /\ er \in [Erasers -> Eraser] /\ bw \in [Waiters -> Thread]
      /\ w \in Erasers /\ w \notin Interrupters /\ Interrupters \subseteq Erasers /\ Waiters \subseteq Erasers
  BY ThreadType, Zenon DEF ButexConstants, Waiters, Erasers, Whole, ButexTypeOK
<1>a. er[i].pc = "flag_only" BY <1>1, <1>w, Zenon DEF interrupt_set
<1>b. UNCHANGED <<value, waiters, waiter_lock, wk>> BY Zenon DEF interrupt_set, queue
<1> DEFINE t == [bw[w] EXCEPT !.interrupted = TRUE]
<1>3. t \in Thread BY <1>1, Update, Zenon
<1>4. bw' = [bw EXCEPT ![w] = t] BY <1>w, Zenon DEF interrupt_set
<1>5. Moves(w) BY <1>1, <1>3, <1>4, <1>b, Zenon DEF Moves
<1>6. bw'[w] = t BY <1>1, <1>4, Zenon
<1>7. /\ bw'[w].pc = bw[w].pc /\ bw'[w].butex = bw[w].butex /\ bw'[w].expected = bw[w].expected
      /\ bw'[w].timed = bw[w].timed /\ bw'[w].rc = bw[w].rc
      /\ bw'[w].container = bw[w].container /\ bw'[w].state = bw[w].state
      /\ bw'[w].sig = bw[w].sig /\ bw'[w].sleep_id = bw[w].sleep_id
      /\ bw'[w].timer = bw[w].timer /\ bw'[w].interrupted = TRUE
      /\ bw'[w].current_waiter = bw[w].current_waiter /\ bw'[w].runnable = bw[w].runnable
      /\ bw'[w].woken = bw[w].woken /\ bw'[w].moved = bw[w].moved
  BY <1>1, <1>6, Zenon DEF Thread
<1>e. /\ er' \in [Erasers -> Eraser] /\ er'[i].pc = "idle" /\ er'[i].w = Null /\ er'[i].b = er[i].b
      /\ \A d \in Erasers : d # i => er'[d] = er[d]
  BY <1>1, <1>a, <1>w, Zenon DEF Eraser, interrupt_set
<1>f. Concerns(w) BY <1>1, <1>a, <1>e, <1>w, Zenon DEF Concerns, Erasing
<1>g. \A d \in Erasers : Erasing(d)' BY <1>1, <1>a, <1>e, <1>w, SMTT(30) DEF Whole, Erasing
<1>2. Resumers(w)' = Resumers(w) BY <1>1, <1>a, <1>b, <1>e, <1>w, Zenon DEF Resumers
<1>h. \A j \in Interrupters : j # i => (Holds(j, w)' <=> Holds(j, w)) /\ er'[j] = er[j] BY <1>1, <1>e, Zenon DEF Holds
<1>i. er'[w] = er[w] /\ ~Holds(i, w)' BY <1>1, <1>e, Zenon DEF Holds
<1>c0. Contained(w)' BY <1>1, <1>7, <1>a, <1>b, <1>w, SMTT(30) DEF Mine, Contained, Asleep
<1>c1. Place(w)' BY <1>1, <1>7, <1>a, Zenon DEF Mine, Place
<1>c2. Timed(w)' BY <1>1, <1>7, <1>a, <1>e, <1>w, <1>i, SMTT(30) DEF Mine, Timed
<1>c3. Held(w)' BY <1>1, <1>7, <1>a, <1>e, <1>h, <1>w, <1>i, SMTT(30) DEF Mine, Held, Holds
<1>c4. Flagged(w)' BY <1>1, <1>7, <1>a, <1>e, <1>h, <1>w, <1>i, Zenon DEF Mine, Flagged, Holds
<1>c5. Excused(w)' BY <1>1, <1>7, <1>a, <1>e, <1>w, <1>i, Zenon DEF Mine, Excused, Up
<1>c6. Once(w)' BY <1>1, <1>7, <1>a, <1>2, <1>e, <1>w, <1>i DEF Mine, Once, WokenOnce, SignalledOnce, OneResumer
<1>c7. InUse(w)' BY <1>1, <1>7, <1>a, <1>b, <1>e, <1>h, <1>w, <1>i, SMTT(30) DEF Mine, InUse
<1>c8. Zero(w)' BY <1>1, <1>7, <1>a, Zenon DEF Mine, Zero
<1>8. Mine(w)' BY <1>c0, <1>c1, <1>c2, <1>c3, <1>c4, <1>c5, <1>c6, <1>c7, <1>c8, Zenon DEF Mine
<1>9. Keeps(w) BY <1>1, <1>7, <1>a, Zenon DEF Keeps
<1>10. calls' \in 0 .. MaxCalls BY <1>1, Zenon DEF Whole, ButexTypeOK, interrupt_set
<1> QED BY <1>5, <1>8, <1>9, <1>10, <1>f, <1>g, OneWaiter, Zenon

\* An interrupter gives the waiter back.
\* An interrupter gives the waiter back to the thread it was taken from.
LEMMA set_butex_waiter_Step == ASSUME ButexConstants, ButexInv, NEW i \in Interrupters, set_butex_waiter(i) PROVE ButexInv'
<1>0. Whole /\ Erasing(i) /\ er[i].pc # "idle" BY Parts, Zenon DEF Whole, Erasers, set_butex_waiter
<1>w. PICK w \in Waiters : er[i].w = w BY <1>0, Zenon DEF Erasing
<1>1. /\ bw[w] \in Thread /\ Whole /\ Mine(w) /\ (w \in Bthreads <=> w \notin Pthreads) /\ w # Null
      /\ i \in Erasers /\ Erasing(i) /\ er \in [Erasers -> Eraser] /\ bw \in [Waiters -> Thread]
      /\ w \in Erasers /\ w \notin Interrupters /\ Interrupters \subseteq Erasers /\ Waiters \subseteq Erasers
  BY ThreadType, Zenon DEF ButexConstants, Waiters, Erasers, Whole, ButexTypeOK
<1>a. er[i].pc \in {"erased", "missed"} BY <1>1, <1>w, Zenon DEF set_butex_waiter
<1>b. UNCHANGED <<value, waiters, waiter_lock, wk>> BY Zenon DEF set_butex_waiter, queue
<1> DEFINE t == [bw[w] EXCEPT !.current_waiter = TRUE]
<1>3. t \in Thread BY <1>1, Update, Zenon
<1>4. bw' = [bw EXCEPT ![w] = t] BY <1>w, Zenon DEF set_butex_waiter
<1>5. Moves(w) BY <1>1, <1>3, <1>4, <1>b, Zenon DEF Moves
<1>6. bw'[w] = t BY <1>1, <1>4, Zenon
<1>7. /\ bw'[w].pc = bw[w].pc /\ bw'[w].butex = bw[w].butex /\ bw'[w].expected = bw[w].expected
      /\ bw'[w].timed = bw[w].timed /\ bw'[w].rc = bw[w].rc
      /\ bw'[w].container = bw[w].container /\ bw'[w].state = bw[w].state
      /\ bw'[w].sig = bw[w].sig /\ bw'[w].sleep_id = bw[w].sleep_id
      /\ bw'[w].timer = bw[w].timer /\ bw'[w].interrupted = bw[w].interrupted
      /\ bw'[w].current_waiter = TRUE /\ bw'[w].runnable = bw[w].runnable
      /\ bw'[w].woken = bw[w].woken /\ bw'[w].moved = bw[w].moved
  BY <1>1, <1>6, Zenon DEF Thread
<1>e. /\ er' \in [Erasers -> Eraser] /\ er'[i].pc = "idle" /\ er'[i].w = Null /\ er'[i].b = er[i].b
      /\ \A d \in Erasers : d # i => er'[d] = er[d]
  BY <1>1, <1>a, <1>w, Zenon DEF Eraser, set_butex_waiter
<1>f. Concerns(w) BY <1>1, <1>a, <1>e, <1>w, Zenon DEF Concerns, Erasing
<1>g. \A d \in Erasers : Erasing(d)' BY <1>1, <1>a, <1>e, <1>w, SMTT(30) DEF Whole, Erasing
<1>2. Resumers(w)' = Resumers(w) BY <1>1, <1>a, <1>b, <1>e, <1>w, Zenon DEF Resumers
<1>h. \A j \in Interrupters : j # i => (Holds(j, w)' <=> Holds(j, w)) /\ er'[j] = er[j] BY <1>1, <1>e, Zenon DEF Holds
<1>i. er'[w] = er[w] /\ ~Holds(i, w)' BY <1>1, <1>e, Zenon DEF Holds
<1>c0. Contained(w)' BY <1>1, <1>7, <1>a, <1>b, <1>w, Zenon DEF Mine, Contained, Asleep
<1>c1. Place(w)' BY <1>1, <1>7, <1>a, Zenon DEF Mine, Place
<1>c2. Timed(w)' BY <1>1, <1>7, <1>a, <1>e, <1>w, <1>i DEF Mine, Timed
<1>c3. Held(w)' BY <1>1, <1>7, <1>a, <1>e, <1>h, <1>w, <1>i, Zenon DEF Mine, Held, Holds
<1>c4. Flagged(w)' BY <1>1, <1>7, <1>a, <1>e, <1>h, <1>w, <1>i, Zenon DEF Mine, Flagged, Holds
<1>c5. Excused(w)' BY <1>1, <1>7, <1>a, <1>e, <1>w, <1>i, SMTT(30) DEF Mine, Excused, Up
<1>c6. Once(w)' BY <1>1, <1>7, <1>a, <1>2, <1>e, <1>w, <1>i, SMTT(30) DEF Mine, Once, WokenOnce, SignalledOnce, OneResumer
<1>c7. InUse(w)' BY <1>1, <1>7, <1>a, <1>b, <1>e, <1>h, <1>w, <1>i, Zenon DEF Mine, InUse
<1>c8. Zero(w)' BY <1>1, <1>7, <1>a, Zenon DEF Mine, Zero
<1>8. Mine(w)' BY <1>c0, <1>c1, <1>c2, <1>c3, <1>c4, <1>c5, <1>c6, <1>c7, <1>c8, Zenon DEF Mine
<1>9. Keeps(w) BY <1>1, <1>7, <1>a, Zenon DEF Keeps
<1>10. calls' \in 0 .. MaxCalls BY <1>1, Zenon DEF Whole, ButexTypeOK, set_butex_waiter
<1> QED BY <1>5, <1>8, <1>9, <1>10, <1>f, <1>g, OneWaiter, Zenon

\* An eraser makes the bthread that it removed run again.
LEMMA erase_wakeup_Bthreads == ASSUME ButexConstants, ButexInv, NEW e \in Erasers, erase_wakeup(e), er[e].w \in Bthreads PROVE ButexInv'
<1>0. Whole /\ Erasing(e) /\ er[e].pc # "idle" BY Parts, Zenon DEF Whole, Erasers, erase_wakeup
<1>w. PICK w \in Waiters : er[e].w = w BY <1>0, Zenon DEF Erasing
<1>1. /\ bw[w] \in Thread /\ Whole /\ Mine(w) /\ (w \in Bthreads <=> w \notin Pthreads) /\ w # Null
      /\ e \in Erasers /\ Erasing(e) /\ er \in [Erasers -> Eraser] /\ bw \in [Waiters -> Thread]
      /\ w \in Erasers /\ w \notin Interrupters /\ Interrupters \subseteq Erasers /\ Waiters \subseteq Erasers
  BY ThreadType, Zenon DEF ButexConstants, Waiters, Erasers, Whole, ButexTypeOK
<1>a. er[e].pc = "wake" /\ e \notin Pthreads BY <1>1, <1>w, Zenon DEF erase_wakeup, Erasing
<1>i. w \in Bthreads /\ e \in Resumers(w) BY <1>1, <1>a, <1>w, Zenon DEF Resumers
<1>j. Resumers(w) = {e} /\ bw[w].pc = "sleep" /\ bw[w].runnable = 0 BY <1>1, <1>i, Zenon DEF Mine, Once, WokenOnce, SignalledOnce, OneResumer
<1>k. /\ \A b \in Butexes : w \notin Range(waiters[b])
      /\ \A k \in Wakers : w \notin Range(wk[k].batch)
      /\ \A d \in Erasers : er[d].w = w /\ er[d].pc = "wake" => d = e
  BY <1>1, <1>j, Zenon DEF Resumers, ButexConstants
<1>l. bw[w].interrupted \/ e = w
  <2>1. e \in Interrupters => Holds(e, w) /\ er[e].pc # "flag" BY <1>a, <1>w, Zenon DEF Holds
  <2> QED BY <1>1, <1>a, <1>i, <1>j, <1>w, <2>1, Zenon DEF Mine, Flagged, Erasing, Erasers
<1>b. UNCHANGED <<value, waiters, waiter_lock, wk>> BY Zenon DEF erase_wakeup, queue
<1>m. bw' = [bw EXCEPT ![w] = [bw[w] EXCEPT !.runnable = bw[w].runnable + 1]]
  BY <1>i, <1>w, Zenon DEF erase_wakeup, MakeRunnable
<1>n. bw[w].runnable + 1 = 1 BY <1>j, SMTT(30)
<1> DEFINE t == [bw[w] EXCEPT !.runnable = 1]
<1>3. t \in Thread BY <1>1, Update, Zenon
<1>4. bw' = [bw EXCEPT ![w] = t] BY <1>m, <1>n, Zenon
<1>5. Moves(w) BY <1>1, <1>3, <1>4, <1>b, Zenon DEF Moves
<1>6. bw'[w] = t BY <1>1, <1>4, Zenon
<1>7. /\ bw'[w].pc = bw[w].pc /\ bw'[w].butex = bw[w].butex /\ bw'[w].expected = bw[w].expected
      /\ bw'[w].timed = bw[w].timed /\ bw'[w].rc = bw[w].rc
      /\ bw'[w].container = bw[w].container /\ bw'[w].state = bw[w].state
      /\ bw'[w].sig = bw[w].sig /\ bw'[w].sleep_id = bw[w].sleep_id
      /\ bw'[w].timer = bw[w].timer /\ bw'[w].interrupted = bw[w].interrupted
      /\ bw'[w].current_waiter = bw[w].current_waiter /\ bw'[w].runnable = 1
      /\ bw'[w].woken = bw[w].woken /\ bw'[w].moved = bw[w].moved
  BY <1>1, <1>6, Zenon DEF Thread
<1>e. /\ er' \in [Erasers -> Eraser] /\ er'[e].pc = "erased" /\ er'[e].w = er[e].w /\ er'[e].b = er[e].b
      /\ \A d \in Erasers : d # e => er'[d] = er[d]
  BY <1>1, <1>a, <1>w, Zenon DEF Eraser, erase_wakeup
<1>f. Concerns(w) BY <1>1, <1>a, <1>e, <1>w, Zenon DEF Concerns, Erasing
<1>g. \A d \in Erasers : Erasing(d)' BY <1>1, <1>a, <1>e, <1>w, SMTT(30) DEF Whole, Erasing
<1>2. Resumers(w)' = {} BY <1>1, <1>a, <1>b, <1>e, <1>w, <1>k, Zenon DEF Resumers
<1>h. \A j \in Interrupters : j # e => (Holds(j, w)' <=> Holds(j, w)) /\ er'[j] = er[j] BY <1>1, <1>e, Zenon DEF Holds
<1>c0. Contained(w)' BY <1>1, <1>7, <1>a, <1>b, <1>w, <1>j, <1>k, SMTT(30) DEF Mine, Contained, Asleep
<1>c1. Place(w)' BY <1>1, <1>7, <1>a, Zenon DEF Mine, Place
<1>c2. Timed(w)' BY <1>1, <1>7, <1>a, <1>e, <1>w, <1>i, <1>j, <1>l, SMTT(30) DEF Mine, Timed
<1>c3. Held(w)' BY <1>1, <1>7, <1>a, <1>e, <1>h, <1>w, <1>i, <1>j, SMTT(30) DEF Mine, Held, Holds
<1>c4. Flagged(w)' BY <1>1, <1>7, <1>a, <1>e, <1>h, <1>w, <1>i, <1>j, SMTT(30) DEF Mine, Flagged, Holds
<1>c5. Excused(w)' BY <1>1, <1>7, <1>a, <1>e, <1>w, <1>i, <1>j, <1>l, SMTT(30) DEF Mine, Excused, Up
<1>c6. Once(w)' BY <1>1, <1>7, <1>a, <1>2, <1>e, <1>w, <1>i, <1>j, <1>l, Zenon DEF Mine, Once, WokenOnce, SignalledOnce, OneResumer
<1>c7. InUse(w)' BY <1>1, <1>7, <1>a, <1>b, <1>e, <1>h, <1>w, <1>i, <1>j, <1>k, Zenon DEF Mine, InUse
<1>c8. Zero(w)' BY <1>1, <1>7, <1>a, Zenon DEF Mine, Zero
<1>8. Mine(w)' BY <1>c0, <1>c1, <1>c2, <1>c3, <1>c4, <1>c5, <1>c6, <1>c7, <1>c8, Zenon DEF Mine
<1>9. Keeps(w) BY <1>1, <1>7, <1>a, Zenon DEF Keeps
<1>10. calls' \in 0 .. MaxCalls BY <1>1, Zenon DEF Whole, ButexTypeOK, erase_wakeup
<1> QED BY <1>5, <1>8, <1>9, <1>10, <1>f, <1>g, OneWaiter, Zenon

\* An eraser makes the thread in pthread mode that it removed run again.
LEMMA erase_wakeup_Pthreads == ASSUME ButexConstants, ButexInv, NEW e \in Erasers, erase_wakeup(e), er[e].w \in Pthreads PROVE ButexInv'
<1>0. Whole /\ Erasing(e) /\ er[e].pc # "idle" BY Parts, Zenon DEF Whole, Erasers, erase_wakeup
<1>w. PICK w \in Waiters : er[e].w = w BY <1>0, Zenon DEF Erasing
<1>1. /\ bw[w] \in Thread /\ Whole /\ Mine(w) /\ (w \in Bthreads <=> w \notin Pthreads) /\ w # Null
      /\ e \in Erasers /\ Erasing(e) /\ er \in [Erasers -> Eraser] /\ bw \in [Waiters -> Thread]
      /\ w \in Erasers /\ w \notin Interrupters /\ Interrupters \subseteq Erasers /\ Waiters \subseteq Erasers
  BY ThreadType, Zenon DEF ButexConstants, Waiters, Erasers, Whole, ButexTypeOK
<1>a. er[e].pc = "wake" /\ e \notin Pthreads BY <1>1, <1>w, Zenon DEF erase_wakeup, Erasing
<1>i. w \in Pthreads /\ e \in Resumers(w) BY <1>1, <1>a, <1>w, Zenon DEF Resumers
<1>j. Resumers(w) = {e} /\ bw[w].pc = "wait" /\ ~bw[w].sig BY <1>1, <1>i, Zenon DEF Mine, Once, WokenOnce, SignalledOnce, OneResumer
<1>k. /\ \A b \in Butexes : w \notin Range(waiters[b])
      /\ \A k \in Wakers : w \notin Range(wk[k].batch)
      /\ \A d \in Erasers : er[d].w = w /\ er[d].pc = "wake" => d = e
  BY <1>1, <1>j, Zenon DEF Resumers, ButexConstants
<1>l. bw[w].interrupted \/ e = w
  <2>1. e \in Interrupters => Holds(e, w) /\ er[e].pc # "flag" BY <1>a, <1>w, Zenon DEF Holds
  <2> QED BY <1>1, <1>a, <1>i, <1>j, <1>w, <2>1, Zenon DEF Mine, Flagged, Erasing, Erasers
<1>b. UNCHANGED <<value, waiters, waiter_lock, wk>> BY Zenon DEF erase_wakeup, queue
<1> DEFINE t == [bw[w] EXCEPT !.sig = TRUE]
<1>3. t \in Thread BY <1>1, Update, Zenon
<1>4. bw' = [bw EXCEPT ![w] = t] BY <1>i, <1>w, <1>1, Zenon DEF erase_wakeup, MakeRunnable
<1>5. Moves(w) BY <1>1, <1>3, <1>4, <1>b, Zenon DEF Moves
<1>6. bw'[w] = t BY <1>1, <1>4, Zenon
<1>7. /\ bw'[w].pc = bw[w].pc /\ bw'[w].butex = bw[w].butex /\ bw'[w].expected = bw[w].expected
      /\ bw'[w].timed = bw[w].timed /\ bw'[w].rc = bw[w].rc
      /\ bw'[w].container = bw[w].container /\ bw'[w].state = bw[w].state /\ bw'[w].sig = TRUE
      /\ bw'[w].sleep_id = bw[w].sleep_id /\ bw'[w].timer = bw[w].timer
      /\ bw'[w].interrupted = bw[w].interrupted /\ bw'[w].current_waiter = bw[w].current_waiter
      /\ bw'[w].runnable = bw[w].runnable /\ bw'[w].woken = bw[w].woken
      /\ bw'[w].moved = bw[w].moved
  BY <1>1, <1>6, Zenon DEF Thread
<1>e. /\ er' \in [Erasers -> Eraser] /\ er'[e].pc = "erased" /\ er'[e].w = er[e].w /\ er'[e].b = er[e].b
      /\ \A d \in Erasers : d # e => er'[d] = er[d]
  BY <1>1, <1>a, <1>w, Zenon DEF Eraser, erase_wakeup
<1>f. Concerns(w) BY <1>1, <1>a, <1>e, <1>w, Zenon DEF Concerns, Erasing
<1>g. \A d \in Erasers : Erasing(d)' BY <1>1, <1>a, <1>e, <1>w, SMTT(30) DEF Whole, Erasing
<1>2. Resumers(w)' = {} BY <1>1, <1>a, <1>b, <1>e, <1>w, <1>k, Zenon DEF Resumers
<1>h. \A j \in Interrupters : j # e => (Holds(j, w)' <=> Holds(j, w)) /\ er'[j] = er[j] BY <1>1, <1>e, Zenon DEF Holds
<1>c0. Contained(w)' BY <1>1, <1>7, <1>a, <1>b, <1>w, <1>j, <1>k DEF Mine, Contained, Asleep
<1>c1. Place(w)' BY <1>1, <1>7, <1>a, Zenon DEF Mine, Place
<1>c2. Timed(w)' BY <1>1, <1>7, <1>a, <1>e, <1>w, <1>i, <1>j, <1>l, SMTT(30) DEF Mine, Timed
<1>c3. Held(w)' BY <1>1, <1>7, <1>a, <1>e, <1>h, <1>w, <1>i, <1>j, SMTT(30) DEF Mine, Held, Holds
<1>c4. Flagged(w)' BY <1>1, <1>7, <1>a, <1>e, <1>h, <1>w, <1>i, <1>j, SMTT(30) DEF Mine, Flagged, Holds
<1>c5. Excused(w)' BY <1>1, <1>7, <1>a, <1>e, <1>w, <1>i, <1>j, <1>l, Zenon DEF Mine, Excused, Up
<1>c6. Once(w)' BY <1>1, <1>7, <1>a, <1>2, <1>e, <1>w, <1>i, <1>j, <1>l, Zenon DEF Mine, Once, WokenOnce, SignalledOnce, OneResumer
<1>c7. InUse(w)' BY <1>1, <1>7, <1>a, <1>b, <1>e, <1>h, <1>w, <1>i, <1>j, <1>k, Zenon DEF Mine, InUse
<1>c8. Zero(w)' BY <1>1, <1>7, <1>a, Zenon DEF Mine, Zero
<1>8. Mine(w)' BY <1>c0, <1>c1, <1>c2, <1>c3, <1>c4, <1>c5, <1>c6, <1>c7, <1>c8, Zenon DEF Mine
<1>9. Keeps(w) BY <1>1, <1>7, <1>a, Zenon DEF Keeps
<1>10. calls' \in 0 .. MaxCalls BY <1>1, Zenon DEF Whole, ButexTypeOK, erase_wakeup
<1> QED BY <1>5, <1>8, <1>9, <1>10, <1>f, <1>g, OneWaiter, Zenon

-----------------------------------------------------------------------------
(* The list of waiters of a butex.                                          *)

Queue(q) == q \in Seq(Waiters) /\ IsInjective(q)

\* wait_for_butex: a waiter that is not in the list is put at its end.
LEMMA AppendQueue ==
  ASSUME NEW q, Queue(q), NEW t \in Waiters, t \notin Range(q)
  PROVE  Queue(Append(q, t)) /\ Range(Append(q, t)) = Range(q) \cup {t}
  BY DEF Queue, Range, IsInjective

\* butex_wake: the first waiter of the list leaves it.
LEMMA RestQueue ==
  ASSUME NEW q, Queue(q), q # <<>>
  PROVE  /\ Queue(Tail(q)) /\ Head(q) \in Waiters /\ Head(q) \in Range(q)
         /\ Range(Tail(q)) = Range(q) \ {Head(q)}
  <1>1. /\ Len(q) \in Nat \ {0} /\ DOMAIN q = 1 .. Len(q) /\ Head(q) = q[1]
        /\ \A i \in 1 .. Len(q) : q[i] \in Waiters
    BY SMTT(30) DEF Queue
  <1>2. /\ Tail(q) \in Seq(Waiters) /\ DOMAIN Tail(q) = 1 .. Len(q) - 1
        /\ \A i \in 1 .. Len(q) - 1 : Tail(q)[i] = q[i + 1]
    BY <1>1, SMTT(30) DEF Queue
  <1>3. IsInjective(Tail(q))
    <2> SUFFICES ASSUME NEW a \in 1 .. Len(q) - 1, NEW b \in 1 .. Len(q) - 1,
                        Tail(q)[a] = Tail(q)[b]
                 PROVE  a = b
      BY <1>2, Zenon DEF IsInjective
    <2>1. q[a + 1] = q[b + 1] /\ a + 1 \in DOMAIN q /\ b + 1 \in DOMAIN q BY <1>1, <1>2, SMTT(30)
    <2>2. a + 1 = b + 1 BY <2>1, Zenon DEF Queue, IsInjective
    <2> QED BY <1>1, <2>2
  <1>4. Range(Tail(q)) \subseteq Range(q) \ {Head(q)}
    BY <1>1, <1>2, SMTT(30) DEF Queue, Range, IsInjective
  <1>5. ASSUME NEW u \in Range(q), u # Head(q) PROVE u \in Range(Tail(q))
    <2>1. PICK i \in 1 .. Len(q) : q[i] = u BY <1>1, Zenon DEF Range
    <2>2. i - 1 \in 1 .. Len(q) - 1 /\ Tail(q)[i - 1] = u BY <1>1, <1>2, <1>5, <2>1, SMTT(30)
    <2> QED BY <1>2, <2>2, Zenon DEF Range
  <1>6. 1 \in DOMAIN q BY <1>1, SMTT(30)
  <1>7. Head(q) \in Waiters /\ Head(q) \in Range(q) BY <1>1, <1>6, Zenon DEF Range
  <1> QED BY <1>2, <1>3, <1>4, <1>5, <1>7, Zenon DEF Queue

\* erase_from_butex: t leaves the list, wherever it is, if it is in it.
LEMMA WithoutQueue ==
  ASSUME NEW q, Queue(q), NEW t \in Waiters
  PROVE  Queue(Without(q, t)) /\ Range(Without(q, t)) = Range(q) \ {t}
  <1>1. CASE t \notin Range(q) BY <1>1, Zenon DEF Without
  <1>2. CASE t \in Range(q)
    <2> DEFINE i == CHOOSE k \in DOMAIN q : q[k] = t
               n == Len(q)
               r == Without(q, t)
    <2>1. n \in Nat /\ DOMAIN q = 1 .. n /\ \A k \in 1 .. n : q[k] \in Waiters BY DEF Queue
    <2>2. i \in 1 .. n /\ q[i] = t BY <1>2, <2>1, Zenon DEF Range
    <2>3. \A k \in 1 .. n : q[k] = t => k = i BY <2>1, <2>2, Zenon DEF Queue, IsInjective
    <2>4. r = SubSeq(q, 1, i - 1) \o SubSeq(q, i + 1, n) BY <1>2, Zenon DEF Without
    <2> HIDE DEF i, n, r
    <2>5. /\ SubSeq(q, 1, i - 1) \in Seq(Waiters) /\ Len(SubSeq(q, 1, i - 1)) = i - 1
          /\ \A k \in 1 .. i - 1 : SubSeq(q, 1, i - 1)[k] = q[k]
      BY <2>1, <2>2, SMTT(30) DEF Queue
    <2>6. /\ SubSeq(q, i + 1, n) \in Seq(Waiters) /\ Len(SubSeq(q, i + 1, n)) = n - i
          /\ \A k \in 1 .. n - i : SubSeq(q, i + 1, n)[k] = q[k + i]
      <3>1. i + 1 \in Int /\ n \in Int /\ \A k \in i + 1 .. n : q[k] \in Waiters BY <2>1, <2>2, SMTT(30)
      <3>2. /\ SubSeq(q, i + 1, n) \in Seq(Waiters)
            /\ Len(SubSeq(q, i + 1, n)) = IF i + 1 <= n THEN n - (i + 1) + 1 ELSE 0
            /\ \A k \in 1 .. n - (i + 1) + 1 : SubSeq(q, i + 1, n)[k] = q[(i + 1) + k - 1]
        BY <3>1, SubSeqProperties, SMTT(30)
      <3>3. \A k \in 1 .. n - i : k \in 1 .. n - (i + 1) + 1 /\ (i + 1) + k - 1 = k + i
        BY <2>1, <2>2, SMTT(30)
      <3>4. Len(SubSeq(q, i + 1, n)) = n - i BY <2>1, <2>2, <3>2, SMTT(30)
      <3> QED BY <3>2, <3>3, <3>4, Zenon
    <2>7. /\ r \in Seq(Waiters) /\ DOMAIN r = 1 .. n - 1
          /\ \A k \in 1 .. n - 1 : r[k] = IF k < i THEN q[k] ELSE q[k + 1]
      <3> DEFINE a == SubSeq(q, 1, i - 1)
                 b == SubSeq(q, i + 1, n)
      <3>1. /\ a \o b \in Seq(Waiters) /\ Len(a \o b) = Len(a) + Len(b)
            /\ \A k \in 1 .. Len(a) + Len(b) :
                 (a \o b)[k] = IF k <= Len(a) THEN a[k] ELSE b[k - Len(a)]
        BY <2>5, <2>6, ConcatProperties, Zenon
      <3>2. Len(a) = i - 1 /\ Len(b) = n - i BY <2>5, <2>6, Zenon
      <3>3. \A k \in 1 .. i - 1 : a[k] = q[k] BY <2>5, Zenon
      <3>4. \A k \in 1 .. n - i : b[k] = q[k + i] BY <2>6, Zenon
      <3>5. r = a \o b BY <2>4, Zenon
      <3> HIDE DEF a, b
      <3>6. Len(a) + Len(b) = n - 1 BY <2>1, <2>2, <3>2, SMTT(30)
      <3>7. ASSUME NEW k \in 1 .. n - 1
            PROVE  r[k] = IF k < i THEN q[k] ELSE q[k + 1]
        <4>1. CASE k < i BY <2>1, <2>2, <3>1, <3>2, <3>3, <3>5, <3>6, <4>1, SMTT(30)
        <4>2. CASE ~(k < i)
          <5>1. k - (i - 1) \in 1 .. n - i /\ (k - (i - 1)) + i = k + 1 BY <2>1, <2>2, <4>2, SMTT(30)
          <5>2. r[k] = b[k - (i - 1)] BY <2>1, <2>2, <3>1, <3>2, <3>5, <3>6, <4>2, SMTT(30)
          <5> QED BY <3>4, <4>2, <5>1, <5>2, Zenon
        <4> QED BY <4>1, <4>2, Zenon
      <3> QED BY <3>1, <3>5, <3>6, <3>7, SMTT(30)
    <2>8. IsInjective(r)
      <3> SUFFICES ASSUME NEW a \in 1 .. n - 1, NEW b \in 1 .. n - 1, r[a] = r[b] PROVE a = b
        BY <2>7, Zenon DEF IsInjective
      <3> DEFINE at(k) == IF k < i THEN k ELSE k + 1
      <3>1. at(a) \in DOMAIN q /\ at(b) \in DOMAIN q BY <2>1, <2>2, SMTT(30)
      <3>2. r[a] = q[at(a)] /\ r[b] = q[at(b)] BY <2>7, Zenon
      <3>3. at(a) = at(b) BY <3>1, <3>2, Zenon DEF Queue, IsInjective
      <3> QED BY <2>1, <2>2, <3>3
    <2>9. Range(r) \subseteq Range(q) \ {t}
      <3> SUFFICES ASSUME NEW k \in 1 .. n - 1 PROVE r[k] \in Range(q) \ {t}
        BY <2>7, Zenon DEF Range
      <3>1. CASE k < i
        <4>1. k \in 1 .. n /\ k # i /\ r[k] = q[k] BY <2>1, <2>2, <2>7, <3>1, SMTT(30)
        <4> QED BY <2>1, <2>3, <4>1, Zenon DEF Range
      <3>2. CASE ~(k < i)
        <4>1. k + 1 \in 1 .. n /\ k + 1 # i /\ r[k] = q[k + 1] BY <2>1, <2>2, <2>7, <3>2, SMTT(30)
        <4> QED BY <2>1, <2>3, <4>1, Zenon DEF Range
      <3> QED BY <3>1, <3>2, Zenon
    <2>10. ASSUME NEW u \in Range(q), u # t PROVE u \in Range(r)
      <3>1. PICK k \in 1 .. n : q[k] = u BY <2>1, Zenon DEF Range
      <3>2. CASE k < i BY <2>1, <2>2, <2>7, <3>1, <3>2, SMTT(30) DEF Range
      <3>3. CASE k > i
        <4>1. k - 1 \in 1 .. n - 1 /\ ~(k - 1 < i) /\ (k - 1) + 1 = k BY <2>1, <2>2, <3>3, SMTT(30)
        <4> QED BY <2>7, <3>1, <4>1, Zenon DEF Range
      <3> QED BY <2>1, <2>2, <2>10, <3>1, <3>2, <3>3, SMTT(30)
    <2>11. Queue(r) /\ Range(r) = Range(q) \ {t} BY <2>7, <2>8, <2>9, <2>10, Zenon DEF Queue
    <2> QED BY <2>11, Zenon DEF r
  <1> QED BY <1>1, <1>2, Zenon

\* butex_requeue: one list is put behind another that shares no waiter with it.
LEMMA ConcatQueue ==
  ASSUME NEW p, Queue(p), NEW q, Queue(q), Range(p) \cap Range(q) = {}
  PROVE  Queue(p \o q) /\ Range(p \o q) = Range(p) \cup Range(q)
  <1>1. /\ Len(p) \in Nat /\ DOMAIN p = 1 .. Len(p) /\ Len(q) \in Nat /\ DOMAIN q = 1 .. Len(q)
    BY DEF Queue
  <1>2. /\ p \o q \in Seq(Waiters) /\ DOMAIN (p \o q) = 1 .. Len(p) + Len(q)
        /\ \A i \in 1 .. Len(p) + Len(q) :
             (p \o q)[i] = IF i <= Len(p) THEN p[i] ELSE q[i - Len(p)]
    BY DEF Queue
  <1>3. \A i \in 1 .. Len(p), j \in 1 .. Len(q) : p[i] # q[j]
    BY <1>1, Zenon DEF Range
  <1>4. IsInjective(p \o q)
    BY <1>1, <1>2, <1>3, SMTT(30) DEF Queue, IsInjective
  <1>5. Range(p \o q) \subseteq Range(p) \cup Range(q)
    BY <1>1, <1>2 DEF Range
  <1>6. Range(p) \subseteq Range(p \o q)
    BY <1>1, <1>2, SMTT(30) DEF Range
  <1>7. ASSUME NEW u \in Range(q) PROVE u \in Range(p \o q)
    <2>1. PICK j \in 1 .. Len(q) : q[j] = u BY <1>1, Zenon DEF Range
    <2>2. j + Len(p) \in 1 .. Len(p) + Len(q) /\ (p \o q)[j + Len(p)] = u
      BY <1>1, <1>2, <2>1, SMTT(30)
    <2> QED BY <1>2, <2>2, Zenon DEF Range
  <1> QED BY <1>2, <1>4, <1>5, <1>6, <1>7, Zenon DEF Queue

\* butex_wake_all and butex_wake_except: whatever the order, everyone of the list is made to run, once.
LEMMA OrderQueue ==
  ASSUME ButexConstants, NEW q, Queue(q), NEW f, NEW r \in InOrder(q, f)
  PROVE  Queue(r) /\ Range(r) = Range(q)
  <1>1. /\ Len(q) \in Nat /\ DOMAIN q = 1 .. Len(q) /\ Range(q) \subseteq Waiters
        /\ r \in [DOMAIN q -> Range(q)] /\ Range(r) = Range(q)
        /\ \A i, j \in DOMAIN q : i < j => Before(q, r[i], r[j], f)
    <2>1. Len(q) \in Nat /\ DOMAIN q = 1 .. Len(q) /\ Range(q) \subseteq Waiters BY DEF Queue, Range
    <2>2. /\ r \in [DOMAIN q -> Range(q)] /\ Range(r) = Range(q)
          /\ \A i, j \in DOMAIN q : i < j => Before(q, r[i], r[j], f)
      BY Zenon DEF InOrder
    <2> QED BY <2>1, <2>2, Zenon
  <1>2. r \in Seq(Waiters) BY <1>1
  <1>3. ASSUME NEW v \in Range(q) PROVE ~Before(q, v, v, f)
    <2>1. Position(q, v) \in DOMAIN q BY Zenon DEF Position, Range
    <2>2. ~(Position(q, v) < Position(q, v)) BY <1>1, <2>1, SMTT(30)
    <2> QED BY <2>2, Zenon DEF Before, ButexConstants
  <1>4. \A i, j \in DOMAIN q : i < j => r[i] # r[j] BY <1>1, <1>3, Zenon
  <1>5. IsInjective(r) BY <1>1, <1>4 DEF IsInjective
  <1> QED BY <1>1, <1>2, <1>5, Zenon DEF Queue

\* The lists of the invariant.
LEMMA QueuesOf ==
  ASSUME Whole
  PROVE  (\A b \in Butexes : Queue(waiters[b])) /\ (\A k \in Wakers : Queue(wk[k].batch))
BY Zenon DEF Whole, ButexTypeOK, Lists, Queue, Waker

-----------------------------------------------------------------------------
(* Steps that change a lock or a list.                                      *)

\* wait_for_butex locks the butex and is about to append the waiter.
LEMMA wait_for_butex_check_Locks ==
  ASSUME ButexConstants, ButexInv, NEW w \in Waiters, wait_for_butex_check(w),
         ~(UnmatchedNow(w) \/ bw[w].state # "READY" \/ bw[w].interrupted)
  PROVE  ButexInv'
<1>1. bw[w] \in Thread /\ Whole /\ (\A u \in Waiters : Mine(u)) /\ (w \in Bthreads <=> w \notin Pthreads)
  BY ThreadType, Parts, Zenon DEF ButexConstants, Waiters
<1>a. bw[w].pc = "remained" /\ bw[w].butex \notin waiter_lock /\ bw[w].butex \in Butexes /\ ~Unmatched(w)
  BY <1>1, Zenon DEF wait_for_butex_check, UnmatchedNow, Unlocked, Mine, Place
<1>b. UNCHANGED <<value, waiters, wk, er, calls>> /\ waiter_lock' = waiter_lock \cup {bw[w].butex}
  BY Zenon DEF wait_for_butex_check
<1> DEFINE t == [bw[w] EXCEPT !.pc = "append"]
<1>2. /\ Resumers(w)' = Resumers(w) /\ er'[w] = er[w]
      /\ \A i \in Interrupters : (Holds(i, w)' <=> Holds(i, w)) /\ er'[i] = er[i]
  BY SameAround, <1>b, Zenon
<1>3. t \in Thread BY <1>1, Update, Zenon
<1>4. bw' = [bw EXCEPT ![w] = t] BY Zenon DEF wait_for_butex_check, WaiterGoto
<1>5. bw' \in [Waiters -> Thread] /\ \A u \in Waiters : u # w => bw'[u] = bw[u]
  BY <1>1, <1>3, <1>4, Zenon DEF Whole, ButexTypeOK
<1>6. bw'[w] = t BY <1>1, <1>4, Zenon DEF Whole, ButexTypeOK
<1>7. /\ bw'[w].pc = "append" /\ bw'[w].butex = bw[w].butex /\ bw'[w].expected = bw[w].expected
      /\ bw'[w].timed = bw[w].timed /\ bw'[w].rc = bw[w].rc
      /\ bw'[w].container = bw[w].container /\ bw'[w].state = bw[w].state
      /\ bw'[w].sig = bw[w].sig /\ bw'[w].sleep_id = bw[w].sleep_id
      /\ bw'[w].timer = bw[w].timer /\ bw'[w].interrupted = bw[w].interrupted
      /\ bw'[w].current_waiter = bw[w].current_waiter /\ bw'[w].runnable = bw[w].runnable
      /\ bw'[w].woken = bw[w].woken /\ bw'[w].moved = bw[w].moved
  BY <1>1, <1>6, Zenon DEF Thread
<1>c0. Contained(w)' BY <1>1, <1>2, <1>7, <1>a, <1>b, Zenon DEF Mine, Contained, Asleep
<1>c1. Place(w)' BY <1>1, <1>2, <1>7, <1>a, Zenon DEF Mine, Place
<1>c2. Timed(w)' BY <1>1, <1>2, <1>7, <1>a, SMTT(30) DEF Mine, Timed
<1>c3. Held(w)' BY <1>1, <1>2, <1>7, <1>a, Zenon DEF Mine, Held
<1>c4. Flagged(w)' BY <1>1, <1>2, <1>7, <1>a, Zenon DEF Mine, Flagged
<1>c5. Excused(w)' BY <1>1, <1>2, <1>7, <1>a, Zenon DEF Mine, Excused, Up
<1>c6. Once(w)' BY <1>1, <1>2, <1>7, <1>a, Zenon DEF Mine, Once, WokenOnce, SignalledOnce, OneResumer
<1>c7. InUse(w)' BY <1>1, <1>2, <1>7, <1>a, <1>b, Zenon DEF Mine, InUse
<1>c8. Zero(w)' BY <1>1, <1>2, <1>7, <1>a, Zenon DEF Mine, Zero
<1>8. Mine(w)' BY <1>c0, <1>c1, <1>c2, <1>c3, <1>c4, <1>c5, <1>c6, <1>c7, <1>c8, Zenon DEF Mine
<1>9. ASSUME NEW u \in Waiters, u # w PROVE Mine(u)'
  <2>1. Untouched(u) BY <1>5, <1>9, <1>b, Zenon DEF Untouched
  <2> QED BY <1>1, <2>1, Alone, Zenon
<1>10. ButexTypeOK' BY <1>1, <1>5, <1>a, <1>b, Zenon DEF Whole, ButexTypeOK
<1>11. Lists' BY <1>1, <1>b, Zenon DEF Whole, Lists
<1>12. \A u \in Waiters : /\ bw'[u].butex = bw[u].butex /\ bw'[u].expected = bw[u].expected
                          /\ (bw'[u].moved <=> bw[u].moved) /\ (bw'[u].pc = "append" <=> bw[u].pc = "append" \/ u = w)
  BY <1>5, <1>7, Zenon
<1>13. NoMissedWake'
  <2>1. \A c \in Butexes : Range(waiters[c]) \subseteq Waiters BY <1>1, SMTT(30) DEF Whole, ButexTypeOK, Range
  <2> QED BY <1>1, <1>12, <1>b, <2>1, SMTT(30) DEF Whole, NoMissedWake, Unmatched, Stored
<1>14. \A e \in Erasers : Erasing(e)' BY <1>1, <1>b, Zenon DEF Whole, Erasing
<1>15. ASSUME NEW u \in Waiters PROVE Appending(u)'
  BY <1>1, <1>12, <1>a, <1>b, SMTT(30) DEF Whole, Appending, Unmatched, Stored
<1> QED BY <1>8, <1>9, <1>10, <1>11, <1>13, <1>14, <1>15, PartsNext, Zenon DEF Whole

\* A waiter is appended to the list of its butex: what this means for the lists and the others.
Appends(w, b) ==
  /\ b \in Butexes /\ bw[w].butex = b /\ bw[w].pc \in {"append", "pthread"}
  /\ bw[w].pc = "append" \/ b \notin waiter_lock
  /\ Unmatched(w) => Stored(b)
  /\ waiters' = [waiters EXCEPT ![b] = Append(@, w)] /\ waiter_lock' = waiter_lock \ {b}
  /\ UNCHANGED <<value, wk, er, calls>>
  /\ bw' \in [Waiters -> Thread] /\ \A u \in Waiters : u # w => bw'[u] = bw[u]
  /\ bw'[w].butex = b /\ bw'[w].expected = bw[w].expected /\ bw'[w].container = b /\ bw'[w].pc \in Asleep

\* Nothing but the waiter itself is disturbed.
LEMMA Queued ==
  ASSUME ButexConstants, ButexInv, NEW w \in Waiters, NEW b, Appends(w, b)
  PROVE  Whole' /\ (\A u \in Waiters : u # w => Mine(u)') /\ Resumers(w) = {} /\ Resumers(w)' = {b} /\ Contained(w)'
<1>1. Whole /\ (\A u \in Waiters : Mine(u)) /\ (\A c \in Butexes : Queue(waiters[c]))
  BY Parts, QueuesOf, Zenon
<1>2. \A c \in Butexes : w \notin Range(waiters[c]) BY <1>1, Zenon DEF Mine, Contained, Asleep, Appends
<1>3. /\ waiters' \in [Butexes -> Seq(Waiters)] /\ \A c \in Butexes : IsInjective(waiters'[c])
      /\ \A c \in Butexes : \A u : u \in Range(waiters'[c]) <=> u \in Range(waiters[c]) \/ (u = w /\ c = b)
  <2>1. Queue(Append(waiters[b], w)) /\ Range(Append(waiters[b], w)) = Range(waiters[b]) \cup {w}
    BY <1>1, <1>2, AppendQueue, Zenon DEF Appends
  <2>2. waiters'[b] = Append(waiters[b], w) /\ \A c \in Butexes : c # b => waiters'[c] = waiters[c]
    BY <1>1, Zenon DEF Whole, ButexTypeOK, Appends
  <2>3. \A c \in Butexes : Queue(waiters'[c]) BY <1>1, <2>1, <2>2, Zenon
  <2>4. waiters' \in [Butexes -> Seq(Waiters)] BY <1>1, <2>1, Zenon DEF Whole, ButexTypeOK, Appends, Queue
  <2> QED BY <2>1, <2>2, <2>3, <2>4, Zenon DEF Queue
<1>4. ASSUME NEW u \in Waiters, u # w PROVE Mine(u)'
  <2>1. Untouched(u) BY <1>3, <1>4, Zenon DEF Untouched, Appends
  <2> QED BY <1>1, <2>1, Alone, Zenon
<1>5. Resumers(w) = {}
  <2>1. bw[w].pc \notin {"sleep", "wait"} BY Zenon DEF Appends
  <2> QED BY <1>1, <2>1, Zenon DEF Mine, Once, WokenOnce, SignalledOnce, Waiters
<1>6. Resumers(w)' = {b} BY <1>3, <1>5 DEF Resumers, Appends
<1>7. Contained(w)' BY <1>2, <1>3, Zenon DEF Contained, Appends
<1>8. ButexTypeOK' BY <1>1, <1>3, Zenon DEF Whole, ButexTypeOK, Appends
<1>9. Lists' BY <1>1, <1>3, Zenon DEF Whole, Lists, Appends
<1>10. \A e \in Erasers : Erasing(e)' BY <1>1, Zenon DEF Whole, Erasing, Appends
<1>11. ASSUME NEW u \in Waiters PROVE Appending(u)'
  <2>1. bw'[w].pc # "append" BY Zenon DEF Appends, Asleep
  <2>2. \A v \in Waiters : bw'[v].pc = "append" => v # w /\ bw'[v] = bw[v] BY <2>1, Zenon DEF Appends
  <2>3. SUFFICES ASSUME bw'[u].pc = "append" PROVE Appending(u)' BY Zenon DEF Appending
  <2>4. u # w /\ bw'[u] = bw[u] /\ bw[u].pc = "append" BY <2>2, <2>3, Zenon
  <2>5. bw[u].butex \in waiter_lock /\ bw[u].butex # b BY <1>1, <2>4, Zenon DEF Whole, Appending, Appends
  <2>6. bw[u].butex \in waiter_lock' /\ value' = value BY <2>5, Zenon DEF Appends
  <2>7. \A c : Stored(c)' <=> Stored(c) BY Zenon DEF Stored, Appends
  <2>8. value[bw[u].butex] # bw[u].expected => Stored(bw[u].butex)
    BY <1>1, <2>4, Zenon DEF Whole, Appending, Unmatched
  <2>9. \A v \in Waiters : bw'[v].pc = "append" /\ bw'[v].butex = bw'[u].butex => v = u
    BY <1>1, <2>2, <2>4, Zenon DEF Whole, Appending
  <2> QED BY <2>4, <2>6, <2>7, <2>8, <2>9, Zenon DEF Appending, Unmatched
<1>12. NoMissedWake'
  <2> SUFFICES ASSUME NEW c \in Butexes, NEW u \in Range(waiters'[c]), bw'[u].butex = c, ~bw'[u].moved,
                      value[c] # bw'[u].expected
               PROVE  Stored(c)
    BY Zenon DEF NoMissedWake, Unmatched, Stored, Appends
  <2>1. CASE u = w BY <2>1, Zenon DEF Appends, Unmatched
  <2>2. CASE u # w
    <3>1. u \in Range(waiters[c]) BY <1>3, <2>2, Zenon
    <3>2. u \in Waiters BY <1>1, <3>1, QueuedIsWaiter, Zenon DEF Whole, ButexTypeOK
    <3> QED BY <1>1, <2>2, <3>1, <3>2, Zenon DEF Whole, NoMissedWake, Unmatched, Appends
  <2> QED BY <2>1, <2>2, Zenon
<1> QED BY <1>4, <1>5, <1>6, <1>7, <1>8, <1>9, <1>10, <1>11, <1>12, Zenon DEF Whole

\* wait_for_butex appends the waiter, schedules its timer and unlocks.
LEMMA wait_for_butex_Step ==
  ASSUME ButexConstants, ButexInv, NEW w \in Waiters, wait_for_butex(w)
  PROVE  ButexInv'
<1>1. /\ bw[w] \in Thread /\ Whole /\ Mine(w) /\ (w \in Bthreads <=> w \notin Pthreads)
      /\ bw \in [Waiters -> Thread] /\ Appending(w)
  BY ThreadType, Zenon DEF ButexConstants, Waiters, Whole, ButexTypeOK
<1>a. w \in Bthreads /\ bw[w].pc = "append" /\ bw[w].butex \in Butexes /\ bw[w].timer \notin {"scheduled", "running"} BY <1>1, Zenon DEF wait_for_butex, Mine, Place, Timed
<1> DEFINE b == bw[w].butex
<1> DEFINE s == bw[w].timed
           m == IF bw[w].timed THEN "scheduled" ELSE bw[w].timer
<1>m. s \in BOOLEAN /\ m \in {"none", "scheduled", "running", "over"} /\ (m = "scheduled" => s) /\ m # "running"
  BY <1>1, <1>a, Zenon DEF Thread
<1>q. bw' = [bw EXCEPT ![w] = [bw[w] EXCEPT !.container = b, !.pc = "sleep", !.sleep_id = s, !.timer = m]]
  BY Zenon DEF wait_for_butex, Scheduled
<1> HIDE DEF s, m
<1> DEFINE t == [bw[w] EXCEPT !.container = b, !.pc = "sleep", !.sleep_id = s, !.timer = m]
<1>3. t \in Thread BY <1>1, <1>a, Update, <1>m, Zenon
<1>4. bw' = [bw EXCEPT ![w] = t] BY <1>q, Zenon
<1>6. bw'[w] = t BY <1>1, <1>4, Zenon
<1>7. /\ bw'[w].pc = "sleep" /\ bw'[w].butex = bw[w].butex /\ bw'[w].expected = bw[w].expected
      /\ bw'[w].timed = bw[w].timed /\ bw'[w].rc = bw[w].rc /\ bw'[w].container = b
      /\ bw'[w].state = bw[w].state /\ bw'[w].sig = bw[w].sig /\ bw'[w].sleep_id = s
      /\ bw'[w].timer = m /\ bw'[w].interrupted = bw[w].interrupted
      /\ bw'[w].current_waiter = bw[w].current_waiter /\ bw'[w].runnable = bw[w].runnable
      /\ bw'[w].woken = bw[w].woken /\ bw'[w].moved = bw[w].moved
  BY <1>1, <1>6, SMTT(30) DEF Thread
<1>5. Appends(w, b)
  <2>1. bw' \in [Waiters -> Thread] /\ \A u \in Waiters : u # w => bw'[u] = bw[u] BY <1>1, <1>3, <1>4, Zenon
  <2>2. Unmatched(w) => Stored(b) BY <1>1, <1>a, Zenon DEF Appending
  <2>3. /\ waiters' = [waiters EXCEPT ![b] = Append(@, w)] /\ waiter_lock' = waiter_lock \ {b}
        /\ UNCHANGED <<value, wk, er, calls>>
    BY <1>a, Zenon DEF wait_for_butex
  <2> QED BY <1>7, <1>a, <2>1, <2>2, <2>3, Zenon DEF Appends, Asleep
<1>8. Whole' /\ (\A u \in Waiters : u # w => Mine(u)') /\ Resumers(w) = {} /\ Resumers(w)' = {b} /\ Contained(w)'
  BY <1>5, Queued, Zenon
<1>9. /\ er'[w] = er[w] /\ wk' = wk /\ OneResumer(w)'
      /\ \A i \in Interrupters : (Holds(i, w)' <=> Holds(i, w)) /\ er'[i] = er[i]
  BY <1>5, <1>8, Zenon DEF Appends, Holds, OneResumer
<1>c1. Place(w)' BY <1>1, <1>7, <1>9, <1>a, Zenon DEF Mine, Place
<1>c2. Timed(w)' BY <1>1, <1>7, <1>9, <1>a, <1>m, Zenon DEF Mine, Timed
<1>c3. Held(w)' BY <1>1, <1>7, <1>9, <1>a, Zenon DEF Mine, Held
<1>c4. Flagged(w)' BY <1>1, <1>7, <1>9, <1>a, Zenon DEF Mine, Flagged
<1>c5. Excused(w)' BY <1>1, <1>7, <1>9, <1>a, Zenon DEF Mine, Excused, Up, Once, WokenOnce, Timed
<1>c6. Once(w)' BY <1>1, <1>7, <1>9, <1>a, <1>8, Zenon DEF Mine, Once, WokenOnce, SignalledOnce
<1>c7. InUse(w)' BY <1>1, <1>7, <1>9, <1>a, Zenon DEF Mine, InUse, Timed
<1>c8. Zero(w)' BY <1>1, <1>7, <1>9, <1>a, Zenon DEF Mine, Zero
<1>10. Mine(w)' BY <1>8, <1>c1, <1>c2, <1>c3, <1>c4, <1>c5, <1>c6, <1>c7, <1>c8, Zenon DEF Mine
<1> QED BY <1>8, <1>10, PartsNext, Zenon

\* A thread in pthread mode appends its waiter.
LEMMA pthread_queue_Queues ==
  ASSUME ButexConstants, ButexInv, NEW w \in Waiters, pthread_queue(w), ~Unmatched(w), ~bw[w].interrupted
  PROVE  ButexInv'
<1>1. /\ bw[w] \in Thread /\ Whole /\ Mine(w) /\ (w \in Bthreads <=> w \notin Pthreads)
      /\ bw \in [Waiters -> Thread] /\ Appending(w)
  BY ThreadType, Zenon DEF ButexConstants, Waiters, Whole, ButexTypeOK
<1>a. w \in Pthreads /\ bw[w].pc = "pthread" /\ bw[w].butex \in Butexes \ waiter_lock /\ ~bw[w].interrupted BY <1>1, Zenon DEF pthread_queue, Mine, Place, Unlocked
<1> DEFINE b == bw[w].butex
<1> DEFINE t == [bw[w] EXCEPT !.container = b, !.pc = "wait"]
<1>3. t \in Thread BY <1>1, <1>a, Update, Zenon
<1>4. bw' = [bw EXCEPT ![w] = t] BY Zenon DEF pthread_queue
<1>6. bw'[w] = t BY <1>1, <1>4, Zenon
<1>7. /\ bw'[w].pc = "wait" /\ bw'[w].butex = bw[w].butex /\ bw'[w].expected = bw[w].expected
      /\ bw'[w].timed = bw[w].timed /\ bw'[w].rc = bw[w].rc /\ bw'[w].container = b
      /\ bw'[w].state = bw[w].state /\ bw'[w].sig = bw[w].sig
      /\ bw'[w].sleep_id = bw[w].sleep_id /\ bw'[w].timer = bw[w].timer
      /\ bw'[w].interrupted = bw[w].interrupted /\ bw'[w].current_waiter = bw[w].current_waiter
      /\ bw'[w].runnable = bw[w].runnable /\ bw'[w].woken = bw[w].woken
      /\ bw'[w].moved = bw[w].moved
  BY <1>1, <1>6, SMTT(30) DEF Thread
<1>5. Appends(w, b)
  <2>1. bw' \in [Waiters -> Thread] /\ \A u \in Waiters : u # w => bw'[u] = bw[u] BY <1>1, <1>3, <1>4, Zenon
  <2>2. Unmatched(w) => Stored(b) BY <1>1, <1>a, Zenon DEF Appending
  <2>3. /\ waiters' = [waiters EXCEPT ![b] = Append(@, w)] /\ waiter_lock' = waiter_lock \ {b}
        /\ UNCHANGED <<value, wk, er, calls>>
    BY <1>a, Zenon DEF pthread_queue
  <2> QED BY <1>7, <1>a, <2>1, <2>2, <2>3, Zenon DEF Appends, Asleep
<1>8. Whole' /\ (\A u \in Waiters : u # w => Mine(u)') /\ Resumers(w) = {} /\ Resumers(w)' = {b} /\ Contained(w)'
  BY <1>5, Queued, Zenon
<1>9. /\ er'[w] = er[w] /\ wk' = wk /\ OneResumer(w)'
      /\ \A i \in Interrupters : (Holds(i, w)' <=> Holds(i, w)) /\ er'[i] = er[i]
  BY <1>5, <1>8, Zenon DEF Appends, Holds, OneResumer
<1>c1. Place(w)' BY <1>1, <1>7, <1>9, <1>a, Zenon DEF Mine, Place
<1>c2. Timed(w)' BY <1>1, <1>7, <1>9, <1>a, Zenon DEF Mine, Timed
<1>c3. Held(w)' BY <1>1, <1>7, <1>9, <1>a, Zenon DEF Mine, Held
<1>c4. Flagged(w)' BY <1>1, <1>7, <1>9, <1>a, Zenon DEF Mine, Flagged
<1>c5. Excused(w)' BY <1>1, <1>7, <1>9, <1>a, Zenon DEF Mine, Excused, Up
<1>c6. Once(w)' BY <1>1, <1>7, <1>9, <1>a, <1>8, Zenon DEF Mine, Once, WokenOnce, SignalledOnce, Excused, Timed
<1>c7. InUse(w)' BY <1>1, <1>7, <1>9, <1>a, Zenon DEF Mine, InUse
<1>c8. Zero(w)' BY <1>1, <1>7, <1>9, <1>a, Zenon DEF Mine, Zero
<1>10. Mine(w)' BY <1>8, <1>c1, <1>c2, <1>c3, <1>c4, <1>c5, <1>c6, <1>c7, <1>c8, Zenon DEF Mine
<1> QED BY <1>8, <1>10, PartsNext, Zenon

\* An eraser takes a waiter out of the list it found it in, and will make it run.
LEMMA erase_from_butex_Removes ==
  ASSUME ButexConstants, ButexInv, NEW e \in Erasers, erase_from_butex(e), StillContains(e)
  PROVE  ButexInv'
<1>0. Whole /\ Erasing(e) /\ er[e].pc = "lock" BY Parts, Zenon DEF Whole, erase_from_butex
<1>w. PICK w \in Waiters : er[e].w = w BY <1>0, Zenon DEF Erasing
<1>v. PICK b \in Butexes : er[e].b = b BY <1>0, Zenon DEF Erasing
<1>1. /\ bw[w] \in Thread /\ (\A u \in Waiters : Mine(u)) /\ Mine(w) /\ (w \in Bthreads <=> w \notin Pthreads) /\ w # Null
      /\ er \in [Erasers -> Eraser] /\ bw \in [Waiters -> Thread] /\ waiters \in [Butexes -> Seq(Waiters)]
      /\ w \in Erasers /\ w \notin Interrupters /\ Interrupters \subseteq Erasers /\ Waiters \subseteq Erasers
      /\ \A c \in Butexes : Queue(waiters[c])
  BY <1>0, ThreadType, Parts, QueuesOf, Zenon DEF ButexConstants, Waiters, Erasers, Whole, ButexTypeOK
<1>a. /\ bw[w].container = b /\ b # Null /\ b \notin Erasers /\ b \notin Wakers
      /\ UNCHANGED <<value, waiter_lock, wk, calls>>
  BY <1>w, <1>v, Zenon DEF StillContains, erase_from_butex, ButexConstants
<1>i. w \in Pthreads => w \in Interruptees \/ bw[w].pc = "wait"
  BY <1>0, <1>1, <1>w, Zenon DEF Erasing, Mine, Timed, Erasers
<1>j. bw[w].pc \in Asleep /\ w \in Range(waiters[b])
  BY <1>1, <1>a, <1>i, Zenon DEF Mine, Contained, Asleep
<1>k. Resumers(w) = {b} /\ (w \in Bthreads => bw[w].pc = "sleep" /\ bw[w].runnable = 0)
      /\ (w \in Pthreads => bw[w].pc = "wait" /\ ~bw[w].sig /\ er[w].pc # "erased")
  <2>1. b \in Resumers(w) BY <1>j, Zenon DEF Resumers
  <2>2. OneResumer(w) /\ (w \in Bthreads => bw[w].pc = "sleep" /\ bw[w].runnable = 0)
        /\ (w \in Pthreads => bw[w].pc = "wait" /\ ~bw[w].sig /\ er[w].pc # "erased")
    BY <1>1, <2>1, Zenon DEF Mine, Once, WokenOnce, SignalledOnce
  <2> QED BY <2>1, <2>2, Zenon DEF OneResumer
<1>l. /\ \A c \in Butexes : w \in Range(waiters[c]) => c = b
      /\ \A k \in Wakers : w \notin Range(wk[k].batch)
      /\ \A d \in Erasers : ~(er[d].w = w /\ er[d].pc = "wake")
  BY <1>a, <1>k, Zenon DEF Resumers
<1>m. er[w].pc # "wake" BY <1>0, <1>1, <1>l, Zenon DEF Whole, Erasing
<1> DEFINE st == IF w \in Pthreads THEN bw[w].state ELSE IF e \in Interrupters THEN "INTERRUPTED" ELSE "TIMEDOUT"
           p == IF e \in Pthreads THEN "erased" ELSE "wake"
           t == [bw[w] EXCEPT !.container = Null, !.moved = FALSE, !.state = st]
<1>n. /\ st \in {"READY", "TIMEDOUT", "INTERRUPTED", "UNMATCHEDVALUE"} /\ (w \in Bthreads /\ e \notin Interrupters => st = "TIMEDOUT")
      /\ p \in {"erased", "wake"} /\ (p = "erased" <=> e \in Pthreads)
  BY <1>1, Zenon DEF Thread
<1>q. /\ bw' = [bw EXCEPT ![w] = t] /\ er' = [er EXCEPT ![e].pc = p, ![e].b = Null]
      /\ waiters' = [waiters EXCEPT ![b] = Without(@, w)]
  BY <1>w, <1>v, Zenon DEF erase_from_butex
<1> HIDE DEF st, p
<1>3. t \in Thread BY <1>1, <1>n, Update, Zenon
<1>4. bw' \in [Waiters -> Thread] /\ bw'[w] = t /\ \A u \in Waiters : u # w => bw'[u] = bw[u] BY <1>1, <1>3, <1>q, Zenon
<1>7. /\ bw'[w].pc = bw[w].pc /\ bw'[w].butex = bw[w].butex /\ bw'[w].expected = bw[w].expected
      /\ bw'[w].timed = bw[w].timed /\ bw'[w].rc = bw[w].rc /\ bw'[w].container = Null
      /\ bw'[w].state = st /\ bw'[w].sig = bw[w].sig /\ bw'[w].sleep_id = bw[w].sleep_id
      /\ bw'[w].timer = bw[w].timer /\ bw'[w].interrupted = bw[w].interrupted
      /\ bw'[w].current_waiter = bw[w].current_waiter /\ bw'[w].runnable = bw[w].runnable
      /\ bw'[w].woken = bw[w].woken /\ bw'[w].moved = FALSE
  BY <1>1, <1>4, Zenon DEF Thread
<1>e. /\ er' \in [Erasers -> Eraser] /\ er'[e].pc = p /\ er'[e].w = w /\ er'[e].b = Null
      /\ \A d \in Erasers : d # e => er'[d] = er[d]
  BY <1>1, <1>n, <1>q, <1>w, Zenon DEF Eraser
<1>f. /\ waiters' \in [Butexes -> Seq(Waiters)] /\ \A c \in Butexes : IsInjective(waiters'[c])
      /\ \A c \in Butexes : \A u : u \in Range(waiters'[c]) <=> u \in Range(waiters[c]) /\ u # w
  <2>1. Queue(Without(waiters[b], w)) /\ Range(Without(waiters[b], w)) = Range(waiters[b]) \ {w}
    BY <1>1, WithoutQueue, Zenon
  <2>2. waiters'[b] = Without(waiters[b], w) /\ \A c \in Butexes : c # b => waiters'[c] = waiters[c] BY <1>1, <1>q, Zenon
  <2>3. \A c \in Butexes : Queue(waiters'[c]) BY <1>1, <2>1, <2>2, Zenon
  <2>4. waiters' \in [Butexes -> Seq(Waiters)] BY <1>1, <1>q, <2>1, Zenon DEF Queue
  <2> QED BY <1>l, <2>1, <2>2, <2>3, <2>4, Zenon DEF Queue
<1>o. e \in Waiters => e = w BY <1>0, <1>w, Zenon DEF Erasing
<1>g. \A d \in Erasers : Erasing(d)' BY <1>0, <1>e, <1>n, <1>w, SMTT(30) DEF Whole, Erasing
<1>2. Resumers(w)' = (IF e \in Pthreads THEN {} ELSE {e}) BY <1>a, <1>e, <1>f, <1>l, <1>n, SMTT(30) DEF Resumers
<1>h. \A j \in Interrupters : /\ Holds(j, w)' <=> Holds(j, w)
                              /\ er'[j].w = er[j].w /\ (er'[j].pc = er[j].pc \/ (er[j].pc = "lock" /\ er'[j].pc = "wake"))
  BY <1>0, <1>1, <1>e, <1>n, <1>w, SMTT(30) DEF Holds, Erasing, ButexConstants, Waiters
<1>s. /\ er'[w].pc # "idle" <=> er[w].pc # "idle"
      /\ w \in Pthreads /\ er'[w].pc = "erased" => e \in Pthreads
      /\ er'[w].pc = "wake" => e = w
      /\ e \in Pthreads => e = w /\ er'[w].pc = "erased"
  <2>1. CASE e = w BY <1>0, <1>e, <1>n, <2>1, Zenon
  <2>2. CASE e # w
    <3>1. er'[w] = er[w] /\ e \notin Pthreads BY <1>1, <1>e, <1>o, <2>2, Zenon DEF Waiters
    <3> QED BY <1>k, <1>m, <2>2, <3>1, Zenon
  <2> QED BY <2>1, <2>2, Zenon
<1>c0. Contained(w)'
  <2>1. Null \notin Butexes BY Zenon DEF ButexConstants
  <2>2. \A c \in Butexes : w \notin Range(waiters'[c]) BY <1>f, Zenon
  <2> QED BY <1>7, <2>1, <2>2, Zenon DEF Contained
<1>c1. Place(w)' BY <1>1, <1>7, <1>j, Zenon DEF Mine, Place, Asleep
<1>c2. Timed(w)' BY <1>1, <1>7, <1>j, <1>s, Zenon DEF Mine, Timed, Asleep
<1>c3. Held(w)' BY <1>1, <1>7, <1>j, <1>h, Zenon DEF Mine, Held, Asleep
<1>c4. Flagged(w)' BY <1>1, <1>7, <1>j, <1>h, Zenon DEF Mine, Flagged, Asleep
<1>c5. Excused(w)'
  <2>1. CASE w \in Bthreads
    <3>1. bw'[w].pc = "sleep" /\ bw'[w].runnable = 0 BY <1>7, <1>k, <2>1, Zenon
    <3>2. er'[w].pc = "wake" => bw'[w].state = "TIMEDOUT" BY <1>1, <1>7, <1>n, <1>s, <2>1, Zenon
    <3>3. ~(bw'[w].runnable > 0) BY <3>1
    <3> QED BY <2>1, <3>1, <3>2, <3>3, Zenon DEF Excused, Up
  <2>2. CASE w \in Pthreads BY <1>1, <1>7, <1>k, <2>2, Zenon DEF Excused
  <2> QED BY <1>1, <2>1, <2>2, Zenon
<1>c6. Once(w)' BY <1>1, <1>7, <1>j, <1>2, <1>s, <1>k, <1>o, Zenon DEF Mine, Once, WokenOnce, SignalledOnce, OneResumer, Asleep
<1>c7. InUse(w)' BY <1>1, <1>7, <1>j, <1>s, <1>h, <1>l, <1>a, Zenon DEF Mine, InUse, Asleep, Holds
<1>c8. Zero(w)' BY <1>1, <1>7, <1>j, Zenon DEF Mine, Zero, Asleep
<1>8. Mine(w)' BY <1>c0, <1>c1, <1>c2, <1>c3, <1>c4, <1>c5, <1>c6, <1>c7, <1>c8, Zenon DEF Mine
<1>9. ASSUME NEW u \in Waiters, u # w PROVE Mine(u)'
  <2>1. Untouched(u) BY <1>4, <1>9, <1>a, <1>e, <1>f, <1>o, <1>w, Zenon DEF Untouched
  <2> QED BY <1>1, <2>1, Alone, Zenon
<1>10. ButexTypeOK' BY <1>0, <1>4, <1>a, <1>e, <1>f, Zenon DEF Whole, ButexTypeOK
<1>11. Lists' BY <1>0, <1>a, <1>f, Zenon DEF Whole, Lists
<1>12. NoMissedWake'
  <2> SUFFICES ASSUME NEW c \in Butexes, NEW u \in Range(waiters'[c]), bw'[u].butex = c, ~bw'[u].moved,
                      value[c] # bw'[u].expected
               PROVE  Stored(c)
    BY <1>a, Zenon DEF NoMissedWake, Unmatched, Stored
  <2>1. u \in Range(waiters[c]) /\ u # w BY <1>f, Zenon
  <2>2. u \in Waiters BY <1>1, <2>1, QueuedIsWaiter, Zenon
  <2>3. bw'[u] = bw[u] BY <1>4, <2>1, <2>2, Zenon
  <2> QED BY <1>0, <2>1, <2>3, Zenon DEF Whole, NoMissedWake, Unmatched
<1>13. ASSUME NEW u \in Waiters PROVE Appending(u)'
  <2>1. \A v \in Waiters : bw'[v].pc = "append" => bw'[v] = bw[v] BY <1>4, <1>7, <1>j, Zenon DEF Asleep
  <2> QED BY <1>0, <1>a, <2>1, SMTT(30) DEF Whole, Appending, Unmatched, Stored
<1> QED BY <1>8, <1>9, <1>10, <1>11, <1>12, <1>13, <1>g, PartsNext, Zenon DEF Whole

\* The user changes a word: whoever still expects the old value is about to be woken.
LEMMA store_value_Step ==
  ASSUME ButexConstants, ButexInv, NEW k \in Wakers, NEW b \in Butexes, store_value(k, b)
  PROVE  ButexInv'
<1>1. Whole /\ \A u \in Waiters : Mine(u) BY Parts, Zenon
<1>2. /\ wk[k].pc = "idle" /\ value[b] < MaxValue /\ UNCHANGED <<waiters, waiter_lock, bw, er, calls>>
      /\ value' = [value EXCEPT ![b] = @ + 1] /\ wk' = [wk EXCEPT ![k].pc = "stored", ![k].butex = b]
  BY Zenon DEF store_value
<1>3. /\ wk' \in [Wakers -> Waker] /\ wk'[k].pc = "stored" /\ wk'[k].butex = b /\ wk'[k].batch = wk[k].batch
      /\ \A j \in Wakers : j # k => wk'[j] = wk[j]
  BY <1>1, <1>2, Zenon DEF Whole, ButexTypeOK, Waker
<1>4. value' \in [Butexes -> 0 .. MaxValue] /\ \A c \in Butexes : c # b => value'[c] = value[c]
  BY <1>1, <1>2, SMTT(30) DEF Whole, ButexTypeOK, ButexConstants
<1>5. \A c \in Butexes : Stored(c) \/ c = b => Stored(c)' BY <1>2, <1>3, Zenon DEF Stored
<1>6. ButexTypeOK' BY <1>1, <1>2, <1>3, <1>4, Zenon DEF Whole, ButexTypeOK
<1>7. Lists' BY <1>1, <1>2, <1>3, Zenon DEF Whole, Lists
<1>8. NoMissedWake'
  <2> SUFFICES ASSUME NEW c \in Butexes, c # b, NEW u \in Range(waiters[c]), bw[u].butex = c, ~bw[u].moved,
                      value'[c] # bw[u].expected
               PROVE  Stored(c)
    BY <1>2, <1>5, Zenon DEF NoMissedWake, Unmatched
  <2> QED BY <1>1, <1>4, Zenon DEF Whole, NoMissedWake, Unmatched
<1>9. \A e \in Erasers : Erasing(e)' BY <1>1, <1>2, Zenon DEF Whole, Erasing
<1>10. ASSUME NEW u \in Waiters PROVE Appending(u)'
  <2>1. bw[u].pc = "append" => bw[u].butex \in Butexes BY <1>1, Zenon DEF Mine, Place
  <2> QED BY <1>1, <1>2, <1>4, <1>5, <2>1, Zenon DEF Whole, Appending, Unmatched
<1>11. ASSUME NEW u \in Waiters PROVE Mine(u)'
  <2>1. Untouched(u) BY <1>2, <1>3, Zenon DEF Untouched
  <2> QED BY <1>1, <2>1, Alone, Zenon
<1> QED BY <1>6, <1>7, <1>8, <1>9, <1>10, <1>11, PartsNext, Zenon DEF Whole

-----------------------------------------------------------------------------
(* The wakers.                                                              *)

\* The thread of u is the same but for the list it is in.
Stays(u) ==
  /\ bw'[u].pc = bw[u].pc /\ bw'[u].butex = bw[u].butex /\ bw'[u].expected = bw[u].expected
  /\ bw'[u].timed = bw[u].timed /\ bw'[u].rc = bw[u].rc /\ bw'[u].state = bw[u].state
  /\ bw'[u].sig = bw[u].sig /\ bw'[u].sleep_id = bw[u].sleep_id
  /\ bw'[u].timer = bw[u].timer /\ bw'[u].interrupted = bw[u].interrupted
  /\ bw'[u].current_waiter = bw[u].current_waiter /\ bw'[u].runnable = bw[u].runnable
  /\ bw'[u].woken = bw[u].woken

\* A waker takes the waiters r out of the list of b, in this order, and moves those of mv to m.
Takes(k, b, r, mv, m) ==
  /\ Take(k, r, mv, m) /\ b \notin waiter_lock
  /\ \/ wk[k].pc = "idle"
     \/ wk[k].pc = "stored" /\ wk[k].butex = b /\ waiters'[b] = <<>>
  /\ Queue(r) /\ Range(r) \subseteq Range(waiters[b]) /\ Range(mv) \subseteq Range(waiters[b])
  /\ Range(r) \cap Range(mv) = {} /\ (Range(mv) = {} \/ m \in Butexes \ {b})
  /\ waiters' \in [Butexes -> Seq(Waiters)] /\ \A c \in Butexes : IsInjective(waiters'[c])
  /\ \A c \in Butexes : \A u : u \in Range(waiters'[c]) <=>
       \/ u \in Range(waiters[c]) /\ u \notin Range(r) /\ u \notin Range(mv)
       \/ c = m /\ u \in Range(mv)

\* What Take does to a thread.
LEMMA TakenThread ==
  ASSUME ButexConstants, ButexInv, NEW k, NEW b \in Butexes, NEW r, NEW mv, NEW m, Takes(k, b, r, mv, m), NEW u \in Waiters
  PROVE  /\ bw'[u] \in Thread /\ Stays(u)
         /\ u \in Range(r) => bw'[u].container = Null /\ ~bw'[u].moved
         /\ u \in Range(mv) => bw'[u].container = m /\ bw'[u].moved
         /\ u \notin Range(r) /\ u \notin Range(mv) => bw'[u] = bw[u]
<1>1. bw[u] \in Thread BY ThreadType, Zenon
<1> DEFINE c == IF u \in Range(r) THEN Null ELSE IF u \in Range(mv) THEN m ELSE bw[u].container
           v == u \in Range(mv) \/ (bw[u].moved /\ u \notin Range(r))
<1>2. c \in Butexes \cup {Null, Wild} BY <1>1, Zenon DEF Thread, Takes
<1>3. v \in BOOLEAN OBVIOUS
<1>4. bw'[u] = [bw[u] EXCEPT !.container = c, !.moved = v] BY Zenon DEF Takes, Take
<1>5. /\ u \in Range(r) => c = Null /\ ~v
      /\ u \in Range(mv) => c = m /\ v
      /\ u \notin Range(r) /\ u \notin Range(mv) => c = bw[u].container /\ (v <=> bw[u].moved)
  BY Zenon DEF Takes
<1> HIDE DEF c, v
<1>6. [bw[u] EXCEPT !.container = c, !.moved = v] \in Thread BY <1>1, <1>2, <1>3, Update, Zenon
<1>7. bw'[u].container = c /\ bw'[u].moved = v /\ Stays(u) BY <1>1, <1>4, Zenon DEF Thread, Stays
<1>8. c = bw[u].container /\ v = bw[u].moved => bw'[u] = bw[u]
  <2>1. [bw[u] EXCEPT !.container = bw[u].container, !.moved = bw[u].moved] = bw[u] BY <1>1, Zenon DEF Thread
  <2> QED BY <1>4, <2>1, Zenon
<1>9. (v <=> bw[u].moved) => v = bw[u].moved BY <1>1, <1>3, Zenon DEF Thread
<1> QED BY <1>4, <1>5, <1>6, <1>7, <1>8, <1>9, Zenon

\* The waiters that are taken stood in the list of b, and nobody else was to make them run.
LEMMA TakenFrom ==
  ASSUME ButexConstants, ButexInv, NEW b \in Butexes, NEW u \in Waiters, u \in Range(waiters[b])
  PROVE  /\ bw[u].pc \in Asleep /\ Resumers(u) = {b}
         /\ \A c \in Butexes : u \in Range(waiters[c]) => c = b
         /\ \A j \in Wakers : u \notin Range(wk[j].batch)
         /\ \A d \in Erasers : ~(er[d].w = u /\ er[d].pc = "wake")
         /\ u \in Bthreads => bw[u].pc = "sleep" /\ bw[u].runnable = 0
         /\ u \in Pthreads => bw[u].pc = "wait" /\ ~bw[u].sig /\ er[u].pc # "erased"
<1>1. Mine(u) BY Parts, Zenon
<1>2. bw[u].pc \in Asleep BY <1>1, Zenon DEF Mine, Contained
<1>3. b \in Resumers(u) BY Zenon DEF Resumers
<1>4. /\ OneResumer(u) /\ (u \in Bthreads => bw[u].pc = "sleep" /\ bw[u].runnable = 0)
      /\ (u \in Pthreads => bw[u].pc = "wait" /\ ~bw[u].sig /\ er[u].pc # "erased")
  BY <1>1, <1>3, Zenon DEF Mine, Once, WokenOnce, SignalledOnce, Waiters
<1>5. Resumers(u) = {b} BY <1>3, <1>4, Zenon DEF OneResumer
<1>6. b \notin Wakers /\ b \notin Erasers BY Zenon DEF ButexConstants
<1>7. /\ \A c \in Butexes : u \in Range(waiters[c]) => c = b
      /\ \A j \in Wakers : u \notin Range(wk[j].batch)
      /\ \A d \in Erasers : ~(er[d].w = u /\ er[d].pc = "wake")
  BY <1>5, <1>6, Zenon DEF Resumers
<1> QED BY <1>2, <1>4, <1>5, <1>7, Zenon

\* The waker itself.
LEMMA TakenBy ==
  ASSUME ButexConstants, ButexInv, NEW k \in Wakers, NEW b \in Butexes, NEW r, NEW mv, NEW m, Takes(k, b, r, mv, m)
  PROVE  /\ wk' \in [Wakers -> Waker] /\ wk'[k].batch = r /\ (wk'[k].pc = "waking" <=> r # <<>>)
         /\ wk'[k].pc # "stored" /\ (\A j \in Wakers : j # k => wk'[j] = wk[j]) /\ wk[k].batch = <<>>
         /\ UNCHANGED <<value, waiter_lock, er, calls>>
<1>1. Whole BY Parts, Zenon
<1>2. wk[k].batch = <<>> BY <1>1, Zenon DEF Whole, Lists, Takes
<1> DEFINE p == IF r = <<>> THEN "idle" ELSE "waking"
<1>3. p \in {"idle", "waking"} /\ (p = "waking" <=> r # <<>>) OBVIOUS
<1>4. wk' = [wk EXCEPT ![k] = [pc |-> p, butex |-> Null, batch |-> r]] BY Zenon DEF Takes, Take
<1> HIDE DEF p
<1>5. [pc |-> p, butex |-> Null, batch |-> r] \in Waker BY <1>3, Zenon DEF Waker, Takes, Queue
<1>6. wk'[k] = [pc |-> p, butex |-> Null, batch |-> r] /\ (\A j \in Wakers : j # k => wk'[j] = wk[j])
  BY <1>1, <1>4, Zenon DEF Whole, ButexTypeOK
<1>7. wk' \in [Wakers -> Waker] BY <1>1, <1>4, <1>5, Zenon DEF Whole, ButexTypeOK
<1>8. UNCHANGED <<value, waiter_lock, er, calls>> BY Zenon DEF Takes, Take
<1> QED BY <1>2, <1>3, <1>6, <1>7, <1>8, SMTT(30)

\* Taking waiters preserves the invariant: those of r are the waker's now, those of mv wait in m.
LEMMA Taken ==
  ASSUME ButexConstants, ButexInv, NEW k \in Wakers, NEW b \in Butexes, NEW r, NEW mv, NEW m, Takes(k, b, r, mv, m)
  PROVE  ButexInv'
<1>1. Whole /\ \A u \in Waiters : Mine(u) BY Parts, Zenon
<1>2. /\ wk' \in [Wakers -> Waker] /\ wk'[k].batch = r /\ (wk'[k].pc = "waking" <=> r # <<>>)
      /\ wk'[k].pc # "stored" /\ (\A j \in Wakers : j # k => wk'[j] = wk[j]) /\ wk[k].batch = <<>>
      /\ UNCHANGED <<value, waiter_lock, er, calls>>
  BY TakenBy, Zenon
<1>3. \A u \in Waiters : /\ bw'[u] \in Thread /\ Stays(u)
                         /\ u \in Range(r) => bw'[u].container = Null /\ ~bw'[u].moved
                         /\ u \in Range(mv) => bw'[u].container = m /\ bw'[u].moved
                         /\ u \notin Range(r) /\ u \notin Range(mv) => bw'[u] = bw[u]
  BY TakenThread
<1>4. /\ waiters' \in [Butexes -> Seq(Waiters)] /\ \A c \in Butexes : IsInjective(waiters'[c])
      /\ Queue(r) /\ (\A u : u \in Range(r) \/ u \in Range(mv) => u \in Range(waiters[b]))
      /\ (\A u : ~(u \in Range(r) /\ u \in Range(mv))) /\ ((\A u : u \notin Range(mv)) \/ (m \in Butexes /\ m # b))
  BY Zenon DEF Takes
<1>5. \A c \in Butexes : \A u : u \in Range(waiters'[c]) <=>
        \/ u \in Range(waiters[c]) /\ u \notin Range(r) /\ u \notin Range(mv)
        \/ c = m /\ u \in Range(mv)
  BY Zenon DEF Takes
<1>6. b \notin waiter_lock /\ (wk[k].pc = "stored" => wk[k].butex = b /\ \A u : u \notin Range(waiters'[b]))
  BY DEF Takes, Range
<1>7. Range(<<>>) = {} BY DEF Range
<1>8. ASSUME NEW u \in Waiters, u \in Range(r) \/ u \in Range(mv) PROVE Mine(u)'
  <2>1. /\ bw[u].pc \in Asleep /\ Resumers(u) = {b}
        /\ \A c \in Butexes : u \in Range(waiters[c]) => c = b
        /\ \A j \in Wakers : u \notin Range(wk[j].batch)
        /\ \A d \in Erasers : ~(er[d].w = u /\ er[d].pc = "wake")
        /\ u \in Bthreads => bw[u].pc = "sleep" /\ bw[u].runnable = 0
        /\ u \in Pthreads => bw[u].pc = "wait" /\ ~bw[u].sig /\ er[u].pc # "erased"
    BY <1>4, <1>8, TakenFrom, Zenon
  <2>2. \A c \in Butexes : u \in Range(waiters'[c]) <=> c = m /\ u \in Range(mv) BY <1>4, <1>5, <1>8, <2>1, Zenon
  <2>3. \A j \in Wakers : u \in Range(wk'[j].batch) <=> j = k /\ u \in Range(r) BY <1>2, <2>1, Zenon
  <2>4. Resumers(u)' = {IF u \in Range(r) THEN k ELSE m}
    BY <1>2, <1>4, <1>8, <2>1, <2>2, <2>3, Zenon DEF Resumers
  <2>5. Stays(u) /\ Mine(u) /\ (u \in Bthreads <=> u \notin Pthreads) BY <1>1, <1>3, Zenon DEF ButexConstants, Waiters
  <2>6. er'[u] = er[u] /\ \A i \in Interrupters : (Holds(i, u)' <=> Holds(i, u)) /\ er'[i] = er[i]
    BY <1>2, Zenon DEF Holds
  <2>7. Contained(u)' 
    <3>1. /\ u \in Range(r) => bw'[u].container = Null
          /\ u \in Range(mv) => bw'[u].container = m
          /\ Null \notin Butexes
      BY <1>3, Zenon DEF ButexConstants
    <3>2. bw'[u].pc \in Asleep BY <2>1, <2>5, Zenon DEF Stays
    <3> QED BY <1>4, <1>8, <2>2, <3>1, <3>2, Zenon DEF Contained
  <2>8. Place(u)' /\ Timed(u)' /\ Zero(u)' BY <2>5, <2>6, Zenon DEF Mine, Stays, Place, Timed, Zero
  <2>9. Held(u)' BY <2>5, <2>6, Zenon DEF Mine, Stays, Held
  <2>10. Flagged(u)' BY <2>5, <2>6, Zenon DEF Mine, Stays, Flagged
  <2>11. Excused(u)' BY <2>5, <2>6, Zenon DEF Mine, Stays, Excused, Up
  <2>12. Once(u)' BY <2>1, <2>4, <2>5, <2>6, Zenon DEF Stays, Once, WokenOnce, SignalledOnce, OneResumer
  <2>13. InUse(u)' BY <2>1, <2>5, <2>6, Zenon DEF Mine, Stays, InUse, Asleep
  <2> QED BY <2>7, <2>8, <2>9, <2>10, <2>11, <2>12, <2>13, Zenon DEF Mine
<1>9. ASSUME NEW u \in Waiters, u \notin Range(r), u \notin Range(mv) PROVE Mine(u)'
  <2>1. bw'[u] = bw[u] BY <1>3, <1>9, Zenon
  <2>2. Untouched(u) BY <1>2, <1>5, <1>7, <1>9, <2>1, Zenon DEF Untouched
  <2> QED BY <1>1, <2>2, Alone, Zenon
<1>10. ButexTypeOK'
  <2>1. bw' \in [Waiters -> Thread]
    <3>1. bw' = [u \in Waiters |-> bw'[u]] BY Zenon DEF Takes, Take
    <3> QED BY <1>3, <3>1, Zenon
  <2> QED BY <1>1, <1>2, <1>4, <2>1, Zenon DEF Whole, ButexTypeOK
<1>11. Lists' BY <1>1, <1>2, <1>4, Zenon DEF Whole, Lists, Queue
<1>12. NoMissedWake'
  <2> SUFFICES ASSUME NEW c \in Butexes, NEW u \in Range(waiters'[c]), bw'[u].butex = c, ~bw'[u].moved,
                      value[c] # bw'[u].expected
               PROVE  Stored(c)'
    BY <1>2, Zenon DEF NoMissedWake, Unmatched
  <2>1. u \in Waiters BY <1>4, QueuedIsWaiter, Zenon
  <2>2. u \in Range(waiters[c]) /\ bw'[u] = bw[u] BY <1>3, <1>5, <2>1, Zenon
  <2>3. PICK j \in Wakers : wk[j].pc = "stored" /\ wk[j].butex = c
    BY <1>1, <2>2, Zenon DEF Whole, NoMissedWake, Unmatched, Stored
  <2>4. j # k BY <1>6, <2>3, Zenon
  <2> QED BY <1>2, <2>3, <2>4, Zenon DEF Stored
<1>13. ASSUME NEW u \in Waiters PROVE Appending(u)'
  <2>1. \A v \in Waiters : /\ bw'[v].pc = bw[v].pc /\ bw'[v].butex = bw[v].butex
                           /\ bw'[v].expected = bw[v].expected
    BY <1>3, Zenon DEF Stays
  <2>2. ASSUME NEW c \in waiter_lock, Stored(c) PROVE Stored(c)'
    BY <1>2, <1>6, <2>2, Zenon DEF Stored
  <2> QED BY <1>1, <1>2, <2>1, <2>2, SMTT(30) DEF Whole, Appending, Unmatched
<1>14. \A e \in Erasers : Erasing(e)' BY <1>1, <1>2, Zenon DEF Whole, Erasing
<1> QED BY <1>8, <1>9, <1>10, <1>11, <1>12, <1>13, <1>14, PartsNext, Zenon DEF Whole

\* A list of one waiter.
LEMMA Single == ASSUME NEW u \in Waiters PROVE Queue(<<u>>) /\ Range(<<u>>) = {u} /\ <<u>> # <<>>
BY DEF Queue, Range, IsInjective

\* The empty list.
LEMMA Empty == Queue(<<>>) /\ Range(<<>>) = {}
BY DEF Queue, Range, IsInjective

\* When the list of b loses what is taken, the lists are as Takes says.
LEMMA ListLess ==
  ASSUME ButexInv, NEW b \in Butexes, NEW q, Queue(q), NEW r, Range(r) \subseteq Range(waiters[b]),
         Range(q) = Range(waiters[b]) \ Range(r), waiters' = [waiters EXCEPT ![b] = q]
  PROVE  /\ waiters' \in [Butexes -> Seq(Waiters)] /\ \A c \in Butexes : IsInjective(waiters'[c])
         /\ \A c \in Butexes : \A u : u \in Range(waiters'[c]) <=> u \in Range(waiters[c]) /\ u \notin Range(r)
         /\ waiters'[b] = q
<1>1. Whole /\ waiters \in [Butexes -> Seq(Waiters)] /\ (\A c \in Butexes : Queue(waiters[c]))
  BY Parts, QueuesOf, Zenon DEF Whole, ButexTypeOK
<1>2. waiters'[b] = q /\ \A c \in Butexes : c # b => waiters'[c] = waiters[c] BY <1>1, Zenon
<1>3. waiters' \in [Butexes -> Seq(Waiters)] BY <1>1, Zenon DEF Queue
<1>4. \A c \in Butexes : IsInjective(waiters'[c]) BY <1>1, <1>2, Zenon DEF Queue
<1>5. \A c \in Butexes : \A u : c # b /\ u \in Range(waiters[c]) => u \notin Range(r)
  <2> SUFFICES ASSUME NEW c \in Butexes, c # b, NEW u, u \in Range(waiters[c]), u \in Range(r) PROVE FALSE
    OBVIOUS
  <2>1. u \in Waiters BY <1>1, QueuedIsWaiter, Zenon
  <2>2. Mine(u) BY <2>1, Parts, Zenon
  <2> QED BY <2>2, Zenon DEF Mine, Contained
<1> QED BY <1>2, <1>3, <1>4, <1>5, Zenon

\* butex_wake takes the first waiter.
LEMMA butex_wake_Step ==
  ASSUME ButexConstants, ButexInv, NEW k \in Wakers, NEW b \in Butexes, butex_wake(k, b) PROVE ButexInv'
<1> DEFINE q == waiters[b]
           h == <<Head(q)>>
           t == Tail(q)
<1>1. Queue(q) /\ q # <<>> BY Parts, QueuesOf, Zenon DEF butex_wake
<1>2. Queue(t) /\ Head(q) \in Waiters /\ Head(q) \in Range(q) /\ Range(t) = Range(q) \ {Head(q)}
  BY <1>1, RestQueue, Zenon
<1>3. Queue(h) /\ Range(h) = {Head(q)} BY <1>2, Single, Zenon
<1>4. Range(h) \subseteq Range(waiters[b]) /\ Range(t) = Range(waiters[b]) \ Range(h) BY <1>2, <1>3, Zenon
<1>5. waiters' = [waiters EXCEPT ![b] = t] /\ Take(k, h, <<>>, Null) BY Zenon DEF butex_wake
<1> HIDE DEF h, t
<1>6. /\ waiters' \in [Butexes -> Seq(Waiters)] /\ \A c \in Butexes : IsInjective(waiters'[c])
      /\ \A c \in Butexes : \A u : u \in Range(waiters'[c]) <=> u \in Range(waiters[c]) /\ u \notin Range(h)
  BY <1>2, <1>4, <1>5, ListLess, Zenon
<1>7. Takes(k, b, h, <<>>, Null) BY <1>3, <1>4, <1>5, <1>6, Empty, Zenon DEF Takes, butex_wake
<1> QED BY <1>7, Taken, Zenon

\* butex_wake_all takes everyone; if the word was changed before, nobody is left to miss it.
LEMMA butex_wake_all_Step ==
  ASSUME ButexConstants, ButexInv, NEW k \in Wakers, NEW b \in Butexes, butex_wake_all(k, b) PROVE ButexInv'
<1> DEFINE q == waiters[b]
<1>1. Queue(q) BY Parts, QueuesOf, Zenon
<1>2. PICK r \in InOrder(q, FirstBthread(q)) : Take(k, r, <<>>, Null) BY Zenon DEF butex_wake_all
<1>3. Queue(r) /\ Range(r) = Range(q) BY <1>1, <1>2, OrderQueue, Zenon
<1>4. waiters' = [waiters EXCEPT ![b] = <<>>] BY Zenon DEF butex_wake_all
<1>5. /\ waiters' \in [Butexes -> Seq(Waiters)] /\ \A c \in Butexes : IsInjective(waiters'[c])
      /\ \A c \in Butexes : \A u : u \in Range(waiters'[c]) <=> u \in Range(waiters[c]) /\ u \notin Range(r)
      /\ waiters'[b] = <<>>
  BY <1>3, <1>4, Empty, ListLess, Zenon
<1>6. Takes(k, b, r, <<>>, Null) BY <1>2, <1>3, <1>5, Empty, Zenon DEF Takes, butex_wake_all
<1> QED BY <1>6, Taken, Zenon

\* butex_wake_except takes everyone but x.
LEMMA butex_wake_except_Step ==
  ASSUME ButexConstants, ButexInv, NEW k \in Wakers, NEW b \in Butexes, NEW x \in Bthreads, butex_wake_except(k, b, x)
  PROVE  ButexInv'
<1> DEFINE q == waiters[b]
           left == IF x \in Range(q) THEN <<x>> ELSE <<>>
<1>1. Queue(q) /\ x \in Waiters BY Parts, QueuesOf, Zenon DEF Waiters
<1>2. Queue(Without(q, x)) /\ Range(Without(q, x)) = Range(q) \ {x} BY <1>1, WithoutQueue, Zenon
<1>3. PICK r \in InOrder(Without(q, x), Null) : Take(k, r, <<>>, Null) BY Zenon DEF butex_wake_except
<1>4. Queue(r) /\ Range(r) = Range(q) \ {x} BY <1>2, <1>3, OrderQueue, Zenon
<1>5. Queue(left) /\ Range(left) = Range(q) \ Range(r)
  <2>1. CASE x \in Range(q) BY <1>1, <1>4, <2>1, Single, Zenon
  <2>2. CASE x \notin Range(q) BY <1>4, <2>2, Empty, Zenon
  <2> QED BY <2>1, <2>2, Zenon
<1>6. waiters' = [waiters EXCEPT ![b] = left] BY Zenon DEF butex_wake_except
<1> HIDE DEF left
<1>7. /\ waiters' \in [Butexes -> Seq(Waiters)] /\ \A c \in Butexes : IsInjective(waiters'[c])
      /\ \A c \in Butexes : \A u : u \in Range(waiters'[c]) <=> u \in Range(waiters[c]) /\ u \notin Range(r)
  BY <1>4, <1>5, <1>6, ListLess, Zenon
<1>8. Takes(k, b, r, <<>>, Null) BY <1>3, <1>4, <1>7, Empty, Zenon DEF Takes, butex_wake_except
<1> QED BY <1>8, Taken, Zenon

\* butex_requeue takes the first waiter and moves the others to m.
LEMMA butex_requeue_Step ==
  ASSUME ButexConstants, ButexInv, NEW k \in Wakers, NEW b \in Butexes, NEW m \in Butexes, butex_requeue(k, b, m)
  PROVE  ButexInv'
<1> DEFINE q == waiters[b]
           h == Head(q)
           t == Tail(q)
<1>1. /\ Whole /\ Queue(q) /\ q # <<>> /\ b # m /\ waiters \in [Butexes -> Seq(Waiters)]
      /\ \A c \in Butexes : Queue(waiters[c])
  BY Parts, QueuesOf, Zenon DEF butex_requeue, Whole, ButexTypeOK
<1>2. Queue(t) /\ h \in Waiters /\ h \in Range(q) /\ Range(t) = Range(q) \ {h} BY <1>1, RestQueue, Zenon
<1>3. Queue(<<h>>) /\ Range(<<h>>) = {h} BY <1>2, Single, Zenon
<1>4. \A c \in Butexes : c # b => Range(waiters[c]) \cap Range(q) = {}
  <2> SUFFICES ASSUME NEW c \in Butexes, c # b, NEW u \in Range(waiters[c]), u \in Range(q) PROVE FALSE
    OBVIOUS
  <2>1. u \in Waiters BY <1>1, QueuedIsWaiter, Zenon
  <2>2. Mine(u) BY <2>1, Parts, Zenon
  <2> QED BY <2>2, Zenon DEF Mine, Contained
<1>5. Queue(waiters[m] \o t) /\ Range(waiters[m] \o t) = Range(waiters[m]) \cup Range(t)
  <2>1. Range(waiters[m]) \cap Range(t) = {} BY <1>1, <1>2, <1>4, Zenon
  <2> QED BY <1>1, <1>2, <2>1, ConcatQueue, Zenon
<1>6. waiters' = [waiters EXCEPT ![b] = <<>>, ![m] = waiters[m] \o t] BY <1>1, Zenon DEF butex_requeue
<1>7. Take(k, <<h>>, t, m) /\ wk[k].pc = "idle" /\ b \notin waiter_lock BY Zenon DEF butex_requeue
<1> HIDE DEF h, t
<1>8. /\ waiters'[b] = <<>> /\ waiters'[m] = waiters[m] \o t
      /\ \A c \in Butexes : c # b /\ c # m => waiters'[c] = waiters[c]
  BY <1>1, <1>6, Zenon
<1>9. waiters' \in [Butexes -> Seq(Waiters)] BY <1>1, <1>5, <1>6, Empty, Zenon DEF Queue
<1>10. \A c \in Butexes : IsInjective(waiters'[c]) BY <1>1, <1>5, <1>8, Empty, Zenon DEF Queue
<1>11. \A c \in Butexes : \A u : u \in Range(waiters'[c]) <=>
         \/ u \in Range(waiters[c]) /\ u \notin Range(<<h>>) /\ u \notin Range(t)
         \/ c = m /\ u \in Range(t)
  BY <1>1, <1>2, <1>3, <1>4, <1>5, <1>8, Empty, Zenon
<1>12. Takes(k, b, <<h>>, t, m) BY <1>1, <1>2, <1>3, <1>7, <1>9, <1>10, <1>11, Zenon DEF Takes
<1> QED BY <1>12, Taken, Zenon

\* What wake_next does to the thread of the waiter w.
LEMMA WokenThread ==
  ASSUME ButexConstants, ButexInv, NEW k, wake_next(k), NEW w \in Waiters, w = Head(wk[k].batch)
  PROVE  /\ bw' \in [Waiters -> Thread] /\ (\A u \in Waiters : u # w => bw'[u] = bw[u])
         /\ bw'[w].pc = bw[w].pc /\ bw'[w].butex = bw[w].butex /\ bw'[w].expected = bw[w].expected
         /\ bw'[w].timed = bw[w].timed /\ bw'[w].rc = bw[w].rc /\ bw'[w].container = bw[w].container
         /\ bw'[w].state = bw[w].state /\ bw'[w].interrupted = bw[w].interrupted
         /\ bw'[w].current_waiter = bw[w].current_waiter /\ bw'[w].moved = bw[w].moved /\ bw'[w].woken
         /\ w \in Bthreads => /\ bw'[w].runnable = bw[w].runnable + 1 /\ bw'[w].sig = bw[w].sig
                              /\ bw'[w].sleep_id <=> bw[w].sleep_id /\ bw[w].timer = "running"
                              /\ bw'[w].timer = IF bw[w].sleep_id /\ bw[w].timer = "scheduled" THEN "over"
                                                ELSE bw[w].timer
         /\ w \notin Bthreads => /\ bw'[w].runnable = bw[w].runnable /\ bw'[w].sig
                                 /\ bw'[w].sleep_id = bw[w].sleep_id /\ bw'[w].timer = bw[w].timer
<1>1. bw[w] \in Thread /\ bw \in [Waiters -> Thread] BY ThreadType, Zenon DEF Whole, ButexTypeOK
<1>2. CASE w \in Bthreads
  <2>1. PICK s \in BOOLEAN, m \in {"none", "scheduled", "running", "over"} :
          /\ Unsleep(bw[w]) = [bw[w] EXCEPT !.sleep_id = s, !.timer = m]
          /\ s <=> bw[w].sleep_id /\ bw[w].timer = "running"
          /\ m = IF bw[w].sleep_id /\ bw[w].timer = "scheduled" THEN "over" ELSE bw[w].timer
    BY <1>1, UnsleepIs, Zenon
  <2> DEFINE n == bw[w].runnable + 1
             t == [bw[w] EXCEPT !.sleep_id = s, !.timer = m, !.runnable = n, !.woken = TRUE]
  <2>2. n \in Nat BY <1>1, SMTT(30) DEF Thread
  <2>3. bw' = [bw EXCEPT ![w] = [MakeRunnable(w, Unsleep(bw[w])) EXCEPT !.woken = TRUE]]
    BY <1>2, Zenon DEF wake_next
  <2>4. [MakeRunnable(w, Unsleep(bw[w])) EXCEPT !.woken = TRUE] = t
    BY <1>1, <1>2, <2>1, Zenon DEF MakeRunnable, Thread
  <2>5. bw' = [bw EXCEPT ![w] = t] BY <2>3, <2>4, Zenon
  <2> HIDE DEF n
  <2>6. t \in Thread BY <1>1, <2>2, Update, Zenon
  <2>7. bw' \in [Waiters -> Thread] /\ bw'[w] = t /\ (\A u \in Waiters : u # w => bw'[u] = bw[u])
    BY <1>1, <2>5, <2>6, Zenon
  <2>8. /\ bw'[w].pc = bw[w].pc /\ bw'[w].butex = bw[w].butex /\ bw'[w].expected = bw[w].expected
        /\ bw'[w].timed = bw[w].timed /\ bw'[w].rc = bw[w].rc
        /\ bw'[w].container = bw[w].container /\ bw'[w].state = bw[w].state
        /\ bw'[w].sig = bw[w].sig /\ bw'[w].sleep_id = s /\ bw'[w].timer = m
        /\ bw'[w].interrupted = bw[w].interrupted /\ bw'[w].current_waiter = bw[w].current_waiter
        /\ bw'[w].runnable = n /\ bw'[w].woken = TRUE /\ bw'[w].moved = bw[w].moved
    BY <1>1, <2>7, SMTT(30) DEF Thread
  <2> QED BY <1>2, <2>1, <2>7, <2>8, Zenon DEF n
<1>3. CASE w \notin Bthreads
  <2> DEFINE t == [bw[w] EXCEPT !.sig = TRUE, !.woken = TRUE]
  <2>1. bw' = [bw EXCEPT ![w] = t] BY <1>3, Zenon DEF wake_next, MakeRunnable
  <2>2. t \in Thread BY <1>1, Update, Zenon
  <2>3. bw' \in [Waiters -> Thread] /\ bw'[w] = t /\ (\A u \in Waiters : u # w => bw'[u] = bw[u])
    BY <1>1, <2>1, <2>2, Zenon
  <2>4. /\ bw'[w].pc = bw[w].pc /\ bw'[w].butex = bw[w].butex /\ bw'[w].expected = bw[w].expected
        /\ bw'[w].timed = bw[w].timed /\ bw'[w].rc = bw[w].rc
        /\ bw'[w].container = bw[w].container /\ bw'[w].state = bw[w].state /\ bw'[w].sig = TRUE
        /\ bw'[w].sleep_id = bw[w].sleep_id /\ bw'[w].timer = bw[w].timer
        /\ bw'[w].interrupted = bw[w].interrupted /\ bw'[w].current_waiter = bw[w].current_waiter
        /\ bw'[w].runnable = bw[w].runnable /\ bw'[w].woken = TRUE /\ bw'[w].moved = bw[w].moved
    BY <1>1, <2>3, SMTT(30) DEF Thread
  <2> QED BY <1>3, <2>3, <2>4, Zenon
<1> QED BY <1>2, <1>3, Zenon

\* A waiter that a waker has removed sleeps, and only this waker is to make it run.
LEMMA HeldBy ==
  ASSUME ButexConstants, ButexInv, NEW k \in Wakers, NEW u \in Waiters, u \in Range(wk[k].batch)
  PROVE  /\ bw[u].pc \in Asleep /\ (\A c \in Butexes : u \notin Range(waiters[c]))
         /\ \A j \in Wakers : u \in Range(wk[j].batch) => j = k
         /\ \A d \in Erasers : ~(er[d].w = u /\ er[d].pc = "wake")
         /\ u \in Bthreads => bw[u].pc = "sleep" /\ bw[u].runnable = 0
         /\ u \in Pthreads => bw[u].pc = "wait" /\ ~bw[u].sig /\ er[u].pc # "erased"
<1>1. Mine(u) BY Parts, Zenon
<1>2. k \in Resumers(u) BY Zenon DEF Resumers
<1>3. /\ OneResumer(u) /\ (u \in Bthreads => bw[u].pc = "sleep" /\ bw[u].runnable = 0)
      /\ (u \in Pthreads => bw[u].pc = "wait" /\ ~bw[u].sig /\ er[u].pc # "erased")
  BY <1>1, <1>2, Zenon DEF Mine, Once, WokenOnce, SignalledOnce, Waiters
<1>4. Resumers(u) = {k} BY <1>2, <1>3, Zenon DEF OneResumer
<1>5. k \notin Butexes /\ k \notin Erasers BY Zenon DEF ButexConstants
<1>6. /\ \A c \in Butexes : u \notin Range(waiters[c])
      /\ \A j \in Wakers : u \in Range(wk[j].batch) => j = k
      /\ \A d \in Erasers : ~(er[d].w = u /\ er[d].pc = "wake")
  BY <1>4, <1>5, Zenon DEF Resumers
<1> QED BY <1>3, <1>6, Zenon DEF Asleep, Waiters

\* A waker makes the next waiter of its batch run.
LEMMA wake_next_Step == ASSUME ButexConstants, ButexInv, NEW k \in Wakers, wake_next(k) PROVE ButexInv'
<1> DEFINE q == wk[k].batch
<1>0. Whole /\ (\A u \in Waiters : Mine(u)) /\ wk[k].pc = "waking" /\ Queue(q) /\ q # <<>>
  BY Parts, QueuesOf, Zenon DEF wake_next, Whole, Lists
<1>2. Queue(Tail(q)) /\ Head(q) \in Waiters /\ Head(q) \in Range(q) /\ Range(Tail(q)) = Range(q) \ {Head(q)}
  BY <1>0, RestQueue, Zenon
<1>w. PICK w \in Waiters : w = Head(wk[k].batch) BY <1>2, Zenon
<1>1. Mine(w) /\ (w \in Bthreads <=> w \notin Pthreads) BY <1>0, Zenon DEF ButexConstants, Waiters
<1>3. /\ bw[w].pc \in Asleep /\ (\A c \in Butexes : w \notin Range(waiters[c]))
      /\ \A j \in Wakers : w \in Range(wk[j].batch) => j = k
      /\ \A d \in Erasers : ~(er[d].w = w /\ er[d].pc = "wake")
      /\ w \in Bthreads => bw[w].pc = "sleep" /\ bw[w].runnable = 0
      /\ w \in Pthreads => bw[w].pc = "wait" /\ ~bw[w].sig /\ er[w].pc # "erased"
  BY <1>2, <1>w, HeldBy, SMTT(30)
<1>4. UNCHANGED <<value, waiters, waiter_lock, er, calls>> BY Zenon DEF wake_next, queue
<1>5. /\ wk' \in [Wakers -> Waker] /\ wk'[k].batch = Tail(q) /\ wk'[k].butex = wk[k].butex
      /\ wk'[k].pc = (IF Len(q) = 1 THEN "idle" ELSE "waking")
      /\ \A j \in Wakers : j # k => wk'[j] = wk[j]
  <2> DEFINE p == IF Len(q) = 1 THEN "idle" ELSE "waking"
  <2>1. wk' = [wk EXCEPT ![k].batch = Tail(q), ![k].pc = p] BY <1>0, Zenon DEF wake_next
  <2>2. Tail(q) \in Seq(Waiters) /\ wk \in [Wakers -> Waker] BY <1>0, <1>2, Zenon DEF Queue, Whole, ButexTypeOK
  <2>3. p \in {"idle", "waking"} OBVIOUS
  <2> HIDE DEF p
  <2>4. /\ wk' \in [Wakers -> Waker] /\ wk'[k].batch = Tail(q) /\ wk'[k].butex = wk[k].butex
        /\ wk'[k].pc = p /\ \A j \in Wakers : j # k => wk'[j] = wk[j]
    BY <2>1, <2>2, <2>3, Zenon DEF Waker
  <2> QED BY <2>4, Zenon DEF p
<1>6. /\ bw' \in [Waiters -> Thread] /\ (\A u \in Waiters : u # w => bw'[u] = bw[u])
      /\ bw'[w].pc = bw[w].pc /\ bw'[w].butex = bw[w].butex /\ bw'[w].expected = bw[w].expected
      /\ bw'[w].timed = bw[w].timed /\ bw'[w].rc = bw[w].rc /\ bw'[w].container = bw[w].container
      /\ bw'[w].state = bw[w].state /\ bw'[w].interrupted = bw[w].interrupted
      /\ bw'[w].current_waiter = bw[w].current_waiter /\ bw'[w].moved = bw[w].moved /\ bw'[w].woken
      /\ w \in Bthreads => /\ bw'[w].runnable = bw[w].runnable + 1 /\ bw'[w].sig = bw[w].sig
                           /\ bw'[w].sleep_id <=> bw[w].sleep_id /\ bw[w].timer = "running"
                           /\ bw'[w].timer = IF bw[w].sleep_id /\ bw[w].timer = "scheduled" THEN "over"
                                             ELSE bw[w].timer
      /\ w \notin Bthreads => /\ bw'[w].runnable = bw[w].runnable /\ bw'[w].sig
                              /\ bw'[w].sleep_id = bw[w].sleep_id /\ bw'[w].timer = bw[w].timer
  BY <1>w, WokenThread, Zenon
<1>7. \A j \in Wakers : \A u : u \in Range(wk'[j].batch) <=> u \in Range(wk[j].batch) /\ u # w
  BY <1>2, <1>3, <1>5, <1>w, Zenon
<1>8. Resumers(w)' = {} BY <1>3, <1>4, <1>7, Zenon DEF Resumers
<1>9. er'[w] = er[w] /\ \A i \in Interrupters : (Holds(i, w)' <=> Holds(i, w)) /\ er'[i] = er[i]
  BY <1>4, Zenon DEF Holds
<1>10. Mine(w)'
  <2>1. Contained(w)' BY <1>1, <1>4, <1>6, Zenon DEF Mine, Contained
  <2>2. Place(w)' /\ Zero(w)' BY <1>1, <1>3, <1>6, Zenon DEF Mine, Place, Zero, Asleep
  <2>3. Timed(w)' BY <1>1, <1>3, <1>6, <1>9, Zenon DEF Mine, Timed
  <2>4. Held(w)' BY <1>1, <1>6, <1>9, Zenon DEF Mine, Held
  <2>5. Flagged(w)' BY <1>1, <1>6, <1>9, Zenon DEF Mine, Flagged
  <2>6. Excused(w)' BY <1>1, <1>3, <1>6, Zenon DEF Excused, Asleep
  <2>7. Once(w)' BY <1>1, <1>3, <1>6, <1>8, SMTT(30) DEF Once, WokenOnce, SignalledOnce
  <2>8. InUse(w)' BY <1>1, <1>3, <1>6, <1>9, Zenon DEF Mine, InUse, Asleep
  <2> QED BY <2>1, <2>2, <2>3, <2>4, <2>5, <2>6, <2>7, <2>8, Zenon DEF Mine
<1>11. ASSUME NEW u \in Waiters, u # w PROVE Mine(u)'
  <2>1. Untouched(u) BY <1>4, <1>6, <1>7, <1>11, Zenon DEF Untouched
  <2> QED BY <1>0, <2>1, Alone, Zenon
<1>12. ButexTypeOK' BY <1>0, <1>4, <1>5, <1>6, Zenon DEF Whole, ButexTypeOK
<1>13. Lists'
  <2>1. Len(q) = 1 <=> Tail(q) = <<>>
    <3>1. q \in Seq(Waiters) /\ Tail(q) \in Seq(Waiters) BY <1>0, <1>2, Zenon DEF Queue
    <3>2. Len(Tail(q)) = Len(q) - 1 /\ Len(q) \in Nat BY <1>0, <3>1, HeadTailProperties, SMTT(30)
    <3>3. Tail(q) = <<>> <=> Len(Tail(q)) = 0 BY <3>1, EmptySeq, Zenon
    <3> QED BY <3>2, <3>3, SMTT(30)
  <2>2. wk'[k].pc = "waking" <=> wk'[k].batch # <<>> BY <1>5, <2>1, Zenon
  <2>3. IsInjective(wk'[k].batch) BY <1>2, <1>5, Zenon DEF Queue
  <2> QED BY <1>0, <1>4, <1>5, <2>2, <2>3, Zenon DEF Whole, Lists
<1>14. \A c \in Butexes : Stored(c) => Stored(c)' BY <1>0, <1>5, Zenon DEF Stored
<1>15. NoMissedWake'
  <2> SUFFICES ASSUME NEW c \in Butexes, NEW u \in Range(waiters[c]), bw'[u].butex = c, ~bw'[u].moved,
                      value[c] # bw'[u].expected
               PROVE  Stored(c)
    BY <1>4, <1>14, Zenon DEF NoMissedWake, Unmatched
  <2>1. u \in Waiters /\ u # w BY <1>0, <1>3, SMTT(30) DEF Whole, ButexTypeOK, Range
  <2>2. bw'[u] = bw[u] BY <1>6, <2>1, Zenon
  <2> QED BY <1>0, <2>2, Zenon DEF Whole, NoMissedWake, Unmatched
<1>16. ASSUME NEW u \in Waiters PROVE Appending(u)'
  <2>1. \A v \in Waiters : bw'[v].pc = "append" => bw'[v] = bw[v] BY <1>3, <1>6, Zenon DEF Asleep
  <2>2. bw[u].pc = "append" => bw[u].butex \in Butexes BY <1>0, Zenon DEF Mine, Place
  <2> QED BY <1>0, <1>4, <1>14, <2>1, <2>2, Zenon DEF Whole, Appending, Unmatched
<1>17. \A e \in Erasers : Erasing(e)' BY <1>0, <1>4, Zenon DEF Whole, Erasing
<1> QED BY <1>10, <1>11, <1>12, <1>13, <1>15, <1>16, <1>17, PartsNext, Zenon DEF Whole

-----------------------------------------------------------------------------
(* The invariant.                                                           *)

\* It holds before anyone has called.
LEMMA InitButexInv == ASSUME ButexConstants, ButexInit PROVE ButexInv
<1>1. ButexTypeOK
  <2>1. [b \in Butexes |-> 0] \in [Butexes -> 0 .. MaxValue] /\ 0 \in 0 .. MaxCalls BY DEF ButexConstants
  <2>2. [b \in Butexes |-> <<>>] \in [Butexes -> Seq(Waiters)] BY Empty, Zenon DEF Queue
  <2>3. bw \in [Waiters -> Thread] BY Zenon DEF ButexInit, Thread
  <2>4. wk \in [Wakers -> Waker] BY Empty, Zenon DEF ButexInit, Waker, Queue
  <2>5. er \in [Erasers -> Eraser] BY Zenon DEF ButexInit, Eraser
  <2> QED BY <2>1, <2>2, <2>3, <2>4, <2>5, Zenon DEF ButexInit, ButexTypeOK
<1>2. /\ \A b \in Butexes : waiters[b] = <<>>
      /\ \A k \in Wakers : wk[k].pc = "idle" /\ wk[k].batch = <<>>
      /\ \A e \in Erasers : er[e].pc = "idle" /\ er[e].w = Null
  BY Zenon DEF ButexInit
<1>3. \A w \in Waiters : /\ bw[w].pc = "out" /\ bw[w].rc = "none" /\ bw[w].container = Null /\ bw[w].timer = "none"
                         /\ ~bw[w].current_waiter /\ bw[w].runnable = 0
  BY Zenon DEF ButexInit
<1>4. Lists BY <1>2, Empty, Zenon DEF Lists, Queue
<1>5. NoMissedWake BY <1>2, Empty, Zenon DEF NoMissedWake
<1>6. \A e \in Erasers : Erasing(e) BY <1>2, Zenon DEF Erasing
<1>7. \A w \in Waiters : Appending(w) BY <1>3, Zenon DEF Appending
<1>8. ASSUME NEW w \in Waiters PROVE Mine(w)
  <2>1. w \in Erasers /\ Interrupters \subseteq Erasers /\ (w \in Bthreads <=> w \notin Pthreads) /\ w # Null
        /\ Null \notin Butexes
    BY Zenon DEF ButexConstants, Waiters, Erasers
  <2>2. Resumers(w) = {} BY <1>2, Empty, Zenon DEF Resumers
  <2>3. \A i \in Interrupters : ~Holds(i, w) BY <1>2, <2>1, Zenon DEF Holds
  <2>4. Contained(w) BY <1>2, <1>3, <2>1, Empty, Zenon DEF Contained, Asleep
  <2>5. Place(w) /\ Zero(w) BY <1>3, Zenon DEF Place, Zero
  <2>6. Timed(w) BY <1>2, <1>3, <2>1, Zenon DEF Timed
  <2>7. Held(w) /\ Flagged(w) BY <1>3, <2>3, Zenon DEF Held, Flagged
  <2>8. Excused(w) BY <1>3 DEF Excused, Up
  <2>9. Once(w) BY <1>3, <2>2, Zenon DEF Once, WokenOnce, SignalledOnce
  <2>10. InUse(w) BY <1>2, <2>1, Empty, Zenon DEF InUse
  <2> QED BY <2>4, <2>5, <2>6, <2>7, <2>8, <2>9, <2>10, Zenon DEF Mine
<1> QED BY <1>1, <1>4, <1>5, <1>6, <1>7, <1>8, Parts, Zenon DEF Whole

\* What a thread in butex_wait does preserves it.
LEMMA WaitIInv == ASSUME ButexConstants, ButexInv, NEW w \in Waiters, Wait(w) PROVE ButexInv'
<1>1. CASE wait_for_butex_check(w)
  BY <1>1, wait_for_butex_check_Runs, wait_for_butex_check_Locks, Zenon
<1>2. CASE pthread_queue(w)
  BY <1>2, pthread_queue_Unmatched, pthread_queue_Interrupted, pthread_queue_Queues, Zenon
<1>3. CASE wait_pthread_erased(w)
  BY <1>3, wait_pthread_erased_Over, wait_pthread_erased_Waits, Zenon
<1> QED
  BY <1>1, <1>2, <1>3, butex_wait_refuse_Step, butex_wait_Step, wait_for_butex_Step,
     butex_wait_from_pthread_Step, wait_pthread_Step, wait_pthread_timeout_Step, sched_Step,
     butex_wait_unsleep_Step, butex_wait_exchange_Step, butex_wait_return_Step, Zenon
  DEF Wait

\* What an eraser does preserves it.
LEMMA EraseIInv == ASSUME ButexConstants, ButexInv, NEW e \in Erasers, Erase(e) PROVE ButexInv'
<1>1. CASE erase_from_butex(e)
  BY <1>1, erase_from_butex_Again, erase_from_butex_Removes, Zenon
<1>2. CASE erase_wakeup(e)
  <2>1. Erasing(e) /\ er[e].pc = "wake" BY <1>2, Parts, Zenon DEF Whole, erase_wakeup
  <2>2. er[e].w \in Bthreads \/ er[e].w \in Pthreads BY <2>1, Zenon DEF Erasing, Waiters
  <2> QED BY <1>2, <2>2, erase_wakeup_Bthreads, erase_wakeup_Pthreads, Zenon
<1> QED BY <1>1, <1>2, erase_load_Step, Zenon DEF Erase

\* What an interrupter does besides erasing preserves it.
LEMMA InterruptedIInv == ASSUME ButexConstants, ButexInv, NEW i \in Interrupters, Interrupted(i) PROVE ButexInv'
<1>1. CASE interrupt_set(i)
  <2>1. er[i].pc = "flag" \/ er[i].pc = "flag_only" BY <1>1, Zenon DEF interrupt_set
  <2> QED BY <1>1, <2>1, interrupt_set_Waiter, interrupt_set_Only, Zenon
<1> QED BY <1>1, set_butex_waiter_Step, Zenon DEF Interrupted

\* What a waker does before it makes its batch run preserves it.
LEMMA WakeIInv == ASSUME ButexConstants, ButexInv, NEW k \in Wakers, Wake(k) PROVE ButexInv'
BY store_value_Step, butex_wake_Step, butex_wake_all_Step, butex_wake_except_Step, butex_requeue_Step, Zenon
DEF Wake

\* Every step preserves it.
LEMMA NextButexInv == ASSUME ButexConstants, ButexInv, [ButexNext]_butex_vars PROVE ButexInv'
<1>1. CASE \E w \in Waiters : Wait(w) BY <1>1, WaitIInv, Zenon
<1>2. CASE \E w \in Waiters : Timer(w) BY <1>2, timer_fire_Step, timer_over_Step, Zenon DEF Timer
<1>3. CASE \E w \in Waiters, b \in Butexes, t \in BOOLEAN : butex_wait_call(w, b, t)
  BY <1>3, butex_wait_call_Step, Zenon
<1>4. CASE \E e \in Erasers : Erase(e) BY <1>4, EraseIInv, Zenon
<1>5. CASE \E i \in Interrupters : Interrupted(i) BY <1>5, InterruptedIInv, Zenon
<1>6. CASE \E i \in Interrupters, w \in Interruptees : interrupt_and_consume_waiters(i, w)
  BY <1>6, interrupt_and_consume_waiters_Step, Zenon
<1>7. CASE \E k \in Wakers : Wake(k) BY <1>7, WakeIInv, Zenon
<1>8. CASE \E k \in Wakers : wake_next(k) BY <1>8, wake_next_Step, Zenon
<1>9. CASE UNCHANGED butex_vars
  <2>1. Whole /\ \A w \in Waiters : Mine(w) BY Parts, Zenon
  <2>2. UNCHANGED <<value, waiters, waiter_lock, bw, wk, er, calls>> BY <1>9, Zenon DEF butex_vars
  <2>3. Whole'
    <3>1. ButexTypeOK' /\ Lists' BY <2>1, <2>2, Zenon DEF Whole, ButexTypeOK, Lists
    <3>2. NoMissedWake' BY <2>1, <2>2, Zenon DEF Whole, NoMissedWake, Unmatched, Stored
    <3>3. \A e \in Erasers : Erasing(e)' BY <2>1, <2>2, Zenon DEF Whole, Erasing
    <3>4. \A w \in Waiters : Appending(w)' BY <2>1, <2>2, Zenon DEF Whole, Appending, Unmatched, Stored
    <3> QED BY <3>1, <3>2, <3>3, <3>4, Zenon DEF Whole
  <2>4. ASSUME NEW w \in Waiters PROVE Mine(w)' BY <2>1, <2>2, Alone, Zenon DEF Untouched
  <2> QED BY <2>3, <2>4, PartsNext, Zenon
<1> QED BY <1>1, <1>2, <1>3, <1>4, <1>5, <1>6, <1>7, <1>8, <1>9, Zenon DEF ButexNext

\* Waiting is safe, for any number of threads, words, wakers and interrupters: a thread asleep in
\* butex_wait is made to run exactly once by whoever wins the race for its waiter, nobody uses the
\* waiter after butex_wait returned, no change of a word is missed, and 0 is only said to the woken.
THEOREM WaitingIsSafe == ASSUME ButexConstants PROVE ButexSpec => []ButexSafe
<1>1. ButexInit => ButexInv BY InitButexInv, Zenon
<1>2. ButexInv /\ [ButexNext]_butex_vars => ButexInv' BY NextButexInv, Zenon
<1>3. ButexInv => ButexSafe BY Zenon DEF ButexInv
<1> QED BY <1>1, <1>2, <1>3, PTL DEF ButexSpec

==============================================================================

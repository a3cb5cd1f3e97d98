-------------------------- MODULE BthreadIdProofs ---------------------------
(***************************************************************************)
(* Proofs about BthreadId, for any number of threads and any bounds, as    *)
(* long as the 32-bit versions of the slot do not run out (~WrapEnabled).  *)
(***************************************************************************)
EXTENDS BthreadId, TLAPS

\* The prover of every step below that does not name another.
USE ZenonT(20)

(***************************************************************************)
(* The inductive invariant.  A slot is pooled, or live and unlocked, or it *)
(* has exactly one owner: the thread that creates, holds or destroys it.   *)
(* Each phase fixes how the four version words are related; stale          *)
(* identifiers stay out because all of them are below first_ver.           *)
(***************************************************************************)
Owning == Holding \cup Creating \cup Destroying

Quiet == \A t \in Threads : pc[t] \notin Owning

\* The version words of a slot that no identifier refers to.
Empty == locked_ver = first_ver /\ butex = first_ver

\* There is room for the versions of the current life.
Room == 1 <= first_ver /\ first_ver + IdMaxRange + 3 < VerMod

\* The version words of a slot that identifiers refer to.
Live == Room /\ first_ver < locked_ver /\ locked_ver <= first_ver + IdMaxRange

OneOwner ==
  \A t, u \in Threads : pc[t] \in Owning /\ pc[u] \in Owning => t = u

PhaseInv ==
  /\ Quiet => IF pooled THEN Empty ELSE Live /\ butex = first_ver
  /\ \A t \in Threads : pc[t] \in Owning => ~pooled
  /\ \A t \in Threads : pc[t] = "create_locked" =>
       /\ Room
       /\ ver[t] = first_ver /\ butex = first_ver /\ locked_ver <= first_ver
       /\ 1 <= range[t]
  /\ \A t \in Threads : pc[t] = "created" =>
       /\ Live
       /\ ver[t] = first_ver /\ butex = first_ver
       /\ locked_ver = first_ver + range[t]
  /\ \A t \in Threads : pc[t] \in Holding =>
       Live /\ has_version(ver[t]) /\ butex \in locked_ver .. locked_ver + 2
  /\ \A t \in Threads : pc[t] \in Destroying => Empty

IssuedInv ==
  /\ 0 \in issued
  /\ \A v \in issued : v = 0 \/ v < first_ver \/ has_version(v)
  /\ \A t \in Threads : pc[t] \in Creating => \A v \in issued : v < first_ver
  /\ \A t \in Threads : pc[t] \notin Creating => ver[t] \in issued

PendingInv ==
  /\ Quiet => pending_q = <<>>
  /\ \A t \in Threads : pc[t] \in Creating \cup Destroying => pending_q = <<>>
  /\ \A i \in 1 .. Len(pending_q) :
       has_version(pending_q[i]) /\ pending_q[i] \in issued

\* The butex queues hold exactly sleeping threads, each of them once.
QueueInv ==
  /\ \A i \in 1 .. Len(lock_waiters) : pc[lock_waiters[i]] = "lock_sleep"
  /\ \A i, j \in 1 .. Len(lock_waiters) : lock_waiters[i] = lock_waiters[j] => i = j
  /\ \A i \in 1 .. Len(join_waiters) : pc[join_waiters[i]] = "join_sleep"
  /\ \A i, j \in 1 .. Len(join_waiters) :
       join_waiters[i] = join_waiters[j] => i = j

IInv == TypeOK /\ OneOwner /\ PhaseInv /\ IssuedInv /\ PendingInv /\ QueueInv

-----------------------------------------------------------------------------
(* Helpers *)

\* Version arithmetic that does not run out of versions does not wrap.
LEMMA PlusNoWrap ==
  ASSUME NEW v \in Nat, NEW n \in Nat, v + n < VerMod
  PROVE  Plus(v, n) = v + n
BY SMTT(30), BthreadIdAssumption DEF Plus

\* The length, the domain and the elements of a queue.
LEMMA LenProperties ==
  ASSUME NEW S, NEW q \in Seq(S)
  PROVE  Len(q) \in Nat /\ q \in [1 .. Len(q) -> S] /\ DOMAIN q = 1 .. Len(q)
BY SMTT(30)

\* An element of a queue is in the set the queue is over.
LEMMA ElementOfSeq ==
  ASSUME NEW S, NEW q \in Seq(S), NEW n \in 1 .. Len(q)
  PROVE  q[n] \in S
BY SMTT(30)

\* A queue that is not empty has a positive length.
LEMMA EmptySeq ==
  ASSUME NEW S
  PROVE  /\ << >> \in Seq(S) /\ Len(<< >>) = 0
         /\ \A q \in Seq(S) : q # << >> => Len(q) \in Nat \ {0}
BY SMTT(30)

\* The part of a queue from position m to position n.
LEMMA SubSeqProperties ==
  ASSUME NEW S, NEW q, NEW m \in Int, NEW n \in Int, \A i \in m .. n : q[i] \in S
  PROVE  /\ SubSeq(q, m, n) \in Seq(S)
         /\ Len(SubSeq(q, m, n)) = IF m <= n THEN n - m + 1 ELSE 0
         /\ \A i \in 1 .. n - m + 1 : SubSeq(q, m, n)[i] = q[m + i - 1]
BY SMTT(30)

\* One queue behind another.
LEMMA ConcatProperties ==
  ASSUME NEW S, NEW a \in Seq(S), NEW b \in Seq(S)
  PROVE  /\ a \o b \in Seq(S) /\ Len(a \o b) = Len(a) + Len(b)
         /\ \A i \in 1 .. Len(a) + Len(b) :
              (a \o b)[i] = IF i <= Len(a) THEN a[i] ELSE b[i - Len(a)]
BY SMTT(30)

\* The front of a queue and what is behind it.
LEMMA HeadTailProperties ==
  ASSUME NEW S, NEW q \in Seq(S), q # << >>
  PROVE  /\ Head(q) \in S /\ Tail(q) \in Seq(S) /\ Len(Tail(q)) = Len(q) - 1
         /\ \A i \in 1 .. Len(Tail(q)) : Tail(q)[i] = q[i + 1]
BY SMTT(30)

\* A queue with one more element at its end.
LEMMA AppendProperties ==
  ASSUME NEW S, NEW q \in Seq(S), NEW e \in S
  PROVE  /\ Append(q, e) \in Seq(S) /\ Append(q, e) # << >>
         /\ Len(Append(q, e)) = Len(q) + 1
         /\ \A i \in 1 .. Len(q) : Append(q, e)[i] = q[i]
         /\ Append(q, e)[Len(q) + 1] = e
BY SMTT(30)

\* What is left of a butex queue when butex_wait is interrupted.
LEMMA RemoveAtProperties ==
  ASSUME NEW S, NEW s \in Seq(S), NEW i \in 1 .. Len(s)
  PROVE  /\ RemoveAt(s, i) \in Seq(S)
         /\ Len(RemoveAt(s, i)) = Len(s) - 1
         /\ \A j \in 1 .. Len(s) - 1 :
              RemoveAt(s, i)[j] = IF j < i THEN s[j] ELSE s[j + 1]
<1>1. Len(s) \in Nat
  BY LenProperties
<1>2. PICK a : a = SubSeq(s, 1, i - 1)
  OBVIOUS
<1>3. PICK b : b = SubSeq(s, i + 1, Len(s))
  OBVIOUS
<1>4. a \in Seq(S) /\ Len(a) = i - 1 /\ \A j \in 1 .. i - 1 : a[j] = s[j]
  BY SMTT(30), <1>1, <1>2, SubSeqProperties
<1>5. /\ b \in Seq(S) /\ Len(b) = Len(s) - i
      /\ \A j \in 1 .. Len(s) - i : b[j] = s[i + j]
  BY SMTT(30), <1>1, <1>3, SubSeqProperties
<1>6. PICK c : c = a \o b
  OBVIOUS
<1>7. /\ c \in Seq(S)
      /\ Len(c) = Len(a) + Len(b)
      /\ \A j \in 1 .. Len(a) + Len(b) :
           c[j] = IF j <= Len(a) THEN a[j] ELSE b[j - Len(a)]
  BY <1>4, <1>5, <1>6, ConcatProperties
<1>8. RemoveAt(s, i) = c
  BY <1>2, <1>3, <1>6 DEF RemoveAt
<1>9. ASSUME NEW j \in 1 .. Len(s) - 1
      PROVE  c[j] = IF j < i THEN s[j] ELSE s[j + 1]
  <2>0. i \in Int /\ j \in Int /\ j \in 1 .. Len(a) + Len(b)
    BY SMTT(30), <1>1, <1>4, <1>5
  <2>1. CASE j < i
    <3>1. j <= Len(a) /\ j \in 1 .. i - 1
      BY SMTT(30), <1>1, <1>4, <2>0, <2>1
    <3>2. c[j] = a[j]
      BY <1>7, <2>0, <3>1
    <3> QED
      BY <1>4, <2>1, <3>1, <3>2
  <2>2. CASE ~(j < i)
    <3>1. /\ ~(j <= Len(a))
          /\ j - Len(a) \in 1 .. Len(s) - i
          /\ i + (j - Len(a)) = j + 1
      BY SMTT(30), <1>1, <1>4, <1>5, <2>0, <2>2
    <3>2. c[j] = b[j - Len(a)]
      BY <1>7, <2>0, <3>1
    <3> QED
      BY <1>5, <2>2, <3>1, <3>2
  <2> QED
    BY <2>1, <2>2
<1> QED
  BY SMTT(30), <1>1, <1>4, <1>5, <1>7, <1>8, <1>9

\* Version arithmetic stays within 32 bits.
LEMMA PlusType ==
  ASSUME NEW v \in Nat, NEW n \in Nat
  PROVE  Plus(v, n) \in Versions
BY SMTT(30), BthreadIdAssumption DEF Plus, Versions

\* The identifiers of a ranged slot are versions.
LEMMA RangeOfVersions ==
  ASSUME NEW a \in Versions, NEW b \in Versions
  PROVE  a .. b - 1 \subseteq Versions
BY SMTT(30), BthreadIdAssumption DEF Versions

\* The reserved versions of a live slot.
LEMMA LiveVersions ==
  ASSUME TypeOK, Live
  PROVE  /\ contended_ver = locked_ver + 1
         /\ unlockable_ver = locked_ver + 2
         /\ end_ver = locked_ver + 3
<1>1. /\ first_ver \in Nat /\ locked_ver \in Nat
      /\ VerMod \in Nat /\ IdMaxRange \in Nat
      /\ locked_ver + 3 < VerMod
  BY SMTT(30), BthreadIdAssumption DEF TypeOK, Versions, Live, Room
<1>2. contended_ver = locked_ver + 1
  BY SMTT(30), <1>1, PlusNoWrap DEF contended_ver
<1>3. unlockable_ver = locked_ver + 2
  BY SMTT(30), <1>1, PlusNoWrap DEF unlockable_ver
<1>4. end_ver = locked_ver + 3
  BY SMTT(30), <1>1, <1>3, PlusNoWrap DEF end_ver
<1> QED
  BY <1>2, <1>3, <1>4

-----------------------------------------------------------------------------
(* The invariant is inductive *)

\* The slot starts unused: nobody owns, waits or sleeps in it.
LEMMA InitIInv == Init => IInv
<1> SUFFICES ASSUME Init PROVE IInv
  OBVIOUS
<1>1. TypeOK
  BY SMTT(30), BthreadIdAssumption
  DEF Init, TypeOK, Versions, Labels, INVALID_BTHREAD_ID
<1>2. OneOwner /\ PhaseInv /\ PendingInv /\ QueueInv
  BY SMTT(30) DEF Init, OneOwner, PhaseInv, PendingInv, QueueInv, Owning, Holding,
         Creating, Destroying, Quiet, Empty
<1>3. IssuedInv
  BY DEF Init, IssuedInv, INVALID_BTHREAD_ID, Creating
<1> QED
  BY <1>1, <1>2, <1>3 DEF IInv

\* A step that changes neither the slot nor its owner keeps the invariants
\* about them: every thread that moves stays in its role.
LEMMA Frame ==
  ASSUME TypeOK, OneOwner, PhaseInv, IssuedInv, PendingInv,
         UNCHANGED <<metaVars, issued>>,
         \A u \in Threads :
           \/ pc'[u] = pc[u] /\ ver'[u] = ver[u] /\ range'[u] = range[u]
           \/ pc[u] \notin Owning /\ pc'[u] \notin Owning /\ ver'[u] \in issued
           \/ pc[u] \in Holding /\ pc'[u] \in Holding /\ ver'[u] = ver[u]
           \/ pc[u] \in Destroying /\ pc'[u] \in Destroying /\ ver'[u] = ver[u]
  PROVE  OneOwner' /\ PhaseInv' /\ IssuedInv' /\ PendingInv'
<1>1. \A u \in Threads :
        /\ pc'[u] \in Holding <=> pc[u] \in Holding
        /\ pc'[u] \in Destroying <=> pc[u] \in Destroying
        /\ pc'[u] \in Creating <=> pc[u] \in Creating
        /\ pc'[u] \in Owning <=> pc[u] \in Owning
        /\ pc[u] \in Owning => ver'[u] = ver[u]
        /\ pc[u] \in Creating => pc'[u] = pc[u] /\ range'[u] = range[u]
        /\ pc[u] \notin Creating => ver'[u] \in issued
  BY DEF Owning, Holding, Creating, Destroying, IssuedInv
<1>2. Quiet' <=> Quiet
  BY <1>1 DEF Quiet, Owning, Holding, Creating, Destroying
<1>3. /\ Empty' <=> Empty
      /\ Room' <=> Room
      /\ Live' <=> Live
      /\ \A v : has_version(v)' <=> has_version(v)
  BY DEF metaVars, Empty, Room, Live, has_version
<1>4. OneOwner'
  BY <1>1 DEF OneOwner, Owning, Holding, Creating, Destroying
<1>5. PhaseInv'
  <2>1. \A u \in Threads : pc'[u] \in Creating \/ pc[u] \in Creating =>
          pc'[u] = pc[u] /\ range'[u] = range[u]
    BY <1>1
  <2> QED
    BY <1>1, <1>2, <1>3, <2>1 DEF PhaseInv, metaVars, Owning, Holding,
       Creating, Destroying, has_version
<1>6. IssuedInv'
  BY <1>1, <1>3 DEF IssuedInv, metaVars, Owning, Creating
<1>7. PendingInv'
  BY <1>1, <1>2, <1>3 DEF PendingInv, metaVars, Owning
<1> QED
  BY <1>4, <1>5, <1>6, <1>7

\* The types of what an action does to its thread.
LEMMA LocalsType ==
  ASSUME TypeOK, NEW t \in Threads, NEW v \in Versions,
         NEW r \in 0 .. IdMaxRange, NEW e \in Versions, NEW c \in BOOLEAN,
         SetLocals(t, v, r, e, c)
  PROVE  /\ ver' \in [Threads -> Versions]
         /\ range' \in [Threads -> 0 .. IdMaxRange]
         /\ expected' \in [Threads -> Versions]
         /\ ever_contended' \in [Threads -> BOOLEAN]
<1>1. ever_contended' \in [Threads -> BOOLEAN]
  BY DEF TypeOK, SetLocals
<1> QED
  BY <1>1 DEF TypeOK, SetLocals

\* Moving a thread to another label of its call keeps the type of pc.
LEMMA GotoType ==
  ASSUME TypeOK, NEW t \in Threads, NEW label \in Labels, Goto(t, label)
  PROVE  pc' \in [Threads -> Labels]
BY DEF TypeOK, Goto

\* Starting a call sets pc and the arguments of the thread within their types.
LEMMA BeginType ==
  ASSUME TypeOK, NEW t \in Threads, NEW label \in Labels, NEW v \in Versions,
         NEW r \in 0 .. IdMaxRange, Begin(t, label, v, r)
  PROVE  /\ pc' \in [Threads -> Labels]
         /\ ver' \in [Threads -> Versions]
         /\ range' \in [Threads -> 0 .. IdMaxRange]
         /\ expected' \in [Threads -> Versions]
         /\ ever_contended' \in [Threads -> BOOLEAN]
<1>1. 0 \in Versions
  BY SMTT(30), BthreadIdAssumption DEF Versions
<1> QED
  BY <1>1, LocalsType, GotoType DEF Begin

\* Returning from a call clears pc and the arguments of the thread within their types.
LEMMA ReturnType ==
  ASSUME TypeOK, NEW t \in Threads, Return(t)
  PROVE  /\ pc' \in [Threads -> Labels]
         /\ ver' \in [Threads -> Versions]
         /\ range' \in [Threads -> 0 .. IdMaxRange]
         /\ expected' \in [Threads -> Versions]
         /\ ever_contended' \in [Threads -> BOOLEAN]
<1>1. 0 \in Versions /\ 0 \in 0 .. IdMaxRange /\ "idle" \in Labels
  BY SMTT(30), BthreadIdAssumption DEF Versions, Labels
<1> QED
  BY <1>1, BeginType DEF Return

\* Every action keeps the types, as long as versions do not run out.
LEMMA NextTypeOK ==
  ASSUME IInv, NEW t \in Threads,
         Call(t) \/ Release(t) \/ Continue(t), ~WrapEnabled
  PROVE  TypeOK'
<1> USE DEF IInv
<1> DEFINE ArgsOK == /\ pc' \in [Threads -> Labels]
                     /\ ver' \in [Threads -> Versions]
                     /\ range' \in [Threads -> 0 .. IdMaxRange]
                     /\ expected' \in [Threads -> Versions]
                     /\ ever_contended' \in [Threads -> BOOLEAN]
<1>a. /\ {"idle", "unlock_wake", "holding", "doom_wake", "doomed", "created",
          "create_locked", "destroy_wake", "destroy_join_wake", "lock",
          "lock_wait", "lock_sleep", "join", "join_wait", "join_sleep"}
           \subseteq Labels
      /\ VerMod \in Nat /\ IdMaxRange \in Nat /\ VerMod > 1
      /\ Versions \subseteq Nat
      /\ 0 \in Versions /\ 1 \in Versions /\ 0 \in 0 .. IdMaxRange
  BY SMTT(30), BthreadIdAssumption DEF Labels, Holding, Creating, Destroying, Locking,
     Joining, Versions
<1>b. ver[t] \in Versions /\ range[t] \in 0 .. IdMaxRange
  BY DEF TypeOK
<1>c. /\ unlockable_ver \in Versions /\ contended_ver \in Versions
      /\ end_ver \in Versions
  BY <1>a, PlusType DEF TypeOK, unlockable_ver, contended_ver, end_ver
<1> USE DEF metaVars, waitVars, argVars
<1>1. CASE Call(t)
  <2>1. CASE id_create_first(t)
    <3>1. ArgsOK
      BY SMTT(30), <2>1, <1>a, BeginType DEF id_create_first, TypeOK
    <3> QED
      BY <2>1, <3>1, <1>a DEF TypeOK, id_create_first
  <2>2. CASE publish(t)
    <3>1. ArgsOK
      BY <2>2, ReturnType DEF publish
    <3>2. issued' \subseteq Versions
      <4>1. ver[t] + range[t] <= VerMod - 1 /\ ver[t] \in Nat /\ range[t] \in Nat
        BY SMTT(30), <2>2, <1>a, <1>b DEF TypeOK, publish, PhaseInv, Live, Room
      <4> SUFFICES ASSUME NEW v \in issued' PROVE v \in Versions
        OBVIOUS
      <4>2. v \in issued \/ v \in ver[t] .. ver[t] + range[t] - 1
        BY <2>2 DEF publish
      <4>3. CASE v \in issued
        BY <4>3 DEF TypeOK
      <4>4. CASE v \in ver[t] .. ver[t] + range[t] - 1
        BY SMTT(30), <1>a, <4>1, <4>4 DEF Versions
      <4> QED
        BY <4>2, <4>3, <4>4
    <3> QED
      BY <2>2, <3>1, <3>2 DEF TypeOK, publish
  <2>3. CASE bthread_id_cancel(t)
    <3>1. ArgsOK
      BY <2>3, ReturnType DEF bthread_id_cancel
    <3> QED
      BY <2>3, <3>1, <1>c DEF TypeOK, bthread_id_cancel
  <2>4. CASE lock_call(t)
    <3>1. ArgsOK
      BY <2>4, <1>a, BeginType DEF lock_call, TypeOK
    <3> QED
      BY <2>4, <3>1 DEF TypeOK, lock_call
  <2>5. CASE bthread_id_trylock(t)
    <3>1. ArgsOK
      BY <2>5, <1>a, BeginType DEF bthread_id_trylock, LockUncontended, TypeOK
    <3> QED
      BY <2>5, <3>1 DEF TypeOK, bthread_id_trylock, LockUncontended
  <2>6. CASE error2_run_on_error(t)
    <3>1. ArgsOK
      BY <2>6, <1>a, BeginType DEF error2_run_on_error, LockUncontended, TypeOK
    <3> QED
      BY SMTT(30), <2>6, <3>1, BthreadIdAssumption DEF TypeOK, error2_run_on_error, LockUncontended
  <2>7. CASE error2_pend(t)
    BY SMTT(30), <2>7, BthreadIdAssumption DEF TypeOK, error2_pend
  <2>8. CASE bthread_id_about_to_destroy(t)
    <3>1. pc' \in [Threads -> Labels]
      BY <2>8, <1>a, GotoType DEF bthread_id_about_to_destroy
    <3> QED
      BY <2>8, <1>c, <3>1 DEF TypeOK, bthread_id_about_to_destroy
  <2>9. CASE join_call(t)
    <3>1. ArgsOK
      BY <2>9, <1>a, BeginType DEF join_call, TypeOK
    <3> QED
      BY <2>9, <3>1 DEF TypeOK, join_call
  <2>10. CASE lock_interrupted(t)
    <3>1. pc' \in [Threads -> Labels]
      BY <2>10, <1>a, GotoType DEF lock_interrupted
    <3>2. lock_waiters' \in Seq(Threads)
      BY SMTT(30), <2>10, RemoveAtProperties DEF TypeOK, lock_interrupted
    <3> QED
      BY <2>10, <3>1, <3>2 DEF TypeOK, lock_interrupted
  <2>11. CASE join_interrupted(t)
    <3>1. pc' \in [Threads -> Labels]
      BY <2>11, <1>a, GotoType DEF join_interrupted
    <3>2. join_waiters' \in Seq(Threads)
      BY SMTT(30), <2>11, RemoveAtProperties DEF TypeOK, join_interrupted
    <3> QED
      BY <2>11, <3>1, <3>2 DEF TypeOK, join_interrupted
  <2> QED
    BY <1>1, <2>1, <2>2, <2>3, <2>4, <2>5, <2>6, <2>7, <2>8, <2>9, <2>10, <2>11
    DEF Call
<1>2. CASE Release(t)
  <2>1. CASE unlock_run_on_error(t)
    <3>1. Head(pending_q) \in Versions /\ Tail(pending_q) \in Seq(Versions)
      BY <2>1, HeadTailProperties DEF TypeOK, unlock_run_on_error
    <3>2. ArgsOK
      BY <2>1, <1>a, <3>1, BeginType DEF unlock_run_on_error
    <3> QED
      BY <2>1, <3>1, <3>2 DEF TypeOK, unlock_run_on_error
  <2>2. CASE bthread_id_unlock(t)
    <3>1. ArgsOK
      BY <2>2, <1>a, BeginType DEF bthread_id_unlock
    <3> QED
      BY <2>2, <3>1 DEF TypeOK, bthread_id_unlock
  <2>3. CASE bthread_id_unlock_and_destroy(t)
    <3>1. ArgsOK
      BY <2>3, <1>a, BeginType DEF bthread_id_unlock_and_destroy
    <3> QED
      BY <2>3, <3>1, <1>c, EmptySeq DEF TypeOK, bthread_id_unlock_and_destroy
  <2> QED
    BY <1>2, <2>1, <2>2, <2>3
    DEF Release
<1>3. CASE Continue(t)
  <2>1. CASE id_create_locked(t)
    <3>1. pc' \in [Threads -> Labels]
      BY <2>1, <1>a, GotoType DEF id_create_locked
    <3>2. locked_ver' \in Versions
      BY SMTT(30), <2>1, <1>a, <1>b, PlusType DEF TypeOK, id_create_locked
    <3> QED
      BY <2>1, <3>1, <3>2 DEF TypeOK, id_create_locked
  <2>2. CASE lock_acquire(t)
    <3>1. ArgsOK
      BY <2>2, <1>a, <1>b, BeginType DEF lock_acquire
    <3>2. locked_ver' \in Versions
      BY SMTT(30), <2>2, <1>a, <1>b, PlusType DEF TypeOK, lock_acquire
    <3>3. butex' \in Versions
      BY <2>2, <1>a, <3>2, PlusType DEF lock_acquire
    <3>4. issued' \subseteq Versions
      <4> SUFFICES ASSUME NEW v \in issued' PROVE v \in Versions
        OBVIOUS
      <4>1. v \in issued \/ v \in first_ver .. locked_ver' - 1
        BY <2>2 DEF lock_acquire
      <4>2. CASE v \in issued
        BY <4>2 DEF TypeOK
      <4>3. CASE v \in first_ver .. locked_ver' - 1
        BY <3>2, <4>3, RangeOfVersions DEF TypeOK
      <4> QED
        BY <4>1, <4>2, <4>3
    <3> QED
      BY <2>2, <3>1, <3>2, <3>3, <3>4 DEF TypeOK, lock_acquire
  <2>3. CASE lock_contend(t)
    <3>1. ArgsOK
      BY <2>3, <1>a, <1>b, <1>c, LocalsType, GotoType DEF lock_contend
    <3> QED
      BY <2>3, <1>c, <3>1 DEF TypeOK, lock_contend
  <2>4. CASE lock_fail(t)
    <3>1. ArgsOK
      BY <2>4, ReturnType DEF lock_fail
    <3> QED
      BY <2>4, <3>1 DEF TypeOK, lock_fail
  <2>5. CASE lock_butex_wait(t)
    <3>1. ArgsOK
      BY <2>5, <1>a, <1>b, LocalsType, GotoType DEF lock_butex_wait
    <3>2. lock_waiters' \in Seq(Threads)
      <4>1. Append(lock_waiters, t) \in Seq(Threads)
        BY AppendProperties DEF TypeOK
      <4> QED
        BY <2>5, <4>1 DEF TypeOK, lock_butex_wait
    <3> QED
      BY <2>5, <3>1, <3>2 DEF TypeOK, lock_butex_wait
  <2>6. CASE unlock_wake(t)
    <3>1. lock_waiters # <<>> =>
            Head(lock_waiters) \in Threads /\ Tail(lock_waiters) \in Seq(Threads)
      BY HeadTailProperties DEF TypeOK
    <3>2. pc' \in [Threads -> Labels]
      BY <2>6, <1>a, <3>1 DEF TypeOK, unlock_wake, Goto
    <3> QED
      BY <2>6, <3>1, <3>2 DEF TypeOK, unlock_wake
  <2>7. CASE about_to_destroy_wake(t)
    <3>1. pc' \in [Threads -> Labels]
      BY <2>7, <1>a DEF TypeOK, about_to_destroy_wake, WakeLockers
    <3> QED
      BY <2>7, <3>1, EmptySeq DEF TypeOK, about_to_destroy_wake, WakeLockers
  <2>8. CASE destroy_wake(t)
    <3>1. pc' \in [Threads -> Labels]
      BY <2>8, <1>a DEF TypeOK, destroy_wake, WakeLockers
    <3> QED
      BY <2>8, <3>1, EmptySeq DEF TypeOK, destroy_wake, WakeLockers
  <2>9. CASE destroy_join_wake(t)
    <3>1. pc' \in [Threads -> Labels]
      BY <2>9, <1>a DEF TypeOK, destroy_join_wake
    <3> QED
      BY <2>9, <3>1, EmptySeq DEF TypeOK, destroy_join_wake
  <2>10. CASE join_check(t)
    <3>1. ArgsOK
      BY <2>10, <1>a, <1>b, LocalsType, GotoType DEF join_check, TypeOK
    <3> QED
      BY <2>10, <3>1 DEF TypeOK, join_check
  <2>11. CASE join_return(t)
    <3>1. ArgsOK
      BY <2>11, ReturnType DEF join_return
    <3> QED
      BY <2>11, <3>1 DEF TypeOK, join_return
  <2>12. CASE join_butex_wait(t)
    <3>1. ArgsOK
      BY <2>12, <1>a, <1>b, LocalsType, GotoType DEF join_butex_wait
    <3>2. join_waiters' \in Seq(Threads)
      <4>1. Append(join_waiters, t) \in Seq(Threads)
        BY AppendProperties DEF TypeOK
      <4> QED
        BY <2>12, <4>1 DEF TypeOK, join_butex_wait
    <3> QED
      BY <2>12, <3>1, <3>2 DEF TypeOK, join_butex_wait
  <2> QED
    BY <1>3, <2>1, <2>2, <2>3, <2>4, <2>5, <2>6, <2>7, <2>8, <2>9, <2>10, <2>11, <2>12
    DEF Continue
<1> QED
  BY <1>1, <1>2, <1>3

\* The butex queues stay sound when no thread on them moves.
LEMMA QueueFrame ==
  ASSUME TypeOK, QueueInv, UNCHANGED waitVars, NEW t \in Threads,
         pc[t] \notin {"lock_sleep", "join_sleep"},
         \A u \in Threads : u # t => pc'[u] = pc[u]
  PROVE  QueueInv'
<1>1. /\ \A i \in 1 .. Len(lock_waiters) : lock_waiters[i] \in Threads
      /\ \A i \in 1 .. Len(join_waiters) : join_waiters[i] \in Threads
  BY ElementOfSeq DEF TypeOK
<1> QED
  BY <1>1 DEF QueueInv, waitVars

\* A thread that joins the end of a queue, or leaves it anywhere.
LEMMA AppendOnce ==
  ASSUME NEW q \in Seq(Threads), NEW t \in Threads,
         \A i \in 1 .. Len(q) : q[i] # t,
         \A i, j \in 1 .. Len(q) : q[i] = q[j] => i = j
  PROVE  /\ \A i \in 1 .. Len(Append(q, t)) :
              Append(q, t)[i] = t \/ \E k \in 1 .. Len(q) : Append(q, t)[i] = q[k]
         /\ \A i, j \in 1 .. Len(Append(q, t)) :
              Append(q, t)[i] = Append(q, t)[j] => i = j
<1>1. PICK r : r = Append(q, t)
  OBVIOUS
<1>2. /\ Len(q) \in Nat /\ Len(r) = Len(q) + 1
      /\ \A i \in 1 .. Len(q) : r[i] = q[i]
      /\ r[Len(q) + 1] = t
  BY SMTT(30), <1>1, AppendProperties, LenProperties
<1>3. \A i \in 1 .. Len(r) : i \in 1 .. Len(q) \/ i = Len(q) + 1
  BY SMTT(30), <1>2
<1>4. \A i \in 1 .. Len(r) : r[i] = t \/ \E k \in 1 .. Len(q) : r[i] = q[k]
  BY <1>2, <1>3
<1>5. ASSUME NEW i \in 1 .. Len(r), NEW j \in 1 .. Len(r), r[i] = r[j]
      PROVE  i = j
  BY <1>2, <1>3, <1>5
<1> QED
  BY <1>1, <1>4, <1>5

\* Taking one sleeper out of a queue without duplicates leaves the others, each once
\* (butex_wait that returns by itself).
LEMMA RemoveOnce ==
  ASSUME NEW q \in Seq(Threads), NEW n \in 1 .. Len(q),
         \A i, j \in 1 .. Len(q) : q[i] = q[j] => i = j
  PROVE  /\ \A i \in 1 .. Len(RemoveAt(q, n)) :
              /\ RemoveAt(q, n)[i] # q[n]
              /\ \E k \in 1 .. Len(q) : RemoveAt(q, n)[i] = q[k]
         /\ \A i, j \in 1 .. Len(RemoveAt(q, n)) :
              RemoveAt(q, n)[i] = RemoveAt(q, n)[j] => i = j
<1>1. PICK r : r = RemoveAt(q, n)
  OBVIOUS
<1>2. /\ Len(q) \in Nat /\ Len(r) = Len(q) - 1
      /\ \A j \in 1 .. Len(q) - 1 :
           r[j] = IF j < n THEN q[j] ELSE q[j + 1]
  BY <1>1, RemoveAtProperties, LenProperties
<1> DEFINE at(i) == IF i < n THEN i ELSE i + 1
<1>3. \A i \in 1 .. Len(r) :
        at(i) \in 1 .. Len(q) /\ at(i) # n /\ r[i] = q[at(i)]
  BY SMTT(30), <1>2
<1>4. \A i, j \in 1 .. Len(r) : at(i) = at(j) => i = j
  BY SMTT(30), <1>2
<1> HIDE DEF at
<1> QED
  BY SMTT(30), <1>1, <1>3, <1>4

\* Taking the first sleeper out of a queue without duplicates leaves the others, each once
\* (butex_wake).
LEMMA TailOnce ==
  ASSUME NEW q \in Seq(Threads), q # <<>>,
         \A i, j \in 1 .. Len(q) : q[i] = q[j] => i = j
  PROVE  /\ \A i \in 1 .. Len(Tail(q)) :
              /\ Tail(q)[i] # Head(q)
              /\ \E k \in 1 .. Len(q) : Tail(q)[i] = q[k]
         /\ \A i, j \in 1 .. Len(Tail(q)) : Tail(q)[i] = Tail(q)[j] => i = j
<1>1. PICK r : r = Tail(q)
  OBVIOUS
<1>2. /\ Len(q) \in Nat /\ Len(r) = Len(q) - 1 /\ Head(q) = q[1]
      /\ \A j \in 1 .. Len(r) : r[j] = q[j + 1]
  BY SMTT(30), <1>1, HeadTailProperties, LenProperties
<1>3. \A i \in 1 .. Len(r) : i + 1 \in 1 .. Len(q) /\ i + 1 # 1
  BY SMTT(30), <1>2
<1>4. 1 \in 1 .. Len(q)
  BY SMTT(30), <1>2, EmptySeq, LenProperties
<1>5. \A i, j \in 1 .. Len(r) : i + 1 = j + 1 => i = j
  BY SMTT(30), <1>2
<1> QED
  BY SMTT(30), <1>1, <1>2, <1>3, <1>4, <1>5

\* Every action keeps the butex queues sound.
LEMMA NextQueueInv ==
  ASSUME IInv, NEW t \in Threads, Call(t) \/ Release(t) \/ Continue(t)
  PROVE  QueueInv'
<1> USE DEF IInv, metaVars, waitVars, argVars
<1>a. /\ lock_waiters \in Seq(Threads) /\ join_waiters \in Seq(Threads)
      /\ \A i \in 1 .. Len(lock_waiters) : lock_waiters[i] \in Threads
      /\ \A i \in 1 .. Len(join_waiters) : join_waiters[i] \in Threads
      /\ DOMAIN lock_waiters = 1 .. Len(lock_waiters)
      /\ DOMAIN join_waiters = 1 .. Len(join_waiters)
  BY ElementOfSeq, LenProperties DEF TypeOK
<1>1. CASE Call(t)
  <2>1. CASE id_create_first(t)
    BY <2>1, QueueFrame DEF id_create_first, Goto, TypeOK, Begin
  <2>2. CASE publish(t)
    BY <2>2, QueueFrame DEF publish, Goto, TypeOK, Return, Begin
  <2>3. CASE bthread_id_cancel(t)
    BY <2>3, QueueFrame DEF bthread_id_cancel, Goto, TypeOK, Return, Begin
  <2>4. CASE lock_call(t)
    BY <2>4, QueueFrame DEF lock_call, Goto, TypeOK, Begin
  <2>5. CASE bthread_id_trylock(t)
    BY <2>5, QueueFrame DEF bthread_id_trylock, Goto, TypeOK, LockUncontended, Begin
  <2>6. CASE error2_run_on_error(t)
    BY <2>6, QueueFrame DEF error2_run_on_error, Goto, TypeOK, LockUncontended, Begin
  <2>7. CASE error2_pend(t)
    BY <2>7, QueueFrame DEF error2_pend, Goto, TypeOK
  <2>8. CASE bthread_id_about_to_destroy(t)
    BY <2>8, QueueFrame DEF bthread_id_about_to_destroy, Goto, TypeOK
  <2>9. CASE join_call(t)
    BY <2>9, QueueFrame DEF join_call, Goto, TypeOK, Begin
  <2>10. CASE lock_interrupted(t)
    <3>1. PICK n \in 1 .. Len(lock_waiters) :
            lock_waiters[n] = t /\ lock_waiters' = RemoveAt(lock_waiters, n)
      BY <2>10, <1>a DEF lock_interrupted
    <3>2. /\ \A i \in 1 .. Len(lock_waiters') :
               lock_waiters'[i] # t /\ \E k \in 1 .. Len(lock_waiters) : lock_waiters'[i] = lock_waiters[k]
          /\ \A i, j \in 1 .. Len(lock_waiters') : lock_waiters'[i] = lock_waiters'[j] => i = j
      <4>1. \A i, j \in 1 .. Len(lock_waiters) : lock_waiters[i] = lock_waiters[j] => i = j
        BY DEF QueueInv
      <4>2. /\ \A i \in 1 .. Len(RemoveAt(lock_waiters, n)) :
                 /\ RemoveAt(lock_waiters, n)[i] # lock_waiters[n]
                 /\ \E k \in 1 .. Len(lock_waiters) :
                      RemoveAt(lock_waiters, n)[i] = lock_waiters[k]
            /\ \A i, j \in 1 .. Len(RemoveAt(lock_waiters, n)) :
                 RemoveAt(lock_waiters, n)[i] = RemoveAt(lock_waiters, n)[j] => i = j
        BY <1>a, <4>1, RemoveOnce
      <4> QED
        BY <3>1, <4>2
    <3>3. \A u \in Threads : u # t => pc'[u] = pc[u]
      BY <2>10 DEF lock_interrupted, Goto, TypeOK
    <3>4. \A i \in 1 .. Len(lock_waiters') : pc'[lock_waiters'[i]] = "lock_sleep"
      BY SMTT(30), <1>a, <3>2, <3>3 DEF QueueInv
    <3>5. \A i \in 1 .. Len(join_waiters) : join_waiters[i] # t
      BY <2>10 DEF QueueInv, lock_interrupted
    <3> QED
      BY SMTT(30), <2>10, <1>a, <3>2, <3>3, <3>4, <3>5 DEF QueueInv, lock_interrupted
  <2>11. CASE join_interrupted(t)
    <3>1. PICK n \in 1 .. Len(join_waiters) :
            join_waiters[n] = t /\ join_waiters' = RemoveAt(join_waiters, n)
      BY <2>11, <1>a DEF join_interrupted
    <3>2. /\ \A i \in 1 .. Len(join_waiters') :
               join_waiters'[i] # t /\ \E k \in 1 .. Len(join_waiters) : join_waiters'[i] = join_waiters[k]
          /\ \A i, j \in 1 .. Len(join_waiters') : join_waiters'[i] = join_waiters'[j] => i = j
      <4>1. \A i, j \in 1 .. Len(join_waiters) : join_waiters[i] = join_waiters[j] => i = j
        BY DEF QueueInv
      <4>2. /\ \A i \in 1 .. Len(RemoveAt(join_waiters, n)) :
                 /\ RemoveAt(join_waiters, n)[i] # join_waiters[n]
                 /\ \E k \in 1 .. Len(join_waiters) :
                      RemoveAt(join_waiters, n)[i] = join_waiters[k]
            /\ \A i, j \in 1 .. Len(RemoveAt(join_waiters, n)) :
                 RemoveAt(join_waiters, n)[i] = RemoveAt(join_waiters, n)[j] => i = j
        BY <1>a, <4>1, RemoveOnce
      <4> QED
        BY <3>1, <4>2
    <3>3. \A u \in Threads : u # t => pc'[u] = pc[u]
      BY <2>11 DEF join_interrupted, Goto, TypeOK
    <3>4. \A i \in 1 .. Len(join_waiters') : pc'[join_waiters'[i]] = "join_sleep"
      BY SMTT(30), <1>a, <3>2, <3>3 DEF QueueInv
    <3>5. \A i \in 1 .. Len(lock_waiters) : lock_waiters[i] # t
      BY <2>11 DEF QueueInv, join_interrupted
    <3> QED
      BY SMTT(30), <2>11, <1>a, <3>2, <3>3, <3>4, <3>5 DEF QueueInv, join_interrupted
  <2> QED
    BY <1>1, <2>1, <2>2, <2>3, <2>4, <2>5, <2>6, <2>7, <2>8, <2>9, <2>10, <2>11
    DEF Call
<1>2. CASE Release(t)
  <2>1. CASE unlock_run_on_error(t)
    BY <2>1, QueueFrame DEF unlock_run_on_error, Goto, TypeOK, MayUnlock, Begin
  <2>2. CASE bthread_id_unlock(t)
    BY <2>2, QueueFrame DEF bthread_id_unlock, Goto, TypeOK, MayUnlock, Begin
  <2>3. CASE bthread_id_unlock_and_destroy(t)
    BY <2>3, QueueFrame DEF bthread_id_unlock_and_destroy, Goto, TypeOK, Begin
  <2> QED
    BY <1>2, <2>1, <2>2, <2>3
    DEF Release
<1>3. CASE Continue(t)
  <2>1. CASE id_create_locked(t)
    BY <2>1, QueueFrame DEF id_create_locked, Goto, TypeOK
  <2>2. CASE lock_acquire(t)
    BY <2>2, QueueFrame DEF lock_acquire, Goto, TypeOK, Begin
  <2>3. CASE lock_contend(t)
    BY <2>3, QueueFrame DEF lock_contend, Goto, TypeOK
  <2>4. CASE lock_fail(t)
    BY <2>4, QueueFrame DEF lock_fail, Goto, TypeOK, Return, Begin
  <2>5. CASE lock_butex_wait(t)
    <3>1. CASE UNCHANGED lock_waiters
      BY <2>5, <3>1, QueueFrame DEF lock_butex_wait, Goto, TypeOK
    <3>2. CASE lock_waiters' = Append(lock_waiters, t) /\ pc' = [pc EXCEPT ![t] = "lock_sleep"]
      <4>1. /\ \A i \in 1 .. Len(lock_waiters) : lock_waiters[i] # t
            /\ \A i \in 1 .. Len(join_waiters) : join_waiters[i] # t
        BY <2>5 DEF QueueInv, lock_butex_wait
      <4>2. /\ \A i \in 1 .. Len(lock_waiters') : pc'[lock_waiters'[i]] = "lock_sleep"
            /\ \A i, j \in 1 .. Len(lock_waiters') :
                 lock_waiters'[i] = lock_waiters'[j] => i = j
        <5>1. \A i, j \in 1 .. Len(lock_waiters) : lock_waiters[i] = lock_waiters[j] => i = j
          BY DEF QueueInv
        <5>2. /\ \A i \in 1 .. Len(lock_waiters') :
                   \/ lock_waiters'[i] = t
                   \/ \E k \in 1 .. Len(lock_waiters) : lock_waiters'[i] = lock_waiters[k]
              /\ \A i, j \in 1 .. Len(lock_waiters') :
                   lock_waiters'[i] = lock_waiters'[j] => i = j
          BY SMTT(30), <1>a, <3>2, <4>1, <5>1, AppendOnce
        <5>3. pc'[t] = "lock_sleep" /\ \A u \in Threads : u # t => pc'[u] = pc[u]
          BY <3>2 DEF TypeOK
        <5>4. \A k \in 1 .. Len(lock_waiters) : pc'[lock_waiters[k]] = "lock_sleep"
          BY <1>a, <4>1, <5>3 DEF QueueInv
        <5> QED
          BY SMTT(30), <5>2, <5>3, <5>4
      <4> QED
        <5>1. join_waiters' = join_waiters /\ \A u \in Threads : u # t => pc'[u] = pc[u]
          BY <2>5, <3>2 DEF lock_butex_wait, TypeOK
        <5>2. \A i \in 1 .. Len(join_waiters') : pc'[join_waiters'[i]] = "join_sleep"
          BY <1>a, <4>1, <5>1 DEF QueueInv
        <5>3. \A i, j \in 1 .. Len(join_waiters') : join_waiters'[i] = join_waiters'[j] => i = j
          BY <5>1 DEF QueueInv
        <5> QED
          BY <4>2, <5>2, <5>3 DEF QueueInv
    <3> QED
      BY <2>5, <3>1, <3>2 DEF lock_butex_wait, Goto
  <2>6. CASE unlock_wake(t)
    <3>1. CASE lock_waiters = <<>>
      BY <2>6, <3>1, QueueFrame DEF unlock_wake, Goto, TypeOK
    <3>2. CASE lock_waiters # <<>>
      <4>1. lock_waiters' = Tail(lock_waiters) /\ Head(lock_waiters) = lock_waiters[1]
            /\ 1 \in 1 .. Len(lock_waiters)
        BY SMTT(30), <2>6, <1>a, <3>2, HeadTailProperties, EmptySeq, LenProperties
        DEF unlock_wake
      <4>2. /\ \A i \in 1 .. Len(lock_waiters') :
                 /\ lock_waiters'[i] # Head(lock_waiters)
                 /\ \E k \in 1 .. Len(lock_waiters) : lock_waiters'[i] = lock_waiters[k]
            /\ \A i, j \in 1 .. Len(lock_waiters') : lock_waiters'[i] = lock_waiters'[j] => i = j
        BY SMTT(30), <1>a, <3>2, <4>1, TailOnce DEF QueueInv
      <4>3. \A u \in Threads : u \notin {t, Head(lock_waiters)} => pc'[u] = pc[u]
        BY <2>6, <3>2 DEF unlock_wake, TypeOK
      <4>4. pc[t] = "unlock_wake" /\ pc[Head(lock_waiters)] = "lock_sleep"
        BY <2>6, <4>1 DEF unlock_wake, QueueInv
      <4>5. \A i \in 1 .. Len(lock_waiters') : pc'[lock_waiters'[i]] = "lock_sleep"
        BY SMTT(30), <1>a, <4>2, <4>3, <4>4 DEF QueueInv
      <4>6. \A i \in 1 .. Len(join_waiters) : pc'[join_waiters[i]] = "join_sleep"
        BY <1>a, <4>3, <4>4 DEF QueueInv
      <4> QED
        BY <2>6, <4>2, <4>5, <4>6 DEF QueueInv, unlock_wake
    <3> QED
      BY <3>1, <3>2
  <2>7. CASE about_to_destroy_wake(t)
    <3>1. \A u \in ToSet(lock_waiters) : pc[u] = "lock_sleep"
      BY SMTT(30), <1>a DEF QueueInv, ToSet
    <3>2. \A i \in 1 .. Len(join_waiters) : pc'[join_waiters[i]] = "join_sleep"
      BY <2>7, <1>a, <3>1 DEF QueueInv, about_to_destroy_wake, WakeLockers
    <3>3. lock_waiters' = <<>> /\ UNCHANGED join_waiters
      BY <2>7 DEF about_to_destroy_wake, WakeLockers
    <3> QED
      BY SMTT(30), <3>2, <3>3 DEF QueueInv
  <2>8. CASE destroy_wake(t)
    <3>1. \A u \in ToSet(lock_waiters) : pc[u] = "lock_sleep"
      BY SMTT(30), <1>a DEF QueueInv, ToSet
    <3>2. \A i \in 1 .. Len(join_waiters) : pc'[join_waiters[i]] = "join_sleep"
      BY <2>8, <1>a, <3>1 DEF QueueInv, destroy_wake, WakeLockers
    <3>3. lock_waiters' = <<>> /\ UNCHANGED join_waiters
      BY <2>8 DEF destroy_wake, WakeLockers
    <3> QED
      BY SMTT(30), <3>2, <3>3 DEF QueueInv
  <2>9. CASE destroy_join_wake(t)
    <3>1. \A u \in ToSet(join_waiters) : pc[u] = "join_sleep"
      BY SMTT(30), <1>a DEF QueueInv, ToSet
    <3>2. \A i \in 1 .. Len(lock_waiters) : pc'[lock_waiters[i]] = "lock_sleep"
      BY <2>9, <1>a, <3>1 DEF QueueInv, destroy_join_wake
    <3>3. join_waiters' = <<>> /\ UNCHANGED lock_waiters
      BY <2>9 DEF destroy_join_wake
    <3> QED
      BY SMTT(30), <3>2, <3>3 DEF QueueInv
  <2>10. CASE join_check(t)
    BY <2>10, QueueFrame DEF join_check, Goto, TypeOK
  <2>11. CASE join_return(t)
    BY <2>11, QueueFrame DEF join_return, Goto, TypeOK, Return, Begin
  <2>12. CASE join_butex_wait(t)
    <3>1. CASE UNCHANGED join_waiters
      BY <2>12, <3>1, QueueFrame DEF join_butex_wait, Goto, TypeOK
    <3>2. CASE join_waiters' = Append(join_waiters, t) /\ pc' = [pc EXCEPT ![t] = "join_sleep"]
      <4>1. /\ \A i \in 1 .. Len(join_waiters) : join_waiters[i] # t
            /\ \A i \in 1 .. Len(lock_waiters) : lock_waiters[i] # t
        BY <2>12 DEF QueueInv, join_butex_wait
      <4>2. /\ \A i \in 1 .. Len(join_waiters') : pc'[join_waiters'[i]] = "join_sleep"
            /\ \A i, j \in 1 .. Len(join_waiters') :
                 join_waiters'[i] = join_waiters'[j] => i = j
        <5>1. \A i, j \in 1 .. Len(join_waiters) : join_waiters[i] = join_waiters[j] => i = j
          BY DEF QueueInv
        <5>2. /\ \A i \in 1 .. Len(join_waiters') :
                   \/ join_waiters'[i] = t
                   \/ \E k \in 1 .. Len(join_waiters) : join_waiters'[i] = join_waiters[k]
              /\ \A i, j \in 1 .. Len(join_waiters') :
                   join_waiters'[i] = join_waiters'[j] => i = j
          BY SMTT(30), <1>a, <3>2, <4>1, <5>1, AppendOnce
        <5>3. pc'[t] = "join_sleep" /\ \A u \in Threads : u # t => pc'[u] = pc[u]
          BY <3>2 DEF TypeOK
        <5>4. \A k \in 1 .. Len(join_waiters) : pc'[join_waiters[k]] = "join_sleep"
          BY <1>a, <4>1, <5>3 DEF QueueInv
        <5> QED
          BY SMTT(30), <5>2, <5>3, <5>4
      <4> QED
        <5>1. lock_waiters' = lock_waiters /\ \A u \in Threads : u # t => pc'[u] = pc[u]
          BY <2>12, <3>2 DEF join_butex_wait, TypeOK
        <5>2. \A i \in 1 .. Len(lock_waiters') : pc'[lock_waiters'[i]] = "lock_sleep"
          BY <1>a, <4>1, <5>1 DEF QueueInv
        <5>3. \A i, j \in 1 .. Len(lock_waiters') : lock_waiters'[i] = lock_waiters'[j] => i = j
          BY <5>1 DEF QueueInv
        <5> QED
          BY <4>2, <5>2, <5>3 DEF QueueInv
    <3> QED
      BY <2>12, <3>1, <3>2 DEF join_butex_wait, Goto
  <2> QED
    BY <1>3, <2>1, <2>2, <2>3, <2>4, <2>5, <2>6, <2>7, <2>8, <2>9, <2>10, <2>11, <2>12
    DEF Continue
<1> QED
  BY <1>1, <1>2, <1>3

-----------------------------------------------------------------------------
(* The owner of the slot *)

\* An existing identifier whose butex is at first_ver: the slot is live and
\* nobody owns it.
LEMMA UnlockedSlot ==
  ASSUME IInv, NEW v \in issued, has_version(v), butex = first_ver
  PROVE  Quiet /\ ~pooled /\ Live /\ pending_q = <<>>
<1>1. v \in Nat /\ first_ver \in Nat /\ locked_ver \in Nat
  BY SMTT(30), BthreadIdAssumption DEF IInv, TypeOK, Versions
<1>2. ASSUME NEW u \in Threads PROVE pc[u] \notin Owning
  <2>1. pc[u] \notin Creating
    BY SMTT(30), <1>1 DEF IInv, IssuedInv, has_version
  <2>2. pc[u] \notin Holding
    BY SMTT(30), <1>1 DEF IInv, PhaseInv, Live
  <2>3. pc[u] \notin Destroying
    BY SMTT(30), <1>1 DEF IInv, PhaseInv, Empty, has_version
  <2> QED
    BY <2>1, <2>2, <2>3 DEF Owning
<1>3. Quiet
  BY <1>2 DEF Quiet
<1> QED
  BY SMTT(30), <1>1, <1>3 DEF IInv, PhaseInv, PendingInv, Empty, has_version

\* An existing identifier whose butex is elsewhere: some thread holds it.
LEMMA LockedSlot ==
  ASSUME IInv, NEW v \in issued, has_version(v), butex # first_ver
  PROVE  \E u \in Threads : pc[u] \in Holding
<1>1. v \in Nat /\ first_ver \in Nat /\ locked_ver \in Nat
  BY SMTT(30), BthreadIdAssumption DEF IInv, TypeOK, Versions
<1>2. ~Quiet
  BY <1>1 DEF IInv, PhaseInv, Empty
<1>3. PICK u \in Threads : pc[u] \in Owning
  BY <1>2 DEF Quiet
<1>4. pc[u] \notin Creating
  BY SMTT(30), <1>1 DEF IInv, IssuedInv, has_version
<1>5. pc[u] \notin Destroying
  BY <1>1 DEF IInv, PhaseInv, Empty
<1> QED
  BY <1>3, <1>4, <1>5 DEF Owning

\* The threads on the butex queues are asleep.
LEMMA Sleepers ==
  ASSUME TypeOK, QueueInv
  PROVE  /\ DOMAIN lock_waiters = 1 .. Len(lock_waiters)
         /\ DOMAIN join_waiters = 1 .. Len(join_waiters)
         /\ \A i \in 1 .. Len(lock_waiters) :
              lock_waiters[i] \in Threads /\ pc[lock_waiters[i]] = "lock_sleep"
         /\ \A i \in 1 .. Len(join_waiters) :
              /\ join_waiters[i] \in Threads
              /\ pc[join_waiters[i]] = "join_sleep"
         /\ \A u \in ToSet(lock_waiters) : u \in Threads /\ pc[u] = "lock_sleep"
         /\ \A u \in ToSet(join_waiters) :
              u \in Threads /\ pc[u] = "join_sleep"
         /\ lock_waiters # <<>> => Head(lock_waiters) \in ToSet(lock_waiters)
<1>1. lock_waiters # <<>> => Head(lock_waiters) = lock_waiters[1] /\ 1 \in DOMAIN lock_waiters
  BY SMTT(30), HeadTailProperties, LenProperties, EmptySeq DEF TypeOK
<1>2. /\ DOMAIN lock_waiters = 1 .. Len(lock_waiters)
      /\ \A i \in 1 .. Len(lock_waiters) : lock_waiters[i] \in Threads
      /\ DOMAIN join_waiters = 1 .. Len(join_waiters)
      /\ \A i \in 1 .. Len(join_waiters) : join_waiters[i] \in Threads
  BY LenProperties, ElementOfSeq DEF TypeOK
<1> QED
  BY SMTT(30), <1>1, <1>2 DEF QueueInv, ToSet

\* Every action keeps the invariants about the slot and its owner.
LEMMA NextOwnerInv ==
  ASSUME IInv, TypeOK', NEW t \in Threads,
         Call(t) \/ Release(t) \/ Continue(t), ~WrapEnabled
  PROVE  OneOwner' /\ PhaseInv' /\ IssuedInv' /\ PendingInv'
<1> USE DEF IInv
<1>a. /\ VerMod \in Nat /\ IdMaxRange \in Nat \ {0} /\ Versions \subseteq Nat
      /\ first_ver \in Nat /\ locked_ver \in Nat /\ butex \in Nat
      /\ \A u \in Threads : ver[u] \in Nat /\ range[u] \in Nat
  BY SMTT(30), BthreadIdAssumption DEF Versions, TypeOK
<1>b. /\ \A u \in ToSet(lock_waiters) : u \in Threads /\ pc[u] = "lock_sleep"
      /\ \A u \in ToSet(join_waiters) : u \in Threads /\ pc[u] = "join_sleep"
      /\ lock_waiters # <<>> => Head(lock_waiters) \in ToSet(lock_waiters)
  BY Sleepers
<1> USE DEF metaVars, waitVars, argVars, Owning, Holding, Creating, Destroying
<1>1. CASE Call(t)
  <2>1. CASE id_create_first(t)
    <3>1. Quiet /\ pooled /\ Empty
      BY <2>1 DEF id_create_first, PhaseInv, Quiet
    <3>2. \A u \in Threads : u # t => pc'[u] \notin Owning /\ ver'[u] = ver[u]
      BY <2>1, <3>1 DEF id_create_first, Quiet, Begin, Goto, SetLocals, TypeOK
    <3>3. /\ pc'[t] = "create_locked" /\ ver'[t] = first_ver'
          /\ 1 <= range'[t] /\ butex' = first_ver'
      BY SMTT(30), <2>1 DEF id_create_first, Begin, Goto, SetLocals, TypeOK
    <3>4. /\ 1 <= first_ver' /\ first_ver <= first_ver'
          /\ first_ver' + IdMaxRange + 3 < VerMod
          /\ first_ver = 0 => first_ver' = 1
      <4>1. butex + (IdMaxRange + 2) < VerMod
        BY SMTT(30), <2>1, <1>a DEF id_create_first, VersionsLeft
      <4>2. Plus(butex, IdMaxRange + 2) = butex + (IdMaxRange + 2)
        BY SMTT(30), <1>a, <4>1, PlusNoWrap
      <4> QED
        BY SMTT(30), <2>1, <1>a, <3>1, <4>2, BthreadIdAssumption
        DEF id_create_first, VersionsLeft, Empty
    <3>5. \A v \in issued : v < first_ver'
      <4> SUFFICES ASSUME NEW v \in issued PROVE v < first_ver'
        OBVIOUS
      <4>1. v \in Nat /\ first_ver' \in Nat
        BY <1>a DEF TypeOK
      <4> QED
        BY SMTT(30), <1>a, <3>1, <3>4, <4>1 DEF IssuedInv, Empty, has_version
    <3>6. OneOwner'
      BY <3>2, <3>3 DEF OneOwner
    <3>7. PhaseInv'
      BY <2>1, <1>a, <3>1, <3>2, <3>3, <3>4
      DEF PhaseInv, id_create_first, Quiet, Room, Empty
    <3>8. IssuedInv'
      BY <2>1, <3>1, <3>2, <3>3, <3>5 DEF IssuedInv, Quiet, id_create_first
    <3>9. PendingInv'
      BY SMTT(30), <2>1, <3>1, <3>2, <3>3 DEF PendingInv, id_create_first, Quiet
    <3> QED
      BY <3>6, <3>7, <3>8, <3>9
  <2>2. CASE publish(t)
    <3>1. \A u \in Threads :
            /\ pc'[u] \notin Owning
            /\ u # t => pc[u] \notin Owning /\ ver'[u] = ver[u]
      BY <2>2 DEF publish, OneOwner, Return, Begin, Goto, SetLocals, TypeOK
    <3>2. /\ Live /\ butex = first_ver /\ ver[t] = first_ver
          /\ locked_ver = first_ver + range[t] /\ ~pooled /\ ver'[t] = 0
          /\ pending_q = <<>>
      BY <2>2 DEF publish, PhaseInv, PendingInv, Return, Begin, Goto, SetLocals, TypeOK
    <3>3. OneOwner' /\ PhaseInv' /\ PendingInv'
      BY SMTT(30), <2>2, <3>1, <3>2
      DEF OneOwner, PhaseInv, PendingInv, Quiet, Live, Room, publish
    <3>4. \A v \in issued' : v = 0 \/ v < first_ver \/ has_version(v)
      <4> SUFFICES ASSUME NEW v \in issued'
                   PROVE  v = 0 \/ v < first_ver \/ has_version(v)
        OBVIOUS
      <4>1. v \in issued \/ v \in ver[t] .. ver[t] + range[t] - 1
        BY <2>2 DEF publish
      <4> QED
        BY SMTT(30), <1>a, <3>2, <4>1 DEF IssuedInv, has_version
    <3>5. IssuedInv'
      BY <2>2, <3>1, <3>2, <3>4 DEF IssuedInv, publish, has_version
    <3> QED
      BY <3>3, <3>5
  <2>3. CASE bthread_id_cancel(t)
    <3>1. \A u \in Threads :
            /\ pc'[u] \notin Owning
            /\ u # t => pc[u] \notin Owning /\ ver'[u] = ver[u]
      BY <2>3 DEF bthread_id_cancel, OneOwner, Return, Begin, Goto, SetLocals, TypeOK
    <3>2. Live /\ ver'[t] = 0 /\ pending_q = <<>>
      BY <2>3 DEF bthread_id_cancel, PhaseInv, PendingInv, Return, Begin, Goto,
         SetLocals, TypeOK
    <3>3. OneOwner' /\ PhaseInv' /\ PendingInv'
      BY SMTT(30), <2>3, <3>1, <3>2
      DEF OneOwner, PhaseInv, PendingInv, Quiet, Empty, bthread_id_cancel
    <3>4. end_ver = locked_ver + 3
      BY <3>2, LiveVersions
    <3>5. \A v \in issued : v < end_ver
      <4> SUFFICES ASSUME NEW v \in issued PROVE v < end_ver
        OBVIOUS
      <4>1. v \in Nat
        BY <1>a DEF TypeOK
      <4> QED
        BY SMTT(30), <1>a, <3>2, <3>4, <4>1 DEF IssuedInv, has_version, Live
    <3>6. IssuedInv'
      BY <2>3, <3>1, <3>2, <3>5 DEF IssuedInv, bthread_id_cancel
    <3> QED
      BY <3>3, <3>6
  <2>4. CASE lock_call(t)
    BY SMTT(30), <2>4, Frame DEF lock_call, Goto, Begin, Return, SetLocals, TypeOK, IssuedInv
  <2>5. CASE bthread_id_trylock(t)
    <3>1. PICK v \in issued : has_version(v) /\ Begin(t, "holding", v, 0)
      BY <2>5 DEF bthread_id_trylock, LockUncontended
    <3>2. Quiet /\ ~pooled /\ Live /\ pending_q = <<>>
      BY <2>5, <3>1, UnlockedSlot DEF bthread_id_trylock, LockUncontended
    <3>3. /\ pc'[t] = "holding" /\ ver'[t] = v
          /\ \A u \in Threads :
               u # t => pc'[u] \notin Owning /\ ver'[u] = ver[u]
      BY <3>1, <3>2 DEF Quiet, Begin, Goto, SetLocals, TypeOK
    <3>4. OneOwner'
      BY <3>3 DEF OneOwner
    <3>5. PhaseInv'
      BY SMTT(30), <2>5, <1>a, <3>1, <3>2, <3>3
      DEF PhaseInv, Quiet, Live, Room, has_version, bthread_id_trylock, LockUncontended
    <3>6. IssuedInv' /\ PendingInv'
      BY <2>5, <3>2, <3>3 DEF IssuedInv, PendingInv, Quiet, has_version, bthread_id_trylock,
         LockUncontended
    <3> QED
      BY <3>4, <3>5, <3>6
  <2>6. CASE error2_run_on_error(t)
    <3>1. PICK v \in issued : has_version(v) /\ Begin(t, "holding", v, 0)
      BY <2>6 DEF error2_run_on_error, LockUncontended
    <3>2. Quiet /\ ~pooled /\ Live /\ pending_q = <<>>
      BY <2>6, <3>1, UnlockedSlot DEF error2_run_on_error, LockUncontended
    <3>3. /\ pc'[t] = "holding" /\ ver'[t] = v
          /\ \A u \in Threads :
               u # t => pc'[u] \notin Owning /\ ver'[u] = ver[u]
      BY <3>1, <3>2 DEF Quiet, Begin, Goto, SetLocals, TypeOK
    <3>4. OneOwner'
      BY <3>3 DEF OneOwner
    <3>5. PhaseInv'
      BY SMTT(30), <2>6, <1>a, <3>1, <3>2, <3>3
      DEF PhaseInv, Quiet, Live, Room, has_version, error2_run_on_error, LockUncontended
    <3>6. IssuedInv' /\ PendingInv'
      BY <2>6, <3>2, <3>3 DEF IssuedInv, PendingInv, Quiet, has_version, error2_run_on_error,
         LockUncontended
    <3> QED
      BY <3>4, <3>5, <3>6
  <2>7. CASE error2_pend(t)
    <3>1. PICK v \in issued : has_version(v) /\ pending_q' = Append(pending_q, v)
      BY <2>7 DEF error2_pend
    <3>2. PICK h \in Threads : pc[h] \in Holding
      BY <2>7, <3>1, LockedSlot DEF error2_pend
    <3>3. \A u \in Threads : pc[u] \in Owning => u = h
      BY <3>2 DEF OneOwner
    <3>4. OneOwner' /\ PhaseInv' /\ IssuedInv'
      BY <2>7 DEF OneOwner, PhaseInv, IssuedInv, Quiet, Live, Room, Empty,
         has_version, error2_pend
    <3>5. \A i \in 1 .. Len(pending_q') :
            has_version(pending_q'[i]) /\ pending_q'[i] \in issued
      <4>1. pending_q \in Seq(Versions) /\ v \in Versions
        BY DEF TypeOK
      <4>2. /\ Len(pending_q) \in Nat
            /\ Len(pending_q') = Len(pending_q) + 1
            /\ \A i \in 1 .. Len(pending_q) : pending_q'[i] = pending_q[i]
            /\ pending_q'[Len(pending_q) + 1] = v
        BY SMTT(30), <3>1, <4>1, AppendProperties, LenProperties
      <4> SUFFICES ASSUME NEW i \in 1 .. Len(pending_q')
                   PROVE  has_version(pending_q'[i]) /\ pending_q'[i] \in issued
        OBVIOUS
      <4>3. i \in 1 .. Len(pending_q) \/ i = Len(pending_q) + 1
        BY SMTT(30), <4>2
      <4> QED
        BY <3>1, <4>2, <4>3 DEF PendingInv
    <3>6. PendingInv'
      BY <2>7, <3>2, <3>3, <3>5 DEF PendingInv, Quiet, has_version, error2_pend
    <3> QED
      BY <3>4, <3>6
  <2>8. CASE bthread_id_about_to_destroy(t)
    <3>1. pc[t] \in Holding /\ pc'[t] \in Holding
      BY <2>8 DEF bthread_id_about_to_destroy, Goto, TypeOK
    <3>2. Live /\ butex' = locked_ver + 2
      BY <2>8, <3>1, LiveVersions DEF bthread_id_about_to_destroy, PhaseInv
    <3>3. \A u \in Threads : /\ u # t => pc'[u] = pc[u] /\ pc[u] \notin Owning
                             /\ ver'[u] = ver[u] /\ range'[u] = range[u]
      BY <2>8 DEF bthread_id_about_to_destroy, Goto, TypeOK, OneOwner
    <3>4. OneOwner'
      BY <3>3 DEF OneOwner
    <3>5. PhaseInv'
      BY SMTT(30), <2>8, <1>a, <3>1, <3>2, <3>3
      DEF PhaseInv, Quiet, Live, Room, has_version, bthread_id_about_to_destroy
    <3>6. IssuedInv' /\ PendingInv'
      BY <2>8, <3>1, <3>3 DEF IssuedInv, PendingInv, Quiet, has_version,
         bthread_id_about_to_destroy
    <3> QED
      BY <3>4, <3>5, <3>6
  <2>9. CASE join_call(t)
    BY SMTT(30), <2>9, Frame DEF join_call, Goto, Begin, Return, SetLocals, TypeOK, IssuedInv
  <2>10. CASE lock_interrupted(t)
    BY <2>10, Frame DEF lock_interrupted, Goto, Begin, Return, SetLocals, TypeOK, IssuedInv
  <2>11. CASE join_interrupted(t)
    BY <2>11, Frame DEF join_interrupted, Goto, Begin, Return, SetLocals, TypeOK, IssuedInv
  <2> QED
    BY <1>1, <2>1, <2>2, <2>3, <2>4, <2>5, <2>6, <2>7, <2>8, <2>9, <2>10, <2>11
    DEF Call
<1>2. CASE Release(t)
  <2>1. CASE unlock_run_on_error(t)
    <3>1. /\ Head(pending_q) \in issued /\ has_version(Head(pending_q))
          /\ \A i \in 1 .. Len(pending_q') :
               has_version(pending_q'[i]) /\ pending_q'[i] \in issued
      BY SMTT(30), <2>1, HeadTailProperties, LenProperties
      DEF unlock_run_on_error, PendingInv, TypeOK
    <3>2. /\ pc[t] \in Holding /\ pc'[t] \in Holding
          /\ ver'[t] = Head(pending_q)
      BY <2>1 DEF unlock_run_on_error, MayUnlock, Begin, Goto, SetLocals, TypeOK
    <3>3. \A u \in Threads :
            u # t => pc'[u] = pc[u] /\ pc[u] \notin Owning /\ ver'[u] = ver[u]
      BY <2>1, <3>2 DEF unlock_run_on_error, OneOwner, Begin, Goto, SetLocals, TypeOK
    <3>4. OneOwner'
      BY <3>3 DEF OneOwner
    <3>5. PhaseInv'
      BY <2>1, <1>a, <3>1, <3>2, <3>3
      DEF PhaseInv, Quiet, Live, Room, has_version, unlock_run_on_error
    <3>6. IssuedInv'
      BY <2>1, <3>1, <3>2, <3>3 DEF IssuedInv, has_version, unlock_run_on_error
    <3>7. PendingInv'
      BY <2>1, <3>1, <3>2, <3>3
      DEF PendingInv, Quiet, has_version, unlock_run_on_error
    <3> QED
      BY <3>4, <3>5, <3>6, <3>7
  <2>2. CASE bthread_id_unlock(t)
    <3>1. /\ pc[t] \in Holding /\ pc'[t] \notin Owning /\ ver'[t] = 0
          /\ butex' = first_ver
      BY <2>2 DEF bthread_id_unlock, MayUnlock, Begin, Goto, SetLocals, TypeOK
    <3>2. \A u \in Threads :
            u # t => pc'[u] = pc[u] /\ pc[u] \notin Owning /\ ver'[u] = ver[u]
      BY <2>2, <3>1 DEF bthread_id_unlock, OneOwner, Begin, Goto, SetLocals, TypeOK
    <3>3. Live /\ ~pooled
      BY <3>1 DEF PhaseInv
    <3>4. OneOwner' /\ PhaseInv'
      BY <2>2, <3>1, <3>2, <3>3
      DEF OneOwner, PhaseInv, Quiet, Live, Room, bthread_id_unlock
    <3>5. IssuedInv' /\ PendingInv'
      BY <2>2, <3>1, <3>2
      DEF IssuedInv, PendingInv, Quiet, has_version, bthread_id_unlock
    <3> QED
      BY <3>4, <3>5
  <2>3. CASE bthread_id_unlock_and_destroy(t)
    <3>1. \A u \in Threads :
            u # t => pc[u] \notin Owning /\ pc'[u] = pc[u] /\ ver'[u] = ver[u]
      BY <2>3 DEF bthread_id_unlock_and_destroy, OneOwner, Begin, Goto, SetLocals,
         TypeOK
    <3>2. Live /\ ver'[t] = 0 /\ pc'[t] = "destroy_wake" /\ ~pooled
      BY <2>3 DEF bthread_id_unlock_and_destroy, PhaseInv, Begin, Goto, SetLocals,
         TypeOK
    <3>3. OneOwner' /\ PhaseInv' /\ PendingInv'
      BY SMTT(30), <2>3, <3>1, <3>2
      DEF OneOwner, PhaseInv, PendingInv, Quiet, Empty,
          bthread_id_unlock_and_destroy
    <3>4. end_ver = locked_ver + 3
      BY <3>2, LiveVersions
    <3>5. \A v \in issued : v < end_ver
      <4> SUFFICES ASSUME NEW v \in issued PROVE v < end_ver
        OBVIOUS
      <4>1. v \in Nat
        BY <1>a DEF TypeOK
      <4> QED
        BY SMTT(30), <1>a, <3>2, <3>4, <4>1 DEF IssuedInv, has_version, Live
    <3>6. IssuedInv'
      BY <2>3, <3>1, <3>2, <3>5 DEF IssuedInv, bthread_id_unlock_and_destroy
    <3> QED
      BY <3>3, <3>6
  <2> QED
    BY <1>2, <2>1, <2>2, <2>3
    DEF Release
<1>3. CASE Continue(t)
  <2>1. CASE id_create_locked(t)
    <3>1. \A u \in Threads : /\ u # t => pc[u] \notin Owning /\ pc'[u] = pc[u]
                             /\ ver'[u] = ver[u] /\ range'[u] = range[u]
      BY <2>1 DEF id_create_locked, OneOwner, Goto, TypeOK
    <3>2. pc'[t] = "created" /\ Room /\ ver[t] = first_ver /\ butex = first_ver
      BY <2>1 DEF id_create_locked, Goto, TypeOK, PhaseInv
    <3>3. locked_ver' = first_ver + range[t] /\ 1 <= range[t]
                                             /\ range[t] <= IdMaxRange
      <4>1. 1 <= range[t] /\ range[t] <= IdMaxRange
        BY SMTT(30), <2>1, <1>a DEF id_create_locked, PhaseInv, TypeOK
      <4>2. butex + range[t] < VerMod
        BY SMTT(30), <1>a, <3>2, <4>1 DEF Room
      <4> QED
        BY <2>1, <1>a, <3>2, <4>1, <4>2, PlusNoWrap DEF id_create_locked
    <3>4. Live'
      BY SMTT(30), <2>1, <1>a, <3>2, <3>3 DEF Live, Room, id_create_locked
    <3>5. OneOwner'
      BY <3>1 DEF OneOwner
    <3>6. PhaseInv'
      BY <2>1, <1>a, <3>1, <3>2, <3>3, <3>4 DEF PhaseInv, Quiet, id_create_locked
    <3>7. IssuedInv'
      BY <2>1, <3>1, <3>2 DEF IssuedInv, id_create_locked
    <3>8. PendingInv'
      BY SMTT(30), <2>1, <3>1, <3>2 DEF PendingInv, id_create_locked, Quiet
    <3> QED
      BY <3>5, <3>6, <3>7, <3>8
  <2>2. CASE lock_acquire(t)
    <3>1. ver[t] \in issued
      BY <2>2 DEF lock_acquire, IssuedInv
    <3>2. Quiet /\ ~pooled /\ Live /\ pending_q = <<>>
      BY <2>2, <3>1, UnlockedSlot DEF lock_acquire
    <3>3. /\ pc'[t] = "holding" /\ ver'[t] = ver[t]
          /\ \A u \in Threads :
               u # t => pc'[u] \notin Owning /\ ver'[u] = ver[u]
      BY <2>2, <3>2 DEF lock_acquire, Quiet, Begin, Goto, SetLocals, TypeOK
    <3>4. locked_ver' \in Nat /\ locked_ver <= locked_ver'
                              /\ locked_ver' <= first_ver + IdMaxRange
      <4>1. range[t] <= IdMaxRange
        BY SMTT(30), <1>a DEF TypeOK
      <4>2. first_ver + range[t] < VerMod
        BY SMTT(30), <1>a, <3>2, <4>1 DEF Live, Room
      <4>3. /\ Plus(first_ver, range[t]) = first_ver + range[t]
            /\ Plus(range[t], first_ver) = first_ver + range[t]
        BY SMTT(30), <1>a, <4>2, PlusNoWrap
      <4> QED
        BY SMTT(30), <2>2, <1>a, <3>2, <4>1, <4>3 DEF lock_acquire, Live
    <3>5. Live'
      BY SMTT(30), <2>2, <1>a, <3>2, <3>4 DEF lock_acquire, Live, Room
    <3>6. butex' \in locked_ver' .. locked_ver' + 2
      <4>1. Plus(locked_ver', 1) = locked_ver' + 1
        BY SMTT(30), <1>a, <3>2, <3>4, PlusNoWrap DEF Live, Room
      <4> QED
        BY SMTT(30), <2>2, <3>4, <4>1 DEF lock_acquire
    <3>7. OneOwner'
      BY <3>3 DEF OneOwner
    <3>8. PhaseInv'
      <4>1. has_version(ver[t])'
        BY SMTT(30), <2>2, <1>a, <3>4 DEF lock_acquire, has_version, Begin, SetLocals
      <4> QED
        BY <2>2, <3>2, <3>3, <3>5, <3>6, <4>1 DEF PhaseInv, Quiet, lock_acquire
    <3>9. \A w \in issued' : w = 0 \/ w < first_ver' \/ has_version(w)'
      <4> SUFFICES ASSUME NEW w \in issued'
                   PROVE  w = 0 \/ w < first_ver' \/ has_version(w)'
        OBVIOUS
      <4>1. w \in issued \/ w \in first_ver .. locked_ver' - 1
        BY <2>2 DEF lock_acquire
      <4>2. CASE w \in issued
        <5>1. w \in Nat
          BY <1>a, <4>2 DEF TypeOK
        <5> QED
          BY SMTT(30), <2>2, <1>a, <3>4, <4>2, <5>1 DEF IssuedInv, has_version, lock_acquire
      <4>3. CASE w \in first_ver .. locked_ver' - 1
        BY SMTT(30), <2>2, <1>a, <3>4, <4>3 DEF has_version, lock_acquire
      <4> QED
        BY <4>1, <4>2, <4>3
    <3>10. IssuedInv'
      BY <2>2, <3>1, <3>2, <3>3, <3>9 DEF IssuedInv, Quiet, lock_acquire
    <3>11. PendingInv'
      <4>1. pending_q = <<>> /\ pending_q' = pending_q
        BY <2>2, <3>2 DEF lock_acquire
      <4> QED
        BY SMTT(30), <4>1 DEF PendingInv
    <3> QED
      BY <3>7, <3>8, <3>10, <3>11
  <2>3. CASE lock_contend(t)
    <3>1. ver[t] \in issued
      BY <2>3 DEF lock_contend, IssuedInv
    <3>2. PICK h \in Threads : pc[h] \in Holding
      BY <2>3, <3>1, LockedSlot DEF lock_contend
    <3>3. Live /\ butex' = locked_ver + 1
      BY <2>3, <3>2, LiveVersions DEF lock_contend, PhaseInv
    <3>4. /\ pc'[t] = "lock_wait" /\ pc[t] = "lock" /\ ver'[t] = ver[t]
          /\ \A u \in Threads : u # t =>
               pc'[u] = pc[u] /\ ver'[u] = ver[u] /\ range'[u] = range[u]
      BY <2>3 DEF lock_contend, Goto, SetLocals, TypeOK
    <3>5. OneOwner'
      BY <3>4 DEF OneOwner
    <3>6. \A u \in Threads : pc'[u] \in Owning => u = h
      BY <3>2, <3>4 DEF OneOwner
    <3>7. PhaseInv'
      BY SMTT(30), <2>3, <1>a, <3>2, <3>3, <3>4, <3>6
      DEF PhaseInv, Quiet, Live, Room, has_version, lock_contend
    <3>8. IssuedInv' /\ PendingInv'
      BY <2>3, <3>2, <3>4, <3>6
      DEF IssuedInv, PendingInv, Quiet, has_version, lock_contend
    <3> QED
      BY <3>5, <3>7, <3>8
  <2>4. CASE lock_fail(t)
    BY <2>4, Frame DEF lock_fail, Goto, Begin, Return, SetLocals, TypeOK, IssuedInv
  <2>5. CASE lock_butex_wait(t)
    BY SMTT(30), <2>5, Frame DEF lock_butex_wait, Goto, Begin, Return, SetLocals, TypeOK, IssuedInv
  <2>6. CASE unlock_wake(t)
    BY <2>6, <1>b, Frame DEF unlock_wake, Goto, TypeOK, IssuedInv
  <2>7. CASE about_to_destroy_wake(t)
    BY <2>7, <1>b, Frame DEF about_to_destroy_wake, WakeLockers, TypeOK, IssuedInv
  <2>8. CASE destroy_wake(t)
    BY <2>8, <1>b, Frame DEF destroy_wake, WakeLockers, TypeOK, IssuedInv
  <2>9. CASE destroy_join_wake(t)
    <3>1. \A u \in Threads : pc'[u] \notin Owning /\ ver'[u] = ver[u]
      BY <2>9, <1>b DEF destroy_join_wake, OneOwner, TypeOK
    <3> QED
      BY <2>9, <3>1 DEF destroy_join_wake, OneOwner, PhaseInv, IssuedInv,
         PendingInv, Quiet, Empty, has_version
  <2>10. CASE join_check(t)
    BY <2>10, Frame DEF join_check, Goto, Begin, Return, SetLocals, TypeOK, IssuedInv
  <2>11. CASE join_return(t)
    BY <2>11, Frame DEF join_return, Goto, Begin, Return, SetLocals, TypeOK, IssuedInv
  <2>12. CASE join_butex_wait(t)
    BY SMTT(30), <2>12, Frame DEF join_butex_wait, Goto, Begin, Return, SetLocals, TypeOK, IssuedInv
  <2> QED
    BY <1>3, <2>1, <2>2, <2>3, <2>4, <2>5, <2>6, <2>7, <2>8, <2>9, <2>10, <2>11, <2>12
    DEF Continue
<1> QED
  BY <1>1, <1>2, <1>3

\* Every step of every bthread_id function, and a stutter, preserves the inductive invariant.
LEMMA NextIInv ==
  ASSUME IInv, [Next]_vars, ~WrapEnabled
  PROVE  IInv'
<1>1. CASE UNCHANGED vars
  BY <1>1 DEF vars, metaVars, waitVars, argVars, IInv, TypeOK, OneOwner,
     PhaseInv, IssuedInv, PendingInv, QueueInv, Quiet, Empty, Room, Live,
     has_version
<1>2. CASE Next
  <2>1. PICK t \in Threads : Call(t) \/ Release(t) \/ Continue(t)
    BY <1>2 DEF Next
  <2>2. TypeOK'
    BY <2>1, NextTypeOK
  <2>3. OneOwner' /\ PhaseInv' /\ IssuedInv' /\ PendingInv'
    BY <2>1, <2>2, NextOwnerInv
  <2>4. QueueInv'
    BY <2>1, NextQueueInv
  <2> QED
    BY <2>2, <2>3, <2>4 DEF IInv
<1> QED
  BY <1>1, <1>2

-----------------------------------------------------------------------------
(* What follows from the invariant *)

\* The inductive invariant holds in every reachable state of the slot.
LEMMA Invariance ==
  ASSUME ~WrapEnabled
  PROVE  Spec => []IInv
<1>1. Init => IInv
  BY InitIInv
<1>2. IInv /\ [Next]_vars => IInv'
  BY NextIInv
<1> QED
  BY <1>1, <1>2, PTL DEF Spec

\* All variables of the slot and of its users keep their types; in particular
\* every version stays within its 32 bits.
THEOREM TypeCorrect ==
  ASSUME ~WrapEnabled
  PROVE  Spec => []TypeOK
<1>1. IInv => TypeOK
  BY DEF IInv
<1> QED
  BY <1>1, Invariance, PTL

\* Of the threads that locked the slot, through bthread_id_lock, trylock or
\* error, at most one has not released it.
THEOREM Exclusion ==
  ASSUME ~WrapEnabled
  PROVE  Spec => []MutualExclusion
<1>1. IInv => MutualExclusion
  BY DEF IInv, OneOwner, Owning, MutualExclusion, Holders
<1> QED
  BY <1>1, Invariance, PTL

\* No ABA: a thread that holds the lock got it with an identifier that exists,
\* of a slot that is not in the pool.
THEOREM NoABA ==
  ASSUME ~WrapEnabled
  PROVE  Spec => []HolderIsLive
<1>1. IInv => HolderIsLive
  <2> SUFFICES ASSUME IInv, NEW t \in Holders
               PROVE  has_version(ver[t]) /\ butex # first_ver /\ ~pooled
    BY DEF HolderIsLive
  <2>1. t \in Threads /\ pc[t] \in Holding
    BY DEF Holders
  <2>2. first_ver \in Nat /\ locked_ver \in Nat
    BY SMTT(30), BthreadIdAssumption DEF IInv, TypeOK, Versions
  <2> QED
    BY SMTT(30), <2>1, <2>2 DEF IInv, PhaseInv, Owning, Live
<1> QED
  BY <1>1, Invariance, PTL

\* A slot that id_create_impl initialises, without Id::mutex, is not held.
THEOREM PrivateCreation ==
  ASSUME ~WrapEnabled
  PROVE  Spec => []CreationIsPrivate
<1>1. IInv => CreationIsPrivate
  BY DEF IInv, OneOwner, Owning, CreationIsPrivate, Holders, Creating, Holding
<1> QED
  BY <1>1, Invariance, PTL

\* bthread_id_unlock leaves no error of bthread_id_error behind.
THEOREM NoErrorLeftBehind ==
  ASSUME ~WrapEnabled
  PROVE  Spec => []PendingErrorHasHolder
<1>1. IInv => PendingErrorHasHolder
  <2> SUFFICES ASSUME IInv, pending_q # <<>>
               PROVE  /\ Holders # {}
                      /\ \A v \in ToSet(pending_q) : has_version(v)
    BY DEF PendingErrorHasHolder
  <2>1. PICK t \in Threads : pc[t] \in Owning
    BY DEF IInv, PendingInv, Quiet
  <2>2. t \in Holders
    BY <2>1 DEF IInv, PendingInv, Owning, Holders
  <2>3. DOMAIN pending_q = 1 .. Len(pending_q)
    BY LenProperties DEF IInv, TypeOK
  <2> QED
    BY <2>2, <2>3 DEF IInv, PendingInv, ToSet
<1> QED
  BY <1>1, Invariance, PTL

\* Everything a holder of the lock relies on, for any number of threads, versions and ranges.
THEOREM HolderIsSafe ==
  ASSUME ~WrapEnabled
  PROVE  Spec => []LockSafe
<1>1. MutualExclusion /\ HolderIsLive /\ PendingErrorHasHolder /\ CreationIsPrivate => LockSafe
  BY DEF LockSafe
<1> QED
  BY <1>1, Exclusion, NoABA, NoErrorLeftBehind, PrivateCreation, PTL

\* The smallest version a slot answers to never decreases.
LEMMA FirstVerGrows ==
  ASSUME IInv, Next, ~WrapEnabled
  PROVE  first_ver <= first_ver'
<1>1. PICK t \in Threads : Call(t) \/ Release(t) \/ Continue(t)
  BY DEF Next
<1>2. first_ver \in Nat /\ locked_ver \in Nat /\ butex \in Nat
  BY SMTT(30), BthreadIdAssumption DEF IInv, TypeOK, Versions
<1>3. CASE id_create_first(t)
  <2>1. butex = first_ver
    BY <1>1, <1>3 DEF id_create_first, IInv, PhaseInv, Quiet, Empty
  <2>2. butex + (IdMaxRange + 2) < VerMod /\ IdMaxRange + 2 \in Nat
    BY SMTT(30), <1>2, <1>3, BthreadIdAssumption DEF id_create_first, VersionsLeft
  <2>3. Plus(butex, IdMaxRange + 2) = butex + (IdMaxRange + 2)
    BY <1>2, <2>2, PlusNoWrap
  <2> QED
    BY SMTT(30), <1>2, <1>3, <2>1, <2>3, BthreadIdAssumption DEF id_create_first
<1>4. CASE bthread_id_cancel(t) \/ bthread_id_unlock_and_destroy(t)
  <2>1. Live
    BY <1>4 DEF bthread_id_cancel, bthread_id_unlock_and_destroy, IInv,
       PhaseInv, Holding
  <2>2. end_ver = locked_ver + 3
    BY <2>1, LiveVersions DEF IInv
  <2> QED
    BY SMTT(30), <1>2, <1>4, <2>1, <2>2
    DEF bthread_id_cancel, bthread_id_unlock_and_destroy, Live
<1>5. CASE UNCHANGED first_ver
  BY SMTT(30), <1>2, <1>5
<1> QED
  BY <1>1, <1>3, <1>4, <1>5 DEF Call, Release, Continue, metaVars,
     id_create_locked, publish, lock_call, bthread_id_trylock,
     LockUncontended, error2_run_on_error, error2_pend,
     bthread_id_about_to_destroy, join_call, lock_interrupted,
     join_interrupted, unlock_run_on_error, bthread_id_unlock, lock_acquire,
     lock_contend, lock_fail, lock_butex_wait, unlock_wake,
     about_to_destroy_wake, destroy_wake, destroy_join_wake, join_check,
     join_return, join_butex_wait

\* An identifier that was destroyed does not come back: the reuse of the slot
\* never makes a stale identifier valid again.
THEOREM StaleStaysStale ==
  ASSUME ~WrapEnabled
  PROVE  Spec => StaleForever
<1>1. ASSUME IInv, Next, IInv', NEW v \in issued, ~has_version(v)
      PROVE  ~has_version(v)'
  <2>1. /\ v \in Nat /\ first_ver \in Nat /\ first_ver' \in Nat
        /\ locked_ver' \in Nat
    BY SMTT(30), <1>1, BthreadIdAssumption DEF IInv, TypeOK, Versions
  <2>2. first_ver <= first_ver'
    BY <1>1, FirstVerGrows
  <2>3. CASE v < first_ver
    BY SMTT(30), <2>1, <2>2, <2>3 DEF has_version
  <2>4. CASE v = 0
    <3>1. Empty' \/ (1 <= first_ver')
      BY <1>1 DEF IInv, PhaseInv, Quiet, Live, Room, Owning, Creating
    <3> QED
      BY SMTT(30), <2>1, <2>4, <3>1 DEF has_version, Empty
  <2> QED
    BY <1>1, <2>3, <2>4 DEF IInv, IssuedInv
<1>2. IInv /\ IInv' /\ [Next]_vars
        => [\A v \in issued : ~has_version(v) => ~has_version(v)']_vars
  BY <1>1
<1>3. Spec => []IInv
  BY Invariance
<1> QED
  BY <1>2, <1>3, PTL DEF Spec, StaleForever

=============================================================================

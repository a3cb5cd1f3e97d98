------------------------ MODULE BthreadIdWakeProofs -------------------------
(***************************************************************************)
(* Proofs that no wake-up of BthreadId is lost: whoever sleeps in          *)
(* bthread_id_join or bthread_id_lock has someone bound to wake it.        *)
(***************************************************************************)
EXTENDS BthreadIdProofs

\* The prover of every step below that does not name another.
USE ZenonT(20)

-----------------------------------------------------------------------------
(* bthread_id_join: the join butex changes exactly when the identifier     *)
(* goes away, so a joiner that finds it unchanged found the identifier.    *)

Destroyer == \E u \in Threads : pc[u] \in Destroying

JoinInv ==
  /\ join_butex <= first_ver
  /\ first_ver < locked_ver => join_butex = first_ver
  /\ \A t \in Threads : pc[t] = "create_locked" => join_butex = first_ver
  /\ \A t \in Threads : pc[t] = "join_wait" =>
       \/ expected[t] < join_butex
       \/ expected[t] = join_butex /\ has_version(ver[t])
  /\ \A i \in 1 .. Len(join_waiters) :
       has_version(ver[join_waiters[i]]) \/ Destroyer

\* A step that keeps the slot, its joiners and its destroyer.
LEMMA JoinFrame ==
  ASSUME IInv, JoinInv, UNCHANGED <<first_ver, join_butex, join_waiters>>,
         locked_ver' = locked_ver \/ (first_ver < locked_ver /\ locked_ver < locked_ver'),
         locked_ver' \in Nat,
         \A u \in Threads :
           \/ pc'[u] = pc[u] /\ ver'[u] = ver[u] /\ expected'[u] = expected[u]
           \/ /\ pc[u] \notin {"join_sleep", "create_locked"} \cup Destroying
              /\ pc'[u] \notin {"join_wait", "create_locked"}
           \/ pc[u] \in Destroying /\ pc'[u] \in Destroying
  PROVE  JoinInv'
<1>1. /\ first_ver \in Nat /\ locked_ver \in Nat
      /\ \A u \in Threads : ver[u] \in Nat
      /\ \A i \in 1 .. Len(join_waiters) :
           join_waiters[i] \in Threads /\ pc[join_waiters[i]] = "join_sleep"
  BY SMTT(30), BthreadIdAssumption, ElementOfSeq DEF IInv, TypeOK, QueueInv, Versions
<1>2. \A v \in Nat : has_version(v) => has_version(v)'
  BY SMTT(30), <1>1 DEF has_version
<1>3. Destroyer => Destroyer'
  BY DEF Destroyer, Destroying
<1>4. \A i \in 1 .. Len(join_waiters) :
        ver'[join_waiters[i]] = ver[join_waiters[i]]
  BY <1>1 DEF Destroying
<1>5. \A i \in 1 .. Len(join_waiters') :
        has_version(ver[join_waiters[i]])' \/ Destroyer'
  BY <1>1, <1>2, <1>3, <1>4 DEF JoinInv, has_version
<1>6. \A t \in Threads : pc'[t] = "join_wait" =>
        \/ expected'[t] < join_butex'
        \/ expected'[t] = join_butex' /\ has_version(ver[t])'
  BY <1>1, <1>2 DEF JoinInv, Destroying, has_version
<1>7. /\ join_butex' <= first_ver'
      /\ first_ver' < locked_ver' => join_butex' = first_ver'
      /\ \A t \in Threads : pc'[t] = "create_locked" => join_butex' = first_ver'
  BY <1>1 DEF JoinInv, Destroying
<1> QED
  BY <1>5, <1>6, <1>7 DEF JoinInv

\* Every step keeps the joiners' invariant.
LEMMA NextJoinInv ==
  ASSUME IInv, JoinInv, IInv', NEW t \in Threads,
         Call(t) \/ Release(t) \/ Continue(t), ~WrapEnabled
  PROVE  JoinInv'
<1> USE DEF metaVars, waitVars, argVars
<1>a. /\ first_ver \in Nat /\ locked_ver \in Nat /\ first_ver' \in Nat
      /\ locked_ver' \in Nat /\ join_waiters \in Seq(Threads)
      /\ Len(join_waiters) \in Nat
      /\ join_butex \in Nat
      /\ \A u \in Threads : expected[u] \in Nat /\ ver[u] \in Nat
      /\ \A i \in 1 .. Len(join_waiters) :
           join_waiters[i] \in Threads /\ pc[join_waiters[i]] = "join_sleep"
      /\ DOMAIN join_waiters = 1 .. Len(join_waiters)
  <2>1. Versions \subseteq Nat
    BY SMTT(30), BthreadIdAssumption DEF Versions
  <2> QED
    BY <2>1, Sleepers, LenProperties DEF IInv, TypeOK
<1>b. /\ \A u \in ToSet(lock_waiters) : u \in Threads /\ pc[u] = "lock_sleep"
      /\ lock_waiters # <<>> => Head(lock_waiters) \in ToSet(lock_waiters)
  BY Sleepers DEF IInv
<1>c. pc \in [Threads -> Labels] /\ ver \in [Threads -> Versions]
      /\ expected \in [Threads -> Versions] /\ range \in [Threads -> 0 .. IdMaxRange]
  BY DEF IInv, TypeOK
<1> USE DEF Destroying
<1>1. CASE Call(t)
  <2>1. CASE id_create_first(t)
    <3>1. Empty /\ Quiet
      BY <2>1 DEF id_create_first, IInv, PhaseInv, Quiet
    <3>2. Len(join_waiters) = 0 \/ ~(1 <= Len(join_waiters))
      <4> SUFFICES ASSUME 1 \in 1 .. Len(join_waiters) PROVE FALSE
        BY SMTT(30), <1>a, LenProperties
      <4> QED
        BY SMTT(30), <1>a, <3>1 DEF JoinInv, Empty, has_version, Quiet, Destroyer, Owning
    <3>3. first_ver <= first_ver' /\ join_butex' = first_ver'
      BY <2>1, FirstVerGrows DEF id_create_first, Next, Call
    <3>4. locked_ver' <= first_ver'
      BY <2>1, <1>a, <3>1, <3>3 DEF id_create_first, Empty
    <3>5. \A u \in Threads : u # t =>
            pc'[u] = pc[u] /\ ver'[u] = ver[u] /\ expected'[u] = expected[u]
      BY <2>1, <1>c DEF id_create_first, Begin, Goto, SetLocals
    <3>6. pc'[t] = "create_locked"
      BY <2>1, <1>c DEF id_create_first, Begin, Goto
    <3>7. \A u \in Threads : pc'[u] = "join_wait" => expected'[u] < join_butex'
      BY SMTT(30), <1>a, <3>1, <3>3, <3>5, <3>6 DEF JoinInv, Empty, has_version
    <3> QED
      BY SMTT(30), <2>1, <1>a, <3>2, <3>3, <3>4, <3>7 DEF JoinInv, id_create_first
  <2>2. CASE publish(t)
    BY <2>2, <1>a, <1>c, JoinFrame DEF publish, Goto, Begin, Return, SetLocals
  <2>3. CASE bthread_id_cancel(t)
    <3>1. pc[t] \in Creating /\ Live
      BY <2>3 DEF bthread_id_cancel, IInv, PhaseInv, Creating
    <3>2. \A u \in Threads : /\ pc[u] \notin Creating => ver[u] < first_ver
                             /\ pc[u] \notin Destroying
      BY <2>3, <1>a, <3>1 DEF IInv, IssuedInv, OneOwner, Owning, Creating, TypeOK
    <3>3. ~(1 <= Len(join_waiters))
      <4> SUFFICES ASSUME 1 \in 1 .. Len(join_waiters) PROVE FALSE
        BY SMTT(30), <1>a, LenProperties
      <4> QED
        BY SMTT(30), <1>a, <3>2 DEF JoinInv, has_version, Destroyer, Creating
    <3>4. first_ver < first_ver' /\ locked_ver' = first_ver'
      BY SMTT(30), <2>3, <1>a, <3>1, LiveVersions DEF bthread_id_cancel, Live, IInv
    <3>5. \A u \in Threads : pc'[u] = "join_wait" => expected'[u] < join_butex'
      <4>1. \A u \in Threads : pc'[u] = "join_wait" =>
              pc[u] = "join_wait" /\ expected'[u] = expected[u]
        BY <2>3, <1>c DEF bthread_id_cancel, Return, Begin, Goto, SetLocals
      <4>2. \A u \in Threads : pc[u] = "join_wait" => ~has_version(ver[u])
        BY SMTT(30), <1>a, <3>2 DEF has_version, Creating
      <4> QED
        BY <2>3, <4>1, <4>2 DEF JoinInv, bthread_id_cancel
    <3>6. \A u \in Threads : pc'[u] # "create_locked"
      BY <2>3, <1>c, <3>1 DEF bthread_id_cancel, Return, Begin, Goto, IInv, OneOwner,
         Owning, Creating
    <3> QED
      BY SMTT(30), <2>3, <1>a, <3>3, <3>4, <3>5, <3>6 DEF JoinInv, bthread_id_cancel
  <2>4. CASE lock_call(t)
    BY <2>4, <1>a, <1>c, JoinFrame DEF lock_call, Goto, Begin, Return, SetLocals
  <2>5. CASE bthread_id_trylock(t)
    BY <2>5, <1>a, <1>c, JoinFrame DEF bthread_id_trylock, Goto, Begin, Return, SetLocals, LockUncontended
  <2>6. CASE error2_run_on_error(t)
    BY <2>6, <1>a, <1>c, JoinFrame DEF error2_run_on_error, Goto, Begin, Return, SetLocals, LockUncontended
  <2>7. CASE error2_pend(t)
    BY <2>7, <1>a, <1>c, JoinFrame DEF error2_pend, Goto, Begin, Return, SetLocals
  <2>8. CASE bthread_id_about_to_destroy(t)
    BY <2>8, <1>a, <1>c, JoinFrame DEF bthread_id_about_to_destroy, Goto, Begin, Return, SetLocals
  <2>9. CASE join_call(t)
    BY <2>9, <1>a, <1>c, JoinFrame DEF join_call, Goto, Begin, Return, SetLocals
  <2>10. CASE lock_interrupted(t)
    BY <2>10, <1>a, <1>c, JoinFrame DEF lock_interrupted, Goto, Begin, Return, SetLocals
  <2>11. CASE join_interrupted(t)
    <3>1. PICK n \in 1 .. Len(join_waiters) :
            join_waiters' = RemoveAt(join_waiters, n)
      BY <2>11, <1>a DEF join_interrupted
    <3>2. \A i \in 1 .. Len(join_waiters') :
            \E k \in 1 .. Len(join_waiters) : join_waiters'[i] = join_waiters[k]
      <4>1. /\ Len(join_waiters') = Len(join_waiters) - 1
            /\ \A j \in 1 .. Len(join_waiters) - 1 : join_waiters'[j] =
                 IF j < n THEN join_waiters[j] ELSE join_waiters[j + 1]
        BY <1>a, <3>1, RemoveAtProperties
      <4>2. \A j \in 1 .. Len(join_waiters) - 1 : j \in 1 .. Len(join_waiters)
                                                      /\ j + 1 \in 1 .. Len(join_waiters)
        BY SMTT(30), <1>a
      <4> QED
        BY <1>a, <4>1, <4>2
    <3>3. \A u \in Threads : /\ pc'[u] = "join_wait" => pc[u] = "join_wait"
                             /\ pc'[u] = "create_locked" => pc[u] = "create_locked"
                             /\ pc[u] \in Destroying => pc'[u] \in Destroying
      BY <2>11, <1>c DEF join_interrupted, Goto
    <3>4. UNCHANGED <<first_ver, locked_ver, join_butex, ver, expected>>
      BY <2>11 DEF join_interrupted
    <3>5. Destroyer => Destroyer'
      <4> SUFFICES ASSUME NEW u \in Threads, pc[u] \in Destroying
                   PROVE  pc'[u] \in Destroying
        BY DEF Destroyer
      <4> QED
        BY <3>3
    <3>6. \A i \in 1 .. Len(join_waiters') :
            has_version(ver[join_waiters[i]])' \/ Destroyer'
      BY <3>2, <3>4, <3>5 DEF JoinInv, has_version
    <3>7. \A u \in Threads : pc'[u] = "join_wait" =>
            \/ expected'[u] < join_butex'
            \/ expected'[u] = join_butex' /\ has_version(ver[u])'
      BY <3>3, <3>4 DEF JoinInv, has_version
    <3> QED
      BY <1>a, <3>3, <3>4, <3>6, <3>7 DEF JoinInv
  <2> QED
    BY <1>1, <2>1, <2>2, <2>3, <2>4, <2>5, <2>6, <2>7, <2>8, <2>9, <2>10, <2>11
    DEF Call
<1>2. CASE Release(t)
  <2>1. CASE unlock_run_on_error(t)
    BY <2>1, <1>a, <1>c, JoinFrame DEF unlock_run_on_error, Goto, Begin, Return, SetLocals, MayUnlock, Holding
  <2>2. CASE bthread_id_unlock(t)
    BY <2>2, <1>a, <1>c, JoinFrame DEF bthread_id_unlock, Goto, Begin, Return, SetLocals, MayUnlock, Holding
  <2>3. CASE bthread_id_unlock_and_destroy(t)
    <3>1. pc[t] \in Holding /\ Live
      BY <2>3 DEF bthread_id_unlock_and_destroy, IInv, PhaseInv, Holding
    <3>2. first_ver < first_ver' /\ locked_ver' = first_ver'
                                 /\ join_butex' = first_ver'
      BY SMTT(30), <2>3, <1>a, <3>1, LiveVersions
      DEF bthread_id_unlock_and_destroy, Live, IInv
    <3>3. /\ pc'[t] = "destroy_wake"
          /\ \A u \in Threads : u # t =>
               /\ pc'[u] = pc[u] /\ expected'[u] = expected[u]
               /\ pc[u] \notin Creating
      BY <2>3, <1>c, <3>1 DEF bthread_id_unlock_and_destroy, Begin, Goto, SetLocals,
         IInv, OneOwner, Owning
    <3>4. Destroyer'
      BY <3>3 DEF Destroyer
    <3>5. \A u \in Threads : pc'[u] = "join_wait" => expected'[u] < join_butex'
      BY SMTT(30), <1>a, <3>2, <3>3 DEF JoinInv
    <3> QED
      BY SMTT(30), <1>a, <3>2, <3>3, <3>4, <3>5 DEF JoinInv, Creating
  <2> QED
    BY <1>2, <2>1, <2>2, <2>3
    DEF Release
<1>3. CASE Continue(t)
  <2>1. CASE id_create_locked(t)
    <3>1. \A u \in Threads : u # t => pc[u] \notin Destroying
      BY <2>1 DEF id_create_locked, IInv, OneOwner, Owning, Creating
    <3>2. locked_ver <= first_ver /\ join_butex = first_ver
      BY <2>1 DEF id_create_locked, IInv, PhaseInv, JoinInv
    <3>3. Len(join_waiters) = 0 \/ ~(1 <= Len(join_waiters))
      <4> SUFFICES ASSUME 1 \in 1 .. Len(join_waiters) PROVE FALSE
        BY SMTT(30), <1>a, LenProperties
      <4>1. ~Destroyer
        BY <2>1, <3>1 DEF Destroyer, id_create_locked
      <4> QED
        BY SMTT(30), <1>a, <3>2, <4>1 DEF JoinInv, has_version
    <3>4. \A u \in Threads : /\ pc'[u] = "join_wait" => pc[u] = "join_wait"
                             /\ pc'[u] = "create_locked" => u # t
                             /\ u # t => pc[u] # "create_locked"
                             /\ u # t => pc'[u] = pc[u]
      BY <2>1, <1>c DEF id_create_locked, Goto, IInv, OneOwner, Owning, Creating
    <3>5. \A u \in Threads : pc[u] = "join_wait" => expected[u] < join_butex
      BY SMTT(30), <1>a, <3>2 DEF JoinInv, has_version
    <3>6. UNCHANGED <<first_ver, join_butex, expected, join_waiters>>
      BY <2>1 DEF id_create_locked
    <3>7. \A i \in 1 .. Len(join_waiters') : FALSE
      BY SMTT(30), <1>a, <3>3, <3>6
    <3>8. \A u \in Threads : /\ pc'[u] = "join_wait" => expected'[u] < join_butex'
                             /\ pc'[u] # "create_locked"
      BY <3>4, <3>5, <3>6
    <3> QED
      BY <1>a, <3>2, <3>6, <3>7, <3>8 DEF JoinInv
  <2>2. CASE lock_acquire(t)
    <3>1. first_ver < locked_ver
      BY SMTT(30), <2>2, <1>a DEF lock_acquire, has_version
    <3>2. locked_ver' = locked_ver \/ locked_ver < locked_ver'
      <4>1. IdMaxRange \in Nat /\ VerMod \in Nat /\ range[t] \in Nat
            /\ range[t] <= IdMaxRange
        BY SMTT(30), <1>c, BthreadIdAssumption
      <4>2. Live
        BY <2>2, UnlockedSlot DEF lock_acquire, IInv, IssuedInv, Creating
      <4>3. first_ver \in Nat
        BY <1>a
      <4>4. first_ver + range[t] < VerMod /\ range[t] + first_ver < VerMod
        BY SMTT(30), <4>1, <4>2, <4>3 DEF Live, Room
      <4>5. /\ Plus(first_ver, range[t]) = first_ver + range[t]
            /\ Plus(range[t], first_ver) = first_ver + range[t]
        BY SMTT(30), <4>1, <4>3, <4>4, PlusNoWrap
      <4> QED
        BY SMTT(30), <2>2, <1>a, <4>1, <4>5 DEF lock_acquire
    <3> QED
      BY <2>2, <1>a, <1>c, <3>1, <3>2, JoinFrame DEF lock_acquire, Goto, Begin, SetLocals
  <2>3. CASE lock_contend(t)
    BY <2>3, <1>a, <1>c, JoinFrame DEF lock_contend, Goto, Begin, Return, SetLocals
  <2>4. CASE lock_fail(t)
    BY <2>4, <1>a, <1>c, JoinFrame DEF lock_fail, Goto, Begin, Return, SetLocals
  <2>5. CASE lock_butex_wait(t)
    BY <2>5, <1>a, <1>c, JoinFrame DEF lock_butex_wait, Goto, Begin, Return, SetLocals
  <2>6. CASE unlock_wake(t)
    <3>1. CASE lock_waiters = <<>>
      BY <2>6, <1>a, <1>c, <3>1, JoinFrame DEF unlock_wake, Goto
    <3>2. CASE lock_waiters # <<>>
      <4>1. pc[Head(lock_waiters)] = "lock_sleep" /\ Head(lock_waiters) \in Threads
        BY <1>b, <3>2
      <4>2. \A u \in Threads : \/ pc'[u] = pc[u]
                               \/ u = t /\ pc'[u] = "idle"
                               \/ u = Head(lock_waiters) /\ pc'[u] = "lock"
        BY <2>6, <1>c, <3>2, <4>1 DEF unlock_wake
      <4> QED
        BY <2>6, <1>a, <3>2, <4>1, <4>2, JoinFrame DEF unlock_wake
    <3> QED
      BY <3>1, <3>2
  <2>7. CASE about_to_destroy_wake(t)
    BY <2>7, <1>a, <1>b, <1>c, JoinFrame DEF about_to_destroy_wake, WakeLockers
  <2>8. CASE destroy_wake(t)
    BY <2>8, <1>a, <1>b, <1>c, JoinFrame DEF destroy_wake, WakeLockers
  <2>9. CASE destroy_join_wake(t)
    <3>1. \A u \in ToSet(join_waiters) : pc[u] = "join_sleep"
      BY <1>a DEF ToSet
    <3>2. \A u \in Threads : /\ pc'[u] = "join_wait" => pc[u] = "join_wait"
                             /\ pc'[u] = "create_locked" => pc[u] = "create_locked"
      BY <2>9, <1>c, <3>1 DEF destroy_join_wake
    <3>3. join_waiters' = <<>> /\ UNCHANGED <<first_ver, locked_ver, join_butex, ver, expected>>
      BY <2>9 DEF destroy_join_wake
    <3> QED
      <4>1. Len(join_waiters') = 0
        BY <3>3
      <4>2. \A i \in 1 .. Len(join_waiters') : FALSE
        BY SMTT(30), <4>1
      <4>3. \A u \in Threads : pc'[u] = "join_wait" =>
              \/ expected'[u] < join_butex'
              \/ expected'[u] = join_butex' /\ has_version(ver[u])'
        BY <3>2, <3>3 DEF JoinInv, has_version
      <4> QED
        BY <1>a, <3>2, <3>3, <4>2, <4>3 DEF JoinInv
  <2>10. CASE join_check(t)
    <3>1. join_butex = first_ver /\ expected'[t] = join_butex /\ ver'[t] = ver[t]
      BY SMTT(30), <2>10, <1>a, <1>c DEF join_check, JoinInv, has_version, SetLocals
    <3>2. \A u \in Threads :
            /\ u # t => pc'[u] = pc[u] /\ expected'[u] = expected[u]
            /\ ver'[u] = ver[u]
      BY <2>10, <1>c DEF join_check, Goto, SetLocals
    <3>3. pc'[t] = "join_wait" /\ pc[t] = "join"
      BY <2>10, <1>c DEF join_check, Goto
    <3>4. Destroyer => Destroyer'
      BY <3>2, <3>3 DEF Destroyer
    <3> QED
      BY <2>10, <1>a, <3>1, <3>2, <3>3, <3>4 DEF JoinInv, join_check, has_version
  <2>11. CASE join_return(t)
    BY <2>11, <1>a, <1>c, JoinFrame DEF join_return, Goto, Begin, Return, SetLocals
  <2>12. CASE join_butex_wait(t)
    <3>1. CASE UNCHANGED join_waiters
      BY <2>12, <1>a, <1>c, <3>1, JoinFrame DEF join_butex_wait, Goto, SetLocals
    <3>2. CASE join_waiters' # join_waiters
      <4>1. /\ join_butex = expected[t] /\ pc[t] = "join_wait"
            /\ pc' = [pc EXCEPT ![t] = "join_sleep"]
            /\ join_waiters' = Append(join_waiters, t)
            /\ UNCHANGED <<first_ver, locked_ver, join_butex>>
        BY <2>12, <3>2 DEF join_butex_wait, Goto
      <4>2. \A u \in Threads : ver'[u] = ver[u] /\ (u # t => expected'[u] = expected[u])
        BY <2>12, <1>c DEF join_butex_wait, SetLocals
      <4>3. has_version(ver[t]) \/ Destroyer
        BY SMTT(30), <1>a, <4>1 DEF JoinInv
      <4>4. Destroyer => Destroyer'
        BY <1>c, <4>1 DEF Destroyer
      <4>5. /\ Len(join_waiters) \in Nat /\ Len(join_waiters') = Len(join_waiters) + 1
            /\ \A i \in 1 .. Len(join_waiters) : join_waiters'[i] = join_waiters[i]
            /\ join_waiters'[Len(join_waiters) + 1] = t
        BY SMTT(30), <1>a, <4>1, AppendProperties, LenProperties
      <4>6. \A i \in 1 .. Len(join_waiters') :
              i \in 1 .. Len(join_waiters) \/ i = Len(join_waiters) + 1
        BY SMTT(30), <4>5
      <4>7. \A i \in 1 .. Len(join_waiters') :
              has_version(ver[join_waiters[i]])' \/ Destroyer'
        BY SMTT(30), <1>a, <4>1, <4>2, <4>3, <4>4, <4>5, <4>6 DEF JoinInv, has_version
      <4> QED
        BY <1>a, <1>c, <4>1, <4>2, <4>7 DEF JoinInv, has_version
    <3> QED
      BY <3>1, <3>2
  <2> QED
    BY <1>3, <2>1, <2>2, <2>3, <2>4, <2>5, <2>6, <2>7, <2>8, <2>9, <2>10, <2>11, <2>12
    DEF Continue
<1> QED
  BY <1>1, <1>2, <1>3

\* Nobody joins in a slot that was never used.
LEMMA InitJoin == Init => JoinInv
  BY SMTT(30) DEF Init, JoinInv

\* The joiners' invariant holds in every reachable state.
LEMMA JoinInvariance ==
  ASSUME ~WrapEnabled
  PROVE  Spec => []JoinInv
<1>1. Init => JoinInv
  BY InitJoin
<1>2. IInv /\ IInv' /\ JoinInv /\ [Next]_vars => JoinInv'
  <2> SUFFICES ASSUME IInv, IInv', JoinInv, [Next]_vars PROVE JoinInv'
    OBVIOUS
  <2>1. CASE UNCHANGED vars
    BY <2>1 DEF vars, metaVars, waitVars, argVars, JoinInv, Destroyer,
       has_version
  <2>2. CASE Next
    BY <2>2, NextJoinInv DEF Next
  <2> QED
    BY <2>1, <2>2
<1> QED
  BY <1>1, <1>2, Invariance, PTL DEF Spec

\* bthread_id_join: a thread asleep in it waits for an identifier that still
\* exists, or its destroyer is on the way to butex_wake_all(join_butex).
THEOREM JoinWakes ==
  ASSUME ~WrapEnabled
  PROVE  Spec => []JoinerNotStranded
<1>1. IInv /\ JoinInv => JoinerNotStranded
  <2> SUFFICES ASSUME IInv, JoinInv, NEW t \in ToSet(join_waiters)
               PROVE  has_version(ver[t]) \/ \E u \in Threads : pc[u] \in Destroying
    BY DEF JoinerNotStranded
  <2>1. PICK i \in 1 .. Len(join_waiters) : t = join_waiters[i]
    BY LenProperties DEF ToSet, IInv, TypeOK
  <2> QED
    BY <2>1 DEF JoinInv, Destroyer
<1> QED
  BY <1>1, Invariance, JoinInvariance, PTL

-----------------------------------------------------------------------------
(* bthread_id_lock.  This needs two things of the clients: a lock that     *)
(* resets the range does not overlap with others (~ResetContended), and an *)
(* identifier that is about to be destroyed is destroyed (~UnlockDoomed).  *)

\* A thread that will wake up a sleeping locker, or take the lock in a way
\* that makes its next unlock do so.
Waker(t) ==
  \/ pc[t] \in {"unlock_wake", "destroy_wake"}
  \/ pc[t] = "lock" /\ ever_contended[t] /\ has_version(ver[t])

SoleResetter ==
  \A t, u \in Threads :
    t # u /\ pc[t] \in Locking /\ pc[u] \in Locking => range[t] = 0

HolderWord ==
  \A t \in Threads :
    /\ pc[t] = "holding" => butex # locked_ver + 2
    /\ pc[t] \in {"doom_wake", "doomed"} => butex = locked_ver + 2

WaitWord ==
  \A t \in Threads : pc[t] = "lock_wait" =>
    \/ expected[t] < first_ver
    \/ expected[t] = locked_ver + 1 /\ has_version(ver[t])

WaitedBefore ==
  \A t \in Threads : pc[t] \in {"lock_wait", "lock_sleep"} => ever_contended[t]

WaitersExist ==
  \A i \in 1 .. Len(lock_waiters) :
    has_version(ver[lock_waiters[i]]) \/ \E u \in Threads : pc[u] = "destroy_wake"

SomeoneWakes ==
  lock_waiters # <<>> =>
    \/ Holders # {} /\ butex \in {locked_ver + 1, locked_ver + 2}
    \/ \E t \in Threads : Waker(t)

LockInv == SoleResetter /\ HolderWord /\ WaitWord /\ WaitedBefore
             /\ WaitersExist /\ SomeoneWakes

\* A step that keeps the slot, its holder, its lockers and their wakers.
LEMMA LockFrame ==
  ASSUME IInv, LockInv, UNCHANGED <<first_ver, locked_ver, butex, lock_waiters>>,
         \A u \in Threads :
           \/ /\ pc'[u] = pc[u] /\ ver'[u] = ver[u] /\ range'[u] = range[u]
              /\ expected'[u] = expected[u]
              /\ ever_contended'[u] = ever_contended[u]
           \/ LET other == Locking \cup Holding \cup {"unlock_wake", "destroy_wake"}
              IN  pc[u] \notin other /\ pc'[u] \notin other
  PROVE  LockInv'
<1> USE DEF Locking, Holding
<1>1. \A u \in Threads :
        pc[u] \in Locking \cup Holding \cup {"unlock_wake", "destroy_wake"} =>
          /\ pc'[u] = pc[u] /\ ver'[u] = ver[u] /\ range'[u] = range[u]
          /\ expected'[u] = expected[u]
          /\ ever_contended'[u] = ever_contended[u]
  OBVIOUS
<1>2. \A u \in Threads :
        pc'[u] \in Locking \cup Holding \cup {"unlock_wake", "destroy_wake"} =>
          pc'[u] = pc[u]
  OBVIOUS
<1>3. SoleResetter' /\ HolderWord' /\ WaitedBefore'
  BY <1>1, <1>2 DEF LockInv, SoleResetter, HolderWord, WaitedBefore
<1>4. WaitWord'
  BY <1>1, <1>2 DEF LockInv, WaitWord, has_version
<1>5. WaitersExist'
  <2>1. \A i \in 1 .. Len(lock_waiters) :
          lock_waiters[i] \in Threads /\ pc[lock_waiters[i]] = "lock_sleep"
    BY Sleepers DEF IInv
  <2> QED
    BY <1>1, <2>1 DEF LockInv, WaitersExist, has_version
<1>6. \A u \in Threads : Waker(u) => Waker(u)'
  BY <1>1 DEF Waker, has_version
<1>7. Holders' = Holders
  BY <1>1, <1>2 DEF Holders
<1>8. SomeoneWakes'
  BY <1>6, <1>7 DEF LockInv, SomeoneWakes
<1> QED
  BY <1>3, <1>4, <1>5, <1>8 DEF LockInv

\* Every step keeps the lockers' invariant.
LEMMA NextLockInv ==
  ASSUME IInv, LockInv, IInv', NEW t \in Threads,
         Call(t) \/ Release(t) \/ Continue(t),
         ~WrapEnabled, ~ResetContended, ~UnlockDoomed
  PROVE  LockInv'
<1> USE DEF metaVars, waitVars, argVars
<1>a. /\ first_ver \in Nat /\ locked_ver \in Nat /\ first_ver' \in Nat
      /\ butex \in Nat /\ butex' \in Nat
      /\ locked_ver' \in Nat /\ lock_waiters \in Seq(Threads)
      /\ Len(lock_waiters) \in Nat
      /\ \A u \in Threads : expected[u] \in Nat /\ ver[u] \in Nat
      /\ \A i \in 1 .. Len(lock_waiters) :
           lock_waiters[i] \in Threads /\ pc[lock_waiters[i]] = "lock_sleep"
      /\ DOMAIN lock_waiters = 1 .. Len(lock_waiters)
  <2>1. Versions \subseteq Nat
    BY SMTT(30), BthreadIdAssumption DEF Versions
  <2> QED
    BY <2>1, Sleepers, LenProperties DEF IInv, TypeOK
<1>b. /\ \A u \in ToSet(lock_waiters) : u \in Threads /\ pc[u] = "lock_sleep"
      /\ \A u \in ToSet(join_waiters) : u \in Threads /\ pc[u] = "join_sleep"
      /\ lock_waiters # <<>> => Head(lock_waiters) \in ToSet(lock_waiters)
  BY Sleepers DEF IInv
<1>c. /\ pc \in [Threads -> Labels] /\ ver \in [Threads -> Versions]
      /\ expected \in [Threads -> Versions]
      /\ range \in [Threads -> 0 .. IdMaxRange]
      /\ ever_contended \in [Threads -> BOOLEAN]
  BY DEF IInv, TypeOK
<1>1. CASE Call(t)
  <2>1. CASE id_create_first(t)
    <3>1. \A u \in Threads : u # t =>
            /\ pc'[u] = pc[u] /\ ver'[u] = ver[u] /\ range'[u] = range[u]
            /\ expected'[u] = expected[u]
            /\ ever_contended'[u] = ever_contended[u]
      BY <2>1, <1>c DEF id_create_first, Goto, Begin, SetLocals
    <3>2. pc'[t] = "create_locked" /\ pc[t] = "idle"
      BY <2>1, <1>c DEF id_create_first, Goto, Begin, SetLocals
    <3>3. \A u \in Threads : pc[u] \notin Owning /\ ~has_version(ver[u])
      BY SMTT(30), <2>1, <1>a DEF id_create_first, IInv, PhaseInv, Quiet, Empty, has_version
    <3>4. lock_waiters = <<>>
      <4> SUFFICES ASSUME 1 \in 1 .. Len(lock_waiters) PROVE FALSE
        BY SMTT(30), <1>a, EmptySeq, LenProperties
      <4>1. lock_waiters[1] # t /\ lock_waiters[1] \in Threads
        BY <1>a, <3>2
      <4>2. \A u \in Threads : pc[u] # "destroy_wake"
        BY <3>2, <3>3 DEF Owning, Destroying
      <4> QED
        BY <3>3, <4>1, <4>2 DEF LockInv, WaitersExist
    <3>5. first_ver <= first_ver'
      BY <2>1, FirstVerGrows DEF Next, Call
    <3>6. lock_waiters' = <<>> /\ Len(lock_waiters') = 0
      BY <2>1, <3>4 DEF id_create_first
    <3>7. SoleResetter' /\ WaitedBefore'
      BY <3>1, <3>2 DEF LockInv, SoleResetter, WaitedBefore, Locking
    <3>8. HolderWord'
      BY <3>1, <3>2, <3>3 DEF HolderWord, Owning, Holding
    <3>9. WaitWord'
      BY SMTT(30), <1>a, <3>1, <3>2, <3>3, <3>5 DEF LockInv, WaitWord
    <3>10. WaitersExist' /\ SomeoneWakes'
      <4>1. \A i \in 1 .. Len(lock_waiters') : FALSE
        BY SMTT(30), <3>6
      <4> QED
        BY <3>6, <4>1 DEF WaitersExist, SomeoneWakes
    <3> QED
      BY <3>7, <3>8, <3>9, <3>10 DEF LockInv
  <2>2. CASE publish(t)
    BY <2>2, <1>c, LockFrame DEF publish, Goto, Begin, Return, SetLocals, Locking, Holding
  <2>3. CASE bthread_id_cancel(t)
    <3>1. \A u \in Threads : u # t =>
            /\ pc'[u] = pc[u] /\ ver'[u] = ver[u] /\ range'[u] = range[u]
            /\ expected'[u] = expected[u]
            /\ ever_contended'[u] = ever_contended[u]
      BY <2>3, <1>c DEF bthread_id_cancel, Goto, Return, Begin, SetLocals
    <3>2. pc'[t] = "idle" /\ pc[t] = "created"
      BY <2>3, <1>c DEF bthread_id_cancel, Goto, Return, Begin, SetLocals
    <3>3. \A u \in Threads : u # t => pc[u] \notin Owning /\ ~has_version(ver[u])
      BY SMTT(30), <1>a, <3>2 DEF IInv, OneOwner, Owning, Creating, IssuedInv, has_version
    <3>4. lock_waiters = <<>>
      <4> SUFFICES ASSUME 1 \in 1 .. Len(lock_waiters) PROVE FALSE
        BY SMTT(30), <1>a, EmptySeq, LenProperties
      <4>1. lock_waiters[1] # t /\ lock_waiters[1] \in Threads
        BY <1>a, <3>2
      <4>2. \A u \in Threads : pc[u] # "destroy_wake"
        BY <3>2, <3>3 DEF Owning, Destroying
      <4> QED
        BY <3>3, <4>1, <4>2 DEF LockInv, WaitersExist
    <3>5. first_ver <= first_ver'
      BY <2>3, FirstVerGrows DEF Next, Call, Continue
    <3>6. lock_waiters' = <<>> /\ Len(lock_waiters') = 0
      BY <2>3, <3>4 DEF bthread_id_cancel
    <3>7. SoleResetter' /\ WaitedBefore'
      BY <3>1, <3>2 DEF LockInv, SoleResetter, WaitedBefore, Locking
    <3>8. HolderWord'
      BY <3>1, <3>2, <3>3 DEF HolderWord, Owning, Holding
    <3>9. WaitWord'
      BY SMTT(30), <1>a, <3>1, <3>2, <3>3, <3>5 DEF LockInv, WaitWord
    <3>10. WaitersExist' /\ SomeoneWakes'
      <4>1. \A i \in 1 .. Len(lock_waiters') : FALSE
        BY SMTT(30), <3>6
      <4> QED
        BY <3>6, <4>1 DEF WaitersExist, SomeoneWakes
    <3> QED
      BY <3>7, <3>8, <3>9, <3>10 DEF LockInv
  <2>4. CASE lock_call(t)
    <3>1. \A u \in Threads : u # t =>
            /\ pc'[u] = pc[u] /\ ver'[u] = ver[u] /\ range'[u] = range[u]
            /\ expected'[u] = expected[u]
            /\ ever_contended'[u] = ever_contended[u]
      BY <2>4, <1>c DEF lock_call, Goto, Begin, SetLocals
    <3>2. /\ pc[t] = "idle" /\ pc'[t] = "lock"
          /\ UNCHANGED <<first_ver, locked_ver, butex, lock_waiters>>
          /\ \A u \in Threads : u # t /\ pc[u] \in Locking =>
               range'[t] = 0 /\ range[u] = 0
      BY <2>4, <1>c DEF lock_call, Goto, Begin, SetLocals, MayLock
    <3>3. SoleResetter' /\ WaitedBefore' /\ HolderWord'
      BY <3>1, <3>2 DEF LockInv, SoleResetter, WaitedBefore, HolderWord, Locking
    <3>4. WaitWord'
      BY <3>1, <3>2 DEF LockInv, WaitWord, has_version
    <3>5. WaitersExist'
      <4>1. \A u \in Threads : pc[u] = "destroy_wake" => pc'[u] = "destroy_wake"
        BY <3>1, <3>2
      <4>2. \A i \in 1 .. Len(lock_waiters) : ver'[lock_waiters[i]] = ver[lock_waiters[i]]
        BY <1>a, <3>1, <3>2
      <4>3. lock_waiters' = lock_waiters /\ \A v \in Nat : has_version(v) => has_version(v)'
        BY <3>2 DEF has_version
      <4>4. \A i \in 1 .. Len(lock_waiters) : ver[lock_waiters[i]] \in Nat
        BY <1>a
      <4> QED
        BY <4>1, <4>2, <4>3, <4>4 DEF LockInv, WaitersExist, has_version
    <3>6. SomeoneWakes'
      <4>1. \A u \in Threads : Waker(u) => Waker(u)'
        BY <3>1, <3>2 DEF Waker, has_version
      <4>2. Holders \subseteq Holders'
        BY <3>1, <3>2 DEF Holders, Holding
      <4> QED
        BY <3>2, <4>1, <4>2 DEF LockInv, SomeoneWakes
    <3> QED
      BY <3>3, <3>4, <3>5, <3>6 DEF LockInv
  <2>5. CASE bthread_id_trylock(t)
    <3>1. \A u \in Threads : u # t =>
            /\ pc'[u] = pc[u] /\ ver'[u] = ver[u] /\ range'[u] = range[u]
            /\ expected'[u] = expected[u]
            /\ ever_contended'[u] = ever_contended[u]
      BY <2>5, <1>c DEF bthread_id_trylock, LockUncontended, Goto, Begin, SetLocals
    <3>2. /\ pc[t] = "idle" /\ pc'[t] = "holding" /\ butex = first_ver
          /\ butex' = locked_ver /\ UNCHANGED <<first_ver, locked_ver, lock_waiters>>
      BY <2>5, <1>c DEF bthread_id_trylock, LockUncontended, Goto, Begin, SetLocals
    <3>3. PICK id \in issued : has_version(id)
      BY <2>5 DEF bthread_id_trylock, LockUncontended
    <3>4. Quiet /\ Live
      BY <3>2, <3>3, UnlockedSlot
    <3>5. SoleResetter' /\ WaitedBefore'
      BY <3>1, <3>2 DEF LockInv, SoleResetter, WaitedBefore, Locking
    <3>6. HolderWord'
      BY SMTT(30), <1>a, <3>1, <3>2, <3>4 DEF HolderWord, Quiet, Owning, Holding
    <3>7. WaitWord'
      BY <3>1, <3>2 DEF LockInv, WaitWord, has_version
    <3>8. WaitersExist'
      <4>1. \A u \in Threads : pc[u] = "destroy_wake" => pc'[u] = "destroy_wake"
        BY <3>1, <3>2
      <4>2. \A i \in 1 .. Len(lock_waiters) : ver'[lock_waiters[i]] = ver[lock_waiters[i]]
        BY <1>a, <3>1, <3>2
      <4>3. lock_waiters' = lock_waiters /\ \A v \in Nat : has_version(v) => has_version(v)'
        BY <3>2 DEF has_version
      <4>4. \A i \in 1 .. Len(lock_waiters) : ver[lock_waiters[i]] \in Nat
        BY <1>a
      <4> QED
        BY <4>1, <4>2, <4>3, <4>4 DEF LockInv, WaitersExist, has_version
    <3>9. SomeoneWakes'
      <4>1. butex \notin {locked_ver + 1, locked_ver + 2}
        BY SMTT(30), <1>a, <3>2, <3>4 DEF Live
      <4>2. \A u \in Threads : Waker(u) => Waker(u)'
        BY <3>1, <3>2 DEF Waker, has_version
      <4> QED
        BY <3>2, <4>1, <4>2 DEF LockInv, SomeoneWakes
    <3> QED
      BY <3>5, <3>6, <3>7, <3>8, <3>9 DEF LockInv
  <2>6. CASE error2_run_on_error(t)
    <3>1. \A u \in Threads : u # t =>
            /\ pc'[u] = pc[u] /\ ver'[u] = ver[u] /\ range'[u] = range[u]
            /\ expected'[u] = expected[u]
            /\ ever_contended'[u] = ever_contended[u]
      BY <2>6, <1>c DEF error2_run_on_error, LockUncontended, Goto, Begin, SetLocals
    <3>2. /\ pc[t] = "idle" /\ pc'[t] = "holding" /\ butex = first_ver
          /\ butex' = locked_ver /\ UNCHANGED <<first_ver, locked_ver, lock_waiters>>
      BY <2>6, <1>c DEF error2_run_on_error, LockUncontended, Goto, Begin, SetLocals
    <3>3. PICK id \in issued : has_version(id)
      BY <2>6 DEF error2_run_on_error, LockUncontended
    <3>4. Quiet /\ Live
      BY <3>2, <3>3, UnlockedSlot
    <3>5. SoleResetter' /\ WaitedBefore'
      BY <3>1, <3>2 DEF LockInv, SoleResetter, WaitedBefore, Locking
    <3>6. HolderWord'
      BY SMTT(30), <1>a, <3>1, <3>2, <3>4 DEF HolderWord, Quiet, Owning, Holding
    <3>7. WaitWord'
      BY <3>1, <3>2 DEF LockInv, WaitWord, has_version
    <3>8. WaitersExist'
      <4>1. \A u \in Threads : pc[u] = "destroy_wake" => pc'[u] = "destroy_wake"
        BY <3>1, <3>2
      <4>2. \A i \in 1 .. Len(lock_waiters) : ver'[lock_waiters[i]] = ver[lock_waiters[i]]
        BY <1>a, <3>1, <3>2
      <4>3. lock_waiters' = lock_waiters /\ \A v \in Nat : has_version(v) => has_version(v)'
        BY <3>2 DEF has_version
      <4>4. \A i \in 1 .. Len(lock_waiters) : ver[lock_waiters[i]] \in Nat
        BY <1>a
      <4> QED
        BY <4>1, <4>2, <4>3, <4>4 DEF LockInv, WaitersExist, has_version
    <3>9. SomeoneWakes'
      <4>1. butex \notin {locked_ver + 1, locked_ver + 2}
        BY SMTT(30), <1>a, <3>2, <3>4 DEF Live
      <4>2. \A u \in Threads : Waker(u) => Waker(u)'
        BY <3>1, <3>2 DEF Waker, has_version
      <4> QED
        BY <3>2, <4>1, <4>2 DEF LockInv, SomeoneWakes
    <3> QED
      BY <3>5, <3>6, <3>7, <3>8, <3>9 DEF LockInv
  <2>7. CASE error2_pend(t)
    BY <2>7, <1>c, LockFrame DEF error2_pend, Goto, Begin, Return, SetLocals, Locking, Holding
  <2>8. CASE bthread_id_about_to_destroy(t)
    <3>1. \A u \in Threads : u # t =>
            /\ pc'[u] = pc[u] /\ ver'[u] = ver[u] /\ range'[u] = range[u]
            /\ expected'[u] = expected[u]
            /\ ever_contended'[u] = ever_contended[u]
      BY <2>8, <1>c DEF bthread_id_about_to_destroy, Goto
    <3>2. /\ pc[t] = "holding" /\ pc'[t] \in {"doom_wake", "doomed"}
          /\ ver' = ver
          /\ UNCHANGED <<first_ver, locked_ver, lock_waiters>>
      BY <2>8, <1>c DEF bthread_id_about_to_destroy, Goto
    <3>3. butex' = locked_ver + 2
      BY <2>8, LiveVersions
      DEF bthread_id_about_to_destroy, IInv, PhaseInv, Holding
    <3>4. SoleResetter' /\ WaitedBefore'
      BY <3>1, <3>2 DEF LockInv, SoleResetter, WaitedBefore, Locking
    <3>5. HolderWord'
      BY <3>1, <3>2, <3>3 DEF HolderWord, IInv, OneOwner, Owning, Holding
    <3>6. WaitWord'
      BY <3>1, <3>2 DEF LockInv, WaitWord, has_version
    <3>7. WaitersExist'
      <4>1. \A u \in Threads : pc[u] = "destroy_wake" => pc'[u] = "destroy_wake"
        BY <3>1, <3>2
      <4>2. \A i \in 1 .. Len(lock_waiters) : ver'[lock_waiters[i]] = ver[lock_waiters[i]]
        BY <1>a, <3>1, <3>2
      <4>3. lock_waiters' = lock_waiters /\ \A v \in Nat : has_version(v) => has_version(v)'
        BY <3>2 DEF has_version
      <4>4. \A i \in 1 .. Len(lock_waiters) : ver[lock_waiters[i]] \in Nat
        BY <1>a
      <4> QED
        BY <4>1, <4>2, <4>3, <4>4 DEF LockInv, WaitersExist, has_version
    <3>8. SomeoneWakes'
      BY <3>2, <3>3 DEF SomeoneWakes, Holders, Holding
    <3> QED
      BY <3>4, <3>5, <3>6, <3>7, <3>8 DEF LockInv
  <2>9. CASE join_call(t)
    BY <2>9, <1>c, LockFrame DEF join_call, Goto, Begin, Return, SetLocals, Locking, Holding
  <2>10. CASE lock_interrupted(t)
    <3>1. \A u \in Threads : u # t =>
            /\ pc'[u] = pc[u] /\ ver'[u] = ver[u] /\ range'[u] = range[u]
            /\ expected'[u] = expected[u]
            /\ ever_contended'[u] = ever_contended[u]
      BY <2>10, <1>c DEF lock_interrupted, Goto
    <3>2. /\ pc[t] = "lock_sleep" /\ pc'[t] = "lock"
          /\ UNCHANGED <<first_ver, locked_ver, butex, ver, range, ever_contended>>
      BY <2>10, <1>c DEF lock_interrupted, Goto
    <3>3. SoleResetter' /\ WaitedBefore' /\ HolderWord'
      BY <3>1, <3>2 DEF LockInv, SoleResetter, WaitedBefore, HolderWord, Locking
    <3>4. WaitWord'
      BY <3>1, <3>2 DEF LockInv, WaitWord, has_version
    <3>5. PICK n \in 1 .. Len(lock_waiters) : lock_waiters' = RemoveAt(lock_waiters, n)
      BY <2>10, <1>a DEF lock_interrupted
    <3>6. \A i \in 1 .. Len(lock_waiters') :
            \E k \in 1 .. Len(lock_waiters) : lock_waiters'[i] = lock_waiters[k]
      <4>1. \A i, j \in 1 .. Len(lock_waiters) : lock_waiters[i] = lock_waiters[j] => i = j
        BY DEF IInv, QueueInv
      <4>2. \A i \in 1 .. Len(RemoveAt(lock_waiters, n)) :
              \E k \in 1 .. Len(lock_waiters) : RemoveAt(lock_waiters, n)[i] = lock_waiters[k]
        BY SMTT(30), <1>a, <4>1, RemoveOnce
      <4> QED
        BY <3>5, <4>2
    <3>7. /\ \A u \in Threads : Waker(u) => Waker(u)'
          /\ Holders \subseteq Holders'
          /\ \A u \in Threads : pc[u] = "destroy_wake" => pc'[u] = "destroy_wake"
      BY <3>1, <3>2 DEF Waker, has_version, Holders, Holding
    <3>8. WaitersExist'
      BY <1>a, <3>2, <3>6, <3>7 DEF LockInv, WaitersExist, has_version
    <3>9. SomeoneWakes'
      <4>1. lock_waiters # <<>>
        BY SMTT(30), <1>a, <3>5, EmptySeq
      <4> QED
        BY <3>2, <3>7, <4>1 DEF LockInv, SomeoneWakes
    <3> QED
      BY <3>3, <3>4, <3>8, <3>9 DEF LockInv
  <2>11. CASE join_interrupted(t)
    BY <2>11, <1>c, LockFrame DEF join_interrupted, Goto, Begin, Return, SetLocals, Locking, Holding
  <2> QED
    BY <1>1, <2>1, <2>2, <2>3, <2>4, <2>5, <2>6, <2>7, <2>8, <2>9, <2>10, <2>11
    DEF Call
<1>2. CASE Release(t)
  <2>1. CASE unlock_run_on_error(t)
    <3>1. \A u \in Threads : u # t =>
            /\ pc'[u] = pc[u] /\ ver'[u] = ver[u] /\ range'[u] = range[u]
            /\ expected'[u] = expected[u]
            /\ ever_contended'[u] = ever_contended[u]
      BY <2>1, <1>c DEF unlock_run_on_error, Goto, Begin, SetLocals
    <3>2. /\ pc[t] = "holding" /\ pc'[t] = "holding"
          /\ UNCHANGED <<first_ver, locked_ver, butex, lock_waiters>>
      BY <2>1, <1>c DEF unlock_run_on_error, MayUnlock, Goto, Begin
    <3>3. SoleResetter' /\ WaitedBefore' /\ HolderWord'
      BY <3>1, <3>2 DEF LockInv, SoleResetter, WaitedBefore, HolderWord, Locking
    <3>4. WaitWord'
      BY <3>1, <3>2 DEF LockInv, WaitWord, has_version
    <3>5. WaitersExist'
      <4>1. \A u \in Threads : pc[u] = "destroy_wake" => pc'[u] = "destroy_wake"
        BY <3>1, <3>2
      <4>2. \A i \in 1 .. Len(lock_waiters) : ver'[lock_waiters[i]] = ver[lock_waiters[i]]
        BY <1>a, <3>1, <3>2
      <4>3. lock_waiters' = lock_waiters /\ \A v \in Nat : has_version(v) => has_version(v)'
        BY <3>2 DEF has_version
      <4>4. \A i \in 1 .. Len(lock_waiters) : ver[lock_waiters[i]] \in Nat
        BY <1>a
      <4> QED
        BY <4>1, <4>2, <4>3, <4>4 DEF LockInv, WaitersExist, has_version
    <3>6. SomeoneWakes'
      <4>1. \A u \in Threads : Waker(u) => Waker(u)'
        BY <3>1, <3>2 DEF Waker, has_version
      <4>2. Holders \subseteq Holders'
        BY <3>1, <3>2 DEF Holders, Holding
      <4> QED
        BY <3>2, <4>1, <4>2 DEF LockInv, SomeoneWakes
    <3> QED
      BY <3>3, <3>4, <3>5, <3>6 DEF LockInv
  <2>2. CASE bthread_id_unlock(t)
    <3>1. \A u \in Threads : u # t =>
            /\ pc'[u] = pc[u] /\ ver'[u] = ver[u] /\ range'[u] = range[u]
            /\ expected'[u] = expected[u]
            /\ ever_contended'[u] = ever_contended[u]
      BY <2>2, <1>c DEF bthread_id_unlock, Goto, Begin, SetLocals
    <3>2. /\ pc[t] = "holding" /\ pc'[t] \in {"unlock_wake", "idle"}
          /\ butex = contended_ver => pc'[t] = "unlock_wake"
          /\ UNCHANGED <<first_ver, locked_ver, lock_waiters>>
      BY <2>2, <1>c DEF bthread_id_unlock, MayUnlock, Goto, Begin
    <3>3. contended_ver = locked_ver + 1
      BY <3>2, LiveVersions DEF IInv, PhaseInv, Holding
    <3>4. SoleResetter' /\ WaitedBefore'
      BY <3>1, <3>2 DEF LockInv, SoleResetter, WaitedBefore, Locking
    <3>5. HolderWord'
      BY <3>1, <3>2 DEF HolderWord, IInv, OneOwner, Owning, Holding
    <3>6. WaitWord'
      BY <3>1, <3>2 DEF LockInv, WaitWord, has_version
    <3>7. WaitersExist'
      <4>1. \A u \in Threads : pc[u] = "destroy_wake" => pc'[u] = "destroy_wake"
        BY <3>1, <3>2
      <4>2. \A i \in 1 .. Len(lock_waiters) : ver'[lock_waiters[i]] = ver[lock_waiters[i]]
        BY <1>a, <3>1, <3>2
      <4>3. lock_waiters' = lock_waiters /\ \A v \in Nat : has_version(v) => has_version(v)'
        BY <3>2 DEF has_version
      <4>4. \A i \in 1 .. Len(lock_waiters) : ver[lock_waiters[i]] \in Nat
        BY <1>a
      <4> QED
        BY <4>1, <4>2, <4>3, <4>4 DEF LockInv, WaitersExist, has_version
    <3>8. SomeoneWakes'
      <4>1. CASE butex = locked_ver + 1
        BY <3>2, <3>3, <4>1 DEF SomeoneWakes, Waker
      <4>2. CASE butex # locked_ver + 1
        <5>1. butex # locked_ver + 2
          BY <3>2 DEF LockInv, HolderWord
        <5>2. \A u \in Threads : Waker(u) => Waker(u)'
          BY <3>1, <3>2 DEF Waker, has_version
        <5> QED
          BY <3>2, <4>2, <5>1, <5>2 DEF LockInv, SomeoneWakes
      <4> QED
        BY <4>1, <4>2
    <3> QED
      BY <3>4, <3>5, <3>6, <3>7, <3>8 DEF LockInv
  <2>3. CASE bthread_id_unlock_and_destroy(t)
    <3>1. \A u \in Threads : u # t =>
            /\ pc'[u] = pc[u] /\ ver'[u] = ver[u] /\ range'[u] = range[u]
            /\ expected'[u] = expected[u]
            /\ ever_contended'[u] = ever_contended[u]
      BY <2>3, <1>c DEF bthread_id_unlock_and_destroy, Goto, Begin, SetLocals
    <3>2. pc[t] \in Holding /\ pc'[t] = "destroy_wake" /\ lock_waiters' = lock_waiters
      BY <2>3, <1>c DEF bthread_id_unlock_and_destroy, Goto, Begin, Holding
    <3>3. first_ver' = locked_ver + 3 /\ first_ver < locked_ver
      BY <2>3, <3>2, LiveVersions
      DEF bthread_id_unlock_and_destroy, IInv, PhaseInv, Live
    <3>4. SoleResetter' /\ WaitedBefore'
      BY <3>1, <3>2 DEF LockInv, SoleResetter, WaitedBefore, Locking
    <3>5. HolderWord'
      BY <3>1, <3>2 DEF HolderWord, IInv, OneOwner, Owning, Holding
    <3>6. WaitWord'
      BY SMTT(30), <1>a, <3>1, <3>2, <3>3 DEF LockInv, WaitWord
    <3>7. WaitersExist' /\ SomeoneWakes'
      BY <3>2 DEF WaitersExist, SomeoneWakes, Waker
    <3> QED
      BY <3>4, <3>5, <3>6, <3>7 DEF LockInv
  <2> QED
    BY <1>2, <2>1, <2>2, <2>3
    DEF Release
<1>3. CASE Continue(t)
  <2>1. CASE id_create_locked(t)
    <3>1. \A u \in Threads : u # t =>
            /\ pc'[u] = pc[u] /\ ver'[u] = ver[u] /\ range'[u] = range[u]
            /\ expected'[u] = expected[u]
            /\ ever_contended'[u] = ever_contended[u]
      BY <2>1, <1>c DEF id_create_locked, Goto
    <3>2. pc'[t] = "created" /\ pc[t] = "create_locked"
      BY <2>1, <1>c DEF id_create_locked, Goto
    <3>3. \A u \in Threads : u # t => pc[u] \notin Owning /\ ~has_version(ver[u])
      BY SMTT(30), <1>a, <3>2 DEF IInv, OneOwner, Owning, Creating, IssuedInv, has_version
    <3>4. lock_waiters = <<>>
      <4> SUFFICES ASSUME 1 \in 1 .. Len(lock_waiters) PROVE FALSE
        BY SMTT(30), <1>a, EmptySeq, LenProperties
      <4>1. lock_waiters[1] # t /\ lock_waiters[1] \in Threads
        BY <1>a, <3>2
      <4>2. \A u \in Threads : pc[u] # "destroy_wake"
        BY <3>2, <3>3 DEF Owning, Destroying
      <4> QED
        BY <3>3, <4>1, <4>2 DEF LockInv, WaitersExist
    <3>5. first_ver <= first_ver'
      BY <2>1, FirstVerGrows DEF Next, Call, Continue
    <3>6. lock_waiters' = <<>> /\ Len(lock_waiters') = 0
      BY <2>1, <3>4 DEF id_create_locked
    <3>7. SoleResetter' /\ WaitedBefore'
      BY <3>1, <3>2 DEF LockInv, SoleResetter, WaitedBefore, Locking
    <3>8. HolderWord'
      BY <3>1, <3>2, <3>3 DEF HolderWord, Owning, Holding
    <3>9. WaitWord'
      BY SMTT(30), <1>a, <3>1, <3>2, <3>3, <3>5 DEF LockInv, WaitWord
    <3>10. WaitersExist' /\ SomeoneWakes'
      <4>1. \A i \in 1 .. Len(lock_waiters') : FALSE
        BY SMTT(30), <3>6
      <4> QED
        BY <3>6, <4>1 DEF WaitersExist, SomeoneWakes
    <3> QED
      BY <3>7, <3>8, <3>9, <3>10 DEF LockInv
  <2>2. CASE lock_acquire(t)
    <3>1. \A u \in Threads : u # t =>
            /\ pc'[u] = pc[u] /\ ver'[u] = ver[u] /\ range'[u] = range[u]
            /\ expected'[u] = expected[u]
            /\ ever_contended'[u] = ever_contended[u]
      BY <2>2, <1>c DEF lock_acquire, Goto, Begin, SetLocals
    <3>2. /\ pc[t] = "lock" /\ pc'[t] = "holding" /\ butex = first_ver
          /\ has_version(ver[t]) /\ UNCHANGED <<first_ver, lock_waiters>>
      BY <2>2, <1>c DEF lock_acquire, Goto, Begin
    <3>3. Quiet /\ Live
      BY <3>2, UnlockedSlot DEF IInv, IssuedInv, Creating
    <3>4. /\ locked_ver <= locked_ver' /\ locked_ver' + 3 < VerMod
          /\ range[t] = 0 => locked_ver' = locked_ver
      <4>1. IdMaxRange \in Nat /\ VerMod \in Nat /\ range[t] \in Nat
            /\ range[t] <= IdMaxRange
        BY SMTT(30), <1>c, BthreadIdAssumption
      <4>2. first_ver \in Nat
        BY <1>a
      <4>3. first_ver + range[t] < VerMod /\ range[t] + first_ver < VerMod
        BY SMTT(30), <3>3, <4>1, <4>2 DEF Live, Room
      <4>4. /\ Plus(first_ver, range[t]) = first_ver + range[t]
            /\ Plus(range[t], first_ver) = first_ver + range[t]
        BY SMTT(30), <4>1, <4>2, <4>3, PlusNoWrap
      <4> QED
        BY SMTT(30), <2>2, <1>a, <3>3, <4>1, <4>4 DEF lock_acquire, Live, Room
    <3>5. butex' = IF ever_contended[t] THEN locked_ver' + 1 ELSE locked_ver'
      <4>0. VerMod \in Nat
        BY BthreadIdAssumption
      <4>1. locked_ver' \in Nat
        BY <1>a
      <4>2. 1 \in Nat /\ locked_ver' + 1 < VerMod
        <5>1. locked_ver' + 3 < VerMod
          BY <3>4
        <5>2. \A a, b \in Nat : a + 3 < b => a + 1 < b
          BY SMTT(30)
        <5>3. 1 \in Nat
          BY SMTT(30)
        <5> QED
          BY <4>0, <4>1, <5>1, <5>2, <5>3
      <4>3. Plus(locked_ver', 1) = locked_ver' + 1
        BY <4>1, <4>2, PlusNoWrap
      <4> QED
        BY <2>2, <4>3 DEF lock_acquire
    <3>6. SoleResetter' /\ WaitedBefore'
      BY <3>1, <3>2 DEF LockInv, SoleResetter, WaitedBefore, Locking
    <3>7. HolderWord'
      <4>1. \A u \in Threads :
              pc'[u] \notin {"doom_wake", "doomed"} /\ (pc'[u] = "holding" => u = t)
        BY <3>1, <3>2, <3>3 DEF Quiet, Owning, Holding
      <4>2. locked_ver' \in Nat
        BY <1>a
      <4>3. \A a \in Nat : a # a + 2 /\ a + 1 # a + 2
        BY SMTT(30)
      <4>4. butex' # locked_ver' + 2
        BY <3>5, <4>2, <4>3
      <4> QED
        BY <4>1, <4>4 DEF HolderWord
    <3>8. WaitWord'
      <4> SUFFICES ASSUME NEW u \in Threads, pc'[u] = "lock_wait"
                   PROVE  \/ expected'[u] < first_ver'
                          \/ expected'[u] = locked_ver' + 1 /\ has_version(ver[u])'
        BY DEF WaitWord
      <4>1. u # t /\ pc[u] = "lock_wait"
        BY <3>1, <3>2
      <4>2. locked_ver' = locked_ver
        BY <3>2, <3>4, <4>1 DEF LockInv, SoleResetter, Locking
      <4> QED
        BY <3>1, <3>2, <4>1, <4>2 DEF LockInv, WaitWord, has_version
    <3>9. WaitersExist'
      <4>1. \A u \in Threads : pc[u] = "destroy_wake" => pc'[u] = "destroy_wake"
        BY <3>1, <3>2
      <4>2. \A i \in 1 .. Len(lock_waiters) : ver'[lock_waiters[i]] = ver[lock_waiters[i]]
        BY <1>a, <3>1, <3>2
      <4>3. lock_waiters' = lock_waiters /\ \A v \in Nat : has_version(v) => has_version(v)'
        BY SMTT(30), <1>a, <3>2, <3>4 DEF has_version
      <4>4. \A i \in 1 .. Len(lock_waiters) : ver[lock_waiters[i]] \in Nat
        BY <1>a
      <4> QED
        BY <4>1, <4>2, <4>3, <4>4 DEF LockInv, WaitersExist, has_version
    <3>10. SomeoneWakes'
      <4>1. CASE ever_contended[t]
        BY <3>2, <3>5, <4>1 DEF SomeoneWakes, Holders, Holding
      <4>2. CASE ~ever_contended[t]
        <5>1. butex \notin {locked_ver + 1, locked_ver + 2}
          BY SMTT(30), <1>a, <3>2, <3>3 DEF Live
        <5>2. \A u \in Threads : Waker(u) => Waker(u)'
          <6> SUFFICES ASSUME NEW u \in Threads, Waker(u) PROVE Waker(u)'
            OBVIOUS
          <6>1. u # t
            BY <3>2, <4>2 DEF Waker
          <6> QED
            BY SMTT(30), <1>a, <3>1, <3>2, <3>4, <6>1 DEF Waker, has_version
        <5> QED
          BY <3>2, <5>1, <5>2 DEF LockInv, SomeoneWakes
      <4> QED
        BY <4>1, <4>2
    <3> QED
      BY <3>6, <3>7, <3>8, <3>9, <3>10 DEF LockInv
  <2>3. CASE lock_contend(t)
    <3>1. \A u \in Threads : u # t =>
            /\ pc'[u] = pc[u] /\ ver'[u] = ver[u] /\ range'[u] = range[u]
            /\ expected'[u] = expected[u]
            /\ ever_contended'[u] = ever_contended[u]
      BY <2>3, <1>c DEF lock_contend, Goto, SetLocals
    <3>2. /\ pc[t] = "lock" /\ pc'[t] = "lock_wait" /\ ver'[t] = ver[t]
          /\ range'[t] = range[t] /\ expected'[t] = contended_ver
          /\ ever_contended'[t] = TRUE /\ has_version(ver[t])
          /\ butex' = contended_ver /\ butex # first_ver /\ butex # unlockable_ver
          /\ UNCHANGED <<first_ver, locked_ver, lock_waiters>>
      BY <2>3, <1>c DEF lock_contend, Goto, SetLocals
    <3>3. PICK h \in Threads : pc[h] \in Holding
      BY <3>2, LockedSlot DEF IInv, IssuedInv, Creating
    <3>4. /\ contended_ver = locked_ver + 1 /\ unlockable_ver = locked_ver + 2
          /\ first_ver < locked_ver
      BY <3>3, LiveVersions DEF IInv, PhaseInv, Live
    <3>5. SoleResetter' /\ WaitedBefore'
      BY SMTT(30), <3>1, <3>2 DEF LockInv, SoleResetter, WaitedBefore, Locking
    <3>6. HolderWord'
      BY SMTT(30), <1>a, <3>1, <3>2, <3>4 DEF LockInv, HolderWord
    <3>7. WaitWord'
      BY <3>1, <3>2, <3>4 DEF LockInv, WaitWord, has_version
    <3>8. WaitersExist'
      <4>1. \A u \in Threads : pc[u] = "destroy_wake" => pc'[u] = "destroy_wake"
        BY <3>1, <3>2
      <4>2. \A i \in 1 .. Len(lock_waiters) : ver'[lock_waiters[i]] = ver[lock_waiters[i]]
        BY <1>a, <3>1, <3>2
      <4>3. lock_waiters' = lock_waiters /\ \A v \in Nat : has_version(v) => has_version(v)'
        BY <3>2 DEF has_version
      <4>4. \A i \in 1 .. Len(lock_waiters) : ver[lock_waiters[i]] \in Nat
        BY <1>a
      <4> QED
        BY <4>1, <4>2, <4>3, <4>4 DEF LockInv, WaitersExist, has_version
    <3>9. SomeoneWakes'
      <4>1. h \in Holders'
        BY <3>1, <3>2, <3>3 DEF Holders, Holding
      <4> QED
        BY <3>2, <3>4, <4>1 DEF SomeoneWakes
    <3> QED
      BY <3>5, <3>6, <3>7, <3>8, <3>9 DEF LockInv
  <2>4. CASE lock_fail(t)
    <3>1. \A u \in Threads : u # t =>
            /\ pc'[u] = pc[u] /\ ver'[u] = ver[u] /\ range'[u] = range[u]
            /\ expected'[u] = expected[u]
            /\ ever_contended'[u] = ever_contended[u]
      BY <2>4, <1>c DEF lock_fail, Goto, Return, Begin, SetLocals
    <3>2. /\ pc[t] = "lock" /\ pc'[t] = "idle"
          /\ UNCHANGED <<first_ver, locked_ver, butex, lock_waiters>>
      BY <2>4, <1>c DEF lock_fail, Goto, Return, Begin
    <3>3. SoleResetter' /\ WaitedBefore' /\ HolderWord'
      BY <3>1, <3>2 DEF LockInv, SoleResetter, WaitedBefore, HolderWord, Locking
    <3>4. WaitWord'
      BY <3>1, <3>2 DEF LockInv, WaitWord, has_version
    <3>5. WaitersExist'
      <4>1. \A u \in Threads : pc[u] = "destroy_wake" => pc'[u] = "destroy_wake"
        BY <3>1, <3>2
      <4>2. \A i \in 1 .. Len(lock_waiters) : ver'[lock_waiters[i]] = ver[lock_waiters[i]]
        BY <1>a, <3>1, <3>2
      <4>3. lock_waiters' = lock_waiters /\ \A v \in Nat : has_version(v) => has_version(v)'
        BY <3>2 DEF has_version
      <4>4. \A i \in 1 .. Len(lock_waiters) : ver[lock_waiters[i]] \in Nat
        BY <1>a
      <4> QED
        BY <4>1, <4>2, <4>3, <4>4 DEF LockInv, WaitersExist, has_version
    <3>6. SomeoneWakes'
      <4>1. CASE has_version(ver[t])
        <5>1. butex # first_ver /\ butex = unlockable_ver
          BY <2>4, <4>1 DEF lock_fail
        <5>2. PICK h \in Threads : pc[h] \in Holding
          BY <3>2, <4>1, <5>1, LockedSlot DEF IInv, IssuedInv, Creating
        <5>3. butex = locked_ver + 2
          BY <5>1, <5>2, LiveVersions DEF IInv, PhaseInv
        <5>4. h \in Holders'
          BY <3>1, <3>2, <5>2 DEF Holders, Holding
        <5> QED
          BY <3>2, <5>3, <5>4 DEF SomeoneWakes
      <4>2. CASE ~has_version(ver[t])
        <5>1. \A u \in Threads : Waker(u) => Waker(u)'
          BY <3>1, <3>2, <4>2 DEF Waker, has_version
        <5>2. Holders \subseteq Holders'
          BY <3>1, <3>2 DEF Holders, Holding
        <5> QED
          BY <3>2, <5>1, <5>2 DEF LockInv, SomeoneWakes
      <4> QED
        BY <4>1, <4>2
    <3> QED
      BY <3>3, <3>4, <3>5, <3>6 DEF LockInv
  <2>5. CASE lock_butex_wait(t)
    <3>1. \A u \in Threads : u # t =>
            /\ pc'[u] = pc[u] /\ ver'[u] = ver[u] /\ range'[u] = range[u]
            /\ expected'[u] = expected[u]
            /\ ever_contended'[u] = ever_contended[u]
      BY <2>5, <1>c DEF lock_butex_wait, Goto, SetLocals
    <3>2. /\ pc[t] = "lock_wait" /\ pc'[t] \in {"lock_sleep", "lock"}
          /\ ver'[t] = ver[t] /\ range'[t] = range[t] /\ ever_contended'[t] = TRUE
          /\ UNCHANGED <<first_ver, locked_ver, butex>>
      BY <2>5, <1>c DEF lock_butex_wait, Goto, SetLocals
    <3>3. SoleResetter' /\ WaitedBefore' /\ HolderWord'
      BY SMTT(30), <3>1, <3>2 DEF LockInv, SoleResetter, WaitedBefore, HolderWord, Locking
    <3>4. WaitWord'
      BY <3>1, <3>2 DEF LockInv, WaitWord, has_version
    <3>5. /\ \A u \in Threads : Waker(u) => Waker(u)'
          /\ Holders \subseteq Holders'
          /\ \A u \in Threads : ver'[u] = ver[u]
          /\ \A u \in Threads : pc[u] = "destroy_wake" => pc'[u] = "destroy_wake"
      BY <3>1, <3>2 DEF Waker, has_version, Holders, Holding
    <3>6. CASE lock_waiters' = lock_waiters
      <4>1. WaitersExist'
        BY <1>a, <3>2, <3>5, <3>6 DEF LockInv, WaitersExist, has_version
      <4>2. SomeoneWakes'
        BY <3>2, <3>5, <3>6 DEF LockInv, SomeoneWakes
      <4> QED
        BY <3>3, <3>4, <4>1, <4>2 DEF LockInv
    <3>7. CASE lock_waiters' # lock_waiters
      <4>1. butex = expected[t] /\ lock_waiters' = Append(lock_waiters, t)
        BY <2>5, <3>7 DEF lock_butex_wait
      <4>2. first_ver <= butex
        BY SMTT(30), <1>a DEF IInv, PhaseInv, Quiet, Empty, Live, Owning, Creating
      <4>3. butex = locked_ver + 1 /\ has_version(ver[t])
        BY SMTT(30), <1>a, <3>2, <4>1, <4>2 DEF LockInv, WaitWord
      <4>4. butex # first_ver
        BY SMTT(30), <1>a, <4>3 DEF has_version
      <4>5. PICK h \in Threads : pc[h] \in Holding
        BY <3>2, <4>3, <4>4, LockedSlot DEF IInv, IssuedInv, Creating
      <4>6. SomeoneWakes'
        BY <3>2, <3>5, <4>3, <4>5 DEF SomeoneWakes, Holders
      <4>7. /\ Len(lock_waiters') = Len(lock_waiters) + 1
            /\ \A i \in 1 .. Len(lock_waiters) : lock_waiters'[i] = lock_waiters[i]
            /\ lock_waiters'[Len(lock_waiters) + 1] = t
        BY SMTT(30), <1>a, <4>1, AppendProperties
      <4>8. \A i \in 1 .. Len(lock_waiters') :
              i \in 1 .. Len(lock_waiters) \/ i = Len(lock_waiters) + 1
        BY SMTT(30), <1>a, <4>7
      <4>9. WaitersExist'
        <5> SUFFICES ASSUME NEW i \in 1 .. Len(lock_waiters')
                     PROVE  \/ has_version(ver[lock_waiters[i]])'
                            \/ \E u \in Threads : pc'[u] = "destroy_wake"
          BY DEF WaitersExist
        <5>1. CASE i \in 1 .. Len(lock_waiters)
          <6>1. lock_waiters'[i] = lock_waiters[i] /\ lock_waiters[i] \in Threads
            BY <1>a, <4>7, <5>1
          <6>2. \/ has_version(ver[lock_waiters[i]])
                \/ \E u \in Threads : pc[u] = "destroy_wake"
            BY <5>1 DEF LockInv, WaitersExist
          <6> QED
            BY <3>2, <3>5, <6>1, <6>2 DEF has_version
        <5>2. CASE i = Len(lock_waiters) + 1
          BY <3>2, <4>3, <4>7, <5>2 DEF has_version
        <5> QED
          BY <4>8, <5>1, <5>2
      <4> QED
        BY <3>3, <3>4, <4>6, <4>9 DEF LockInv
    <3> QED
      BY <3>6, <3>7
  <2>6. CASE unlock_wake(t)
    <3>1. CASE lock_waiters = <<>>
      <4>1. /\ pc[t] = "unlock_wake" /\ pc' = [pc EXCEPT ![t] = "idle"]
            /\ UNCHANGED <<first_ver, locked_ver, butex, ver, range, expected,
                           ever_contended, lock_waiters>>
        BY <2>6, <3>1 DEF unlock_wake, Goto
      <4>2. SoleResetter' /\ WaitedBefore' /\ HolderWord' /\ WaitWord'
        BY <1>c, <4>1 DEF LockInv, SoleResetter, WaitedBefore, HolderWord, Locking,
           WaitWord, has_version
      <4>3. \A i \in 1 .. Len(lock_waiters') : FALSE
        BY SMTT(30), <3>1, <4>1
      <4>4. WaitersExist' /\ SomeoneWakes'
        BY <3>1, <4>1, <4>3 DEF WaitersExist, SomeoneWakes
      <4> QED
        BY <4>2, <4>4 DEF LockInv
    <3>2. CASE lock_waiters # <<>>
      <4>1. PICK w \in Threads : w = Head(lock_waiters)
        BY <1>b, <3>2
      <4>2. w = lock_waiters[1] /\ 1 \in 1 .. Len(lock_waiters) /\ pc[w] = "lock_sleep"
        BY SMTT(30), <1>a, <1>b, <3>2, <4>1, HeadTailProperties, EmptySeq
      <4>3. /\ pc[t] = "unlock_wake" /\ w # t /\ lock_waiters' = Tail(lock_waiters)
            /\ pc'[t] = "idle" /\ pc'[w] = "lock"
            /\ \A u \in Threads : u # t /\ u # w => pc'[u] = pc[u]
            /\ UNCHANGED <<first_ver, locked_ver, butex, ver, range, expected,
                           ever_contended>>
        BY <2>6, <1>c, <3>2, <4>1, <4>2 DEF unlock_wake
      <4>4. SoleResetter' /\ WaitedBefore' /\ HolderWord'
        BY <4>2, <4>3 DEF LockInv, SoleResetter, WaitedBefore, HolderWord, Locking
      <4>5. WaitWord'
        BY <4>2, <4>3 DEF LockInv, WaitWord, has_version
      <4>6. \A u \in Threads : pc[u] = "destroy_wake" => pc'[u] = "destroy_wake"
        BY <4>2, <4>3
      <4>7. WaitersExist'
        <5>1. \A i, j \in 1 .. Len(lock_waiters) : lock_waiters[i] = lock_waiters[j] => i = j
          BY DEF IInv, QueueInv
        <5>2. \A i \in 1 .. Len(lock_waiters') :
                \E k \in 1 .. Len(lock_waiters) : lock_waiters'[i] = lock_waiters[k]
          BY SMTT(30), <1>a, <3>2, <4>3, <5>1, TailOnce
        <5> QED
          BY <4>3, <4>6, <5>2 DEF LockInv, WaitersExist, has_version
      <4>8. SomeoneWakes'
        <5>1. ever_contended[w]
          BY <4>2 DEF LockInv, WaitedBefore
        <5>2. CASE has_version(ver[w])
          BY <4>3, <5>1, <5>2 DEF SomeoneWakes, Waker, has_version
        <5>3. CASE ~has_version(ver[w])
          <6>1. PICK u \in Threads : pc[u] = "destroy_wake"
            BY <4>2, <5>3 DEF LockInv, WaitersExist
          <6> QED
            BY <4>6, <6>1 DEF SomeoneWakes, Waker
        <5> QED
          BY <5>2, <5>3
      <4> QED
        BY <4>4, <4>5, <4>7, <4>8 DEF LockInv
    <3> QED
      BY <3>1, <3>2
  <2>7. CASE about_to_destroy_wake(t)
    <3>1. /\ pc[t] = "doom_wake" /\ pc'[t] = "doomed" /\ lock_waiters' = <<>>
          /\ \A u \in Threads : u # t =>
               pc'[u] = IF u \in ToSet(lock_waiters) THEN "lock" ELSE pc[u]
          /\ UNCHANGED <<first_ver, locked_ver, butex, ver, range, expected,
                         ever_contended>>
      BY <2>7 DEF about_to_destroy_wake, WakeLockers
    <3>2. \A u \in Threads :
            u # t => pc'[u] = pc[u] \/ (pc[u] = "lock_sleep" /\ pc'[u] = "lock")
      BY <1>b, <3>1
    <3>3. SoleResetter' /\ WaitedBefore' /\ HolderWord'
      BY <3>1, <3>2 DEF LockInv, SoleResetter, WaitedBefore, HolderWord, Locking
    <3>4. WaitWord'
      BY <3>1, <3>2 DEF LockInv, WaitWord, has_version
    <3>5. \A i \in 1 .. Len(lock_waiters') : FALSE
      BY SMTT(30), <3>1
    <3>6. WaitersExist' /\ SomeoneWakes'
      BY <3>1, <3>5 DEF WaitersExist, SomeoneWakes
    <3> QED
      BY <3>3, <3>4, <3>6 DEF LockInv
  <2>8. CASE destroy_wake(t)
    <3>1. /\ pc[t] = "destroy_wake" /\ pc'[t] = "destroy_join_wake" /\ lock_waiters' = <<>>
          /\ \A u \in Threads : u # t =>
               pc'[u] = IF u \in ToSet(lock_waiters) THEN "lock" ELSE pc[u]
          /\ UNCHANGED <<first_ver, locked_ver, butex, ver, range, expected,
                         ever_contended>>
      BY <2>8 DEF destroy_wake, WakeLockers
    <3>2. \A u \in Threads :
            u # t => pc'[u] = pc[u] \/ (pc[u] = "lock_sleep" /\ pc'[u] = "lock")
      BY <1>b, <3>1
    <3>3. SoleResetter' /\ WaitedBefore' /\ HolderWord'
      BY <3>1, <3>2 DEF LockInv, SoleResetter, WaitedBefore, HolderWord, Locking
    <3>4. WaitWord'
      BY <3>1, <3>2 DEF LockInv, WaitWord, has_version
    <3>5. \A i \in 1 .. Len(lock_waiters') : FALSE
      BY SMTT(30), <3>1
    <3>6. WaitersExist' /\ SomeoneWakes'
      BY <3>1, <3>5 DEF WaitersExist, SomeoneWakes
    <3> QED
      BY <3>3, <3>4, <3>6 DEF LockInv
  <2>9. CASE destroy_join_wake(t)
    BY <2>9, <1>b, <1>c, LockFrame DEF destroy_join_wake, Locking, Holding
  <2>10. CASE join_check(t)
    BY <2>10, <1>c, LockFrame DEF join_check, Goto, Begin, Return, SetLocals, Locking, Holding
  <2>11. CASE join_return(t)
    BY <2>11, <1>c, LockFrame DEF join_return, Goto, Begin, Return, SetLocals, Locking, Holding
  <2>12. CASE join_butex_wait(t)
    BY <2>12, <1>c, LockFrame DEF join_butex_wait, Goto, Begin, Return, SetLocals, Locking, Holding
  <2> QED
    BY <1>3, <2>1, <2>2, <2>3, <2>4, <2>5, <2>6, <2>7, <2>8, <2>9, <2>10, <2>11, <2>12
    DEF Continue
<1> QED
  BY <1>1, <1>2, <1>3

\* Nobody sleeps in a slot that was never used.
LEMMA InitLock == Init => LockInv
<1> SUFFICES ASSUME Init PROVE LockInv
  OBVIOUS
<1>1. SoleResetter /\ HolderWord /\ WaitWord /\ WaitedBefore
  BY DEF Init, SoleResetter, HolderWord, WaitWord, WaitedBefore, Locking
<1>2. WaitersExist /\ SomeoneWakes
  BY SMTT(30) DEF Init, WaitersExist, SomeoneWakes
<1> QED
  BY <1>1, <1>2 DEF LockInv

\* bthread_id_lock loses no wake-up as long as its clients do not overlap a
\* lock_and_reset_range with another lock of the identifier, and destroy the
\* identifiers they announce to destroy.
THEOREM LockWakes ==
  ASSUME ~WrapEnabled, ~ResetContended, ~UnlockDoomed
  PROVE  Spec => []NoStrandedLocker
<1>1. Init => LockInv
  BY InitLock
<1>2. IInv /\ IInv' /\ LockInv /\ [Next]_vars => LockInv'
  <2> SUFFICES ASSUME IInv, IInv', LockInv, [Next]_vars PROVE LockInv'
    OBVIOUS
  <2>1. CASE UNCHANGED vars
    BY <2>1 DEF vars, metaVars, waitVars, argVars, LockInv, SoleResetter,
       HolderWord, WaitWord, WaitedBefore, WaitersExist, SomeoneWakes, Waker,
       Holders, has_version
  <2>2. CASE Next
    BY <2>2, NextLockInv DEF Next
  <2> QED
    BY <2>1, <2>2
<1>3. IInv /\ LockInv => NoStrandedLocker
  <2> SUFFICES ASSUME IInv, LockInv PROVE NoStrandedLocker
    OBVIOUS
  <2>1. CASE Holders # {} /\ butex \in {locked_ver + 1, locked_ver + 2}
    <3>1. Live
      BY <2>1 DEF Holders, IInv, PhaseInv
    <3> QED
      BY <2>1, <3>1, LiveVersions DEF NoStrandedLocker, IInv
  <2>2. CASE \E t \in Threads : Waker(t)
    BY <2>2 DEF Waker, NoStrandedLocker
  <2>3. CASE lock_waiters = <<>>
    BY <2>3 DEF NoStrandedLocker
  <2> QED
    BY <2>1, <2>2, <2>3 DEF LockInv, SomeoneWakes
<1> QED
  BY <1>1, <1>2, <1>3, Invariance, PTL DEF Spec

\* Neither bthread_id_lock nor bthread_id_join loses a wake-up, for any number of threads, as long
\* as the clients keep to the two conditions of LockWakes.
THEOREM SleepersHaveWakers ==
  ASSUME ~WrapEnabled, ~ResetContended, ~UnlockDoomed
  PROVE  Spec => []NobodyStranded
<1>1. NoStrandedLocker /\ JoinerNotStranded => NobodyStranded
  BY DEF NobodyStranded
<1> QED
  BY <1>1, LockWakes, JoinWakes, PTL

=============================================================================

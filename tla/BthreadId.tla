------------------------------ MODULE BthreadId ------------------------------
(***************************************************************************)
(* bthread_id_t (bthread/id.cpp): a 64-bit identifier attached to an       *)
(* object, which can be locked, joined, given errors, and destroyed.  The  *)
(* upper half of an identifier is a slot of a resource pool, the lower     *)
(* half a version; a slot answers to the versions first_ver..locked_ver-1, *)
(* and is reused with larger versions after it is destroyed.               *)
(*                                                                         *)
(* Slots are independent of each other, so the module models one slot and  *)
(* the identifiers made from it (which are therefore just versions).  A    *)
(* critical section of Id::mutex is one action.  What the code does        *)
(* outside the mutex (waiting on and waking up a butex, returning the slot *)
(* to the pool, and the unlocked initialisation of id_create_impl) is a    *)
(* step of its own, so that other threads run in between.                  *)
(***************************************************************************)
EXTENDS Integers, Sequences

CONSTANTS
  Threads,        \* the bthreads and pthreads that use the identifiers
  VerMod,         \* versions are computed modulo VerMod (2^32 in the code)
  IdMaxRange,     \* ID_MAX_RANGE
  MaxErrors,      \* bound on the number of calls of bthread_id_error2
  WrapEnabled,    \* may the slot be created again once its versions run out?
  ResetContended, \* may a lock that resets the range overlap with other locks?
  UnlockDoomed    \* may bthread_id_unlock follow bthread_id_about_to_destroy?

ASSUME BthreadIdAssumption ==
  /\ VerMod \in Nat /\ VerMod > IdMaxRange + 4
  /\ IdMaxRange \in Nat \ {0}
  /\ MaxErrors \in Nat
  /\ WrapEnabled \in BOOLEAN
  /\ ResetContended \in BOOLEAN
  /\ UnlockDoomed \in BOOLEAN

VARIABLES
  first_ver, locked_ver,    \* Id::first_ver, Id::locked_ver
  butex, join_butex,        \* the values of Id::butex and Id::join_butex
  pending_q,                \* Id::pending_q, the identifiers of its errors
  pooled,                   \* is the slot in the resource pool?
  lock_waiters, join_waiters,    \* the threads queued on the two butexes
  pc,                       \* what each thread is doing
  ver, range,               \* arguments of the call a thread is executing
  expected, ever_contended, \* local variables of the loops that wait
  issued,                   \* the identifiers that were ever handed out
  nerrors                   \* the number of errors issued so far

metaVars == <<first_ver, locked_ver, butex, join_butex, pending_q, pooled>>
waitVars == <<lock_waiters, join_waiters>>
argVars  == <<ver, range, expected, ever_contended>>
vars == <<metaVars, waitVars, pc, argVars, issued, nerrors>>

-----------------------------------------------------------------------------
(* Queues (SequencesExt has these two as well; it is not extended because  *)
(* the proofs need a small context)                                        *)

ToSet(q) == {q[i] : i \in DOMAIN q}

RemoveAt(q, n) == SubSeq(q, 1, n - 1) \o SubSeq(q, n + 1, Len(q))

-----------------------------------------------------------------------------
(* Versions of a slot *)

Versions == 0 .. VerMod - 1

Plus(v, n) == (v + n) % VerMod

has_version_NoLowerBound(v) == v < locked_ver

has_version(v) == first_ver <= v /\ v < locked_ver

contended_ver == Plus(locked_ver, 1)
unlockable_ver == Plus(locked_ver, 2)
end_ver_Reused == first_ver

end_ver == Plus(unlockable_ver, 1)

\* The slot has enough versions left for one more identifier.  Without
\* WrapEnabled the model stops creating identifiers here.
VersionsLeft == butex + IdMaxRange + 3 < VerMod

-----------------------------------------------------------------------------
(* Threads *)

Goto(t, label) == pc' = [pc EXCEPT ![t] = label]

\* The locals of a thread, which are 0 and FALSE where they are out of scope.
SetLocals(t, v, r, e, c) ==
  /\ ver' = [ver EXCEPT ![t] = v]
  /\ range' = [range EXCEPT ![t] = r]
  /\ expected' = [expected EXCEPT ![t] = e]
  /\ ever_contended' = [ever_contended EXCEPT ![t] = c]

Begin(t, label, v, r) == Goto(t, label) /\ SetLocals(t, v, r, 0, FALSE)
Return(t) == Begin(t, "idle", 0, 0)

\* The threads that hold the lock: in user code, in on_error, or (doomed)
\* after bthread_id_about_to_destroy.
Holding == {"holding", "doom_wake", "doomed"}
Creating == {"create_locked", "created"}
Destroying == {"destroy_wake", "destroy_join_wake"}
Locking == {"lock", "lock_wait", "lock_sleep"}
Joining == {"join", "join_wait", "join_sleep"}

Labels == {"idle", "unlock_wake"} \cup Holding \cup Creating \cup Destroying
            \cup Locking \cup Joining

Holders == {t \in Threads : pc[t] \in Holding}

\* The identifier clients use for "none"; every call answers EINVAL to it.
INVALID_BTHREAD_ID == 0

Init ==
  /\ first_ver = 0
  /\ locked_ver = 0
  /\ butex = 0
  /\ join_butex = 0
  /\ pending_q = <<>>
  /\ pooled = TRUE
  /\ lock_waiters = <<>>
  /\ join_waiters = <<>>
  /\ pc = [t \in Threads |-> "idle"]
  /\ ver = [t \in Threads |-> 0]
  /\ range = [t \in Threads |-> 0]
  /\ expected = [t \in Threads |-> 0]
  /\ ever_contended = [t \in Threads |-> FALSE]
  /\ issued = {INVALID_BTHREAD_ID}
  /\ nerrors = 0

-----------------------------------------------------------------------------
(* id_create_ranged_impl.  The fields are written without Id::mutex, while *)
(* threads with identifiers of an earlier life of the slot may read them.  *)

id_create_first(t) ==
  /\ pc[t] = "idle"
  /\ pooled
  /\ WrapEnabled \/ VersionsLeft
  /\ pooled' = FALSE
  /\ LET v == IF butex = 0 \/ Plus(butex, IdMaxRange + 2) < butex
              THEN 1 ELSE butex
     IN  /\ butex' = v
         /\ join_butex' = v
         /\ first_ver' = v
         /\ \E r \in 1 .. IdMaxRange : Begin(t, "create_locked", v, r)
  /\ UNCHANGED <<locked_ver, pending_q, waitVars, issued, nerrors>>

id_create_locked(t) ==
  /\ pc[t] = "create_locked"
  /\ locked_ver' = Plus(butex, range[t])
  /\ Goto(t, "created")
  /\ UNCHANGED <<first_ver, butex, join_butex, pending_q, pooled, waitVars,
                 argVars, issued, nerrors>>

\* The creator lets other threads know the identifier.
publish(t) ==
  /\ pc[t] = "created"
  /\ issued' = issued \cup (ver[t] .. ver[t] + range[t] - 1)
  /\ Return(t)
  /\ UNCHANGED <<metaVars, waitVars, nerrors>>

\* "Destroy a created but never-used bthread_id_t."
bthread_id_cancel(t) ==
  /\ pc[t] = "created"
  /\ has_version(ver[t])
  /\ butex = first_ver
  /\ butex' = end_ver
  /\ first_ver' = end_ver
  /\ locked_ver' = end_ver
  /\ pooled' = TRUE
  /\ Return(t)
  /\ UNCHANGED <<join_butex, pending_q, waitVars, issued, nerrors>>

-----------------------------------------------------------------------------
(* bthread_id_lock_and_reset_range_verbose (bthread_id_lock: range is 0).  *)

\* The only caller that resets the range, Channel::CallMethod, is the first to
\* lock the identifier.  Without ResetContended clients keep to this.
MayLock(t, r) ==
  \A u \in Threads \ {t} :
    pc[u] \in Locking => ResetContended \/ (r = 0 /\ range[u] = 0)

lock_call_AnyRange(t) ==
  /\ pc[t] = "idle"
  /\ \E v \in issued, r \in 0 .. IdMaxRange + 1 :
       MayLock(t, r) /\ Begin(t, "lock", v, r)
  /\ UNCHANGED <<metaVars, waitVars, issued, nerrors>>

lock_call(t) ==
  /\ pc[t] = "idle"
  /\ \E v \in issued, r \in 0 .. IdMaxRange :
       MayLock(t, r) /\ Begin(t, "lock", v, r)
  /\ UNCHANGED <<metaVars, waitVars, issued, nerrors>>

lock_acquire_ForgetContended(t) ==
  /\ pc[t] = "lock"
  /\ has_version(ver[t])
  /\ butex = first_ver
  /\ locked_ver' = IF Plus(range[t], first_ver) <= locked_ver
                   THEN locked_ver
                   ELSE Plus(first_ver, range[t])
  /\ butex' = locked_ver'
  /\ issued' = issued \cup (first_ver .. locked_ver' - 1)
  /\ Begin(t, "holding", ver[t], 0)
  /\ UNCHANGED <<first_ver, join_butex, pending_q, pooled, waitVars, nerrors>>

lock_acquire(t) ==
  /\ pc[t] = "lock"
  /\ has_version(ver[t])
  /\ butex = first_ver
  /\ locked_ver' = IF Plus(range[t], first_ver) <= locked_ver
                   THEN locked_ver
                   ELSE Plus(first_ver, range[t])
  /\ butex' = IF ever_contended[t] THEN Plus(locked_ver', 1) ELSE locked_ver'
  /\ issued' = issued \cup (first_ver .. locked_ver' - 1)
  /\ Begin(t, "holding", ver[t], 0)
  /\ UNCHANGED <<first_ver, join_butex, pending_q, pooled, waitVars, nerrors>>

lock_contend(t) ==
  /\ pc[t] = "lock"
  /\ has_version(ver[t])
  /\ butex \notin {first_ver, unlockable_ver}
  /\ butex' = contended_ver
  /\ Goto(t, "lock_wait")
  /\ SetLocals(t, ver[t], range[t], contended_ver, TRUE)
  /\ UNCHANGED <<first_ver, locked_ver, join_butex, pending_q, pooled,
                 waitVars, issued, nerrors>>

\* EINVAL: the identifier does not exist (any more).  EPERM: it is about to
\* be destroyed.
lock_fail(t) ==
  /\ pc[t] = "lock"
  /\ has_version(ver[t]) => butex # first_ver /\ butex = unlockable_ver
  /\ Return(t)
  /\ UNCHANGED <<metaVars, waitVars, issued, nerrors>>

\* bthread::butex_wait(butex, expected_ver, NULL)
lock_butex_wait(t) ==
  /\ pc[t] = "lock_wait"
  /\ IF butex = expected[t]
     THEN lock_waiters' = Append(lock_waiters, t) /\ Goto(t, "lock_sleep")
     ELSE UNCHANGED lock_waiters /\ Goto(t, "lock")
  /\ SetLocals(t, ver[t], range[t], 0, TRUE)
  /\ UNCHANGED <<metaVars, join_waiters, issued, nerrors>>

\* butex_wait returns EINTR (TaskGroup::interrupt erased the waiter).
lock_interrupted(t) ==
  /\ pc[t] = "lock_sleep"
  /\ \E i \in DOMAIN lock_waiters :
       lock_waiters[i] = t /\ lock_waiters' = RemoveAt(lock_waiters, i)
  /\ Goto(t, "lock")
  /\ UNCHANGED <<metaVars, join_waiters, argVars, issued, nerrors>>

LockUncontended_NoCheck(t) ==
  /\ pc[t] = "idle"
  /\ \E v \in issued : has_version(v) /\ Begin(t, "holding", v, 0)
  /\ butex' = locked_ver
  /\ UNCHANGED <<first_ver, locked_ver, join_butex, pending_q, pooled,
                 waitVars, issued>>

\* The identifier exists and is not locked: lock it.
LockUncontended(t) ==
  /\ pc[t] = "idle"
  /\ \E v \in issued : has_version(v) /\ Begin(t, "holding", v, 0)
  /\ butex = first_ver
  /\ butex' = locked_ver
  /\ UNCHANGED <<first_ver, locked_ver, join_butex, pending_q, pooled,
                 waitVars, issued>>

\* Returns EBUSY or EINVAL, changing nothing, when the guards do not hold.
bthread_id_trylock(t) ==
  /\ LockUncontended(t)
  /\ UNCHANGED nerrors

-----------------------------------------------------------------------------
(* Releasing the lock *)

MayUnlock(t) ==
  /\ pc[t] = "holding" \/ (pc[t] = "doomed" /\ UnlockDoomed)
  /\ has_version(ver[t])
  /\ butex # first_ver

\* bthread_id_unlock with an error pending: on_error is called by the thread,
\* which still holds the lock, with the identifier of the error.
unlock_run_on_error(t) ==
  /\ MayUnlock(t)
  /\ pending_q # <<>>
  /\ pending_q' = Tail(pending_q)
  /\ Begin(t, "holding", Head(pending_q), 0)
  /\ UNCHANGED <<first_ver, locked_ver, butex, join_butex, pooled, waitVars,
                 issued, nerrors>>

bthread_id_unlock_IgnorePending(t) ==
  /\ MayUnlock(t)
  /\ butex' = first_ver
  /\ Begin(t, IF butex = contended_ver THEN "unlock_wake" ELSE "idle", 0, 0)
  /\ UNCHANGED <<first_ver, locked_ver, join_butex, pending_q, pooled,
                 waitVars, issued, nerrors>>

bthread_id_unlock(t) ==
  /\ MayUnlock(t)
  /\ pending_q = <<>>
  /\ butex' = first_ver
  /\ Begin(t, IF butex = contended_ver THEN "unlock_wake" ELSE "idle", 0, 0)
  /\ UNCHANGED <<first_ver, locked_ver, join_butex, pending_q, pooled,
                 waitVars, issued, nerrors>>

\* bthread::butex_wake(butex): the first waiter returns from butex_wait.
unlock_wake(t) ==
  /\ pc[t] = "unlock_wake"
  /\ IF lock_waiters = <<>>
     THEN UNCHANGED lock_waiters /\ Goto(t, "idle")
     ELSE /\ lock_waiters' = Tail(lock_waiters)
          /\ pc' = [pc EXCEPT ![t] = "idle", ![Head(lock_waiters)] = "lock"]
  /\ UNCHANGED <<metaVars, join_waiters, argVars, issued, nerrors>>

WakeLockers_One(t, label) ==
  IF lock_waiters = <<>>
  THEN UNCHANGED lock_waiters /\ Goto(t, label)
  ELSE /\ lock_waiters' = Tail(lock_waiters)
       /\ pc' = [pc EXCEPT ![t] = label, ![Head(lock_waiters)] = "lock"]

\* bthread::butex_wake_except(butex, 0): all waiters return from butex_wait.
WakeLockers(t, label) ==
  /\ lock_waiters' = <<>>
  /\ pc' = [u \in Threads |-> IF u = t THEN label
                              ELSE IF u \in ToSet(lock_waiters) THEN "lock"
                              ELSE pc[u]]

bthread_id_about_to_destroy(t) ==
  /\ pc[t] = "holding"
  /\ has_version(ver[t])
  /\ butex # first_ver
  /\ butex' = unlockable_ver
  /\ Goto(t, IF butex = contended_ver THEN "doom_wake" ELSE "doomed")
  /\ UNCHANGED <<first_ver, locked_ver, join_butex, pending_q, pooled,
                 waitVars, argVars, issued, nerrors>>

about_to_destroy_wake(t) ==
  /\ pc[t] = "doom_wake"
  /\ WakeLockers(t, "doomed")
  /\ UNCHANGED <<metaVars, join_waiters, argVars, issued, nerrors>>

bthread_id_unlock_and_destroy(t) ==
  /\ pc[t] \in {"holding", "doomed"}
  /\ has_version(ver[t])
  /\ butex # first_ver
  /\ butex' = end_ver
  /\ join_butex' = end_ver
  /\ first_ver' = end_ver
  /\ locked_ver' = end_ver
  /\ pending_q' = <<>>
  /\ Begin(t, "destroy_wake", 0, 0)
  /\ UNCHANGED <<pooled, waitVars, issued, nerrors>>

destroy_wake(t) ==
  /\ pc[t] = "destroy_wake"
  /\ WakeLockers(t, "destroy_join_wake")
  /\ UNCHANGED <<metaVars, join_waiters, argVars, issued, nerrors>>

\* butex_wake_all(join_butex), then return_resource.
destroy_join_wake(t) ==
  /\ pc[t] = "destroy_join_wake"
  /\ join_waiters' = <<>>
  /\ pc' = [u \in Threads |-> IF u = t THEN "idle"
                              ELSE IF u \in ToSet(join_waiters) THEN "join"
                              ELSE pc[u]]
  /\ pooled' = TRUE
  /\ UNCHANGED <<first_ver, locked_ver, butex, join_butex, pending_q, lock_waiters,
                 argVars, issued, nerrors>>

-----------------------------------------------------------------------------
(* bthread_id_error2_verbose.  EINVAL, changing nothing, for an identifier *)
(* that does not exist.                                                    *)

\* The identifier is not locked: lock it and call on_error.
error2_run_on_error(t) ==
  /\ nerrors < MaxErrors
  /\ LockUncontended(t)
  /\ nerrors' = nerrors + 1

\* It is locked: the holder will call on_error when it unlocks.
error2_pend(t) ==
  /\ pc[t] = "idle"
  /\ nerrors < MaxErrors
  /\ butex # first_ver
  /\ \E v \in issued :
       /\ has_version(v)
       /\ pending_q' = Append(pending_q, v)
  /\ nerrors' = nerrors + 1
  /\ UNCHANGED <<first_ver, locked_ver, butex, join_butex, pooled, waitVars,
                 pc, argVars, issued>>

-----------------------------------------------------------------------------
(* bthread_id_join *)

join_call(t) ==
  /\ pc[t] = "idle"
  /\ \E v \in issued : Begin(t, "join", v, 0)
  /\ UNCHANGED <<metaVars, waitVars, issued, nerrors>>

join_check(t) ==
  /\ pc[t] = "join"
  /\ has_version(ver[t])
  /\ Goto(t, "join_wait")
  /\ SetLocals(t, ver[t], 0, join_butex, FALSE)
  /\ UNCHANGED <<metaVars, waitVars, issued, nerrors>>

join_return(t) ==
  /\ pc[t] = "join"
  /\ ~has_version(ver[t])
  /\ Return(t)
  /\ UNCHANGED <<metaVars, waitVars, issued, nerrors>>

join_butex_wait_Unchecked(t) ==
  /\ pc[t] = "join_wait"
  /\ join_waiters' = Append(join_waiters, t) /\ Goto(t, "join_sleep")
  /\ SetLocals(t, ver[t], 0, 0, FALSE)
  /\ UNCHANGED <<metaVars, lock_waiters, issued, nerrors>>

join_butex_wait(t) ==
  /\ pc[t] = "join_wait"
  /\ IF join_butex = expected[t]
     THEN join_waiters' = Append(join_waiters, t) /\ Goto(t, "join_sleep")
     ELSE UNCHANGED join_waiters /\ Goto(t, "join")
  /\ SetLocals(t, ver[t], 0, 0, FALSE)
  /\ UNCHANGED <<metaVars, lock_waiters, issued, nerrors>>

join_interrupted(t) ==
  /\ pc[t] = "join_sleep"
  /\ \E i \in DOMAIN join_waiters :
       join_waiters[i] = t /\ join_waiters' = RemoveAt(join_waiters, i)
  /\ Goto(t, "join")
  /\ UNCHANGED <<metaVars, lock_waiters, argVars, issued, nerrors>>

-----------------------------------------------------------------------------
\* A call that the client chooses to make.
Call(t) ==
  \/ id_create_first(t) \/ publish(t) \/ bthread_id_cancel(t)
  \/ lock_call(t) \/ bthread_id_trylock(t)
  \/ error2_run_on_error(t) \/ error2_pend(t)
  \/ bthread_id_about_to_destroy(t)
  \/ join_call(t)
  \/ lock_interrupted(t) \/ join_interrupted(t)

\* A holder gives up the lock, as every user and every on_error must.
Release(t) ==
  \/ unlock_run_on_error(t) \/ bthread_id_unlock(t)
  \/ bthread_id_unlock_and_destroy(t)

\* The rest of a call that is under way.
Continue(t) ==
  \/ id_create_locked(t)
  \/ lock_acquire(t) \/ lock_contend(t) \/ lock_fail(t) \/ lock_butex_wait(t)
  \/ unlock_wake(t) \/ about_to_destroy_wake(t)
  \/ destroy_wake(t) \/ destroy_join_wake(t)
  \/ join_check(t) \/ join_return(t) \/ join_butex_wait(t)

Next == \E t \in Threads : Call(t) \/ Release(t) \/ Continue(t)

Spec == Init /\ [][Next]_vars

\* A thread keeps running its own code, and a holder keeps its promise to
\* unlock or destroy; nobody has to make a call.
Fairness == \A t \in Threads : WF_vars(Continue(t)) /\ WF_vars(Release(t))

FairSpec == Spec /\ Fairness

-----------------------------------------------------------------------------
(* Properties *)

TypeOK ==
  /\ first_ver \in Versions
  /\ locked_ver \in Versions
  /\ butex \in Versions
  /\ join_butex \in Versions
  /\ pending_q \in Seq(Versions)
  /\ pooled \in BOOLEAN
  /\ lock_waiters \in Seq(Threads)
  /\ join_waiters \in Seq(Threads)
  /\ pc \in [Threads -> Labels]
  /\ ver \in [Threads -> Versions]
  /\ range \in [Threads -> 0 .. IdMaxRange]
  /\ expected \in [Threads -> Versions]
  /\ ever_contended \in [Threads -> BOOLEAN]
  /\ issued \subseteq Versions
  /\ nerrors \in 0 .. MaxErrors

\* The data attached to an identifier is used by one thread at a time: of the
\* threads that locked the slot (bthread_id_lock, bthread_id_trylock, or
\* on_error on behalf of bthread_id_error) at most one has not released it.
MutualExclusion == \A t, u \in Threads : {t, u} \subseteq Holders => t = u

\* "locked without ABA issues": whoever holds the lock got it with an
\* identifier that has not been destroyed since, although slots are reused
\* and stale identifiers keep coming in.
HolderIsLive ==
  \A t \in Holders : has_version(ver[t]) /\ butex # first_ver /\ ~pooled

\* An error queued by bthread_id_error2 is never left behind in an unlocked
\* slot, where no one would call on_error, nor does it survive into the next
\* life of the slot.
PendingErrorHasHolder ==
  pending_q # <<>> =>
    /\ Holders # {}
    /\ \A v \in ToSet(pending_q) : has_version(v)

\* No lost wakeup in bthread_id_lock: if threads sleep on the butex, someone
\* is bound to wake one of them.  Either a wake is under way, or the holder
\* sees the butex contended or unlockable (and destroys the slot), or a
\* thread that waited before is about to take the lock as a contended one.
NoStrandedLocker ==
  lock_waiters # <<>> =>
    \/ Holders # {} /\ butex \in {contended_ver, unlockable_ver}
    \/ \E t \in Threads :
         \/ pc[t] \in {"unlock_wake", "destroy_wake"}
         \/ pc[t] = "lock" /\ ever_contended[t] /\ has_version(ver[t])

\* bthread_id_join does not outlive the identifier: a thread sleeping in it
\* waits for an identifier that still exists, or for a destroyer that has not
\* yet reached its wake-up.
JoinerNotStranded ==
  \A t \in ToSet(join_waiters) :
    has_version(ver[t]) \/ \E u \in Threads : pc[u] \in Destroying

\* A slot that is being (re)created is private to its creator: although
\* id_create_impl writes the fields without Id::mutex, no thread can lock the
\* half-initialised slot with an identifier of an earlier life.
CreationIsPrivate == (\E t \in Threads : pc[t] \in Creating) => Holders = {}

\* What a holder of the lock relies on: it is alone, its identifier exists, nobody creates the
\* slot anew, and it will see every error that is queued.
LockSafe == MutualExclusion /\ HolderIsLive /\ PendingErrorHasHolder /\ CreationIsPrivate

\* Nobody sleeps in bthread_id_lock or bthread_id_join without someone bound to wake them.
NobodyStranded == NoStrandedLocker /\ JoinerNotStranded

\* bthread_id_about_to_destroy makes "other bthread_id_lock/bthread_id_trylock
\* on the id fail" and "avoids useless waiting": once it has returned and no
\* other wake-up is under way, no thread sleeps in bthread_id_lock.
DoomReleasesLockers ==
  /\ \E t \in Threads : pc[t] = "doomed"
  /\ \A t \in Threads : pc[t] # "unlock_wake"
  => lock_waiters = <<>>

\* The versions of a slot only grow: an identifier that does not exist any
\* more never exists again.
StaleForever ==
  [][\A v \in issued : ~has_version(v) => ~has_version(v)']_vars

\* No bthread_id_lock sleeps for ever, and no bthread_id_join whose identifier is
\* gone (which it remains: StaleForever).
SleepersWake ==
  \A t \in Threads :
    /\ []<>(pc[t] # "lock_sleep")
    /\ []<>(pc[t] = "join_sleep" => has_version(ver[t]))

=============================================================================

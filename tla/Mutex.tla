-------------------------------- MODULE Mutex --------------------------------
(***************************************************************************)
(* bthread_mutex_t (bthread/mutex.cpp) and bthread_cond_t                  *)
(* (bthread/condition_variable.cpp) over butexes: the mutex word is free,  *)
(* locked or contended; a condition variable is a sequence number, and a   *)
(* broadcast moves its waiters to the butex of the mutex.  The butex       *)
(* operations are atomic here; module Butex is about their insides.        *)
(* Threads are plain users of the mutex, consumers that wait until there   *)
(* is an item, and producers.                                              *)
(***************************************************************************)
EXTENDS Naturals, Sequences, Functions

CONSTANTS LockUsers,
          Confs  \* [role, locks, broadcast, inside, items, timed, interrupts]

VARIABLES conf,
          word, mq,        \* the mutex: its word and the waiters of its butex
          seq, cq, bound,  \* the condition variable: sequence number, waiters, m bound
          items,           \* what the mutex protects and the consumers wait for
          th,              \* [pc, exp, cond]: cond, inside bthread_cond_(timed)wait
          interrupts

\* What the theorems of SyncProofs assume of the users.
MutexConstants == Confs \subseteq [role : [LockUsers -> {"user", "consumer", "producer"}],
                                  locks : [LockUsers -> {"lock", "try", "timed"}],
                                  broadcast : BOOLEAN, inside : BOOLEAN, items : Nat,
                                  timed : SUBSET LockUsers, interrupts : Nat]

mutex_vars == <<conf, word, mq, seq, cq, bound, items, th, interrupts>>
MutexVars == <<word, mq>>
CondVars == <<seq, cq, bound>>

Start == [pc |-> "start", exp |-> 0, cond |-> FALSE]
MutexInit == /\ conf \in Confs /\ word = "free" /\ mq = <<>> /\ seq = 0 /\ cq = <<>> /\ bound = FALSE
             /\ items = 0 /\ th = [t \in LockUsers |-> Start] /\ interrupts = 0

MutexGoto(t, pc) == th' = [th EXCEPT ![t].pc = pc]
Consumers == {t \in LockUsers : conf.role[t] = "consumer"}
HasDeadline(t) == t \in conf.timed

-----------------------------------------------------------------------------
(* bthread_mutex_lock, trylock and timedlock.                               *)

Free_Unchecked == word # "contended"
Free == word = "free"

Lock(t) == /\ th[t].pc = "start"
           /\ IF Free THEN word' = "locked" /\ MutexGoto(t, "in")
              ELSE MutexGoto(t, IF conf.locks[t] = "try" THEN "done" ELSE "contend") /\ UNCHANGED word
           /\ UNCHANGED <<conf, mq, CondVars, items, interrupts>>

Contended_Locked == "locked"
Contended == "contended"

\* The loop of mutex_lock_contended: the word says that somebody waits, whoever gets the lock.
Contend(t) == /\ th[t].pc = "contend" /\ word' = Contended
              /\ th' = [th EXCEPT ![t].pc = IF word = "free" THEN "in" ELSE "mwait",
                                  ![t].cond = @ /\ word # "free"]
              /\ UNCHANGED <<conf, mq, CondVars, items, interrupts>>

MutexWait(t) == /\ th[t].pc = "mwait"
                /\ IF word = "contended" THEN mq' = Append(mq, t) /\ MutexGoto(t, "mq")
                   ELSE MutexGoto(t, "contend") /\ UNCHANGED mq
                /\ UNCHANGED <<conf, word, CondVars, items, interrupts>>

\* erase_from_butex: the waiter of t leaves the list it is in.
Erased(q, t) ==
  LET at == CHOOSE i \in DOMAIN q : q[i] = t
  IN  IF t \in Range(q) THEN SubSeq(q, 1, at - 1) \o SubSeq(q, at + 1, Len(q)) ELSE q

\* A timedlock gives up; what waits in a condition variable has to get the lock in any case,
\* also when a broadcast moved it to the mutex.
TimeOut(t) == /\ HasDeadline(t) /\ th[t].pc \in {"mq", "cq"}
              /\ th[t].cond \/ conf.locks[t] = "timed"
              /\ mq' = Erased(mq, t) /\ cq' = Erased(cq, t)
              /\ MutexGoto(t, IF th[t].cond THEN "contend" ELSE "done")
              /\ UNCHANGED <<conf, word, seq, bound, items, interrupts>>

\* bthread_interrupt: EINTR is ignored.
Interrupt(t) == /\ th[t].pc \in {"mq", "cq"} /\ interrupts < conf.interrupts
                /\ interrupts' = interrupts + 1
                /\ mq' = Erased(mq, t) /\ cq' = Erased(cq, t)
                /\ MutexGoto(t, "contend")
                /\ UNCHANGED <<conf, word, seq, bound, items>>

\* The exchange of bthread_mutex_unlock, and butex_wake unless nobody contended.
UnlockedTo(t, next, wake) == word' = "free" /\ MutexGoto(t, IF word = "locked" THEN next ELSE wake)
Rest_Kept(q) == q
Rest(q) == IF q = <<>> THEN q ELSE Tail(q)
Woken(q, pcs) == IF q = <<>> THEN pcs ELSE [pcs EXCEPT ![Head(q)].pc = "contend"]
ButexWake(t, pc, next) ==
  /\ th[t].pc = pc /\ mq' = Rest(mq)
  /\ th' = Woken(mq, [th EXCEPT ![t].pc = next])
  /\ UNCHANGED <<conf, word, CondVars, items, interrupts>>

Unlock(t) == /\ th[t].pc = "unlock" /\ UnlockedTo(t, "done", "done+wake")
             /\ UNCHANGED <<conf, mq, CondVars, items, interrupts>>
WakeOne(t) == \/ ButexWake(t, "done+wake", "done") \/ ButexWake(t, "cwait+wake", "cwait")
              \/ ButexWake(t, "notify+wake", "notify")

-----------------------------------------------------------------------------
(* The critical sections and the condition variable.                        *)

User(t) == /\ th[t].pc = "in" /\ conf.role[t] = "user" /\ MutexGoto(t, "unlock")
           /\ UNCHANGED <<conf, MutexVars, CondVars, items, interrupts>>
Consume(t) == /\ th[t].pc = "in" /\ t \in Consumers /\ items > 0 /\ items' = items - 1
              /\ MutexGoto(t, "unlock")
              /\ UNCHANGED <<conf, MutexVars, CondVars, interrupts>>
Produce(t) == /\ th[t].pc = "in" /\ conf.role[t] = "producer"
              /\ items' = items + conf.items
              /\ IF conf.inside THEN MutexGoto(t, "notify") /\ UNCHANGED word
                 ELSE UnlockedTo(t, "notify", "notify+wake")
              /\ UNCHANGED <<conf, mq, CondVars, interrupts>>

\* bthread_cond_wait: the sequence number is loaded before the mutex is unlocked.
CondWait(t) == /\ th[t].pc = "in" /\ t \in Consumers /\ items = 0 /\ bound' = TRUE
               /\ word' = "free"
               /\ th' = [th EXCEPT ![t] = [pc |-> IF word = "locked" THEN "cwait" ELSE "cwait+wake",
                                           exp |-> seq, cond |-> TRUE]]
               /\ UNCHANGED <<conf, mq, seq, cq, items, interrupts>>
SameSeq_Unchecked(t) == TRUE
SameSeq(t) == seq = th[t].exp
CondSleep(t) == /\ th[t].pc = "cwait"
                /\ IF SameSeq(t) THEN cq' = Append(cq, t) /\ MutexGoto(t, "cq")
                   ELSE MutexGoto(t, "contend") /\ UNCHANGED cq
                /\ UNCHANGED <<conf, MutexVars, seq, bound, items, interrupts>>

AfterNotify == IF conf.inside THEN "unlock" ELSE "done"
\* bthread_cond_signal and broadcast add to the sequence number, then wake or requeue.
Notify(t) == /\ th[t].pc = "notify"
             /\ IF conf.broadcast /\ ~bound THEN MutexGoto(t, AfterNotify) /\ UNCHANGED seq
                ELSE seq' = seq + 1 /\ MutexGoto(t, "notify2")
             /\ UNCHANGED <<conf, MutexVars, cq, bound, items, interrupts>>
Signal(t) == /\ th[t].pc = "notify2" /\ ~conf.broadcast
             /\ cq' = Rest(cq)
             /\ th' = Woken(cq, [th EXCEPT ![t].pc = AfterNotify])
             /\ UNCHANGED <<conf, MutexVars, seq, bound, items, interrupts>>
\* butex_requeue wakes one waiter and moves the rest to the mutex without looking at its word.
WakesOne_None(q, pcs) == pcs
WakesOne(q, pcs) == Woken(q, pcs)
Requeue(t) == /\ th[t].pc = "notify2" /\ conf.broadcast /\ cq' = <<>>
              /\ mq' = mq \o Rest(cq)
              /\ LET moved == Range(Rest(cq))
                 IN th' = WakesOne(cq, [u \in LockUsers |->
                            IF u \in moved THEN [th[u] EXCEPT !.pc = "mq"]
                            ELSE IF u = t THEN [th[t] EXCEPT !.pc = AfterNotify] ELSE th[u]])
              /\ UNCHANGED <<conf, word, seq, bound, items, interrupts>>

-----------------------------------------------------------------------------
Step(t) == \/ Lock(t) \/ Contend(t) \/ MutexWait(t) \/ Unlock(t) \/ WakeOne(t) \/ User(t)
           \/ Consume(t) \/ Produce(t) \/ CondWait(t) \/ CondSleep(t) \/ Notify(t) \/ Signal(t)
           \/ Requeue(t)
MutexNext == \E t \in LockUsers : Step(t) \/ TimeOut(t) \/ Interrupt(t)
MutexSpec == MutexInit /\ [][MutexNext]_mutex_vars

\* Every thread that can go on does.
MutexFairness == \A t \in LockUsers : WF_mutex_vars(Step(t))
MutexFairSpec == MutexSpec /\ MutexFairness

-----------------------------------------------------------------------------
Owns(t) == th[t].pc \in {"in", "unlock"} \/ (conf.inside /\ th[t].pc \in {"notify", "notify2"})
PCs == {"start", "in", "contend", "mwait", "mq", "unlock", "done", "done+wake", "cwait",
        "cwait+wake", "cq", "notify", "notify+wake", "notify2"}

\* Every variable has its type, and a thread is in a queue when it says so.
MutexTypeOK == /\ conf \in Confs /\ word \in {"free", "locked", "contended"}
               /\ seq \in Nat /\ bound \in BOOLEAN /\ items \in Nat
               /\ interrupts \in 0 .. conf.interrupts
               /\ th \in [LockUsers -> [pc : PCs, exp : Nat, cond : BOOLEAN]]
               /\ \A q \in {mq, cq} : q \in Seq(LockUsers) /\ IsInjective(q)
               /\ \A t \in LockUsers : /\ t \in Range(mq) <=> th[t].pc = "mq"
                                       /\ t \in Range(cq) <=> th[t].pc = "cq"

\* At most one thread holds the mutex, and then its word is not free.
Excludes == /\ \A t, u \in LockUsers : Owns(t) /\ Owns(u) => t = u
            /\ (\E t \in LockUsers : Owns(t)) <=> word # "free"

\* Whoever waits for the mutex is not forgotten, though a broadcast moves waiters to a mutex
\* whose word says "locked": the word is contended, or somebody is about to wake one up or,
\* just awake, to write it.
ChainUnbroken == mq # <<>> =>
   \/ word = "contended"
   \/ \E t \in LockUsers : th[t].pc \in {"contend", "done+wake", "cwait+wake", "notify+wake"}

\* The mutex is safe with and without the condition variable: the three above.
MutexSafe == MutexTypeOK /\ Excludes /\ ChainUnbroken
\* The inductive invariant: a wake-up still to do before the notification was left by an unlock
\* that precedes it.
MutexInv == MutexSafe /\ \A t \in LockUsers : th[t].pc = "notify+wake" => ~conf.inside

\* All who wait for the mutex get it or give up.
LockGranted == []<>(mq = <<>>)
\* A consumer for whom there is an item ends: no signal is lost, neither between its unlock
\* and its sleep nor by waking one that no longer waits.
ConsumersDone == \A t \in Consumers : th[t].pc = "done"
==============================================================================

----------------------------- MODULE SyncProofs ------------------------------
(***************************************************************************)
(* Mutual exclusion and the unbroken chain of wake-ups of bthread_mutex_t  *)
(* and bthread_cond_t, for any number of threads in any roles; the end of  *)
(* a CountdownEvent, for any numbers of signallers and waiters; and what   *)
(* Read() and Modify() of DoublyBufferedData promise, for any number of    *)
(* readers and of threads.                                                 *)
(***************************************************************************)
EXTENDS Mutex, CountdownEvent, DoublyBufferedData, SequenceTheorems, TLAPS

\* Most steps need no arithmetic; those that do name the SMT solver.
USE Zenon

-----------------------------------------------------------------------------
(* The list of waiters of a butex.                                          *)

Queue(q) == q \in Seq(LockUsers) /\ IsInjective(q)

\* wait_for_butex: a thread that is not in the list is put at its end.
LEMMA AppendQueue ==
  ASSUME NEW q, Queue(q), NEW t \in LockUsers, t \notin Range(q)
  PROVE  Queue(Append(q, t)) /\ Range(Append(q, t)) = Range(q) \cup {t}
  BY SMTT(30) DEF Queue, Range, IsInjective

\* butex_wake: the first thread of the list leaves it.
LEMMA RestQueue ==
  ASSUME NEW q, Queue(q), q # <<>>
  PROVE  /\ Queue(Rest(q)) /\ Head(q) \in LockUsers /\ Head(q) \in Range(q)
         /\ Range(Rest(q)) = Range(q) \ {Head(q)}
  <1>1. /\ Len(q) \in Nat \ {0} /\ DOMAIN q = 1 .. Len(q) /\ Head(q) = q[1]
        /\ \A i \in 1 .. Len(q) : q[i] \in LockUsers
    BY SMTT(30) DEF Queue
  <1>2. /\ Rest(q) \in Seq(LockUsers) /\ DOMAIN Rest(q) = 1 .. Len(q) - 1
        /\ \A i \in 1 .. Len(q) - 1 : Rest(q)[i] = q[i + 1]
    BY <1>1, SMTT(30) DEF Queue, Rest
  <1>3. IsInjective(Rest(q))
    <2> SUFFICES ASSUME NEW a \in 1 .. Len(q) - 1, NEW b \in 1 .. Len(q) - 1,
                        Rest(q)[a] = Rest(q)[b]
                 PROVE  a = b
      BY <1>2 DEF IsInjective
    <2>1. q[a + 1] = q[b + 1] /\ a + 1 \in DOMAIN q /\ b + 1 \in DOMAIN q BY <1>1, <1>2, SMTT(30)
    <2>2. a + 1 = b + 1 BY <2>1 DEF Queue, IsInjective
    <2> QED BY <1>1, <2>2, SMTT(30)
  <1>4. Range(Rest(q)) \subseteq Range(q) \ {Head(q)}
    BY <1>1, <1>2, SMTT(30) DEF Queue, Range, IsInjective
  <1>5. ASSUME NEW u \in Range(q), u # Head(q) PROVE u \in Range(Rest(q))
    <2>1. PICK i \in 1 .. Len(q) : q[i] = u BY <1>1 DEF Range
    <2>2. i - 1 \in 1 .. Len(q) - 1 /\ Rest(q)[i - 1] = u BY <1>1, <1>2, <1>5, <2>1, SMTT(30)
    <2> QED BY <1>2, <2>2 DEF Range
  <1>6. 1 \in DOMAIN q BY <1>1, SMTT(30)
  <1>7. Head(q) \in LockUsers /\ Head(q) \in Range(q) BY <1>1, <1>6 DEF Range
  <1> QED BY <1>2, <1>3, <1>4, <1>5, <1>7 DEF Queue

\* erase_from_butex: t leaves the list, wherever it is, if it is in it.
LEMMA WithoutQueue ==
  ASSUME NEW q, Queue(q), NEW t \in LockUsers
  PROVE  Queue(Erased(q, t)) /\ Range(Erased(q, t)) = Range(q) \ {t}
  <1>1. CASE t \notin Range(q) BY <1>1 DEF Erased
  <1>2. CASE t \in Range(q)
    <2> DEFINE i == CHOOSE k \in DOMAIN q : q[k] = t
               n == Len(q)
               r == Erased(q, t)
    <2>1. n \in Nat /\ DOMAIN q = 1 .. n /\ \A k \in 1 .. n : q[k] \in LockUsers BY SMTT(30) DEF Queue
    <2>2. i \in 1 .. n /\ q[i] = t BY <1>2, <2>1 DEF Range
    <2>3. \A k \in 1 .. n : q[k] = t => k = i BY <2>1, <2>2 DEF Queue, IsInjective
    <2>4. r = SubSeq(q, 1, i - 1) \o SubSeq(q, i + 1, n) BY <1>2 DEF Erased
    <2> HIDE DEF i, n, r
    <2>5. /\ SubSeq(q, 1, i - 1) \in Seq(LockUsers) /\ Len(SubSeq(q, 1, i - 1)) = i - 1
          /\ \A k \in 1 .. i - 1 : SubSeq(q, 1, i - 1)[k] = q[k]
      BY <2>1, <2>2, SMTT(30) DEF Queue
    <2>6. /\ SubSeq(q, i + 1, n) \in Seq(LockUsers) /\ Len(SubSeq(q, i + 1, n)) = n - i
          /\ \A k \in 1 .. n - i : SubSeq(q, i + 1, n)[k] = q[k + i]
      <3>1. i + 1 \in Int /\ n \in Int /\ \A k \in i + 1 .. n : q[k] \in LockUsers BY <2>1, <2>2, SMTT(30)
      <3>2. /\ SubSeq(q, i + 1, n) \in Seq(LockUsers)
            /\ Len(SubSeq(q, i + 1, n)) = IF i + 1 <= n THEN n - (i + 1) + 1 ELSE 0
            /\ \A k \in 1 .. n - (i + 1) + 1 : SubSeq(q, i + 1, n)[k] = q[(i + 1) + k - 1]
        BY <3>1, SubSeqProperties, SMTT(30)
      <3>3. \A k \in 1 .. n - i : k \in 1 .. n - (i + 1) + 1 /\ (i + 1) + k - 1 = k + i
        BY <2>1, <2>2, SMTT(30)
      <3>4. Len(SubSeq(q, i + 1, n)) = n - i BY <2>1, <2>2, <3>2, SMTT(30)
      <3> QED BY <3>2, <3>3, <3>4
    <2>7. /\ r \in Seq(LockUsers) /\ DOMAIN r = 1 .. n - 1
          /\ \A k \in 1 .. n - 1 : r[k] = IF k < i THEN q[k] ELSE q[k + 1]
      <3> DEFINE a == SubSeq(q, 1, i - 1)
                 b == SubSeq(q, i + 1, n)
      <3>1. /\ a \o b \in Seq(LockUsers) /\ Len(a \o b) = Len(a) + Len(b)
            /\ \A k \in 1 .. Len(a) + Len(b) :
                 (a \o b)[k] = IF k <= Len(a) THEN a[k] ELSE b[k - Len(a)]
        BY <2>5, <2>6, ConcatProperties
      <3>2. Len(a) = i - 1 /\ Len(b) = n - i BY <2>5, <2>6
      <3>3. \A k \in 1 .. i - 1 : a[k] = q[k] BY <2>5
      <3>4. \A k \in 1 .. n - i : b[k] = q[k + i] BY <2>6
      <3>5. r = a \o b BY <2>4
      <3> HIDE DEF a, b
      <3>6. Len(a) + Len(b) = n - 1 BY <2>1, <2>2, <3>2, SMTT(30)
      <3>7. ASSUME NEW k \in 1 .. n - 1
            PROVE  r[k] = IF k < i THEN q[k] ELSE q[k + 1]
        <4>1. CASE k < i BY <2>1, <2>2, <3>1, <3>2, <3>3, <3>5, <3>6, <4>1, SMTT(30)
        <4>2. CASE ~(k < i)
          <5>1. k - (i - 1) \in 1 .. n - i /\ (k - (i - 1)) + i = k + 1 BY <2>1, <2>2, <4>2, SMTT(30)
          <5>2. r[k] = b[k - (i - 1)] BY <2>1, <2>2, <3>1, <3>2, <3>5, <3>6, <4>2, SMTT(30)
          <5> QED BY <3>4, <4>2, <5>1, <5>2
        <4> QED BY <4>1, <4>2
      <3> QED BY <3>1, <3>5, <3>6, <3>7, SMTT(30)
    <2>8. IsInjective(r)
      <3> SUFFICES ASSUME NEW a \in 1 .. n - 1, NEW b \in 1 .. n - 1, r[a] = r[b] PROVE a = b
        BY <2>7 DEF IsInjective
      <3> DEFINE pos(k) == IF k < i THEN k ELSE k + 1
      <3>1. pos(a) \in DOMAIN q /\ pos(b) \in DOMAIN q BY <2>1, <2>2, SMTT(30)
      <3>2. r[a] = q[pos(a)] /\ r[b] = q[pos(b)] BY <2>7
      <3>3. pos(a) = pos(b) BY <3>1, <3>2 DEF Queue, IsInjective
      <3> QED BY <2>1, <2>2, <3>3, SMTT(30)
    <2>9. Range(r) \subseteq Range(q) \ {t}
      <3> SUFFICES ASSUME NEW k \in 1 .. n - 1 PROVE r[k] \in Range(q) \ {t}
        BY <2>7 DEF Range
      <3>1. CASE k < i
        <4>1. k \in 1 .. n /\ k # i /\ r[k] = q[k] BY <2>1, <2>2, <2>7, <3>1, SMTT(30)
        <4> QED BY <2>1, <2>3, <4>1 DEF Range
      <3>2. CASE ~(k < i)
        <4>1. k + 1 \in 1 .. n /\ k + 1 # i /\ r[k] = q[k + 1] BY <2>1, <2>2, <2>7, <3>2, SMTT(30)
        <4> QED BY <2>1, <2>3, <4>1 DEF Range
      <3> QED BY <3>1, <3>2
    <2>10. ASSUME NEW u \in Range(q), u # t PROVE u \in Range(r)
      <3>1. PICK k \in 1 .. n : q[k] = u BY <2>1 DEF Range
      <3>2. CASE k < i BY <2>1, <2>2, <2>7, <3>1, <3>2, SMTT(30) DEF Range
      <3>3. CASE k > i
        <4>1. k - 1 \in 1 .. n - 1 /\ ~(k - 1 < i) /\ (k - 1) + 1 = k BY <2>1, <2>2, <3>3, SMTT(30)
        <4> QED BY <2>7, <3>1, <4>1 DEF Range
      <3> QED BY <2>1, <2>2, <2>10, <3>1, <3>2, <3>3, SMTT(30)
    <2>11. Queue(r) /\ Range(r) = Range(q) \ {t} BY <2>7, <2>8, <2>9, <2>10 DEF Queue
    <2> QED BY <2>11 DEF r
  <1> QED BY <1>1, <1>2

\* butex_requeue: one list is put behind another that shares no thread with it.
LEMMA ConcatQueue ==
  ASSUME NEW p, Queue(p), NEW q, Queue(q), Range(p) \cap Range(q) = {}
  PROVE  Queue(p \o q) /\ Range(p \o q) = Range(p) \cup Range(q)
  <1>1. /\ Len(p) \in Nat /\ DOMAIN p = 1 .. Len(p) /\ Len(q) \in Nat /\ DOMAIN q = 1 .. Len(q)
    BY SMTT(30) DEF Queue
  <1>2. /\ p \o q \in Seq(LockUsers) /\ DOMAIN (p \o q) = 1 .. Len(p) + Len(q)
        /\ \A i \in 1 .. Len(p) + Len(q) :
             (p \o q)[i] = IF i <= Len(p) THEN p[i] ELSE q[i - Len(p)]
    BY SMTT(30) DEF Queue
  <1>3. \A i \in 1 .. Len(p), j \in 1 .. Len(q) : p[i] # q[j]
    BY <1>1 DEF Range
  <1>4. IsInjective(p \o q)
    BY <1>1, <1>2, <1>3, SMTT(30) DEF Queue, IsInjective
  <1>5. Range(p \o q) \subseteq Range(p) \cup Range(q)
    BY <1>1, <1>2, SMTT(30) DEF Range
  <1>6. Range(p) \subseteq Range(p \o q)
    BY <1>1, <1>2, SMTT(30) DEF Range
  <1>7. ASSUME NEW u \in Range(q) PROVE u \in Range(p \o q)
    <2>1. PICK j \in 1 .. Len(q) : q[j] = u BY <1>1 DEF Range
    <2>2. j + Len(p) \in 1 .. Len(p) + Len(q) /\ (p \o q)[j + Len(p)] = u
      BY <1>1, <1>2, <2>1, SMTT(30)
    <2> QED BY <1>2, <2>2 DEF Range
  <1> QED BY <1>2, <1>4, <1>5, <1>6, <1>7 DEF Queue

-----------------------------------------------------------------------------
(* The inductive invariant.                                                 *)

Records == [pc : PCs, exp : Nat, cond : BOOLEAN]
HoldsAt(pc) == pc \in {"in", "unlock"} \/ (conf.inside /\ pc \in {"notify", "notify2"})
WakerAt(pc) == pc \in {"contend", "done+wake", "cwait+wake", "notify+wake"}
Unqueued(pc) == pc \in PCs \ {"mq", "cq"}
\* What MutexTypeOK says of the variables other than th and the two lists.
Scalars == /\ conf \in Confs /\ word \in {"free", "locked", "contended"}
           /\ seq \in Nat /\ bound \in BOOLEAN /\ items \in Nat
           /\ interrupts \in 0 .. conf.interrupts
InQueues == \A t \in LockUsers : /\ t \in Range(mq) <=> th[t].pc = "mq"
                                 /\ t \in Range(cq) <=> th[t].pc = "cq"
WakesFirst == \A t \in LockUsers : th[t].pc = "notify+wake" => ~conf.inside

\* The invariant in terms of the abbreviations above.
LEMMA Parts ==
  MutexInv <=> /\ Scalars /\ th \in [LockUsers -> Records] /\ Queue(mq) /\ Queue(cq) /\ InQueues
               /\ Excludes /\ ChainUnbroken /\ WakesFirst
  BY SMTT(30) DEF MutexInv, MutexSafe, MutexTypeOK, Scalars, Records, Queue, InQueues, WakesFirst
LEMMA PartsNext ==
  MutexInv' <=> /\ Scalars' /\ (th \in [LockUsers -> Records])' /\ Queue(mq)' /\ Queue(cq)' /\ InQueues'
                /\ Excludes' /\ ChainUnbroken' /\ WakesFirst'
  BY SMTT(30) DEF MutexInv, MutexSafe, MutexTypeOK, Scalars, Records, Queue, InQueues, WakesFirst

\* What a configuration is made of.
LEMMA ConfFacts ==
  ASSUME MutexConstants, conf \in Confs
  PROVE  /\ conf.broadcast \in BOOLEAN /\ conf.inside \in BOOLEAN
         /\ conf.items \in Nat /\ conf.interrupts \in Nat
  BY DEF MutexConstants

\* Nobody has the mutex and nobody waits.
LEMMA InitMutexInv == ASSUME MutexConstants PROVE MutexInit => MutexInv
  <1> SUFFICES ASSUME MutexInit PROVE MutexInv OBVIOUS
  <1>1. Scalars
    <2>1. conf.interrupts \in Nat BY ConfFacts DEF MutexInit
    <2>2. interrupts \in 0 .. conf.interrupts BY <2>1, SMTT(30) DEF MutexInit
    <2> QED BY <2>2 DEF MutexInit, Scalars
  <1>2. th \in [LockUsers -> Records] /\ \A t \in LockUsers : th[t].pc = "start"
    BY DEF MutexInit, Start, Records, PCs
  <1>3. Queue(<<>>) /\ Range(<<>>) = {} BY SMTT(30) DEF Queue, IsInjective, Range
  <1>4. Excludes /\ ChainUnbroken /\ WakesFirst /\ InQueues
    BY <1>2, <1>3 DEF MutexInit, Excludes, Owns, ChainUnbroken, WakesFirst, InQueues
  <1> QED BY <1>1, <1>2, <1>3, <1>4, Parts DEF MutexInit

\* A step of a thread t that is in no list before and after it and ends with the record r: it
\* takes and gives up the mutex with the word, and it hands over or keeps the duty to wake
\* somebody up.
Local(t, r) ==
  /\ r \in Records /\ th' = [th EXCEPT ![t] = r] /\ UNCHANGED <<conf, mq, cq>>
  /\ Unqueued(th[t].pc) /\ Unqueued(r.pc)
  /\ \/ (word = "free" <=> word' = "free") /\ (HoldsAt(th[t].pc) <=> HoldsAt(r.pc))
     \/ word = "free" /\ word' # "free" /\ HoldsAt(r.pc)
     \/ HoldsAt(th[t].pc) /\ word' = "free" /\ ~HoldsAt(r.pc)
  /\ word = "contended" \/ WakerAt(th[t].pc) => word' = "contended" \/ WakerAt(r.pc)
  /\ r.pc = "notify+wake" => ~conf.inside

\* Such a step keeps the invariant.
LEMMA LocalStep ==
  ASSUME MutexConstants, MutexInv, NEW t \in LockUsers, NEW r, Local(t, r), Scalars'
  PROVE  MutexInv'
  <1> USE DEF Local
  <1>1. /\ th \in [LockUsers -> Records] /\ Queue(mq) /\ Queue(cq) /\ InQueues /\ Excludes
        /\ ChainUnbroken /\ WakesFirst
    BY Parts
  <1>2. th' \in [LockUsers -> Records] /\ th'[t] = r /\ \A u \in LockUsers \ {t} : th'[u] = th[u]
    BY <1>1
  <1>3. InQueues' BY <1>1, <1>2 DEF InQueues, Unqueued
  <1>4. /\ \A u \in LockUsers : Owns(u) <=> HoldsAt(th[u].pc)
        /\ \A u \in LockUsers : Owns(u)' <=> HoldsAt(th'[u].pc)
    BY DEF Owns, HoldsAt
  <1>5. Excludes' BY <1>1, <1>2, <1>4, SMTT(30) DEF Excludes
  <1>6. ChainUnbroken' BY <1>1, <1>2 DEF ChainUnbroken, WakerAt
  <1>7. WakesFirst' BY <1>1, <1>2 DEF WakesFirst
  <1>8. Queue(mq)' /\ Queue(cq)' BY <1>1 DEF Queue
  <1> QED BY <1>2, <1>3, <1>5, <1>6, <1>7, <1>8, PartsNext

\* Lock, Contend, Unlock, User, Consume, Produce, CondWait and Notify, and a wait that returns at once.
LEMMA ThreadStep ==
  ASSUME MutexConstants, MutexInv, NEW t \in LockUsers,
         \/ Lock(t) \/ Contend(t) \/ Unlock(t) \/ User(t) \/ Consume(t) \/ Produce(t)
         \/ CondWait(t) \/ Notify(t) \/ (MutexWait(t) /\ word # "contended")
         \/ (CondSleep(t) /\ ~SameSeq(t))
  PROVE  MutexInv'
  <1> USE DEF MutexGoto, MutexVars, CondVars, Unqueued, HoldsAt, WakerAt, PCs
  <1> DEFINE r == th'[t]
  <1>1. /\ Scalars /\ th \in [LockUsers -> Records] /\ Excludes /\ WakesFirst
    BY Parts
  <1>2. th[t] = [pc |-> th[t].pc, exp |-> th[t].exp, cond |-> th[t].cond] /\ th[t] \in Records
    BY <1>1 DEF Records
  <1>3. HoldsAt(th[t].pc) => word # "free"
    BY <1>1 DEF Excludes, Owns
  <1>4. /\ conf.broadcast \in BOOLEAN /\ conf.inside \in BOOLEAN
        /\ conf.items \in Nat /\ conf.interrupts \in Nat
    BY <1>1, ConfFacts DEF Scalars
  <1>5. CASE Lock(t)
    <2> USE <1>5 DEF Lock, Free
    <2>1. Local(t, r) BY <1>1, <1>2, <1>3, <1>4, SMTT(30) DEF Scalars, Local, Records
    <2>2. Scalars' BY <1>1, <1>4 DEF Scalars
    <2> QED BY <2>1, <2>2, LocalStep
  <1>6. CASE Contend(t)
    <2> USE <1>6 DEF Contend, Contended
    <2>1. Local(t, r) BY <1>1, <1>2, <1>3, <1>4 DEF Scalars, Local, Records
    <2>2. Scalars' BY <1>1, <1>4 DEF Scalars
    <2> QED BY <2>1, <2>2, LocalStep
  <1>7. CASE Unlock(t)
    <2> USE <1>7 DEF Unlock, UnlockedTo
    <2>1. Local(t, r) BY <1>1, <1>2, <1>3, <1>4 DEF Scalars, Local, Records
    <2>2. Scalars' BY <1>1, <1>4 DEF Scalars
    <2> QED BY <2>1, <2>2, LocalStep
  <1>8. CASE User(t)
    <2> USE <1>8 DEF User
    <2>1. Local(t, r) BY <1>1, <1>2, <1>3, <1>4 DEF Scalars, Local, Records
    <2>2. Scalars' BY <1>1, <1>4 DEF Scalars
    <2> QED BY <2>1, <2>2, LocalStep
  <1>9. CASE Consume(t)
    <2> USE <1>9 DEF Consume
    <2>1. Local(t, r) BY <1>1, <1>2, <1>3, <1>4 DEF Scalars, Local, Records
    <2>2. Scalars' BY <1>1, <1>4, SMTT(30) DEF Scalars
    <2> QED BY <2>1, <2>2, LocalStep
  <1>10. CASE Produce(t)
    <2> USE <1>10 DEF Produce, UnlockedTo
    <2>1. Local(t, r) BY <1>1, <1>2, <1>3, <1>4, SMTT(30) DEF Scalars, Local, Records
    <2>2. Scalars' BY <1>1, <1>4, SMTT(30) DEF Scalars
    <2> QED BY <2>1, <2>2, LocalStep
  <1>11. CASE CondWait(t)
    <2> USE <1>11 DEF CondWait
    <2>1. Local(t, r) BY <1>1, <1>2, <1>3, <1>4 DEF Scalars, Local, Records
    <2>2. Scalars' BY <1>1, <1>4 DEF Scalars
    <2> QED BY <2>1, <2>2, LocalStep
  <1>12. CASE Notify(t)
    <2> USE <1>12 DEF Notify, AfterNotify
    <2>1. Local(t, r) BY <1>1, <1>2, <1>3, <1>4, SMTT(30) DEF Scalars, Local, Records
    <2>2. Scalars' BY <1>1, <1>4, SMTT(30) DEF Scalars
    <2> QED BY <2>1, <2>2, LocalStep
  <1>13. CASE MutexWait(t) /\ word # "contended"
    <2> USE <1>13 DEF MutexWait
    <2>1. Local(t, r) BY <1>1, <1>2, <1>3, <1>4, SMTT(30) DEF Scalars, Local, Records
    <2>2. Scalars' BY <1>1, <1>4 DEF Scalars
    <2> QED BY <2>1, <2>2, LocalStep
  <1>14. CASE CondSleep(t) /\ ~SameSeq(t)
    <2> USE <1>14 DEF CondSleep
    <2>1. Local(t, r) BY <1>1, <1>2, <1>3, <1>4, SMTT(30) DEF Scalars, Local, Records
    <2>2. Scalars' BY <1>1, <1>4 DEF Scalars
    <2> QED BY <2>1, <2>2, LocalStep
  <1> QED BY <1>5, <1>6, <1>7, <1>8, <1>9, <1>10, <1>11, <1>12, <1>13, <1>14

\* A step that gives the mutex to nobody and takes it from nobody leaves Excludes true.
LEMMA SameHolders ==
  ASSUME Excludes, UNCHANGED <<conf, word>>,
         \A u \in LockUsers : HoldsAt(th'[u].pc) <=> HoldsAt(th[u].pc)
  PROVE  Excludes'
  <1>1. \A u \in LockUsers : Owns(u)' <=> Owns(u) BY DEF Owns, HoldsAt
  <1> QED BY <1>1 DEF Excludes

\* Appending to a list: wait_for_butex of the mutex or of the condition variable.
LEMMA SleepStep ==
  ASSUME MutexConstants, MutexInv, NEW t \in LockUsers,
         (MutexWait(t) /\ word = "contended") \/ (CondSleep(t) /\ SameSeq(t))
  PROVE  MutexInv'
  <1> USE DEF MutexWait, CondSleep, MutexGoto, CondVars, MutexVars
  <1>1. /\ Scalars /\ th \in [LockUsers -> Records] /\ Queue(mq) /\ Queue(cq) /\ InQueues /\ Excludes
        /\ ChainUnbroken /\ WakesFirst
    BY Parts
  <1>2. Scalars' /\ UNCHANGED <<conf, word>> BY <1>1 DEF Scalars
  <1>3. /\ th' \in [LockUsers -> Records] /\ th'[t].pc \in {"mq", "cq"}
        /\ \A u \in LockUsers \ {t} : th'[u] = th[u]
    <2>1. PICK pc \in {"mq", "cq"} : th' = [th EXCEPT ![t].pc = pc] OBVIOUS
    <2>2. pc \in PCs BY DEF PCs
    <2>3. th' \in [LockUsers -> Records] BY <1>1, <2>1, <2>2, SMTT(30) DEF Records
    <2>4. th'[t].pc = pc BY <1>1, <2>1, SMTT(30) DEF Records
    <2>5. \A u \in LockUsers \ {t} : th'[u] = th[u] BY <1>1, <2>1
    <2> QED BY <2>3, <2>4, <2>5
  <1>4. t \notin Range(mq) /\ t \notin Range(cq) /\ th[t].pc \in {"mwait", "cwait"}
    BY <1>1, SMTT(30) DEF InQueues
  <1>5. Queue(mq') /\ Queue(cq') /\ InQueues'
    <2>1. \/ /\ cq' = cq /\ Queue(mq') /\ Range(mq') = Range(mq) \cup {t} /\ th'[t].pc = "mq"
          \/ /\ mq' = mq /\ Queue(cq') /\ Range(cq') = Range(cq) \cup {t} /\ th'[t].pc = "cq"
      <3>1. CASE MutexWait(t) /\ word = "contended"
        <4>1. cq' = cq /\ mq' = Append(mq, t) /\ th'[t].pc = "mq" BY <1>1, <3>1, SMTT(30) DEF Records
        <4> QED BY <1>1, <1>4, <4>1, AppendQueue
      <3>2. CASE CondSleep(t) /\ SameSeq(t)
        <4>1. mq' = mq /\ cq' = Append(cq, t) /\ th'[t].pc = "cq" BY <1>1, <3>2, SMTT(30) DEF Records
        <4> QED BY <1>1, <1>4, <4>1, AppendQueue
      <3> QED BY <3>1, <3>2
    <2> QED BY <1>1, <1>3, <1>4, <2>1 DEF InQueues
  <1>6. Queue(mq)' /\ Queue(cq)' BY <1>5 DEF Queue
  <1>7. Excludes' BY <1>1, <1>2, <1>3, <1>4, SameHolders DEF HoldsAt
  <1>8. ChainUnbroken' /\ WakesFirst'
    BY <1>1, <1>2, <1>3, <1>4 DEF ChainUnbroken, WakesFirst
  <1> QED BY <1>2, <1>3, <1>5, <1>6, <1>7, <1>8, PartsNext

\* Leaving a list by a timeout or an interruption.
LEMMA EraseStep ==
  ASSUME MutexConstants, MutexInv, NEW t \in LockUsers, TimeOut(t) \/ Interrupt(t)
  PROVE  MutexInv'
  <1> USE DEF TimeOut, Interrupt, MutexGoto
  <1>1. /\ Scalars /\ th \in [LockUsers -> Records] /\ Queue(mq) /\ Queue(cq) /\ InQueues /\ Excludes
        /\ ChainUnbroken /\ WakesFirst
    BY Parts
  <1>2. Scalars' /\ UNCHANGED <<conf, word>>
    <2>1. conf.interrupts \in Nat BY <1>1, ConfFacts DEF Scalars
    <2> QED BY <1>1, <2>1, SMTT(30) DEF Scalars
  <1>3. /\ th' \in [LockUsers -> Records] /\ th'[t].pc \in {"contend", "done"}
        /\ \A u \in LockUsers \ {t} : th'[u] = th[u]
    BY <1>1, SMTT(30) DEF Records, PCs
  <1>4. th[t].pc \in {"mq", "cq"} /\ mq' = Erased(mq, t) /\ cq' = Erased(cq, t) OBVIOUS
  <1>5. /\ Queue(mq') /\ Range(mq') = Range(mq) \ {t}
        /\ Queue(cq') /\ Range(cq') = Range(cq) \ {t}
    BY <1>1, <1>4, WithoutQueue
  <1>6. Queue(mq)' /\ Queue(cq)' BY <1>5 DEF Queue
  <1>7. InQueues' BY <1>1, <1>3, <1>5 DEF InQueues
  <1>8. Excludes' BY <1>1, <1>2, <1>3, <1>4, SameHolders DEF HoldsAt
  <1>9. ChainUnbroken'
    <2>1. mq' # <<>> => mq # <<>> BY <1>1, <1>4, SMTT(30) DEF Erased, Range
    <2> QED BY <1>1, <1>2, <1>3, <1>4, <2>1 DEF ChainUnbroken
  <1>10. WakesFirst' BY <1>1, <1>2, <1>3 DEF WakesFirst
  <1> QED BY <1>2, <1>3, <1>6, <1>7, <1>8, <1>9, <1>10, PartsNext

\* butex_wake: the first thread of a list, if there is one, goes on to contend for the mutex.
LEMMA WokenFacts ==
  ASSUME NEW q, Queue(q), NEW pcs \in [LockUsers -> Records]
  PROVE  /\ Woken(q, pcs) \in [LockUsers -> Records]
         /\ q # <<>> => Woken(q, pcs)[Head(q)].pc = "contend"
         /\ \A u \in LockUsers : q = <<>> \/ u # Head(q) => Woken(q, pcs)[u] = pcs[u]
  <1>1. CASE q = <<>> BY <1>1 DEF Woken
  <1>2. CASE q # <<>>
    <2>1. Head(q) \in LockUsers BY <1>2, RestQueue
    <2> QED BY <1>2, <2>1 DEF Woken, Records, PCs
  <1> QED BY <1>1, <1>2

\* The wake-up after an unlock.
LEMMA WakeStep ==
  ASSUME MutexConstants, MutexInv, NEW t \in LockUsers, WakeOne(t)
  PROVE  MutexInv'
  <1>1. /\ Scalars /\ th \in [LockUsers -> Records] /\ Queue(mq) /\ Queue(cq) /\ InQueues /\ Excludes
        /\ ChainUnbroken /\ WakesFirst
    BY Parts
  <1>2. PICK pc \in {"done+wake", "cwait+wake", "notify+wake"}, next \in {"done", "cwait", "notify"} :
          ButexWake(t, pc, next) /\ (next = "notify" => ~conf.inside)
    BY <1>1 DEF WakeOne, WakesFirst, ButexWake
  <1>3. Scalars' /\ UNCHANGED <<conf, word, cq>> BY <1>1, <1>2 DEF ButexWake, CondVars, Scalars
  <1> DEFINE pcs == [th EXCEPT ![t].pc = next]
  <1>4. /\ pcs \in [LockUsers -> Records] /\ pcs[t].pc = next
        /\ \A u \in LockUsers \ {t} : pcs[u] = th[u]
    BY <1>1 DEF Records, PCs
  <1>5. mq' = Rest(mq) /\ th' = Woken(mq, pcs) /\ th[t].pc = pc BY <1>2 DEF ButexWake
  <1>6. t \notin Range(mq) /\ t \notin Range(cq) BY <1>1, <1>5, SMTT(30) DEF InQueues
  <1> HIDE DEF pcs
  <1>7. CASE mq = <<>>
    <2>1. th' = pcs /\ mq' = mq BY <1>5, <1>7 DEF Woken, Rest
    <2>2. InQueues' BY <1>1, <1>3, <1>4, <1>6, <2>1 DEF InQueues
    <2>3. Excludes' BY <1>1, <1>2, <1>3, <1>4, <1>5, <2>1, SameHolders DEF HoldsAt
    <2>4. ChainUnbroken' /\ WakesFirst'
      BY <1>1, <1>3, <1>4, <1>7, <2>1 DEF ChainUnbroken, WakesFirst
    <2>5. Queue(mq)' /\ Queue(cq)' BY <1>1, <1>3, <2>1 DEF Queue
    <2> QED BY <1>3, <1>4, <2>1, <2>2, <2>3, <2>4, <2>5, PartsNext
  <1>8. CASE mq # <<>>
    <2> DEFINE h == Head(mq)
    <2>1. /\ Queue(mq') /\ h \in LockUsers /\ h \in Range(mq) /\ Range(mq') = Range(mq) \ {h}
      BY <1>1, <1>5, <1>8, RestQueue
    <2>2. /\ th' \in [LockUsers -> Records] /\ th'[h].pc = "contend"
          /\ \A u \in LockUsers : u # h => th'[u] = pcs[u]
      BY <1>1, <1>4, <1>5, <1>8, WokenFacts, SMTT(30)
    <2>3. h # t /\ th[h].pc = "mq" BY <1>1, <1>6, <2>1, SMTT(30) DEF InQueues
    <2> HIDE DEF h
    <2>4. InQueues' BY <1>1, <1>3, <1>4, <1>6, <2>1, <2>2, <2>3, SMTT(30) DEF InQueues
    <2>5. Excludes' BY <1>1, <1>2, <1>3, <1>4, <1>5, <2>2, <2>3, SameHolders DEF HoldsAt
    <2>6. ChainUnbroken' /\ WakesFirst'
      BY <1>1, <1>3, <1>4, <2>1, <2>2, SMTT(30) DEF ChainUnbroken, WakesFirst
    <2>7. Queue(mq)' /\ Queue(cq)' BY <1>1, <1>3, <2>1 DEF Queue
    <2> QED BY <1>3, <2>2, <2>4, <2>5, <2>6, <2>7, PartsNext
  <1> QED BY <1>7, <1>8

\* bthread_cond_signal and bthread_cond_broadcast: the latter moves all but the first waiter to
\* the list of the mutex, whatever its word says; the first one goes to contend for it.
LEMMA NotifyStep ==
  ASSUME MutexConstants, MutexInv, NEW t \in LockUsers, Signal(t) \/ Requeue(t)
  PROVE  MutexInv'
  <1>1. /\ Scalars /\ th \in [LockUsers -> Records] /\ Queue(mq) /\ Queue(cq) /\ InQueues /\ Excludes
        /\ ChainUnbroken /\ WakesFirst
    BY Parts
  <1>2. Scalars' /\ UNCHANGED <<conf, word>>
    BY <1>1 DEF Signal, Requeue, MutexVars, Scalars
  <1> DEFINE moved == IF Signal(t) THEN {} ELSE Range(Rest(cq))
             pcs == [u \in LockUsers |-> IF u \in moved THEN [th[u] EXCEPT !.pc = "mq"]
                                         ELSE IF u = t THEN [th[t] EXCEPT !.pc = AfterNotify]
                                         ELSE th[u]]
  <1>3. th[t].pc = "notify2" /\ th' = Woken(cq, pcs)
    <2>1. CASE Signal(t)
      <3>1. pcs = [th EXCEPT ![t].pc = AfterNotify] BY <1>1, <2>1
      <3> QED BY <2>1, <3>1 DEF Signal
    <2>2. CASE ~Signal(t) BY <2>2 DEF Requeue, WakesOne
    <2> QED BY <2>1, <2>2
  <1>4. t \notin Range(mq) /\ t \notin Range(cq) BY <1>1, <1>3, SMTT(30) DEF InQueues
  <1>5. Range(<<>>) = {} /\ Queue(<<>>) BY SMTT(30) DEF Range, Queue, IsInjective
  <1>6. moved \subseteq Range(cq) /\ (cq # <<>> => moved \subseteq Range(cq) \ {Head(cq)})
    BY <1>1, <1>5, RestQueue DEF Rest
  <1>7. /\ pcs \in [LockUsers -> Records]
        /\ \A u \in moved : u \in LockUsers => pcs[u].pc = "mq"
        /\ pcs[t].pc = AfterNotify
        /\ \A u \in LockUsers : u \notin moved /\ u # t => pcs[u] = th[u]
    BY <1>1, <1>4, <1>6, SMTT(30) DEF Records, PCs, AfterNotify
  <1>8. /\ Queue(mq') /\ Range(mq') = Range(mq) \cup moved
        /\ Queue(cq') /\ Range(cq') = IF cq = <<>> THEN {} ELSE Range(cq) \ (moved \cup {Head(cq)})
        /\ moved # {} => cq # <<>>
        /\ moved = {} => mq' = mq \/ cq # <<>>
    <2>1. CASE Signal(t)
      BY <1>1, <1>5, <2>1, RestQueue DEF Signal, MutexVars, Rest
    <2>2. CASE ~Signal(t)
      <3>1. mq' = mq \o Rest(cq) /\ cq' = <<>> /\ moved = Range(Rest(cq)) BY <2>2 DEF Requeue
      <3>2. CASE cq = <<>>
        <4>1. mq' = mq /\ moved = {} BY <1>1, <1>5, <3>1, <3>2, ConcatEmptySeq DEF Rest, Queue
        <4> QED BY <1>1, <1>5, <3>1, <3>2, <4>1
      <3>3. CASE cq # <<>>
        <4>1. Queue(Rest(cq)) /\ moved = Range(cq) \ {Head(cq)} BY <1>1, <3>1, <3>3, RestQueue
        <4>2. Range(mq) \cap Range(Rest(cq)) = {}
          <5>1. Range(cq) \subseteq LockUsers BY <1>1, SMTT(30) DEF Queue, Range
          <5> QED BY <1>1, <3>1, <4>1, <5>1, SMTT(30) DEF InQueues
        <4> QED BY <1>1, <1>5, <3>1, <3>3, <4>1, <4>2, ConcatQueue, SMTT(30)
      <3> QED BY <3>2, <3>3
    <2> QED BY <2>1, <2>2
  <1> HIDE DEF pcs, moved
  <1>9. /\ th' \in [LockUsers -> Records]
        /\ cq # <<>> => th'[Head(cq)].pc = "contend"
        /\ \A u \in LockUsers : cq = <<>> \/ u # Head(cq) => th'[u] = pcs[u]
    BY <1>1, <1>3, <1>7, WokenFacts, SMTT(30)
  <1>10. cq # <<>> => Head(cq) \in LockUsers /\ Head(cq) \in Range(cq) BY <1>1, RestQueue
  <1>11. ASSUME NEW u \in LockUsers
         PROVE  (u \in Range(mq') <=> th'[u].pc = "mq") /\ (u \in Range(cq') <=> th'[u].pc = "cq")
    <2>1. (u \in Range(mq) <=> th[u].pc = "mq") /\ (u \in Range(cq) <=> th[u].pc = "cq")
      BY <1>1, SMTT(30) DEF InQueues
    <2>2. CASE u \notin Range(cq) /\ u # t BY <1>6, <1>7, <1>8, <1>9, <1>10, <2>1, <2>2
    <2>3. CASE u \in Range(cq) /\ u \in moved BY <1>6, <1>7, <1>8, <1>9, <1>10, <2>1, <2>3
    <2>4. CASE u \in Range(cq) /\ u \notin moved /\ u # t
      <3>1. cq # <<>> BY <1>5, <2>4
      <3> QED BY <1>7, <1>8, <1>9, <1>10, <2>1, <2>4, <3>1
    <2>5. CASE u = t BY <1>3, <1>4, <1>6, <1>7, <1>8, <1>9, <1>10, <2>5 DEF AfterNotify
    <2> QED BY <2>2, <2>3, <2>4, <2>5
  <1>12. ASSUME NEW u \in LockUsers PROVE HoldsAt(th'[u].pc) <=> HoldsAt(th[u].pc)
    <2>1. CASE u = t BY <1>3, <1>4, <1>7, <1>6, <1>9, <1>10, <2>1 DEF HoldsAt, AfterNotify
    <2>2. CASE u # t
      <3>1. u \in Range(cq) => th[u].pc = "cq" BY <1>1, SMTT(30) DEF InQueues
      <3> QED BY <1>6, <1>7, <1>9, <1>10, <2>2, <3>1 DEF HoldsAt
    <2> QED BY <2>1, <2>2
  <1>13. Excludes' BY <1>1, <1>2, <1>12, SameHolders
  <1>14. ChainUnbroken'
    <2>1. CASE cq # <<>> BY <1>9, <1>10, <2>1 DEF ChainUnbroken
    <2>2. CASE cq = <<>>
      BY <1>1, <1>2, <1>3, <1>7, <1>8, <1>9, <2>2 DEF ChainUnbroken
    <2> QED BY <2>1, <2>2
  <1>15. WakesFirst'
    BY <1>1, <1>2, <1>3, <1>7, <1>9, <1>10, SMTT(30) DEF WakesFirst, AfterNotify
  <1>16. Queue(mq)' /\ Queue(cq)' BY <1>8 DEF Queue
  <1>17. InQueues' BY <1>11 DEF InQueues
  <1> QED BY <1>2, <1>9, <1>13, <1>14, <1>15, <1>16, <1>17, PartsNext

\* The invariant is inductive.
LEMMA NextMutexInv == ASSUME MutexConstants, MutexInv, [MutexNext]_mutex_vars PROVE MutexInv'
  <1>1. CASE UNCHANGED mutex_vars
    BY <1>1 DEF mutex_vars, MutexInv, MutexSafe, MutexTypeOK, Excludes, Owns, ChainUnbroken
  <1>2. ASSUME NEW t \in LockUsers, Step(t) \/ TimeOut(t) \/ Interrupt(t) PROVE MutexInv'
    BY <1>2, ThreadStep, SleepStep, EraseStep, WakeStep, NotifyStep DEF Step
  <1> QED BY <1>1, <1>2 DEF MutexNext

\* bthread_mutex_t and bthread_cond_t, for any threads in any roles: at most one thread has the
\* mutex and its word says so; a waiter of the mutex always has somebody who will wake it up or
\* write the word that makes the holder do so, though a broadcast moves waiters to a mutex that
\* says "locked"; and a thread is in the list its state says, once.
THEOREM MutexIsSafe == ASSUME MutexConstants PROVE MutexSpec => []MutexSafe
  <1>1. MutexInv => MutexSafe BY DEF MutexInv
  <1> QED BY <1>1, InitMutexInv, NextMutexInv, PTL DEF MutexSpec

-----------------------------------------------------------------------------
(* CountdownEvent.                                                          *)


\* What EventTypeOK says of the records of the threads.
EventRecords ==
  [pc : {"start", "wake_all", "done", "load", "sleep", "asleep", "zero", "timedout"}, seen : Int]
EventUsers == Signallers \cup EventWaiters

\* The conjuncts of EventInv, one by one.
LEMMA EventParts ==
  ASSUME NEW W
  PROVE  EventInv(W) <=>
           /\ count \in Int /\ owner \in EventWaiters /\ destroyed \in BOOLEAN
           /\ et \in [EventUsers -> EventRecords]
           /\ asleep = {t \in EventWaiters : et[t].pc = "asleep"}
           /\ DestroyedAtZero /\ SleepersKnown /\ count = W[Pending]
           /\ \A t \in Signallers : et[t].pc \in {"start", "wake_all", "done"}
           /\ \A t \in EventWaiters : /\ et[t].pc \notin {"wake_all", "done"}
                                      /\ et[t].pc = "sleep" => et[t].seen > 0
                                      /\ et[t].pc = "zero" => count <= 0
  BY DEF EventInv, EventSafe, EventTypeOK, EventUsers, EventRecords

\* The same of the next state.
LEMMA EventPartsNext ==
  ASSUME NEW W
  PROVE  EventInv(W)' <=>
           /\ count' \in Int /\ owner' \in EventWaiters /\ destroyed' \in BOOLEAN
           /\ et' \in [EventUsers -> EventRecords]
           /\ asleep' = {t \in EventWaiters : et'[t].pc = "asleep"}
           /\ DestroyedAtZero' /\ SleepersKnown' /\ count' = W[Pending']
           /\ \A t \in Signallers : et'[t].pc \in {"start", "wake_all", "done"}
           /\ \A t \in EventWaiters : /\ et'[t].pc \notin {"wake_all", "done"}
                                      /\ et'[t].pc = "sleep" => et'[t].seen > 0
                                      /\ et'[t].pc = "zero" => count' <= 0
  BY DEF EventInv, EventSafe, EventTypeOK, EventUsers, EventRecords

\* The sum of a set of signallers falls by what one of them counts down when that one is left out,
\* and is above zero unless the set is empty.
LEMMA SumStep ==
  ASSUME EventConstants, NEW W \in [SUBSET Signallers -> 0 .. Initial], IsSum(W),
         NEW S \in SUBSET Signallers, NEW t \in S
  PROVE  /\ W[S \ {t}] \in Nat /\ Sigs[t] \in Nat \ {0}
         /\ W[S] = W[S \ {t}] + Sigs[t] /\ W[S] > 0
  <1>1. S \ {t} \in SUBSET Signallers /\ t \in Signallers \ (S \ {t}) OBVIOUS
  <1>2. (S \ {t}) \cup {t} = S OBVIOUS
  <1>3. W[(S \ {t}) \cup {t}] = W[S \ {t}] + Sigs[t] BY <1>1 DEF IsSum
  <1>4. W[S \ {t}] \in Nat /\ Sigs[t] \in Nat \ {0} BY <1>1, SMTT(30) DEF EventConstants
  <1>5. W[S] = W[S \ {t}] + Sigs[t] BY <1>2, <1>3
  <1> QED BY <1>4, <1>5, SMTT(30)

\* A new event: the counter is the sum of all.
LEMMA InitEventInv ==
  ASSUME EventConstants, EventInit, NEW W \in [SUBSET Signallers -> 0 .. Initial], IsSum(W),
         W[Signallers] = Initial
  PROVE  EventInv(W)
  <1>1. et \in [EventUsers -> EventRecords] BY SMTT(30) DEF EventInit, EventUsers, EventRecords
  <1>2. \A t \in EventUsers : et[t].pc = "start" BY SMTT(30) DEF EventInit, EventUsers
  <1>3. Pending = Signallers BY <1>2 DEF Pending, EventUsers
  <1>4. asleep = {t \in EventWaiters : et[t].pc = "asleep"} BY <1>2, SMTT(30) DEF EventInit, EventUsers
  <1>5. DestroyedAtZero /\ SleepersKnown BY SMTT(30) DEF EventInit, DestroyedAtZero, SleepersKnown
  <1>6. count = W[Pending] /\ count \in Int BY <1>3, SMTT(30) DEF EventInit, EventConstants
  <1>7. owner \in EventWaiters /\ destroyed \in BOOLEAN BY DEF EventInit
  <1>8. /\ \A t \in Signallers : et[t].pc \in {"start", "wake_all", "done"}
        /\ \A t \in EventWaiters : et[t].pc \notin {"wake_all", "done", "sleep", "zero"}
    BY <1>2, SMTT(30) DEF EventUsers
  <1> QED BY <1>1, <1>4, <1>5, <1>6, <1>7, <1>8, EventParts

\* One thread goes from its pc to another, with the counter and the flag as they are: what the
\* invariant asks of the new pc.
LEMMA WaiterStep ==
  ASSUME NEW W, EventInv(W), NEW t \in EventWaiters, Signallers \cap EventWaiters = {},
         UNCHANGED <<count, owner, destroyed>>,
         NEW r \in EventRecords, et' = [et EXCEPT ![t] = r],
         r.pc \notin {"wake_all", "done"}, r.pc \in {"sleep", "asleep"} => r.seen > 0,
         r.pc = "zero" => count <= 0, r.pc = "asleep" => count > 0,
         asleep' = IF r.pc = "asleep" THEN asleep \cup {t} ELSE asleep \ {t}
  PROVE  EventInv(W)'
  <1>1. /\ count \in Int /\ owner \in EventWaiters /\ destroyed \in BOOLEAN
        /\ et \in [EventUsers -> EventRecords]
        /\ asleep = {u \in EventWaiters : et[u].pc = "asleep"}
        /\ DestroyedAtZero /\ SleepersKnown /\ count = W[Pending]
    BY EventParts
  <1>2. /\ \A u \in Signallers : et[u].pc \in {"start", "wake_all", "done"}
        /\ \A u \in EventWaiters : /\ et[u].pc \notin {"wake_all", "done"}
                                   /\ et[u].pc = "sleep" => et[u].seen > 0
                                   /\ et[u].pc = "zero" => count <= 0
    BY EventParts
  <1>3. t \in EventUsers BY DEF EventUsers
  <1>4. et' \in [EventUsers -> EventRecords] /\ et'[t] = r BY <1>1, <1>3
  <1>5. \A u \in EventUsers \ {t} : et'[u] = et[u] BY <1>1
  <1>6. \A u \in Signallers : et'[u] = et[u] BY <1>5 DEF EventUsers
  <1>7. Pending' = Pending BY <1>6 DEF Pending
  <1>8. asleep' = {u \in EventWaiters : et'[u].pc = "asleep"}
    <2>1. \A u \in EventWaiters \ {t} : et'[u].pc = et[u].pc BY <1>5 DEF EventUsers
    <2> QED BY <1>1, <1>4, <2>1, SMTT(30)
  <1>9. DestroyedAtZero' BY <1>1, <1>7 DEF DestroyedAtZero
  <1>10. SleepersKnown'
    <2>1. CASE r.pc = "asleep" BY <1>1, <2>1, SMTT(30) DEF SleepersKnown
    <2>2. CASE r.pc # "asleep"
      <3>1. asleep' # {} => asleep # {} BY <2>2
      <3> QED BY <1>1, <1>6, <3>1 DEF SleepersKnown
    <2> QED BY <2>1, <2>2
  <1>11. \A u \in Signallers : et'[u].pc \in {"start", "wake_all", "done"} BY <1>2, <1>6
  <1>12. \A u \in EventWaiters : /\ et'[u].pc \notin {"wake_all", "done"}
                                 /\ et'[u].pc = "sleep" => et'[u].seen > 0
                                 /\ et'[u].pc = "zero" => count' <= 0
    <2> SUFFICES ASSUME NEW u \in EventWaiters
                 PROVE  /\ et'[u].pc \notin {"wake_all", "done"}
                        /\ et'[u].pc = "sleep" => et'[u].seen > 0
                        /\ et'[u].pc = "zero" => count' <= 0
      OBVIOUS
    <2>1. CASE u = t BY <1>4, <2>1
    <2>2. CASE u # t
      <3>1. et'[u] = et[u] BY <1>5, <2>2 DEF EventUsers
      <3> QED BY <1>2, <3>1
    <2> QED BY <2>1, <2>2
  <1>13. /\ count' \in Int /\ owner' \in EventWaiters /\ destroyed' \in BOOLEAN /\ count' = W[Pending']
    BY <1>1, <1>7
  <1> QED BY <1>4, <1>8, <1>9, <1>10, <1>11, <1>12, <1>13, EventPartsNext

\* wait() and timed_wait(): a waiter sleeps only while the counter is what it saw, above zero, and
\* returns 0 only at zero.
LEMMA WaitSteps ==
  ASSUME EventConstants, NEW W, EventInv(W), NEW t \in EventWaiters, Load(t) \/ Sleep(t) \/ Leave(t)
  PROVE  EventInv(W)'
  <1> USE DEF EventUsers, EventRecords
  <1>1. /\ count \in Int /\ et \in [EventUsers -> EventRecords] /\ t \in EventUsers
        /\ asleep = {u \in EventWaiters : et[u].pc = "asleep"}
        /\ et[t].pc = "sleep" => et[t].seen > 0
    BY EventParts
  <1>2. Signallers \cap EventWaiters = {} BY DEF EventConstants
  <1>3. CASE Load(t)
    <2> DEFINE r == [pc |-> IF AtZero THEN "zero" ELSE "sleep", seen |-> count]
    <2>1. et' = [et EXCEPT ![t] = r] BY <1>3 DEF Load
    <2>2. r \in EventRecords /\ r.pc \in {"zero", "sleep"} BY <1>1, SMTT(30)
    <2>3. r.pc = "zero" => count <= 0 BY SMTT(30) DEF AtZero
    <2>4. r.pc = "sleep" => r.seen > 0 BY <1>1, SMTT(30) DEF AtZero
    <2>5. asleep' = asleep \ {t} BY <1>1, <1>3, SMTT(30) DEF Load
    <2>6. UNCHANGED <<count, owner, destroyed>> BY <1>3 DEF Load
    <2> HIDE DEF r
    <2> QED BY <1>2, <2>1, <2>2, <2>3, <2>4, <2>5, <2>6, WaiterStep
  <1>4. CASE Sleep(t)
    <2> DEFINE pc == IF Unchanged(t) THEN "asleep" ELSE "load"
               r == [et[t] EXCEPT !.pc = pc]
    <2>1. et' = [et EXCEPT ![t] = r] BY <1>4 DEF Sleep
    <2>2. r \in EventRecords /\ r.pc = pc /\ r.seen = et[t].seen BY <1>1, SMTT(30)
    <2>3. et[t].pc = "sleep" BY <1>4 DEF Sleep
    <2>4. pc = "asleep" => count > 0 /\ et[t].seen > 0 BY <1>1, <2>3 DEF Unchanged
    <2>5. asleep' = IF pc = "asleep" THEN asleep \cup {t} ELSE asleep \ {t}
      <3>1. t \notin asleep BY <1>1, <2>3
      <3> QED BY <1>4, <3>1, SMTT(30) DEF Sleep
    <2>6. UNCHANGED <<count, owner, destroyed>> BY <1>4 DEF Sleep
    <2>7. pc \in {"asleep", "load"} OBVIOUS
    <2> HIDE DEF r, pc
    <2> QED BY <1>2, <2>1, <2>2, <2>4, <2>5, <2>6, <2>7, WaiterStep
  <1>5. CASE Leave(t)
    <2>1. PICK pc \in {"load", "timedout"} : et' = [et EXCEPT ![t].pc = pc] BY <1>5 DEF Leave
    <2> DEFINE r == [et[t] EXCEPT !.pc = pc]
    <2>2. et' = [et EXCEPT ![t] = r] BY <2>1
    <2>3. r \in EventRecords /\ r.pc = pc BY <1>1, SMTT(30)
    <2>4. asleep' = asleep \ {t} /\ UNCHANGED <<count, owner, destroyed>> BY <1>5 DEF Leave, Awake
    <2> HIDE DEF r
    <2> QED BY <1>2, <2>2, <2>3, <2>4, WaiterStep
  <1> QED BY <1>3, <1>4, <1>5

\* fetch_sub: the counter is still the sum of what is left, and whoever brings it to zero is the
\* one that wakes everybody.
LEMMA SignalStep ==
  ASSUME EventConstants, NEW W \in [SUBSET Signallers -> 0 .. Initial], IsSum(W), EventInv(W),
         NEW t \in Signallers, signal(t)
  PROVE  EventInv(W)'
  <1> USE DEF EventUsers
  <1>1. /\ count \in Int /\ owner \in EventWaiters /\ destroyed \in BOOLEAN
        /\ et \in [EventUsers -> EventRecords] /\ t \in EventUsers
        /\ asleep = {u \in EventWaiters : et[u].pc = "asleep"}
        /\ DestroyedAtZero /\ SleepersKnown /\ count = W[Pending]
    BY EventParts
  <1>2. /\ \A u \in Signallers : et[u].pc \in {"start", "wake_all", "done"}
        /\ \A u \in EventWaiters : /\ et[u].pc \notin {"wake_all", "done"}
                                   /\ et[u].pc = "sleep" => et[u].seen > 0
                                   /\ et[u].pc = "zero" => count <= 0
    BY EventParts
  <1>3. et[t].pc = "start" /\ count' = count - Sigs[t] /\ UNCHANGED <<asleep, owner, destroyed>>
    BY DEF signal
  <1>4. t \in Pending /\ Pending \in SUBSET Signallers BY <1>3 DEF Pending
  <1>5. W[Pending \ {t}] \in Nat /\ Sigs[t] \in Nat /\ count = W[Pending \ {t}] + Sigs[t] /\ count > 0
    BY <1>1, <1>4, SumStep
  <1>6. count' = W[Pending \ {t}] /\ count' \in Nat BY <1>3, <1>5, SMTT(30)
  <1> DEFINE pc == IF Last(count, Sigs[t]) THEN "wake_all" ELSE "done"
  <1>7. et' = [et EXCEPT ![t].pc = pc] BY DEF signal
  <1>8. pc \in {"wake_all", "done"} /\ (count' <= 0 => pc = "wake_all")
    BY <1>3, <1>5, SMTT(30) DEF Last
  <1> HIDE DEF pc
  <1>9. et' \in [EventUsers -> EventRecords] /\ et'[t].pc = pc
    BY <1>1, <1>7, <1>8, SMTT(30) DEF EventRecords
  <1>10. \A u \in EventUsers \ {t} : et'[u] = et[u] BY <1>1, <1>7
  <1>11. t \notin EventWaiters BY <1>2, <1>3 DEF EventConstants
  <1>12. \A u \in EventWaiters : et'[u] = et[u] BY <1>10, <1>11
  <1>13. Pending' = Pending \ {t}
    <2>1. \A u \in Signallers : et'[u].pc = "start" <=> et[u].pc = "start" /\ u # t
      BY <1>8, <1>9, <1>10
    <2> QED BY <2>1, SMTT(30) DEF Pending
  <1>14. asleep' = {u \in EventWaiters : et'[u].pc = "asleep"} BY <1>1, <1>3, <1>12
  <1>15. DestroyedAtZero' BY <1>1, <1>3, <1>4 DEF DestroyedAtZero
  <1>16. SleepersKnown' BY <1>8, <1>9 DEF SleepersKnown
  <1>17. \A u \in Signallers : et'[u].pc \in {"start", "wake_all", "done"}
    BY <1>2, <1>8, <1>9, <1>10
  <1>18. \A u \in EventWaiters : et[u].pc # "zero"
    <2>1. ~ (count <= 0) BY <1>1, <1>5, SMTT(30)
    <2> QED BY <1>2, <2>1
  <1>19. \A u \in EventWaiters : /\ et'[u].pc \notin {"wake_all", "done"}
                                 /\ et'[u].pc = "sleep" => et'[u].seen > 0
                                 /\ et'[u].pc = "zero" => count' <= 0
    BY <1>2, <1>12, <1>18
  <1>20. count' \in Int /\ count' = W[Pending'] BY <1>6, <1>13, SMTT(30)
  <1> QED BY <1>1, <1>3, <1>9, <1>14, <1>15, <1>16, <1>17, <1>19, <1>20, EventPartsNext

\* butex_wake_all: the sleepers load the counter again, and nobody sleeps any more.
LEMMA WakeAllStep ==
  ASSUME EventConstants, NEW W, EventInv(W), NEW t \in Signallers, ButexWakeAll(t)
  PROVE  EventInv(W)'
  <1> USE DEF EventUsers
  <1>1. /\ count \in Int /\ owner \in EventWaiters /\ destroyed \in BOOLEAN
        /\ et \in [EventUsers -> EventRecords] /\ t \in EventUsers
        /\ asleep = {u \in EventWaiters : et[u].pc = "asleep"}
        /\ DestroyedAtZero /\ SleepersKnown /\ count = W[Pending]
    BY EventParts
  <1>2. /\ \A u \in Signallers : et[u].pc \in {"start", "wake_all", "done"}
        /\ \A u \in EventWaiters : /\ et[u].pc \notin {"wake_all", "done"}
                                   /\ et[u].pc = "sleep" => et[u].seen > 0
                                   /\ et[u].pc = "zero" => count <= 0
    BY EventParts
  <1>3. /\ et[t].pc = "wake_all" /\ asleep' = {} /\ UNCHANGED <<count, owner, destroyed>>
        /\ et' = [u \in EventUsers |-> IF u \in asleep THEN [et[u] EXCEPT !.pc = "load"]
                                       ELSE IF u = t THEN [et[t] EXCEPT !.pc = "done"] ELSE et[u]]
    BY <1>1, SMTT(30) DEF ButexWakeAll
  <1>4. t \notin EventWaiters BY DEF EventConstants
  <1>5. asleep \cap Signallers = {} BY <1>1 DEF EventConstants
  <1>6. \A u \in EventUsers : /\ [et[u] EXCEPT !.pc = "load"] \in EventRecords
                              /\ [et[u] EXCEPT !.pc = "done"] \in EventRecords
    BY <1>1, SMTT(30) DEF EventRecords
  <1>7. et' \in [EventUsers -> EventRecords]
    <2>1. \A u \in EventUsers : (IF u \in asleep THEN [et[u] EXCEPT !.pc = "load"]
                                ELSE IF u = t THEN [et[t] EXCEPT !.pc = "done"] ELSE et[u]) \in EventRecords
      BY <1>1, <1>6
    <2> QED BY <1>3, <2>1
  <1>8. et'[t].pc = "done" BY <1>1, <1>3, <1>4, SMTT(30) DEF EventRecords
  <1>9. \A u \in Signallers \ {t} : et'[u] = et[u] BY <1>3, <1>5, SMTT(30)
  <1>10. \A u \in asleep : et'[u].pc = "load" BY <1>1, <1>3, SMTT(30) DEF EventRecords
  <1>11. \A u \in EventWaiters \ asleep : et'[u] = et[u] BY <1>3, <1>4, SMTT(30)
  <1>12. Pending' = Pending
    <2>1. \A u \in Signallers : et'[u].pc = "start" <=> et[u].pc = "start" BY <1>3, <1>8, <1>9
    <2> QED BY <2>1 DEF Pending
  <1>13. asleep' = {u \in EventWaiters : et'[u].pc = "asleep"}
    <2>1. \A u \in EventWaiters : et'[u].pc # "asleep" BY <1>1, <1>10, <1>11
    <2> QED BY <1>3, <2>1, SMTT(30)
  <1>14. DestroyedAtZero' BY <1>1, <1>3, <1>12 DEF DestroyedAtZero
  <1>15. SleepersKnown' BY <1>3 DEF SleepersKnown
  <1>16. \A u \in Signallers : et'[u].pc \in {"start", "wake_all", "done"} BY <1>2, <1>8, <1>9
  <1>17. \A u \in EventWaiters : /\ et'[u].pc \notin {"wake_all", "done"}
                                 /\ et'[u].pc = "sleep" => et'[u].seen > 0
                                 /\ et'[u].pc = "zero" => count' <= 0
    <2> SUFFICES ASSUME NEW u \in EventWaiters
                 PROVE  /\ et'[u].pc \notin {"wake_all", "done"}
                        /\ et'[u].pc = "sleep" => et'[u].seen > 0
                        /\ et'[u].pc = "zero" => count' <= 0
      OBVIOUS
    <2>1. CASE u \in asleep BY <1>10, <2>1
    <2>2. CASE u \notin asleep
      <3>1. et'[u] = et[u] BY <1>11, <2>2
      <3> QED BY <1>2, <1>3, <3>1
    <2> QED BY <2>1, <2>2
  <1>18. /\ count' \in Int /\ owner' \in EventWaiters /\ destroyed' \in BOOLEAN /\ count' = W[Pending']
    BY <1>1, <1>3, <1>12
  <1> QED BY <1>7, <1>13, <1>14, <1>15, <1>16, <1>17, <1>18, EventPartsNext

\* The owner destroys the event after it read zero: then nothing is left to subtract.
LEMMA DestroyStep ==
  ASSUME EventConstants, NEW W \in [SUBSET Signallers -> 0 .. Initial], IsSum(W), EventInv(W),
         NEW t \in EventWaiters, Destroy(t)
  PROVE  EventInv(W)'
  <1>1. /\ count \in Int /\ count = W[Pending] /\ (et[t].pc = "zero" => count <= 0)
        /\ Pending \in SUBSET Signallers
    BY EventParts DEF Pending
  <1>2. et[t].pc = "zero" /\ destroyed' = TRUE /\ UNCHANGED <<count, asleep, owner, et>>
    BY DEF Destroy
  <1>3. Pending = {}
    <2>1. ASSUME NEW u \in Pending PROVE FALSE
      <3>1. W[Pending] > 0 BY <1>1, <2>1, SumStep
      <3> QED BY <1>1, <1>2, <3>1, SMTT(30)
    <2> QED BY <2>1
  <1>4. Pending' = Pending /\ DestroyedAtZero' /\ SleepersKnown' /\ destroyed' \in BOOLEAN
    <2>1. Pending' = Pending BY <1>2 DEF Pending
    <2>2. SleepersKnown' BY <1>2, EventParts DEF SleepersKnown
    <2> QED BY <1>2, <1>3, <2>1, <2>2 DEF DestroyedAtZero
  <1> QED BY <1>2, <1>4, EventParts, EventPartsNext

\* Every step of the threads leaves the invariant true.
LEMMA NextEventInv ==
  ASSUME EventConstants, NEW W \in [SUBSET Signallers -> 0 .. Initial], IsSum(W), EventInv(W),
         [EventNext]_event_vars
  PROVE  EventInv(W)'
  <1>1. CASE UNCHANGED event_vars
    <2>1. UNCHANGED <<count, asleep, owner, destroyed, et>> BY <1>1 DEF event_vars
    <2>2. Pending' = Pending BY <2>1 DEF Pending
    <2>3. DestroyedAtZero' /\ SleepersKnown'
      BY <2>1, <2>2, EventParts DEF DestroyedAtZero, SleepersKnown
    <2> QED BY <2>1, <2>2, <2>3, EventParts, EventPartsNext
  <1>2. CASE EventNext
    BY <1>2, SignalStep, WakeAllStep, WaitSteps, DestroyStep DEF EventNext
  <1> QED BY <1>1, <1>2

\* CountdownEvent: it is not destroyed while somebody has still to count down, and no thread stays
\* asleep at zero without somebody who is about to wake it, for any numbers of threads and any
\* counts that add up to the initial one.
THEOREM EventIsSafe == EventConstants /\ EventSpec => []EventSafe
  <1> SUFFICES ASSUME EventConstants PROVE EventSpec => []EventSafe OBVIOUS
  <1>1. PICK W \in [SUBSET Signallers -> 0 .. Initial] : IsSum(W) /\ W[Signallers] = Initial
    BY DEF EventConstants
  <1>2. EventInit => EventInv(W) BY <1>1, InitEventInv
  <1>3. EventInv(W) /\ [EventNext]_event_vars => EventInv(W)' BY <1>1, NextEventInv
  <1>4. EventInv(W) => EventSafe BY DEF EventInv
  <1> QED BY <1>2, <1>3, <1>4, PTL DEF EventSpec

-----------------------------------------------------------------------------
(* DoublyBufferedData: IInv, Init and Next are those of that module, and no *)
(* thread exits while a bthread still reads through its Wrapper.            *)

USE DEF Other, None, rd_vars, mod_vars

\* No Wrapper is registered, nobody reads and both instances are unmodified.
LEMMA InitIInv == Init => IInv
  BY WrapperAssumption, SMTT(30) DEF Init, IInv, TypeOK, InstancesAgree

\* A step of a reader: it enters and leaves through the mutex of its Wrapper.
LEMMA ReaderStep ==
  ASSUME IInv, NEW r \in Readers, Read(r) \/ EndRead(r)
  PROVE  IInv'
  <1> USE WrapperAssumption, NoneAssumption DEF IInv
  <1>1. CASE AddWrapper(r)
    <2> USE <1>1 DEF AddWrapper
    <2>1. TypeOK' /\ InstancesAgree'
      BY DEF TypeOK, InstancesAgree
    <2>2. ASSUME NEW s \in Readers, rd[s] # "idle"
          PROVE  Protected(s)' /\ (at[s] = index' \/ Awaited(s)')
      BY <2>2 DEF Protected, Awaited, Scanning
    <2> QED BY <2>1, <2>2
  <1>2. CASE BeginRead(r)
    <2> USE <1>2 DEF BeginRead
    <2>1. /\ rd' \in [Readers -> {"idle", "locked", "reading"}]
          /\ at' \in [Readers -> {0, 1}] /\ reads' \in [Readers -> Nat]
          /\ lock' \in [Wrappers -> Readers \cup {None}]
      BY SMTT(30) DEF TypeOK
    <2>2. TypeOK' /\ InstancesAgree'
      BY <2>1 DEF TypeOK, InstancesAgree
    <2>3. ASSUME NEW s \in Readers, rd'[s] # "idle"
          PROVE  Protected(s)' /\ (at'[s] = index' \/ Awaited(s)')
      <3>1. CASE s = r
        BY <2>3, <3>1 DEF TypeOK, Protected
      <3>2. CASE s # r
        BY <2>3, <3>2 DEF TypeOK, Protected, Awaited, Scanning
      <3> QED BY <3>1, <3>2
    <2> QED BY <2>2, <2>3
  <1>3. CASE AddRef(r)
    <2> USE <1>3 DEF AddRef
    <2>1. /\ rd' \in [Readers -> {"idle", "locked", "reading"}]
          /\ refs' \in [Wrappers -> SUBSET (Readers \X {0, 1})]
          /\ lock' \in [Wrappers -> Readers \cup {None}]
      <3> USE DEF TypeOK
      <3>1. rd' \in [Readers -> {"idle", "locked", "reading"}]
        OBVIOUS
      <3>2. <<r, at[r]>> \in Readers \X {0, 1}
        OBVIOUS
      <3>3. refs' \in [Wrappers -> SUBSET (Readers \X {0, 1})]
        BY <3>2
      <3>4. lock' \in [Wrappers -> Readers \cup {None}]
        OBVIOUS
      <3> QED BY <3>1, <3>3, <3>4
    <2>2. TypeOK' /\ InstancesAgree'
      BY <2>1 DEF TypeOK, InstancesAgree
    <2>3. ASSUME NEW s \in Readers, rd'[s] # "idle"
          PROVE  Protected(s)' /\ (at'[s] = index' \/ Awaited(s)')
      BY <2>3 DEF TypeOK, Protected, Awaited, Scanning
    <2> QED BY <2>2, <2>3
  <1>4. CASE EndRead(r)
    <2> USE <1>4 DEF EndRead
    <2>1. /\ rd' \in [Readers -> {"idle", "locked", "reading"}] /\ refs' \in [Wrappers -> SUBSET (Readers \X {0, 1})]
          /\ lock' \in [Wrappers -> Readers \cup {None}]
      <3>1. rd' \in [Readers -> {"idle", "locked", "reading"}]
        BY DEF TypeOK
      <3>2. refs' \in [Wrappers -> SUBSET (Readers \X {0, 1})]
        <4>1. refs[WrapperOf[r]] \ {<<r, at[r]>>} \in SUBSET (Readers \X {0, 1})
          BY DEF TypeOK
        <4> QED BY <4>1 DEF TypeOK
      <3>3. lock' \in [Wrappers -> Readers \cup {None}]
        BY DEF TypeOK
      <3> QED BY <3>1, <3>2, <3>3
    <2>2. /\ bg' = bg /\ left' = left /\ waits' \in SUBSET Wrappers /\ done' = done
          /\ mpc' = mpc \/ (mpc = "asleep" /\ mpc' = "scan")
      BY DEF TypeOK, Signals, mod_vars
    <2>3. TypeOK' /\ InstancesAgree'
      BY <2>1, <2>2 DEF TypeOK, InstancesAgree
    <2>4. ASSUME NEW s \in Readers, rd'[s] # "idle"
          PROVE  Protected(s)' /\ (at'[s] = index' \/ Awaited(s)')
      <3>1. s # r /\ rd'[s] = rd[s] /\ at'[s] = at[s]
        BY <2>4 DEF TypeOK
      <3>2. Awaited(s) => Awaited(s)'
        BY <2>2 DEF Awaited, Scanning
      <3>3. Protected(s)'
        <4>1. <<s, at[s]>> # <<r, at[r]>>
          BY <3>1
        <4>2. Protected(s) /\ Protected(r) /\ guard' = guard /\ wrappers' = wrappers
          BY <2>4, <3>1
        <4>3. lock[WrapperOf[s]] = s => lock'[WrapperOf[s]] = s
          BY <2>4, <3>1, <4>2 DEF TypeOK, Protected
        <4>4. <<s, at[s]>> \in refs[WrapperOf[s]] => <<s, at[s]>> \in refs'[WrapperOf[s]]
          BY <4>1, SMTT(30) DEF TypeOK
        <4> QED BY <3>1, <4>2, <4>3, <4>4 DEF Protected
      <3> QED BY <2>4, <3>1, <3>2, <3>3
    <2> QED BY <2>2, <2>3, <2>4
  <1> QED BY <1>1, <1>2, <1>3, <1>4 DEF Read

\* A step of Modify(): it waits for every Wrapper before it touches the old foreground.
LEMMA ModifyStep ==
  ASSUME IInv, Modify \/ Unmodified \/ Modifying
  PROVE  IInv'
  <1> USE WrapperAssumption, NoneAssumption DEF IInv
  <1>1. CASE Modify
    <2> USE <1>1 DEF Modify
    <2>1. TypeOK' /\ InstancesAgree'
      BY DEF TypeOK, InstancesAgree, Background
    <2>2. ASSUME NEW s \in Readers, rd[s] # "idle"
          PROVE  Protected(s)' /\ (at[s] = index' \/ Awaited(s)')
      BY <2>2 DEF TypeOK, Protected, Awaited, Scanning
    <2> QED BY <2>1, <2>2 DEF TypeOK, Background
  <1>2. CASE Unmodified
    <2> USE <1>2 DEF Unmodified
    <2>1. TypeOK' /\ InstancesAgree'
      BY SMTT(30) DEF TypeOK, InstancesAgree
    <2>2. ASSUME NEW s \in Readers, rd[s] # "idle"
          PROVE  Protected(s)' /\ (at[s] = index' \/ Awaited(s)')
      BY <2>2 DEF TypeOK, Protected, Awaited, Scanning
    <2> QED BY <2>1, <2>2 DEF TypeOK
  <1>3. CASE Flip
    <2> USE <1>3 DEF Flip
    <2>1. TypeOK' /\ InstancesAgree'
      BY SMTT(30) DEF TypeOK, InstancesAgree
    <2>2. ASSUME NEW s \in Readers, rd[s] # "idle"
          PROVE  Protected(s)' /\ (at[s] = index' \/ Awaited(s)')
      BY <2>2 DEF TypeOK, Protected, Awaited, Scanning
    <2> QED BY <2>1, <2>2 DEF TypeOK
  <1>4. CASE LockWrappers
    BY <1>4 DEF LockWrappers, TypeOK, InstancesAgree, Protected, Awaited, Scanning
  <1>5. ASSUME NEW w \in Wrappers, WaitReadDone(w) PROVE IInv'
    <2> USE <1>5 DEF WaitReadDone
    <2>1. TypeOK' /\ InstancesAgree' /\ bg' = bg
      BY DEF TypeOK, InstancesAgree
    <2>2. ASSUME NEW s \in Readers, rd[s] # "idle", at[s] # index
          PROVE  Awaited(s)'
      <3>1. at[s] = bg /\ Awaited(s) /\ Protected(s)
        BY <2>2 DEF TypeOK
      <3>2. WrapperOf[s] = w => ~ReadDone(w)
        BY <2>2, <3>1 DEF TypeOK, Protected, ReadDone
      <3> QED BY <3>1, <3>2 DEF Awaited, Scanning, TypeOK
    <2> QED BY <2>1, <2>2 DEF Protected
  <1>6. CASE Scanned
    BY <1>6 DEF Scanned, TypeOK, InstancesAgree, Protected, Awaited, Scanning
  <1>7. CASE ModifyAgain
    <2> USE <1>7 DEF ModifyAgain
    <2>1. TypeOK' /\ InstancesAgree'
      <3>1. data[bg] \in Nat /\ data'[bg] = data[bg] + 1 /\ data'[index] = data[index]
        BY SMTT(30) DEF TypeOK
      <3>2. data' \in [{0, 1} -> Nat]
        BY SMTT(30) DEF TypeOK
      <3>3. TypeOK'
        BY <3>2, SMTT(30) DEF TypeOK
      <3>4. data'[bg] = data'[index]
        BY <3>1 DEF InstancesAgree
      <3>5. {bg, index} = {0, 1}
        BY DEF TypeOK
      <3> QED BY <3>3, <3>4, <3>5 DEF InstancesAgree
    <2>2. ASSUME NEW s \in Readers, rd[s] # "idle"
          PROVE  Protected(s)' /\ (at[s] = index' \/ Awaited(s)')
      BY <2>2 DEF TypeOK, Protected, Awaited, Scanning
    <2> QED BY <2>1, <2>2 DEF TypeOK
  <1> QED BY <1>1, <1>2, <1>3, <1>4, <1>5, <1>6, <1>7 DEF Modifying

\* A Wrapper is removed when nobody reads through it.
LEMMA RemoveStep ==
  ASSUME ~MayExit, IInv, NEW w \in Wrappers, RemoveWrapper(w)
  PROVE  IInv'
  BY WrapperAssumption DEF IInv, RemoveWrapper, TypeOK, InstancesAgree, Protected, Awaited, Scanning

\* IInv is an invariant unless threads exit under their readers.
LEMMA Invariance == ASSUME ~MayExit PROVE Spec => []IInv
  <1>1. IInv /\ UNCHANGED vars => IInv'
    BY DEF vars, IInv, TypeOK, InstancesAgree, Protected, Awaited, Scanning
  <1>2. IInv /\ [Next]_vars => IInv'
    <2> SUFFICES ASSUME IInv, Next PROVE IInv'
      BY <1>1
    <2>1. ASSUME NEW r \in Readers, Read(r) \/ EndRead(r) PROVE IInv'
      BY <2>1, ReaderStep
    <2>2. ASSUME NEW w \in Wrappers, RemoveWrapper(w) PROVE IInv'
      BY <2>2, RemoveStep
    <2>3. ASSUME Modify \/ Unmodified \/ Modifying PROVE IInv'
      BY <2>3, ModifyStep
    <2> QED BY <2>1, <2>2, <2>3 DEF Next
  <1> QED BY <1>2, InitIInv, PTL DEF Spec

\* "The instance will not be changed until ptr is destructed" (doubly_buffered_data.h:120):
\* fn() is never called on an instance that is read.
THEOREM ReadStable == ASSUME ~MayExit PROVE Spec => []ReadIsStable
  <1>1. IInv => ReadIsStable
    <2> SUFFICES ASSUME IInv, mpc \in {"fn", "fn_again"}, NEW r \in Readers, rd[r] # "idle"
                 PROVE  at[r] # bg
      BY DEF ReadIsStable
    <2>1. at[r] = index /\ bg = Other(index) /\ index \in {0, 1}
      BY DEF IInv, TypeOK, Awaited, Scanning
    <2> QED BY <2>1, SMTT(30)
  <1> QED BY <1>1, Invariance, PTL

\* Foreground and background get the same modifications, and differ at most by the one that
\* Modify() is about to repeat.
THEOREM BothModified == ASSUME ~MayExit PROVE Spec => []InstancesAgree
  <1>1. IInv => InstancesAgree
    BY DEF IInv
  <1> QED BY <1>1, Invariance, PTL
=============================================================================

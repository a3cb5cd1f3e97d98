-------------------------- MODULE SocketUserProofs --------------------------
(***************************************************************************)
(* The steps of the threads that use a socket keep the invariant of        *)
(* SocketLife, for any number of threads, health checks, lives and         *)
(* failures: those that take and drop references, set a life to failed,    *)
(* recycle it and begin another.                                           *)
(***************************************************************************)
EXTENDS SocketLife, FiniteSetTheorems, TLAPS

\* Most steps need no arithmetic; those that do name the SMT solver.
USE Zenon

-----------------------------------------------------------------------------
(* Versions.                                                                *)

\* The versions of lives are even, and there is room for two after each of them.
LEMMA Parity ==
  ASSUME LifeConstants, NEW i \in Lives
  PROVE  i \in Nat /\ i % 2 = 0 /\ (i + 1) % 2 = 1 /\ (i + 2) % 2 = 0 /\ i + 2 <= 2 * MaxLives
  <1>1. PICK n \in 0 .. MaxLives - 1 : i = 2 * n BY DEF Lives
  <1>2. MaxLives \in Nat \ {0} BY DEF LifeConstants
  <1> QED BY <1>1, <1>2, SMTT(30)

\* Different lives have different versions, failed or not.
LEMMA Apart ==
  ASSUME LifeConstants, NEW i \in Lives, NEW j \in Lives
  PROVE  i + 1 # j /\ (i < j => i + 2 <= j)
  <1>1. PICK m \in 0 .. MaxLives - 1 : i = 2 * m BY DEF Lives
  <1>2. PICK n \in 0 .. MaxLives - 1 : j = 2 * n BY DEF Lives
  <1>3. MaxLives \in Nat \ {0} BY DEF LifeConstants
  <1> QED BY <1>1, <1>2, <1>3, SMTT(30)

\* Address() of a life that was given out: the version says that the slot is in use and that the
\* life is the current one.
LEMMA Matching ==
  ASSUME LifeConstants, Typed, Slot, NEW i \in Ids, vref.ver \in {i, i + 1}
  PROVE  ~pooled /\ i = id
  <1>1. /\ i \in Lives /\ i <= id /\ (pooled => i < vref.ver) /\ id \in Lives /\ pooled \in BOOLEAN
        /\ vref.ver \in Nat
    BY DEF Ids, Typed
  <1> USE <1>1
  <1>2. i \in Nat /\ id \in Nat /\ i % 2 = 0 /\ (i + 1) % 2 = 1 /\ (id + 2) % 2 = 0 /\ (id + 1) % 2 = 1
    BY Parity
  <1> USE <1>2
  <1>3. ~pooled
    <2>1. SUFFICES ASSUME pooled PROVE FALSE OBVIOUS
    <2>2. vref.ver = i + 1 BY <2>1, SMTT(30)
    <2>3. vref.ver = id + 2 \/ vref.ver = 0 BY <2>1 DEF Slot
    <2> QED BY <2>2, <2>3, SMTT(30)
  <1>4. vref.ver \in {id, id + 1} BY <1>3 DEF Slot
  <1>5. i + 1 # id /\ id + 1 # i BY Apart
  <1> QED BY <1>3, <1>4, <1>5, SMTT(30)

\* The slot is in use when its version is odd.
LEMMA OddInUse ==
  ASSUME LifeConstants, Typed, Slot, vref.ver % 2 = 1
  PROVE  ~pooled /\ vref.ver = id + 1
  <1>1. id \in Lives /\ pooled \in BOOLEAN BY DEF Typed
  <1>2. id \in Nat /\ id % 2 = 0 /\ (id + 2) % 2 = 0 BY <1>1, Parity
  <1> QED BY <1>1, <1>2, SMTT(30) DEF Slot

\* Who wins the compare-and-swap of a recycler moves the current life, which is in use.
LEMMA WonIsCurrent ==
  ASSUME LifeConstants, Typed, Slot, Recyclers, NEW p \in Procs, pr[p].pc = "recycle", RecycleWon(p)
  PROVE  ~pooled /\ pr[p].to = id + 2 /\ vref.ref = 0
  <1>1. vref.ver = pr[p].ver /\ vref.ref = 0 BY DEF RecycleWon
  <1>2. PICK i \in Ids : pr[p].to = i + 2 /\ pr[p].ver \in {i, i + 1} BY DEF Recyclers
  <1>3. ~pooled /\ i = id BY <1>1, <1>2, Matching
  <1> QED BY <1>1, <1>2, <1>3

-----------------------------------------------------------------------------
(* One process moves.                                                       *)

HoldsAt(pc) == pc \notin {"idle", "hc_wait", "recycle"}
UsesAt(pc) == pc \notin {"idle", "hc_wait", "unaddress", "recycle"}
One(b) == IF b THEN 1 ELSE 0
Moves(p, r) == pr' = [pr EXCEPT ![p] = r]

\* A step of p changes its record and no other.
LEMMA Moved ==
  ASSUME Typed, NEW p \in Procs, NEW r \in Proc, Moves(p, r)
  PROVE  pr' \in [Procs -> Proc] /\ pr'[p] = r /\ \A q \in Procs \ {p} : pr'[q] = pr[q]
  <1>1. pr \in [Procs -> Proc] BY DEF Typed
  <1> QED BY <1>1 DEF Moves

\* The processes with a reference are finitely many.
LEMMA HoldersFinite ==
  ASSUME LifeConstants
  PROVE  /\ IsFiniteSet(Holders) /\ Cardinality(Holders) \in Nat
         /\ IsFiniteSet(Procs) /\ Cardinality(Procs) \in Nat /\ Cardinality(Holders) <= Cardinality(Procs)
  <1>1. IsFiniteSet(Procs) BY DEF LifeConstants, Procs
  <1>2. Holders \subseteq Procs BY DEF Holders
  <1> QED BY <1>1, <1>2, FS_Subset, FS_CardinalityType

\* Different processes with a reference count.
LEMMA ThreeHold ==
  ASSUME LifeConstants, NEW p \in Holders, NEW q \in Holders, p # q
  PROVE  /\ Cardinality(Holders) >= 2
         /\ \A x \in Holders : x # p /\ x # q => Cardinality(Holders) >= 3
  <1>1. IsFiniteSet(Holders) /\ Cardinality(Holders) \in Nat BY HoldersFinite
  <1>2. IsFiniteSet(Holders \ {p}) /\ Cardinality(Holders \ {p}) = Cardinality(Holders) - 1
    BY <1>1, FS_RemoveElement
  <1>3. q \in Holders \ {p} OBVIOUS
  <1>4. /\ IsFiniteSet((Holders \ {p}) \ {q})
        /\ Cardinality((Holders \ {p}) \ {q}) = Cardinality(Holders \ {p}) - 1
    BY <1>2, <1>3, FS_RemoveElement
  <1> USE <1>4
  <1>5. Cardinality((Holders \ {p}) \ {q}) \in Nat BY FS_CardinalityType
  <1>6. ASSUME NEW x \in Holders, x # p, x # q PROVE Cardinality((Holders \ {p}) \ {q}) # 0
    BY <1>6, FS_EmptySet, SMTT(30)
  <1> QED BY <1>1, <1>2, <1>5, <1>6, SMTT(30)

\* The number of references held by processes when one of them moves.
LEMMA HoldersMoved ==
  ASSUME LifeConstants, Typed, NEW p \in Procs, NEW r \in Proc, Moves(p, r)
  PROVE  /\ Cardinality(Holders) \in Nat /\ Cardinality(Holders') \in Nat
         /\ Cardinality(Holders') + One(HoldsAt(pr[p].pc)) = Cardinality(Holders) + One(HoldsAt(r.pc))
  <1>1. pr'[p] = r /\ \A q \in Procs \ {p} : pr'[q] = pr[q] BY Moved
  <1>2. IsFiniteSet(Holders) /\ Cardinality(Holders) \in Nat BY HoldersFinite
  <1> USE <1>2
  <1>3. Holders = {q \in Procs : HoldsAt(pr[q].pc)} BY DEF Holders, HoldsAt
  <1> USE <1>3
  <1>4. Holders' = {q \in Procs : HoldsAt(pr'[q].pc)} BY DEF Holders, HoldsAt
  <1> HIDE DEF HoldsAt
  <1>5. CASE HoldsAt(r.pc)
    <2>1. Holders' = Holders \cup {p} BY <1>1, <1>4, <1>5, SMTT(30)
    <2>2. p \in Holders <=> HoldsAt(pr[p].pc) OBVIOUS
    <2>3. IsFiniteSet(Holders') /\ Cardinality(Holders') = IF p \in Holders THEN Cardinality(Holders) ELSE Cardinality(Holders) + 1
      BY <2>1, FS_AddElement
    <2> QED BY <1>5, <2>2, <2>3, SMTT(30) DEF One
  <1>6. CASE ~HoldsAt(r.pc)
    <2>1. Holders' = Holders \ {p} BY <1>1, <1>4, <1>6, SMTT(30)
    <2>2. p \in Holders <=> HoldsAt(pr[p].pc) OBVIOUS
    <2>3. IsFiniteSet(Holders') /\ Cardinality(Holders') = IF p \in Holders THEN Cardinality(Holders) - 1 ELSE Cardinality(Holders)
      BY <2>1, FS_RemoveElement
    <2>4. Cardinality(Holders') \in Nat BY <2>3, FS_CardinalityType
    <2> QED BY <1>6, <2>2, <2>3, <2>4, SMTT(30) DEF One
  <1> QED BY <1>5, <1>6

\* A health check that is working belongs to a life in use, and its record says which.
LEMMA InCheckActive ==
  ASSUME LifeConstants, LifeInv, NEW c \in Checkers, InCheck(c)
  PROVE  /\ ~pooled /\ Active(c) /\ pr[c].id = id /\ hc_started
         /\ pr[c].pc \notin Revived => vref.ver = id + 1
         /\ \A d \in Checkers : InCheck(d) => d = c
  <1>1. NotUsedWhenPooled /\ OneCheck BY DEF LifeInv
  <1> USE <1>1
  <1>2. ~pooled BY DEF NotUsedWhenPooled, Procs, InCheck, CheckPCs
  <1>3. \A d \in Checkers : InCheck(d) => Active(d) BY <1>2 DEF OneCheck, Active
  <1> QED BY <1>2, <1>3 DEF OneCheck, Active

\* A caller moves, and takes, drops or keeps one reference; the life stays as it is.
LEMMA UserMove ==
  ASSUME LifeConstants, LifeInv, NEW p \in SocketUsers, NEW r \in Proc, Moves(p, r),
         UNCHANGED <<socket_conf, id, pooled, status, hc_started, inflight, calls, fails>>,
         vref' \in [ver : Nat, ref : Nat], vref'.ver = vref.ver,
         entry' \in [in : BOOLEAN, count : 0 .. MaxCount], entry'.in => entry.in,
         vref'.ref + One(HoldsAt(pr[p].pc)) + One(entry.in) = vref.ref + One(HoldsAt(r.pc)) + One(entry'.in),
         held' \in BOOLEAN, held' => held /\ (entry'.in \/ \E q \in SocketUsers : Removing(q)'),
         r.pc \in UserPCs \ {"start_hc", "release_sub"}, r.then # "hc_wait",
         r.then = "remove" => r.pc \in {"release", "release_sub", "unheld"},
         pr[p].pc # "release_sub", UsesAt(r.pc) => ~pooled,
         r.pc = "recycle" => \E i \in Ids : r.to = i + 2 /\ r.ver \in {i, i + 1},
         r.pc = "using" => vref.ver = id,
         pr[p].pc \in {"start_hc", "release"} => r.pc = "release" \/ status = "RECYCLED",
         FailedIsRecycled'
  PROVE  LifeInv'
  <1>1. /\ Typed /\ Slot /\ NotUsedWhenPooled /\ RefsAccounted /\ Recyclers
        /\ StatusOK /\ OneCheck /\ CheckedAlone /\ AppCounted
    BY DEF LifeInv
  <1> USE <1>1
  <1>2. p \in Procs /\ p \notin Checkers /\ SocketUsers \subseteq Procs /\ Checkers \subseteq Procs
    BY DEF Procs, LifeConstants
  <1> USE <1>2
  <1>3. pr' \in [Procs -> Proc] /\ pr'[p] = r /\ \A q \in Procs \ {p} : pr'[q] = pr[q]
    BY Moved
  <1> USE <1>3
  <1>4. (\A q \in SocketUsers \ {p} : pr'[q] = pr[q]) /\ \A c \in Checkers : pr'[c] = pr[c]
    OBVIOUS
  <1> USE <1>4
  <1>5. Ids' = Ids BY DEF Ids
  <1> USE <1>5
  <1>6. Typed'
    BY SMTT(30) DEF Typed
  <1>7. Slot' BY DEF Slot
  <1>8. NotUsedWhenPooled' BY DEF NotUsedWhenPooled, UsesAt
  <1>9. Recyclers' BY SMTT(30) DEF Recyclers
  <1>10. RefsAccounted'
    <2>1. Additional' <=> Additional
      <3>1. pr[p].pc \notin {"release_sub", "hc_using"} BY DEF Typed, UserPCs
      <3>2. r.pc \notin {"release_sub", "hc_using"} BY DEF UserPCs
      <3> QED BY <3>1, <3>2 DEF Additional
    <2>2. /\ Cardinality(Holders) \in Nat /\ Cardinality(Holders') \in Nat
          /\ Cardinality(Holders') + One(HoldsAt(pr[p].pc)) = Cardinality(Holders) + One(HoldsAt(r.pc))
      BY HoldersMoved
    <2>3. vref.ref = Cardinality(Holders) + One(entry.in) + One(Additional)
      BY DEF RefsAccounted, One
    <2>4. vref'.ref = Cardinality(Holders') + One(entry'.in) + One(Additional')
      BY <2>1, <2>2, <2>3, SMTT(30) DEF One
    <2> QED BY <2>4 DEF RefsAccounted, One
  <1>11. StatusOK'
    BY SMTT(30) DEF StatusOK, Reviving, Releasing
  <1>12. OneCheck'
    BY SMTT(30) DEF OneCheck, InCheck, Active
  <1>13. CheckedAlone'
    <2>1. held' => entry'.in \/ \E q \in SocketUsers : Removing(q)' OBVIOUS
    <2>2. ASSUME NEW c \in Checkers
          PROVE  /\ Resumes(c)' <=> Resumes(c)
                 /\ pr'[c].pc = "hc_held" \/ Resumes(c)' => status' = "RECYCLED"
                 /\ pr'[c].pc = "hc_held" => \A q \in SocketUsers : pr'[q].pc # "release_sub"
      <3>1. Resumes(c)' <=> Resumes(c) BY DEF Resumes, Active, InCheck
      <3> QED BY <3>1, SMTT(30) DEF CheckedAlone
    <2> USE <2>2
    <2>3. ASSUME NEW c \in Checkers,
                 (pr'[c].pc = "hc_held" /\ held') \/ Resumes(c)' \/ pr'[c].pc = "hc_cas"
          PROVE  Alone'
      <3>1. Alone BY <2>3 DEF CheckedAlone
      <3>2. pr[c].pc \notin Revived /\ (InCheck(c) \/ Active(c))
        BY <2>3 DEF CheckPCs, Revived, Resumes, InCheck, Typed
      <3>3. Active(c) BY <3>2, InCheckActive
      <3>4. vref.ver = id + 1 BY <3>2, <3>3 DEF OneCheck
      <3>5. r.pc # "using" BY <3>4, Parity, SMTT(30) DEF Typed
      <3> QED BY <3>1, <3>5 DEF Alone
    <2> QED BY <2>1, <2>3 DEF CheckedAlone
  <1>14. AppCounted'
    <2>1. (\E c \in Checkers : Counting(c))' <=> \E c \in Checkers : Counting(c)
      BY DEF Counting
    <2>2. (\E c \in Checkers : Coming(c))' <=> \E c \in Checkers : Coming(c)
      BY SMTT(30) DEF Coming, Active, InCheck
    <2>3. (\E q \in SocketUsers : pr[q].pc = "start_hc")' => \E q \in SocketUsers : pr[q].pc = "start_hc"
      OBVIOUS
    <2>4. calls[id] \in Nat /\ fails \in Nat BY SMTT(30) DEF Typed, LifeConstants
    <2> QED BY <2>1, <2>2, <2>3, <2>4, SMTT(30) DEF AppCounted
  <1> QED BY <1>6, <1>7, <1>8, <1>9, <1>10, <1>11, <1>12, <1>13, <1>14 DEF LifeInv

\* A health-check task moves, and takes, drops or keeps one reference, and revives nothing.
LEMMA CheckerMove ==
  ASSUME LifeConstants, LifeInv, NEW c \in Checkers, NEW r \in Proc, Moves(c, r),
         UNCHANGED <<socket_conf, id, pooled, status, held, entry, inflight, calls, fails>>,
         vref' \in [ver : Nat, ref : Nat], vref'.ver = vref.ver,
         vref'.ref + One(HoldsAt(pr[c].pc)) = vref.ref + One(HoldsAt(r.pc)),
         hc_started' \in BOOLEAN, hc_started => hc_started' \/ (Active(c) /\ ~Active(c)'),
         r.pc \in CheckerPCs \ {"hc_revive", "hc_cas", "hc_using", "hc_app"},
         pr[c].pc \notin {"hc_revive", "hc_cas", "hc_using", "hc_app"},
         r.then # "remove", r.then = "hc_wait" => r.pc \in {"deref", "recycle", "hc_wait"},
         r.then = "hc_wait" => pr[c].then = "hc_wait" \/ pr[c].pc = "hc_check",
         r.pc = "hc_wait" => r.first \/ r.then = "hc_wait", UsesAt(r.pc) => ~pooled,
         r.pc = "recycle" => \E i \in Ids : r.to = i + 2 /\ r.ver \in {i, i + 1},
         r.pc # "idle" => r.id = pr[c].id /\ pr[c].pc # "idle",
         r.pc \in CheckPCs => r.id = id,
         Active(c)' => Active(c) /\ (pr[c].pc = "hc_done" => r.pc = "hc_done"),
         r.pc \in {"hc_held", "hc_check"} => status = "RECYCLED",
         r.pc = "hc_held" => \A p \in SocketUsers : pr[p].pc # "release_sub",
         (r.pc = "hc_held" /\ held) \/ r.pc = "hc_check" => Alone,
         FailedIsRecycled'
  PROVE  LifeInv'
  <1>1. /\ Typed /\ Slot /\ NotUsedWhenPooled /\ RefsAccounted /\ Recyclers
        /\ StatusOK /\ OneCheck /\ CheckedAlone /\ AppCounted
    BY DEF LifeInv
  <1> USE <1>1
  <1>2. c \in Procs /\ c \notin SocketUsers /\ SocketUsers \subseteq Procs /\ Checkers \subseteq Procs
    BY DEF Procs, LifeConstants
  <1> USE <1>2
  <1>3. pr' \in [Procs -> Proc] /\ pr'[c] = r /\ \A q \in Procs \ {c} : pr'[q] = pr[q]
    BY Moved
  <1> USE <1>3
  <1>4. (\A d \in Checkers \ {c} : pr'[d] = pr[d]) /\ \A p \in SocketUsers : pr'[p] = pr[p]
    OBVIOUS
  <1> USE <1>4
  <1>5. Ids' = Ids BY DEF Ids
  <1> USE <1>5
  <1>6. Typed'
    BY SMTT(30) DEF Typed
  <1>7. Slot' BY DEF Slot
  <1>8. NotUsedWhenPooled' BY DEF NotUsedWhenPooled, UsesAt
  <1>9. Recyclers' BY SMTT(30) DEF Recyclers
  <1>10. RefsAccounted'
    <2>1. Additional' <=> Additional
      <3>1. pr[c].pc \notin {"release_sub", "hc_using"} BY DEF Typed, CheckerPCs, CheckPCs
      <3>2. r.pc \notin {"release_sub", "hc_using"} BY DEF CheckerPCs, CheckPCs
      <3> QED BY <3>1, <3>2 DEF Additional
    <2>2. /\ Cardinality(Holders) \in Nat /\ Cardinality(Holders') \in Nat
          /\ Cardinality(Holders') + One(HoldsAt(pr[c].pc)) = Cardinality(Holders) + One(HoldsAt(r.pc))
      BY HoldersMoved
    <2>3. vref.ref = Cardinality(Holders) + One(entry.in) + One(Additional)
      BY DEF RefsAccounted, One
    <2>4. vref'.ref = Cardinality(Holders') + One(entry'.in) + One(Additional')
      BY <2>1, <2>2, <2>3, SMTT(30) DEF One
    <2> QED BY <2>4 DEF RefsAccounted, One
  <1>11. StatusOK'
    <2>1. Reviving' <=> Reviving BY DEF Reviving
    <2>2. Releasing' <=> Releasing BY DEF Releasing
    <2>3. (\E d \in Checkers : pr[d].pc = "hc_using")' <=> \E d \in Checkers : pr[d].pc = "hc_using"
      BY SMTT(30)
    <2> QED BY <2>1, <2>2, <2>3, SMTT(30) DEF StatusOK
  <1>12. OneCheck'
    <2>1. \A d \in Checkers : Active(d)' => Active(d) BY DEF Active, InCheck
    <2>2. /\ \A d \in Checkers : pr'[d].pc # "idle" => pr'[d].id \in Ids'
          /\ \A d \in Checkers : InCheck(d)' => pr'[d].id = id'
      BY SMTT(30) DEF OneCheck, InCheck
    <2>3. \A d, e \in Checkers : Active(d)' /\ Active(e)' => d = e BY <2>1 DEF OneCheck
    <2>4. ASSUME NEW d \in Checkers, Active(d)'
          PROVE  hc_started' /\ (pr'[d].pc \notin Revived => vref'.ver = id' + 1)
      <3> USE <2>4
      <3>1. Active(d) /\ hc_started BY <2>1 DEF OneCheck
      <3> USE <3>1
      <3>2. hc_started'
        <4>1. CASE Active(c) /\ ~Active(c)' BY <4>1 DEF OneCheck
        <4> QED BY <4>1
      <3>3. CASE d = c
        BY <3>2, <3>3 DEF OneCheck, Revived
      <3>4. CASE d # c
        BY <3>2, <3>4 DEF OneCheck
      <3> QED BY <3>3, <3>4
    <2>5. \A p, q \in SocketUsers : pr'[p].pc = "start_hc" =>
            vref'.ver = id' + 1 /\ (pr'[q].pc = "start_hc" => p = q)
      BY SMTT(30) DEF OneCheck
    <2> QED BY <2>2, <2>3, <2>4, <2>5 DEF OneCheck
  <1>13. CheckedAlone'
    <2>1. Alone' <=> Alone BY DEF Alone
    <2>2. held' => entry'.in \/ \E p \in SocketUsers : Removing(p)'
      BY DEF CheckedAlone, Removing
    <2>3. ASSUME NEW d \in Checkers
          PROVE  /\ pr'[d].pc = "hc_held" \/ Resumes(d)' => status' = "RECYCLED"
                 /\ pr'[d].pc = "hc_held" => \A q \in SocketUsers : pr'[q].pc # "release_sub"
                 /\ (pr'[d].pc = "hc_held" /\ held') \/ Resumes(d)' \/ pr'[d].pc = "hc_cas" => Alone'
      <3>1. CASE d = c
        <4>1. Resumes(c)' => Resumes(c) \/ r.pc = "hc_check" BY DEF Resumes
        <4> QED BY <2>1, <3>1, <4>1 DEF CheckedAlone
      <3>2. CASE d # c
        <4>1. pr'[d] = pr[d] BY <3>2
        <4>2. Resumes(d)' <=> Resumes(d) BY <4>1 DEF Resumes, Active, InCheck
        <4> QED BY <2>1, <4>1, <4>2 DEF CheckedAlone
      <3> QED BY <3>1, <3>2
    <2> QED BY <2>2, <2>3 DEF CheckedAlone
  <1>14. AppCounted'
    <2>1. (\E d \in Checkers : Counting(d))' <=> \E d \in Checkers : Counting(d)
      BY DEF Counting
    <2>2. (\E d \in Checkers : Coming(d))' => \E d \in Checkers : Coming(d)
      BY SMTT(30) DEF Coming, Active, InCheck
    <2>3. (\E q \in SocketUsers : pr[q].pc = "start_hc")' <=> \E q \in SocketUsers : pr[q].pc = "start_hc"
      OBVIOUS
    <2>4. calls[id] \in Nat /\ fails \in Nat BY SMTT(30) DEF Typed, LifeConstants
    <2> QED BY <2>1, <2>2, <2>3, <2>4, SMTT(30) DEF AppCounted
  <1> QED BY <1>6, <1>7, <1>8, <1>9, <1>10, <1>11, <1>12, <1>13, <1>14 DEF LifeInv

-----------------------------------------------------------------------------
(* References.                                                              *)

AllPCs == UserPCs \cup CheckerPCs

\* A process that goes on with its record otherwise as it is.
LEMMA WithPc ==
  ASSUME Typed, NEW p \in Procs, NEW a \in AllPCs
  PROVE  /\ [pr[p] EXCEPT !.pc = a] \in Proc
         /\ [pr[p] EXCEPT !.pc = a].pc = a /\ [pr[p] EXCEPT !.pc = a].then = pr[p].then
         /\ [pr[p] EXCEPT !.pc = a].id = pr[p].id
         /\ Goto(p, a) => Moves(p, [pr[p] EXCEPT !.pc = a])
  <1>1. pr[p] \in Proc BY DEF Typed
  <1>2. Goto(p, a) => Moves(p, [pr[p] EXCEPT !.pc = a]) BY DEF Goto, Moves
  <1> QED BY <1>1, <1>2 DEF Proc, AllPCs

\* A process that is to recycle the life it saw, and to move the slot to version w.
Recycling(p, w) == [pr[p] EXCEPT !.pc = "recycle", !.ver = vref.ver, !.to = w]
LEMMA WithTo ==
  ASSUME Typed, NEW p \in Procs, NEW w \in Nat
  PROVE  /\ Recycling(p, w) \in Proc /\ Recycling(p, w).pc = "recycle"
         /\ Recycling(p, w).ver = vref.ver /\ Recycling(p, w).to = w
         /\ Recycling(p, w).then = pr[p].then /\ Recycling(p, w).id = pr[p].id
  <1>1. pr[p] \in Proc /\ vref.ver \in Nat BY DEF Typed
  <1>2. "recycle" \in UserPCs \cup CheckerPCs BY DEF UserPCs
  <1> QED BY <1>1, <1>2 DEF Proc, Recycling

\* The end of a call, with or without another health check.
LEMMA EndFacts ==
  ASSUME LifeConstants, Typed, NEW p \in Procs
  PROVE  /\ End(p) \in Proc
         /\ pr[p].then = "idle" => End(p).pc = "idle" /\ End(p).then = "idle"
         /\ pr[p].then # "idle" => End(p).pc = "hc_wait" /\ End(p).id = pr[p].id /\ End(p).then = pr[p].then
  <1>1. 0 \in Lives BY SMTT(30) DEF Lives, LifeConstants
  <1>2. IdleProc \in Proc /\ IdleProc.pc = "idle" /\ IdleProc.then = "idle"
    BY <1>1 DEF IdleProc, Proc, UserPCs, CheckerPCs
  <1>3. /\ [pr[p] EXCEPT !.pc = "hc_wait"] \in Proc /\ [pr[p] EXCEPT !.pc = "hc_wait"].pc = "hc_wait"
        /\ [pr[p] EXCEPT !.pc = "hc_wait"].id = pr[p].id
        /\ [pr[p] EXCEPT !.pc = "hc_wait"].then = pr[p].then
    BY WithPc DEF AllPCs, CheckerPCs
  <1> QED BY <1>2, <1>3 DEF End

\* Who holds a reference is counted.
LEMMA HolderCounts ==
  ASSUME LifeConstants, RefsAccounted, NEW p \in Procs, HoldsAt(pr[p].pc)
  PROVE  vref.ref >= 1 /\ vref.ref \in Nat
  <1>1. p \in Holders BY DEF Holders, HoldsAt
  <1>2. IsFiniteSet(Holders) /\ Cardinality(Holders) \in Nat BY HoldersFinite
  <1>3. Cardinality(Holders) # 0 BY <1>1, <1>2, FS_EmptySet
  <1> QED BY <1>2, <1>3, SMTT(30) DEF RefsAccounted

\* The reference count moves by one.
LEMMA RefMoved ==
  ASSUME Typed, NEW n \in Nat, vref' = [vref EXCEPT !.ref = n]
  PROVE  vref' \in [ver : Nat, ref : Nat] /\ vref'.ver = vref.ver /\ vref'.ref = n
  BY DEF Typed

\* Nobody looks for a process that recycles while the count is not zero.
LEMMA NotZero ==
  ASSUME vref'.ref \in Nat, vref'.ref # 0
  PROVE  FailedIsRecycled'
  BY DEF FailedIsRecycled

\* A process that drops the last reference of a failed socket recycles it.
LEMMA ZeroRecycles ==
  ASSUME Typed, NEW p \in Procs, NEW r \in Proc, Moves(p, r), vref' \in [ver : Nat, ref : Nat],
         vref'.ref = 0 /\ vref'.ver = id' + 1 => r.pc = "recycle" /\ r.ver = vref'.ver
  PROVE  FailedIsRecycled'
  <1>1. pr'[p] = r BY Moved
  <1>2. vref' = [ver |-> vref'.ver, ref |-> vref'.ref] OBVIOUS
  <1> QED BY <1>1, <1>2 DEF FailedIsRecycled, RecycleWon

\* A process drops its reference, and is to recycle the slot or is done.
LEMMA Drops ==
  ASSUME LifeConstants, LifeInv, NEW p \in Procs, pr[p].pc \in {"unaddress", "deref"}, NEW r, Moves(p, r),
         vref' = [vref EXCEPT !.ref = vref.ref - 1],
         UNCHANGED <<socket_conf, id, pooled, status, held, hc_started, entry, inflight, calls, fails>>,
         r = End(p) \/ \E i \in Ids : vref.ver \in {i, i + 1} /\ r = Recycling(p, i + 2),
         vref.ref = 1 /\ vref.ver = id + 1 => r # End(p)
  PROVE  LifeInv'
  <1>1. Typed /\ Slot /\ RefsAccounted /\ CheckedAlone BY DEF LifeInv
  <1> USE <1>1
  <1>2. vref.ref \in Nat /\ vref.ref >= 1 /\ vref.ver \in Nat /\ pr[p] \in Proc
    BY HolderCounts DEF HoldsAt, Typed
  <1> USE <1>2
  <1>3. vref' \in [ver : Nat, ref : Nat] /\ vref'.ver = vref.ver /\ vref'.ref = vref.ref - 1
    BY RefMoved, SMTT(30)
  <1> USE <1>3
  <1>4. /\ r \in Proc
        /\ r.then = pr[p].then
        /\ r.pc = "idle" \/ r.id = pr[p].id
        /\ \/ r.pc = "idle" /\ r.then = "idle"
           \/ r.pc = "hc_wait" /\ r.then # "idle"
           \/ /\ r.pc = "recycle" /\ r.ver = vref.ver
              /\ \E i \in Ids : r.to = i + 2 /\ r.ver \in {i, i + 1}
        /\ r # End(p) => r.pc = "recycle"
    <2>1. CASE r = End(p)
      BY <2>1, EndFacts
    <2>2. CASE r # End(p)
      <3>1. PICK i \in Ids : vref.ver \in {i, i + 1} /\ r = Recycling(p, i + 2) BY <2>2
      <3>2. i + 2 \in Nat BY Parity, SMTT(30) DEF Ids
      <3> QED BY <2>2, <3>1, <3>2, WithTo, SMTT(30)
    <2> QED BY <2>1, <2>2
  <1> USE <1>4
  <1>5. vref'.ref = 0 /\ vref'.ver = id' + 1 => r.pc = "recycle" /\ r.ver = vref'.ver
    BY SMTT(30)
  <1>6. FailedIsRecycled' BY <1>5, ZeroRecycles
  <1>7. vref'.ref + One(HoldsAt(pr[p].pc)) = vref.ref + One(HoldsAt(r.pc))
    BY SMTT(30) DEF One, HoldsAt
  <1>8. r.pc \in {"idle", "hc_wait", "recycle"} /\ ~UsesAt(r.pc) BY DEF UsesAt
  <1> USE <1>8
  <1>9. CASE p \in SocketUsers
    <2>1. held' => held /\ (entry'.in \/ \E q \in SocketUsers : Removing(q)')
      <3>1. \A q \in Procs \ {p} : pr'[q] = pr[q] BY Moved
      <3>2. ~Removing(p) BY DEF Removing
      <3> QED BY <3>1, <3>2 DEF CheckedAlone, Removing, Procs
    <2>2. entry \in [in : BOOLEAN, count : 0 .. MaxCount] /\ held \in BOOLEAN BY DEF Typed
    <2>3. vref'.ref + One(HoldsAt(pr[p].pc)) + One(entry.in) = vref.ref + One(HoldsAt(r.pc)) + One(entry'.in)
      BY <1>7 DEF One
    <2>4. pr[p].then = "idle" BY <1>9 DEF Typed, Proc
    <2>5. r.pc \in {"idle", "recycle"} /\ r.then = "idle" BY <2>4
    <2> QED BY <1>6, <1>9, <2>1, <2>2, <2>3, <2>5, UserMove DEF UserPCs
  <1>10. CASE p \in Checkers
    <2>1. pr'[p] = r BY Moved
    <2>2. pr[p].then \in {"idle", "hc_wait"} BY <1>10 DEF Typed, Proc
    <2>3. Active(p)' => Active(p) BY <2>1, <2>2 DEF Active, InCheck, CheckPCs
    <2>4. r.then \in {"idle", "hc_wait"} /\ (r.then = "hc_wait" => r.pc \in {"recycle", "hc_wait"})
      BY <2>2
    <2>5. hc_started \in BOOLEAN BY DEF Typed
    <2> QED BY <1>6, <1>7, <1>10, <2>3, <2>4, <2>5, CheckerMove, SMTT(30) DEF CheckerPCs, CheckPCs
  <1> QED BY <1>9, <1>10 DEF Procs

\* The current life, when it is in use, was given out.
LEMMA CurrentGiven ==
  ASSUME Typed, ~pooled
  PROVE  id \in Ids
  BY SMTT(30) DEF Typed, Ids, Lives

\* A reference that Address() took of another version is dropped.
LEMMA UnaddressStep ==
  ASSUME LifeConstants, LifeInv, NEW p \in Procs, unaddress(p), UNCHANGED socket_conf
  PROVE  LifeInv'
  <1>1. Typed /\ Slot BY DEF LifeInv
  <1> USE <1>1
  <1> DEFINE r == IF LastOfFailed THEN Recycling(p, vref.ver + 1) ELSE End(p)
  <1>2. /\ pr[p].pc = "unaddress" /\ Moves(p, r) /\ vref' = [vref EXCEPT !.ref = vref.ref - 1]
        /\ UNCHANGED <<id, pooled, status, held, hc_started, entry, inflight, calls, fails>>
    BY DEF unaddress, Moves, app, Recycling
  <1>3. id \in Nat /\ (vref.ver = id + 1 => vref.ver % 2 = 1) BY Parity DEF Typed
  <1>4. LastOfFailed => \E i \in Ids : vref.ver \in {i, i + 1} /\ r = Recycling(p, i + 2)
    <2> SUFFICES ASSUME LastOfFailed
                 PROVE  \E i \in Ids : vref.ver \in {i, i + 1} /\ r = Recycling(p, i + 2)
      OBVIOUS
    <2>1. ~pooled /\ vref.ver = id + 1 BY OddInUse DEF LastOfFailed
    <2>2. vref.ver + 1 = id + 2 /\ id \in Ids BY <1>3, <2>1, CurrentGiven, SMTT(30)
    <2> QED BY <2>1, <2>2
  <1>5. LastOfFailed => r # End(p)
    <2>1. Recycling(p, vref.ver + 1).pc = "recycle" BY WithTo, SMTT(30) DEF Typed
    <2>2. End(p).pc # "recycle" BY EndFacts
    <2> QED BY <2>1, <2>2
  <1>6. vref.ref = 1 /\ vref.ver = id + 1 => r # End(p) BY <1>3, <1>5 DEF LastOfFailed
  <1> HIDE DEF r
  <1>7. r = End(p) \/ \E i \in Ids : vref.ver \in {i, i + 1} /\ r = Recycling(p, i + 2)
    BY <1>4 DEF r
  <1> QED BY <1>2, <1>6, <1>7, Drops

\* Socket::Dereference().
LEMMA DereferenceStep ==
  ASSUME LifeConstants, LifeInv, NEW p \in Procs, Dereference(p), UNCHANGED socket_conf
  PROVE  LifeInv'
  <1>1. Typed /\ Slot BY DEF LifeInv
  <1> USE <1>1
  <1> DEFINE last == vref.ref = 1 /\ vref.ver \in {id, id + 1}
             r == IF last THEN Recycling(p, id + 2) ELSE End(p)
  <1>2. /\ pr[p].pc = "deref" /\ Moves(p, r) /\ vref' = [vref EXCEPT !.ref = vref.ref - 1]
        /\ UNCHANGED <<id, pooled, status, held, hc_started, entry, inflight, calls, fails>>
    BY DEF Dereference, Moves, app, Recycling
  <1>3. ~pooled BY <1>2 DEF LifeInv, NotUsedWhenPooled
  <1>4. id \in Ids /\ id + 2 \in Nat BY <1>3, CurrentGiven, Parity, SMTT(30) DEF Ids
  <1>5. last => r # End(p)
    <2>1. Recycling(p, id + 2).pc = "recycle" BY <1>4, WithTo
    <2>2. End(p).pc # "recycle" BY EndFacts
    <2> QED BY <2>1, <2>2
  <1>6. r = End(p) \/ \E i \in Ids : vref.ver \in {i, i + 1} /\ r = Recycling(p, i + 2) BY <1>4
  <1>7. vref.ref = 1 /\ vref.ver = id + 1 => r # End(p) BY <1>5
  <1> HIDE DEF r
  <1> QED BY <1>2, <1>6, <1>7, Drops

\* A slot without references: nobody is in it.
LEMMA NoHolders ==
  ASSUME LifeConstants, Typed, RefsAccounted, vref.ref = 0
  PROVE  Holders = {} /\ ~entry.in /\ ~Additional /\ \A q \in Procs : ~HoldsAt(pr[q].pc)
  <1>1. IsFiniteSet(Holders) /\ Cardinality(Holders) \in Nat BY HoldersFinite
  <1>2. Cardinality(Holders) = 0 /\ ~entry.in /\ ~Additional
    BY <1>1, SMTT(30) DEF RefsAccounted, Typed
  <1>3. Holders = {} BY <1>1, <1>2, FS_EmptySet
  <1> QED BY <1>2, <1>3 DEF Holders, HoldsAt

\* A recycler that lost.
LEMMA LostStep ==
  ASSUME LifeConstants, LifeInv, NEW p \in Procs, pr[p].pc = "recycle", ~RecycleWon(p), Moves(p, End(p)),
         UNCHANGED <<socket_conf, vref, id, pooled, status, held, hc_started, entry, inflight, calls, fails>>
  PROVE  LifeInv'
  <1>1. Typed /\ FailedIsRecycled /\ CheckedAlone BY DEF LifeInv
  <1> USE <1>1
  <1> DEFINE r == End(p)
  <1>2. /\ r \in Proc /\ r.then = pr[p].then
        /\ (r.pc = "idle" /\ r.then = "idle") \/ (r.pc = "hc_wait" /\ r.id = pr[p].id /\ r.then # "idle")
        /\ pr[p].then = "idle" => r.pc = "idle"
    BY EndFacts
  <1> USE <1>2
  <1> HIDE DEF r
  <1>3. Moves(p, r) BY DEF r
  <1> USE <1>3
  <1>4. pr'[p] = r /\ \A q \in Procs \ {p} : pr'[q] = pr[q] BY Moved
  <1> USE <1>4
  <1>5. FailedIsRecycled'
    <2> SUFFICES ASSUME vref.ref = 0, vref.ver = id + 1
                 PROVE  \E q \in Procs : pr'[q].pc = "recycle" /\ RecycleWon(q)'
      BY DEF FailedIsRecycled
    <2>1. PICK q \in Procs : pr[q].pc = "recycle" /\ RecycleWon(q) BY DEF FailedIsRecycled
    <2>2. q # p BY <2>1
    <2> QED BY <2>1, <2>2 DEF RecycleWon
  <1>6. vref.ref \in Nat /\ vref \in [ver : Nat, ref : Nat] /\ entry \in [in : BOOLEAN, count : 0 .. MaxCount]
        /\ held \in BOOLEAN /\ hc_started \in BOOLEAN /\ pr[p] \in Proc
    BY DEF Typed
  <1> USE <1>6
  <1>7. ~HoldsAt(r.pc) /\ ~HoldsAt(pr[p].pc) /\ ~UsesAt(r.pc) BY DEF HoldsAt, UsesAt
  <1> USE <1>7
  <1>8. CASE p \in SocketUsers
    <2>1. pr[p].then = "idle" BY <1>8 DEF Typed, Proc
    <2>2. r.pc = "idle" /\ r.then = "idle" BY <2>1
    <2>3. held' => held /\ (entry'.in \/ \E q \in SocketUsers : Removing(q)')
      <3>1. ~Removing(p) BY DEF Removing
      <3> QED BY <3>1 DEF CheckedAlone, Removing, Procs
    <2>4. vref'.ref + One(HoldsAt(pr[p].pc)) + One(entry.in) = vref.ref + One(HoldsAt(r.pc)) + One(entry'.in)
      BY DEF One
    <2> QED BY <1>5, <1>8, <2>2, <2>3, <2>4, UserMove DEF UserPCs
  <1>9. CASE p \in Checkers
    <2>1. pr[p].then \in {"idle", "hc_wait"} BY <1>9 DEF Typed, Proc
    <2>2. Active(p)' => Active(p) BY <2>1 DEF Active, InCheck, CheckPCs
    <2>3. vref'.ref + One(HoldsAt(pr[p].pc)) = vref.ref + One(HoldsAt(r.pc)) BY DEF One
    <2>4. /\ r.then # "remove" /\ r.then = pr[p].then
          /\ r.then = "hc_wait" => r.pc = "hc_wait"
          /\ r.pc = "hc_wait" => r.then = "hc_wait"
      BY <2>1
    <2> QED BY <1>5, <1>9, <2>2, <2>3, <2>4, CheckerMove DEF CheckerPCs, CheckPCs
  <1> QED BY <1>8, <1>9 DEF Procs

\* A recycler that won: nobody has a reference, the slot goes to the pool.
LEMMA WonStep ==
  ASSUME LifeConstants, LifeInv, NEW p \in Procs, pr[p].pc = "recycle", RecycleWon(p), Moves(p, End(p)),
         vref' = [ver |-> pr[p].to, ref |-> 0], pooled' = TRUE,
         UNCHANGED <<socket_conf, id, status, held, hc_started, entry, inflight, calls, fails>>
  PROVE  LifeInv'
  <1>1. /\ Typed /\ Slot /\ RefsAccounted /\ Recyclers /\ StatusOK /\ OneCheck /\ CheckedAlone /\ AppCounted
    BY DEF LifeInv
  <1> USE <1>1
  <1>2. ~pooled /\ pr[p].to = id + 2 /\ vref.ref = 0 BY WonIsCurrent
  <1>3. id \in Nat /\ vref' = [ver |-> id + 2, ref |-> 0] BY <1>2, Parity DEF Typed
  <1>4. ~entry.in /\ ~Additional /\ \A q \in Procs : ~HoldsAt(pr[q].pc) BY <1>2, NoHolders
  <1> DEFINE r == End(p)
  <1>5. /\ r \in Proc /\ r.then = pr[p].then
        /\ r.pc = "idle" \/ (r.pc = "hc_wait" /\ r.id = pr[p].id /\ r.then # "idle")
    BY EndFacts
  <1>6. Moves(p, r) OBVIOUS
  <1> HIDE DEF r
  <1>7. pr' \in [Procs -> Proc] /\ pr'[p] = r /\ \A q \in Procs \ {p} : pr'[q] = pr[q]
    BY <1>5, <1>6, Moved
  <1> USE <1>7
  <1>8. \A q \in Procs : pr'[q].pc \in {"idle", "hc_wait", "recycle"}
    BY <1>4, <1>5 DEF HoldsAt
  <1> USE <1>8
  <1>9. /\ SocketUsers \subseteq Procs /\ Checkers \subseteq Procs BY DEF Procs
  <1> USE <1>9
  <1>10. \A q \in Procs : pr'[q].then = pr[q].then /\ (pr'[q].pc = "idle" \/ pr'[q].id = pr[q].id)
    BY <1>5
  <1>11. status = "RECYCLED" /\ ~held
    <2>1. \A q \in Procs : pr[q].pc \in {"idle", "hc_wait", "recycle"} BY <1>4 DEF HoldsAt
    <2>2. status # "USING" BY <1>2, <1>4 DEF Additional
    <2>3. status # "REVIVING" BY <2>1 DEF StatusOK, Reviving
    <2>4. ~held BY <1>4, <2>1 DEF CheckedAlone, Removing
    <2> QED BY <2>2, <2>3, <2>4 DEF Typed
  <1>12. Ids' = Ids
    <2>1. \A i \in Lives : i \in Nat BY Parity
    <2>2. vref'.ver = id + 2 BY <1>3, SMTT(30)
    <2> QED BY <1>2, <1>3, <2>1, <2>2, SMTT(30) DEF Ids
  <1>13. Typed'
    <2>1. vref' \in [ver : Nat, ref : Nat] BY <1>3, SMTT(30)
    <2>2. ASSUME NEW q \in SocketUsers
          PROVE  /\ pr'[q].pc \in UserPCs /\ pr'[q].then # "hc_wait"
                 /\ pr'[q].then = "remove" => pr'[q].pc \in {"release", "release_sub", "unheld"}
      <3>1. pr[q] \in Proc /\ pr[q].then # "hc_wait" /\ pr[q].then # "remove" /\ pr[q].pc \in UserPCs
        BY <1>4 DEF Typed, HoldsAt
      <3>2. pr'[q].pc # "hc_wait"
        <4>1. CASE q = p BY <1>5, <3>1, <4>1 DEF Proc
        <4>2. CASE q # p BY <3>1, <4>2 DEF UserPCs
        <4> QED BY <4>1, <4>2
      <3> QED BY <1>10, <3>1, <3>2 DEF UserPCs
    <2>3. ASSUME NEW c \in Checkers
          PROVE  /\ pr'[c].pc \in CheckerPCs /\ pr'[c].then # "remove"
                 /\ pr'[c].then = "hc_wait" => pr'[c].pc \in {"deref", "recycle", "hc_wait"}
                 /\ pr'[c].pc = "hc_wait" => pr'[c].first \/ pr'[c].then = "hc_wait"
      <3>1. /\ pr[c].then # "remove" /\ (pr[c].then = "hc_wait" => pr[c].pc \in {"deref", "recycle", "hc_wait"})
            /\ pr[c].pc = "hc_wait" => pr[c].first \/ pr[c].then = "hc_wait"
            /\ pr[c] \in Proc
        BY DEF Typed
      <3>3. pr'[c].pc = "hc_wait" => pr'[c].first \/ pr'[c].then = "hc_wait"
        <4>1. CASE c = p BY <1>5, <3>1, <4>1 DEF Proc
        <4>2. CASE c # p BY <3>1, <4>2
        <4> QED BY <4>1, <4>2
      <3>2. pr'[c].then = "hc_wait" => pr'[c].pc # "idle"
        <4>1. CASE c = p
          <5>1. r.then = "hc_wait" => r.pc = "hc_wait" BY EndFacts DEF r
          <5> QED BY <4>1, <5>1
        <4>2. CASE c # p BY <3>1, <4>2
        <4> QED BY <4>1, <4>2
      <3> QED BY <1>10, <3>1, <3>2, <3>3 DEF CheckerPCs
    <2> QED BY <2>1, <2>2, <2>3 DEF Typed
  <1>14. Slot' BY <1>3, SMTT(30) DEF Slot
  <1>15. NotUsedWhenPooled' BY <1>4 DEF NotUsedWhenPooled
  <1>16. RefsAccounted'
    <2>1. Holders' = {} BY DEF Holders
    <2>2. ~Additional' BY DEF Additional
    <2> QED BY <1>3, <1>4, <2>1, <2>2, FS_EmptySet, SMTT(30) DEF RefsAccounted
  <1>17. Recyclers'
    <2>1. \A q \in Procs : pr'[q].pc = "recycle" => pr'[q] = pr[q] BY <1>5
    <2> QED BY <1>12, <2>1 DEF Recyclers
  <1>18. FailedIsRecycled' BY <1>3, SMTT(30) DEF FailedIsRecycled
  <1>19. StatusOK' BY <1>11 DEF StatusOK, Reviving
  <1>20. OneCheck'
    <2>1. ASSUME NEW c \in Checkers, pr'[c].pc # "idle" PROVE pr'[c].id \in Ids'
      <3>1. pr[c].pc # "idle" BY <2>1
      <3> QED BY <1>10, <1>12, <2>1, <3>1 DEF OneCheck
    <2> QED BY <2>1 DEF OneCheck, InCheck, Active, CheckPCs
  <1>21. CheckedAlone' BY <1>11 DEF CheckedAlone, Resumes, Active
  <1>22. AppCounted' BY <1>12 DEF AppCounted
  <1> QED BY <1>13, <1>14, <1>15, <1>16, <1>17, <1>18, <1>19, <1>20, <1>21, <1>22, SMTT(30) DEF LifeInv

\* Who saw the last reference go recycles the slot or leaves it to another one.
LEMMA RecycleStep ==
  ASSUME LifeConstants, LifeInv, NEW p \in Procs, recycle(p), UNCHANGED socket_conf
  PROVE  LifeInv'
  <1>1. CASE RecycleWon(p) BY <1>1, WonStep DEF recycle, Moves, app
  <1>2. CASE ~RecycleWon(p) BY <1>2, LostStep DEF recycle, Moves, app
  <1> QED BY <1>1, <1>2

-----------------------------------------------------------------------------
(* Callers.                                                                 *)

\* A caller in the socket goes on, with its reference.
LEMMA UserGoto ==
  ASSUME LifeConstants, LifeInv, NEW p \in SocketUsers, NEW a \in {"deref", "release", "unheld"}, Goto(p, a),
         pr[p].pc \in {"using", "start_hc", "release"}, pr[p].then = "remove" => a = "unheld",
         pr[p].pc \in {"start_hc", "release"} => a = "release" \/ status = "RECYCLED",
         UNCHANGED <<socket_conf, vref, id, pooled, status, held, hc_started, entry, inflight, calls, fails>>
  PROVE  LifeInv'
  <1>1. Typed /\ RefsAccounted /\ CheckedAlone /\ NotUsedWhenPooled BY DEF LifeInv
  <1> USE <1>1
  <1>2. p \in Procs BY DEF Procs
  <1> USE <1>2
  <1> DEFINE r == [pr[p] EXCEPT !.pc = a]
  <1>3. r \in Proc /\ r.pc = a /\ r.then = pr[p].then /\ Moves(p, r)
    BY WithPc DEF AllPCs, UserPCs
  <1> USE <1>3
  <1> HIDE DEF r
  <1>4. pr'[p] = r /\ \A q \in Procs \ {p} : pr'[q] = pr[q] BY Moved
  <1>5. HoldsAt(pr[p].pc) /\ HoldsAt(r.pc) BY DEF HoldsAt
  <1>6. ~pooled BY DEF NotUsedWhenPooled
  <1>7. vref.ref >= 1 /\ vref.ref \in Nat BY <1>5, HolderCounts
  <1>8. FailedIsRecycled' BY <1>7, NotZero, SMTT(30)
  <1>9. held => entry.in \/ \E q \in SocketUsers : Removing(q)'
    <2>1. Removing(p) => Removing(p)' BY <1>4 DEF Removing
    <2> QED BY <1>4, <2>1 DEF CheckedAlone, Removing, Procs
  <1>10. /\ vref \in [ver : Nat, ref : Nat] /\ entry \in [in : BOOLEAN, count : 0 .. MaxCount]
         /\ held \in BOOLEAN /\ pr[p].then # "hc_wait"
    BY DEF Typed
  <1>11. vref'.ref + One(HoldsAt(pr[p].pc)) + One(entry.in) = vref.ref + One(HoldsAt(r.pc)) + One(entry'.in)
    BY <1>5, <1>7 DEF One
  <1>12. r.pc \in UserPCs \ {"start_hc", "release_sub"} BY DEF UserPCs
  <1>13. r.then = "remove" => r.pc \in {"release", "release_sub", "unheld"} OBVIOUS
  <1> QED BY <1>6, <1>8, <1>9, <1>10, <1>11, <1>12, <1>13, UserMove

\* A caller that addresses the socket, or finds another version and is to drop its reference.
LEMMA AddressStep ==
  ASSUME LifeConstants, LifeInv, NEW p \in SocketUsers, NEW i \in Ids,
         Address(p, i) \/ AddressFailedAsWell(p, i), UNCHANGED socket_conf
  PROVE  LifeInv'
  <1>1. Typed /\ Slot /\ CheckedAlone BY DEF LifeInv
  <1> USE <1>1
  <1>2. p \in Procs /\ i \in Lives BY DEF Procs, Ids
  <1> USE <1>2
  <1>3. PICK a \in {"using", "deref", "unaddress"} :
          /\ a = "using" => vref.ver = i
          /\ a = "deref" => vref.ver \in {i, i + 1}
          /\ pr' = [pr EXCEPT ![p] = [pr[p] EXCEPT !.pc = a, !.id = i, !.ver = vref.ver]]
    <2>1. CASE Address(p, i) BY <2>1 DEF Address, AddressAs
    <2>2. CASE AddressFailedAsWell(p, i) BY <2>2 DEF AddressFailedAsWell, AddressAs
    <2> QED BY <2>1, <2>2
  <1> USE <1>3
  <1>4. /\ pr[p].pc = "idle" /\ vref' = [vref EXCEPT !.ref = vref.ref + 1]
        /\ UNCHANGED <<id, pooled, status, held, hc_started, entry, inflight, calls, fails>>
    BY DEF Address, AddressFailedAsWell, AddressAs, app
  <1> USE <1>4
  <1> DEFINE r == [pr[p] EXCEPT !.pc = a, !.id = i, !.ver = vref.ver]
  <1>5. vref.ref \in Nat /\ vref.ver \in Nat /\ pr[p] \in Proc /\ pr[p].then = "idle"
    <2>1. vref.ref \in Nat /\ vref.ver \in Nat /\ pr[p] \in Proc BY DEF Typed
    <2>2. pr[p].then = "idle" BY <2>1 DEF Typed, Proc
    <2> QED BY <2>1, <2>2
  <1> USE <1>5
  <1>6. r \in Proc /\ r.pc = a /\ r.then = "idle"
    <2>1. a \in UserPCs \cup CheckerPCs BY DEF UserPCs
    <2> QED BY <2>1 DEF Proc
  <1> USE <1>6
  <1>7. Moves(p, r) BY DEF Moves
  <1> HIDE DEF r
  <1>8. vref' \in [ver : Nat, ref : Nat] /\ vref'.ver = vref.ver /\ vref'.ref = vref.ref + 1
    BY RefMoved, SMTT(30)
  <1> USE <1>8
  <1>9. FailedIsRecycled' BY NotZero, SMTT(30)
  <1>10. a # "unaddress" => ~pooled /\ i = id BY Matching
  <1>11. held' => held /\ (entry'.in \/ \E q \in SocketUsers : Removing(q)')
    <2>1. \A q \in Procs \ {p} : pr'[q] = pr[q] BY <1>7, Moved
    <2>2. ~Removing(p) BY DEF Removing
    <2> QED BY <2>1, <2>2 DEF CheckedAlone, Removing, Procs
  <1>12. entry \in [in : BOOLEAN, count : 0 .. MaxCount] /\ held \in BOOLEAN BY DEF Typed
  <1>13. vref'.ref + One(HoldsAt(pr[p].pc)) + One(entry.in) = vref.ref + One(HoldsAt(r.pc)) + One(entry'.in)
    BY SMTT(30) DEF One, HoldsAt
  <1>14. r.pc \in UserPCs \ {"start_hc", "release_sub"} BY DEF UserPCs
  <1>15. UsesAt(r.pc) => ~pooled BY <1>10 DEF UsesAt
  <1>16. r.pc = "using" => vref.ver = id BY <1>10
  <1> QED BY <1>7, <1>9, <1>11, <1>12, <1>13, <1>14, <1>15, <1>16, UserMove

\* A caller takes the reference of the entry of the map.
LEMMA TakesEntry ==
  ASSUME LifeConstants, LifeInv, NEW p \in SocketUsers, pr[p].pc = "idle", entry.in,
         NEW r \in Proc, Moves(p, r), entry' = [in |-> FALSE, count |-> 0],
         \/ r.pc = "deref" /\ r.then = "idle" /\ held' = FALSE
         \/ r.pc = "release" /\ r.then = "remove" /\ held' = held,
         UNCHANGED <<socket_conf, vref, id, pooled, status, hc_started, inflight, calls, fails>>
  PROVE  LifeInv'
  <1>1. Typed /\ RefsAccounted /\ CheckedAlone /\ NotUsedWhenPooled BY DEF LifeInv
  <1> USE <1>1
  <1>2. p \in Procs /\ ~pooled BY DEF Procs, NotUsedWhenPooled
  <1>3. pr'[p] = r /\ \A q \in Procs \ {p} : pr'[q] = pr[q] BY <1>2, Moved
  <1>4. /\ vref \in [ver : Nat, ref : Nat] /\ held \in BOOLEAN /\ MaxCount \in Nat
        /\ Cardinality(Holders) \in Nat
    BY HoldersFinite DEF Typed, LifeConstants
  <1> USE <1>4
  <1>5. vref.ref >= 1 BY SMTT(30) DEF RefsAccounted
  <1>6. FailedIsRecycled' BY <1>5, NotZero, SMTT(30)
  <1>7. entry' \in [in : BOOLEAN, count : 0 .. MaxCount] /\ ~entry'.in BY SMTT(30)
  <1>8. ~HoldsAt(pr[p].pc) /\ HoldsAt(r.pc) BY DEF HoldsAt
  <1>9. vref'.ref + One(HoldsAt(pr[p].pc)) + One(entry.in) = vref.ref + One(HoldsAt(r.pc)) + One(entry'.in)
    BY <1>7, <1>8, SMTT(30) DEF One
  <1>10. held' \in BOOLEAN /\ (held' => held /\ (entry'.in \/ \E q \in SocketUsers : Removing(q)'))
    <2>1. held' => Removing(p)' BY <1>3 DEF Removing
    <2>2. CASE held' = FALSE BY <2>2
    <2>3. CASE held' = held
      <3>1. held' \in BOOLEAN BY <2>3
      <3>2. held' => held BY <2>3
      <3> QED BY <2>1, <3>1, <3>2
    <2> QED BY <2>2, <2>3
  <1>11. r.pc \in UserPCs \ {"start_hc", "release_sub"} BY DEF UserPCs
  <1> QED BY <1>2, <1>6, <1>7, <1>9, <1>10, <1>11, UserMove

\* The users of the entry are counted.
LEMMA CountStep ==
  ASSUME LifeConstants, LifeInv, entry' \in [in : BOOLEAN, count : 0 .. MaxCount], entry'.in = entry.in,
         UNCHANGED <<socket_conf, vref, id, pooled, status, held, hc_started, inflight, calls, pr, fails>>
  PROVE  LifeInv'
  <1>1. Typed' BY DEF LifeInv, Typed
  <1>2. Slot' /\ NotUsedWhenPooled' /\ Recyclers' /\ FailedIsRecycled'
    BY DEF LifeInv, Slot, NotUsedWhenPooled, Recyclers, FailedIsRecycled, Ids, RecycleWon
  <1>3. RefsAccounted' BY DEF LifeInv, RefsAccounted, Holders, Additional
  <1>4. StatusOK' /\ OneCheck'
    BY SMTT(30) DEF LifeInv, StatusOK, OneCheck, Reviving, Releasing, InCheck, Active, Ids
  <1>5. CheckedAlone' BY DEF LifeInv, CheckedAlone, Removing, Alone, Resumes, Active, InCheck
  <1>6. AppCounted' BY DEF LifeInv, AppCounted, Counting, Coming, Active, InCheck, Ids
  <1> QED BY <1>1, <1>2, <1>3, <1>4, <1>5, <1>6 DEF LifeInv

\* SocketMap::Remove() and the watcher.
LEMMA RemoveStep ==
  ASSUME LifeConstants, LifeInv, NEW p \in SocketUsers, Remove(p) \/ RemoveOrphan(p), UNCHANGED socket_conf
  PROVE  LifeInv'
  <1>1. Typed BY DEF LifeInv
  <1>2. p \in Procs /\ pr[p].pc = "idle" /\ entry.in
        /\ UNCHANGED <<vref, id, pooled, status, held, hc_started, inflight, calls, fails>>
    BY DEF Remove, RemoveOrphan, app, Procs
  <1>3. CASE Erase(p)
    <2> DEFINE r == [pr[p] EXCEPT !.pc = "release", !.then = "remove"]
    <2>1. r \in Proc /\ r.pc = "release" /\ r.then = "remove"
      <3>1. pr[p] \in Proc BY <1>1, <1>2 DEF Typed
      <3>2. "release" \in UserPCs \cup CheckerPCs BY DEF UserPCs
      <3> QED BY <3>1, <3>2 DEF Proc
    <2>2. Moves(p, r) /\ entry' = [in |-> FALSE, count |-> 0] BY <1>3 DEF Erase, Moves
    <2> QED BY <1>2, <2>1, <2>2, TakesEntry
  <1>4. CASE ~Erase(p)
    <2>1. entry \in [in : BOOLEAN, count : 0 .. MaxCount] /\ MaxCount \in Nat BY <1>1 DEF Typed, LifeConstants
    <2>2. PICK n \in {0, entry.count - 1} : entry.count > 0 /\ entry' = [entry EXCEPT !.count = n] /\ pr' = pr
      BY <1>4 DEF Remove, RemoveOrphan
    <2>3. entry' \in [in : BOOLEAN, count : 0 .. MaxCount] /\ entry'.in = entry.in BY <2>1, <2>2, SMTT(30)
    <2> QED BY <1>2, <2>2, <2>3, CountStep
  <1> QED BY <1>3, <1>4

\* SetHCRelatedRefReleased() of who took the entry from the map.
LEMMA UnheldStep ==
  ASSUME LifeConstants, LifeInv, NEW p \in SocketUsers, SetHCRelatedRefReleased(p), UNCHANGED socket_conf
  PROVE  LifeInv'
  <1>1. Typed /\ RefsAccounted /\ NotUsedWhenPooled BY DEF LifeInv
  <1> USE <1>1
  <1> DEFINE r == [pr[p] EXCEPT !.pc = "deref", !.then = "idle"]
  <1>2. /\ p \in Procs /\ pr[p].pc = "unheld" /\ Moves(p, r) /\ held' = FALSE
        /\ UNCHANGED <<vref, id, pooled, status, hc_started, entry, inflight, calls, fails>>
    BY DEF SetHCRelatedRefReleased, app, Procs, Moves
  <1> USE <1>2
  <1>3. r \in Proc /\ r.pc = "deref" /\ r.then = "idle"
    <2>1. pr[p] \in Proc BY DEF Typed
    <2>2. "deref" \in UserPCs \cup CheckerPCs BY DEF UserPCs
    <2> QED BY <2>1, <2>2 DEF Proc
  <1> USE <1>3
  <1> HIDE DEF r
  <1>4. HoldsAt(pr[p].pc) /\ HoldsAt(r.pc) BY DEF HoldsAt
  <1>5. ~pooled BY DEF NotUsedWhenPooled
  <1>6. vref.ref >= 1 /\ vref.ref \in Nat BY <1>4, HolderCounts
  <1>7. FailedIsRecycled' BY <1>6, NotZero, SMTT(30)
  <1>8. vref \in [ver : Nat, ref : Nat] /\ entry \in [in : BOOLEAN, count : 0 .. MaxCount] BY DEF Typed
  <1>9. vref'.ref + One(HoldsAt(pr[p].pc)) + One(entry.in) = vref.ref + One(HoldsAt(r.pc)) + One(entry'.in)
    BY <1>4, <1>6 DEF One
  <1>10. r.pc \in UserPCs \ {"start_hc", "release_sub"} BY DEF UserPCs
  <1> QED BY <1>5, <1>7, <1>8, <1>9, <1>10, UserMove, ZenonT(20)

-----------------------------------------------------------------------------
(* A life begins, fails and is given up.                                    *)

\* Socket::Create() begins a life with the additional reference, and another one of the map when
\* the socket is the map's.
LEMMA CreatedStep ==
  ASSUME LifeConstants, LifeInv, NEW refs \in {1, 2}, Created(refs), UNCHANGED <<socket_conf, calls, pr, fails>>,
         \/ refs = 1 /\ held' = FALSE /\ entry' = entry
         \/ refs = 2 /\ held' = TRUE /\ entry' = [in |-> TRUE, count |-> 1]
  PROVE  LifeInv'
  <1>1. /\ Typed /\ Slot /\ NotUsedWhenPooled /\ RefsAccounted /\ Recyclers /\ StatusOK /\ OneCheck /\ AppCounted
    BY DEF LifeInv
  <1> USE <1>1
  <1>2. /\ pooled /\ vref.ver \in Lives /\ pooled' = FALSE /\ id' = vref.ver
        /\ vref' = [vref EXCEPT !.ref = vref.ref + refs]
        /\ status' = "USING" /\ hc_started' = FALSE /\ inflight' = 0
    BY DEF Created
  <1> USE <1>2
  <1>3. vref \in [ver : Nat, ref : Nat] /\ MaxCount \in Nat \ {0} BY DEF Typed, LifeConstants
  <1> USE <1>3
  <1>4. vref' \in [ver : Nat, ref : Nat] /\ vref'.ver = vref.ver /\ vref'.ref = vref.ref + refs
    BY RefMoved, SMTT(30)
  <1> USE <1>4
  <1>5. ~entry.in /\ \A q \in Procs : pr[q].pc \in {"idle", "hc_wait", "unaddress", "recycle"}
    BY DEF NotUsedWhenPooled
  <1> USE <1>5
  <1>6. SocketUsers \subseteq Procs /\ Checkers \subseteq Procs BY DEF Procs
  <1> USE <1>6
  <1>7. Ids \subseteq Ids' /\ id' \notin Ids
    <2>1. \A i \in Lives : i \in Nat BY Parity
    <2> QED BY <2>1, SMTT(30) DEF Ids
  <1> USE <1>7
  <1>8. entry' \in [in : BOOLEAN, count : 0 .. MaxCount] /\ held' \in BOOLEAN /\ (held' => entry'.in)
        /\ refs = 1 + One(entry'.in)
    <2>1. CASE refs = 1 /\ held' = FALSE /\ entry' = entry
      <3> USE <2>1
      <3>1. entry' \in [in : BOOLEAN, count : 0 .. MaxCount] BY DEF Typed
      <3>2. held' \in BOOLEAN /\ ~held' OBVIOUS
      <3>3. refs = 1 + One(entry'.in) BY SMTT(30) DEF One
      <3> QED BY <3>1, <3>2, <3>3
    <2>2. CASE refs = 2 /\ held' = TRUE /\ entry' = [in |-> TRUE, count |-> 1]
      <3> USE <2>2
      <3>1. entry' \in [in : BOOLEAN, count : 0 .. MaxCount] /\ entry'.in BY SMTT(30)
      <3>2. held' \in BOOLEAN OBVIOUS
      <3>3. refs = 1 + One(entry'.in) BY <3>1, SMTT(30) DEF One
      <3> QED BY <3>1, <3>2, <3>3
    <2> QED BY <2>1, <2>2
  <1> USE <1>8
  <1>9. Typed' BY DEF Typed
  <1>10. Slot' /\ NotUsedWhenPooled' BY DEF Slot, NotUsedWhenPooled
  <1>11. FailedIsRecycled' BY SMTT(30) DEF FailedIsRecycled
  <1>12. Recyclers' BY DEF Recyclers
  <1>13. RefsAccounted'
    <2>1. Holders' = Holders BY DEF Holders
    <2>2. ~Additional BY DEF Additional
    <2>3. Additional' BY DEF Additional
    <2>4. Cardinality(Holders) \in Nat BY HoldersFinite
    <2>5. vref.ref = Cardinality(Holders) BY <2>2, <2>4, SMTT(30) DEF RefsAccounted
    <2>6. vref'.ref = Cardinality(Holders') + One(entry'.in) + 1 BY <2>1, <2>4, <2>5, SMTT(30) DEF One
    <2> QED BY <2>3, <2>6 DEF RefsAccounted, One
  <1>14. StatusOK' BY SMTT(30) DEF StatusOK, Reviving
  <1>15. \A c \in Checkers : ~Active(c)'
    <2> SUFFICES ASSUME NEW c \in Checkers, pr[c].pc = "hc_wait" \/ pr[c].then = "hc_wait"
                 PROVE  pr[c].id # id'
      BY DEF Active, InCheck, CheckPCs
    <2>1. pr[c].pc # "idle" BY DEF Typed
    <2> QED BY <2>1 DEF OneCheck
  <1> USE <1>15
  <1>16. OneCheck'
    <2>1. \A c \in Checkers : pr'[c].pc # "idle" => pr'[c].id \in Ids' BY DEF OneCheck
    <2>2. \A c \in Checkers : ~InCheck(c)' BY DEF InCheck, CheckPCs
    <2> QED BY <2>1, <2>2 DEF OneCheck
  <1>17. CheckedAlone' BY DEF CheckedAlone, Resumes
  <1>18. AppCounted'
    <2>1. \A c \in Checkers : ~Counting(c)' /\ ~Coming(c)' BY DEF Counting, Coming
    <2>2. \A q \in SocketUsers : pr'[q].pc # "start_hc" OBVIOUS
    <2>3. calls[id'] = 0 BY DEF AppCounted
    <2>4. fails \in Nat BY SMTT(30) DEF Typed, LifeConstants
    <2> QED BY <2>1, <2>2, <2>3, <2>4, SMTT(30) DEF AppCounted
  <1> QED BY <1>9, <1>10, <1>11, <1>12, <1>13, <1>14, <1>16, <1>17, <1>18, SMTT(30) DEF LifeInv

\* SocketMap::Insert(), and Create() of a connection of its own.
LEMMA InsertStep ==
  ASSUME LifeConstants, LifeInv, NEW p \in SocketUsers, Insert(p), UNCHANGED socket_conf
  PROVE  LifeInv'
  <1>1. Typed BY DEF LifeInv
  <1> USE <1>1
  <1>2. p \in Procs /\ pr[p].pc = "idle" BY DEF Insert, Procs
  <1> USE <1>2
  <1>3. CASE /\ entry.count < MaxCount /\ entry' = [entry EXCEPT !.count = entry.count + 1]
             /\ UNCHANGED <<vref, id, pooled, status, held, hc_started, inflight, calls, pr, fails>>
    <2>1. entry \in [in : BOOLEAN, count : 0 .. MaxCount] /\ MaxCount \in Nat BY DEF Typed, LifeConstants
    <2>2. entry' \in [in : BOOLEAN, count : 0 .. MaxCount] /\ entry'.in = entry.in BY <1>3, <2>1, SMTT(30)
    <2> QED BY <1>3, <2>2, CountStep
  <1>4. CASE /\ entry.in /\ entry' = [in |-> FALSE, count |-> 0] /\ held' = FALSE /\ Goto(p, "deref")
             /\ UNCHANGED <<vref, id, pooled, status, hc_started, inflight, calls, fails>>
    <2> DEFINE r == [pr[p] EXCEPT !.pc = "deref"]
    <2>1. r \in Proc /\ r.pc = "deref" /\ r.then = pr[p].then /\ Moves(p, r)
      BY <1>4, WithPc DEF AllPCs, UserPCs
    <2>2. pr[p].then = "idle"
      <3>1. pr[p] \in Proc BY DEF Typed
      <3> QED BY <3>1 DEF Typed, Proc
    <2> HIDE DEF r
    <2> QED BY <1>4, <2>1, <2>2, TakesEntry
  <1>5. CASE Created(2) /\ held' = TRUE /\ entry' = [in |-> TRUE, count |-> 1] /\ UNCHANGED <<calls, pr, fails>>
    BY <1>5, CreatedStep
  <1> QED BY <1>3, <1>4, <1>5 DEF Insert, app

\* Socket::SetFailed() that finds the socket in order.
LEMMA SetFailedStep ==
  ASSUME LifeConstants, LifeInv, NEW p \in SocketUsers, pr[p].pc = "using", fails < socket_conf.fails, ~Failed,
         vref' = [vref EXCEPT !.ver = id + 1], fails' = fails + 1, Goto(p, "start_hc"),
         UNCHANGED <<socket_conf, id, pooled, status, held, hc_started, entry, inflight, calls>>
  PROVE  LifeInv'
  <1>1. /\ Typed /\ Slot /\ NotUsedWhenPooled /\ RefsAccounted /\ Recyclers
        /\ StatusOK /\ OneCheck /\ CheckedAlone /\ AppCounted
    BY DEF LifeInv
  <1> USE <1>1
  <1>2. /\ p \in Procs /\ p \notin Checkers /\ SocketUsers \subseteq Procs /\ Checkers \subseteq Procs
    BY DEF Procs, LifeConstants
  <1>3. ~pooled /\ vref.ver = id BY <1>2 DEF NotUsedWhenPooled, Failed
  <1> USE <1>3
  <1>4. id \in Nat /\ vref \in [ver : Nat, ref : Nat] BY Parity DEF Typed
  <1>5. vref' \in [ver : Nat, ref : Nat] /\ vref'.ver = id + 1 /\ vref'.ref = vref.ref BY <1>4, SMTT(30)
  <1> DEFINE r == [pr[p] EXCEPT !.pc = "start_hc"]
  <1>6. r \in Proc /\ r.pc = "start_hc" /\ r.then = pr[p].then /\ Moves(p, r)
    BY <1>2, WithPc DEF AllPCs, UserPCs
  <1> USE <1>6
  <1> HIDE DEF r
  <1>7. pr' \in [Procs -> Proc] /\ pr'[p] = r /\ \A q \in Procs \ {p} : pr'[q] = pr[q]
    BY <1>2, Moved
  <1>8. (\A q \in SocketUsers \ {p} : pr'[q] = pr[q]) /\ \A c \in Checkers : pr'[c] = pr[c]
    BY <1>2, <1>7
  <1> USE <1>8
  <1>9. Ids' = Ids BY DEF Ids
  <1>10. \A c \in Checkers : InCheck(c) => pr[c].pc \in Revived
    BY <1>4, SMTT(30) DEF OneCheck, Active
  <1>11. Typed'
    <2>1. fails' \in 0 .. socket_conf'.fails BY SMTT(30) DEF Typed, LifeConstants
    <2>2. pr[p].then = "idle"
      <3>1. pr[p] \in Proc BY <1>2 DEF Typed
      <3> QED BY <3>1 DEF Typed, Proc
    <2>3. r.pc \in UserPCs BY DEF UserPCs
    <2> QED BY <1>5, <1>7, <2>1, <2>2, <2>3, SMTT(30) DEF Typed
  <1>12. Slot' /\ NotUsedWhenPooled' BY <1>5 DEF Slot, NotUsedWhenPooled
  <1>13. Recyclers' BY <1>7, <1>9 DEF Recyclers
  <1>14. HoldsAt(pr[p].pc) /\ HoldsAt(r.pc) BY DEF HoldsAt
  <1>15. FailedIsRecycled'
    <2>1. vref.ref >= 1 BY <1>2, <1>14, HolderCounts
    <2> QED BY <1>4, <1>5, <2>1, NotZero, SMTT(30)
  <1>16. RefsAccounted'
    <2>1. Cardinality(Holders') = Cardinality(Holders)
      BY <1>2, <1>14, HoldersMoved, SMTT(30) DEF One
    <2>2. Additional' <=> Additional BY <1>7 DEF Additional
    <2> QED BY <1>5, <2>1, <2>2 DEF RefsAccounted
  <1>17. StatusOK'
    <2>1. Releasing' BY <1>7 DEF Releasing
    <2>2. Reviving' <=> Reviving BY DEF Reviving
    <2> QED BY <1>7, <2>1, <2>2 DEF StatusOK
  <1>18. OneCheck'
    <2>1. \A c \in Checkers : (Active(c)' <=> Active(c)) /\ (InCheck(c)' <=> InCheck(c))
      BY DEF Active, InCheck
    <2>2. \A q \in SocketUsers : pr[q].pc # "start_hc" BY <1>4, SMTT(30) DEF OneCheck
    <2>3. \A q \in SocketUsers : pr'[q].pc = "start_hc" => q = p BY <2>2
    <2> QED BY <1>5, <1>9, <2>1, <2>3 DEF OneCheck
  <1>19. CheckedAlone'
    <2>1. \A c \in Checkers : pr'[c].pc \notin {"hc_held", "hc_cas"} /\ ~Resumes(c)'
      <3>1. \A c \in Checkers : pr[c].pc \notin {"hc_held", "hc_check", "hc_revive", "hc_cas"}
        BY <1>10 DEF InCheck, CheckPCs, Revived
      <3>2. \A c \in Checkers : Active(c) => pr[c].then # "hc_wait"
        BY <1>4, SMTT(30) DEF OneCheck, Revived, Typed
      <3> QED BY <3>1, <3>2 DEF Resumes, Active, InCheck
    <2>2. held' => entry'.in \/ \E q \in SocketUsers : Removing(q)'
      <3>1. ~Removing(p) BY DEF Removing
      <3> QED BY <3>1 DEF CheckedAlone, Removing
    <2> QED BY <2>1, <2>2 DEF CheckedAlone
  <1>20. AppCounted'
    <2>1. (\E c \in Checkers : Counting(c))' <=> \E c \in Checkers : Counting(c)
      BY DEF Counting
    <2>2. (\E c \in Checkers : Coming(c))' <=> \E c \in Checkers : Coming(c)
      BY DEF Coming, Active, InCheck
    <2>3. ~\E q \in SocketUsers : pr[q].pc = "start_hc" BY <1>4, SMTT(30) DEF OneCheck
    <2>4. calls \in [Lives -> Nat] /\ id \in Lives /\ fails \in Nat /\ inflight \in Nat
      BY SMTT(30) DEF Typed, LifeConstants
    <2>5. calls[id] + One(\E c \in Checkers : Coming(c)) <= fails
      BY <2>3, <2>4, SMTT(30) DEF AppCounted, One
    <2>6. /\ \A i \in Lives : calls'[i] <= fails' /\ (i \notin Ids' => calls'[i] = 0)
          /\ inflight' <= fails' /\ (~socket_conf'.app => inflight' = 0 /\ \A i \in Lives : calls'[i] = 0)
      BY <1>9, <2>4, SMTT(30) DEF AppCounted
    <2>7. calls'[id'] + One((\E c \in Checkers : Coming(c))') + One((\E q \in SocketUsers : pr[q].pc = "start_hc")')
            <= fails'
      BY <2>2, <2>4, <2>5, SMTT(30) DEF One
    <2> QED BY <2>1, <2>6, <2>7 DEF AppCounted, One
  <1> QED BY <1>11, <1>12, <1>13, <1>15, <1>16, <1>17, <1>18, <1>19, <1>20, SMTT(30) DEF LifeInv

\* SetFailed() begins a health check.
LEMMA StartedStep ==
  ASSUME LifeConstants, LifeInv, NEW p \in SocketUsers, NEW k \in Checkers, pr[p].pc = "start_hc",
         pr[k].pc = "idle", ~hc_started, hc_started' \in BOOLEAN, hc_started',
         pr' \in [Procs -> Proc], \A q \in Procs : q # p /\ q # k => pr'[q] = pr[q],
         pr'[p].pc = "release", pr'[p].then = pr[p].then,
         pr'[k].pc = "hc_wait", pr'[k].then = "idle", pr'[k].id = id, pr'[k].first,
         UNCHANGED <<socket_conf, vref, id, pooled, status, held, entry, inflight, calls, fails>>
  PROVE  LifeInv'
  <1>1. /\ Typed /\ Slot /\ NotUsedWhenPooled /\ RefsAccounted /\ Recyclers
        /\ StatusOK /\ OneCheck /\ CheckedAlone /\ AppCounted
    BY DEF LifeInv
  <1> USE <1>1
  <1>2. /\ p \in Procs /\ k \in Procs /\ p # k /\ SocketUsers \subseteq Procs /\ Checkers \subseteq Procs
        /\ SocketUsers \cap Checkers = {}
    BY DEF Procs, LifeConstants
  <1>3. ~pooled /\ vref.ver = id + 1 BY <1>2 DEF NotUsedWhenPooled, OneCheck
  <1>8. /\ \A q \in SocketUsers \ {p} : pr'[q] = pr[q]
        /\ \A c \in Checkers \ {k} : pr'[c] = pr[c]
    BY <1>2
  <1> USE <1>8
  <1>9. Ids' = Ids /\ id \in Ids BY <1>3, CurrentGiven DEF Ids
  <1>10. \A c \in Checkers : ~Active(c) /\ ~InCheck(c)
    <2>1. \A c \in Checkers : ~Active(c) BY DEF OneCheck
    <2> QED BY <2>1, InCheckActive
  <1>11. Typed'
    <2>1. pr[p].then = "idle"
      <3>1. pr[p] \in Proc BY <1>2 DEF Typed
      <3> QED BY <3>1 DEF Typed, Proc
    <2>2. pr'[p].pc \in UserPCs /\ pr'[k].pc \in CheckerPCs BY DEF UserPCs, CheckerPCs
    <2>4. ASSUME NEW q \in SocketUsers
          PROVE  /\ pr'[q].pc \in UserPCs /\ pr'[q].then # "hc_wait"
                 /\ pr'[q].then = "remove" => pr'[q].pc \in {"release", "release_sub", "unheld"}
      <3>1. CASE q = p BY <2>1, <2>2, <3>1
      <3>2. CASE q # p
        <4>1. pr'[q] = pr[q] BY <3>2
        <4> QED BY <4>1, SMTT(30) DEF Typed
      <3> QED BY <3>1, <3>2
    <2>5. \A c \in Checkers : /\ pr'[c].pc \in CheckerPCs /\ pr'[c].then # "remove"
                              /\ pr'[c].then = "hc_wait" => pr'[c].pc \in {"deref", "recycle", "hc_wait"}
                              /\ pr'[c].pc = "hc_wait" => pr'[c].first \/ pr'[c].then = "hc_wait"
      BY <2>2, SMTT(30) DEF Typed
    <2> QED BY <2>4, <2>5 DEF Typed
  <1>12. Slot' /\ NotUsedWhenPooled' BY <1>3 DEF Slot, NotUsedWhenPooled
  <1>13. Recyclers' BY <1>9 DEF Recyclers
  <1>14. FailedIsRecycled'
    <2>1. vref.ref >= 1 /\ vref.ref \in Nat BY <1>2, HolderCounts DEF HoldsAt
    <2> QED BY <2>1, NotZero, SMTT(30)
  <1>15. RefsAccounted'
    <2>1. Holders' = Holders BY <1>2 DEF Holders
    <2>2. Additional' <=> Additional BY <1>2 DEF Additional
    <2> QED BY <2>1, <2>2 DEF RefsAccounted
  <1>16. StatusOK'
    <2>1. Releasing' BY DEF Releasing
    <2>2. Reviving' <=> Reviving BY DEF Reviving
    <2> QED BY <1>3, <2>1, <2>2 DEF StatusOK
  <1>17. OneCheck'
    <2>1. \A c \in Checkers \ {k} : ~Active(c)' /\ ~InCheck(c)' BY <1>10 DEF Active, InCheck
    <2>2. ~InCheck(k)' BY DEF InCheck, CheckPCs
    <2>3. \A q \in SocketUsers : pr'[q].pc # "start_hc" BY DEF OneCheck
    <2>4. ASSUME NEW c \in Checkers, pr'[c].pc # "idle" PROVE pr'[c].id \in Ids'
      <3>1. CASE c = k BY <1>9, <3>1
      <3>2. CASE c # k
        <4>1. pr'[c] = pr[c] BY <3>2
        <4> QED BY <1>9, <2>4, <4>1 DEF OneCheck
      <3> QED BY <3>1, <3>2
    <2> QED BY <1>3, <2>1, <2>2, <2>3, <2>4 DEF OneCheck
  <1>18. CheckedAlone'
    <2>1. \A c \in Checkers : pr'[c].pc \notin {"hc_held", "hc_cas"} /\ ~Resumes(c)'
      <3>1. \A c \in Checkers : ~InCheck(c)' BY <1>10 DEF InCheck, CheckPCs
      <3>2. \A c \in Checkers : Active(c)' => pr'[c].then # "hc_wait"
        BY <1>10 DEF Active, InCheck
      <3> QED BY <3>1, <3>2 DEF Resumes, InCheck, CheckPCs
    <2>2. held' => entry'.in \/ \E q \in SocketUsers : Removing(q)'
      <3>1. ~Removing(p) BY DEF Removing
      <3> QED BY <3>1 DEF CheckedAlone, Removing
    <2> QED BY <2>1, <2>2 DEF CheckedAlone
  <1>19. AppCounted'
    <2>1. ~\E c \in Checkers : Counting(c) BY <1>10 DEF Counting, InCheck, CheckPCs
    <2>2. ~(\E c \in Checkers : Counting(c))' BY <2>1 DEF Counting
    <2>3. ~\E c \in Checkers : Coming(c) BY <1>10 DEF Coming
    <2>4. ~(\E q \in SocketUsers : pr[q].pc = "start_hc")' BY DEF OneCheck
    <2>5. calls[id] \in Nat /\ fails \in Nat BY SMTT(30) DEF Typed, LifeConstants
    <2>6. calls[id] + 1 <= fails BY <1>3, <2>3, <2>5, SMTT(30) DEF AppCounted
    <2>7. calls[id] + One((\E c \in Checkers : Coming(c))') <= fails BY <2>5, <2>6, SMTT(30) DEF One
    <2> QED BY <1>9, <2>1, <2>2, <2>4, <2>5, <2>7, SMTT(30) DEF AppCounted, One
  <1> QED BY <1>11, <1>12, <1>13, <1>14, <1>15, <1>16, <1>17, <1>18, <1>19, SMTT(30) DEF LifeInv

\* ReleaseAdditionalReference() takes the additional reference, to drop it.
LEMMA ReleaseStep ==
  ASSUME LifeConstants, LifeInv, NEW p \in SocketUsers, pr[p].pc = "release", status = "USING",
         status' = "RECYCLED", Goto(p, "release_sub"),
         UNCHANGED <<socket_conf, vref, id, pooled, held, hc_started, entry, inflight, calls, fails>>
  PROVE  LifeInv'
  <1>1. /\ Typed /\ Slot /\ NotUsedWhenPooled /\ RefsAccounted /\ Recyclers
        /\ StatusOK /\ OneCheck /\ CheckedAlone /\ AppCounted
    BY DEF LifeInv
  <1> USE <1>1
  <1>2. /\ p \in Procs /\ p \notin Checkers /\ SocketUsers \subseteq Procs /\ Checkers \subseteq Procs
    BY DEF Procs, LifeConstants
  <1>3. ~pooled BY <1>2 DEF NotUsedWhenPooled
  <1> DEFINE r == [pr[p] EXCEPT !.pc = "release_sub"]
  <1>4. r \in Proc /\ r.pc = "release_sub" /\ r.then = pr[p].then /\ Moves(p, r)
    BY <1>2, WithPc DEF AllPCs, UserPCs
  <1> USE <1>4
  <1> HIDE DEF r
  <1>5. pr' \in [Procs -> Proc] /\ pr'[p] = r /\ \A q \in Procs \ {p} : pr'[q] = pr[q]
    BY <1>2, Moved
  <1>6. (\A q \in SocketUsers \ {p} : pr'[q] = pr[q]) /\ \A c \in Checkers : pr'[c] = pr[c]
    BY <1>2, <1>5
  <1> USE <1>6
  <1>7. Ids' = Ids BY DEF Ids
  <1>8. ~Reviving /\ (\A q \in SocketUsers : pr[q].pc # "release_sub")
    BY DEF StatusOK
  <1>9. Typed' BY <1>5, SMTT(30) DEF Typed, UserPCs
  <1>10. Slot' /\ NotUsedWhenPooled' BY <1>3 DEF Slot, NotUsedWhenPooled
  <1>11. Recyclers' BY <1>5, <1>7 DEF Recyclers
  <1>12. HoldsAt(pr[p].pc) /\ HoldsAt(r.pc) BY DEF HoldsAt
  <1>13. FailedIsRecycled'
    <2>1. vref.ref >= 1 /\ vref.ref \in Nat BY <1>2, <1>12, HolderCounts
    <2> QED BY <2>1, NotZero, SMTT(30)
  <1>14. RefsAccounted'
    <2>1. Cardinality(Holders') = Cardinality(Holders)
      BY <1>2, <1>12, HoldersMoved, SMTT(30) DEF One
    <2>2. Additional' BY <1>2, <1>5 DEF Additional
    <2>3. Additional BY <1>3 DEF Additional
    <2> QED BY <2>1, <2>2, <2>3 DEF RefsAccounted
  <1>15. StatusOK'
    <2>1. ~Reviving' BY <1>8 DEF Reviving
    <2>2. \A c \in Checkers : pr'[c].pc # "hc_using" BY <1>8 DEF Reviving
    <2> QED BY <1>3, <1>8, <2>1, <2>2 DEF StatusOK
  <1>16. OneCheck'
    <2>1. \A c \in Checkers : (Active(c)' <=> Active(c)) /\ (InCheck(c)' <=> InCheck(c))
      BY DEF Active, InCheck
    <2> QED BY <1>5, <1>7, <2>1, SMTT(30) DEF OneCheck
  <1>17. CheckedAlone'
    <2>1. \A c \in Checkers : pr'[c].pc \notin {"hc_held", "hc_cas"} /\ ~Resumes(c)'
      <3>1. \A c \in Checkers : Resumes(c)' <=> Resumes(c) BY DEF Resumes, Active, InCheck
      <3> QED BY <1>8, <3>1 DEF CheckedAlone, Reviving
    <2>2. held' => entry'.in \/ \E q \in SocketUsers : Removing(q)'
      <3>1. Removing(p) => Removing(p)' BY <1>5 DEF Removing
      <3> QED BY <3>1 DEF CheckedAlone, Removing
    <2> QED BY <2>1, <2>2 DEF CheckedAlone
  <1>18. AppCounted'
    <2>1. (\E c \in Checkers : Counting(c))' <=> \E c \in Checkers : Counting(c)
      BY DEF Counting
    <2>2. (\E c \in Checkers : Coming(c))' <=> \E c \in Checkers : Coming(c)
      BY DEF Coming, Active, InCheck
    <2>3. (\E q \in SocketUsers : pr[q].pc = "start_hc")' <=> \E q \in SocketUsers : pr[q].pc = "start_hc"
      BY <1>5
    <2> QED BY <1>7, <2>1, <2>2, <2>3 DEF AppCounted
  <1> QED BY <1>9, <1>10, <1>11, <1>13, <1>14, <1>15, <1>16, <1>17, <1>18 DEF LifeInv

\* The additional reference is dropped; the caller still has its own.
LEMMA ReleaseSubStep ==
  ASSUME LifeConstants, LifeInv, NEW p \in SocketUsers, release_sub(p), UNCHANGED socket_conf
  PROVE  LifeInv'
  <1>1. /\ Typed /\ Slot /\ NotUsedWhenPooled /\ RefsAccounted /\ Recyclers
        /\ StatusOK /\ OneCheck /\ CheckedAlone /\ AppCounted
    BY DEF LifeInv
  <1> USE <1>1
  <1> DEFINE a == AfterRelease(p)
             r == [pr[p] EXCEPT !.pc = a]
  <1>2. /\ pr[p].pc = "release_sub" /\ vref' = [vref EXCEPT !.ref = vref.ref - 1] /\ Goto(p, a)
        /\ UNCHANGED <<id, pooled, status, held, hc_started, entry, inflight, calls, fails>>
    BY DEF release_sub, app
  <1> USE <1>2
  <1>3. /\ p \in Procs /\ p \notin Checkers /\ SocketUsers \subseteq Procs /\ Checkers \subseteq Procs
    BY DEF Procs, LifeConstants
  <1>4. a \in {"unheld", "deref"} /\ (pr[p].then = "remove" => a = "unheld") BY DEF AfterRelease
  <1> USE <1>4
  <1> HIDE DEF a
  <1>5. ~pooled BY <1>3 DEF NotUsedWhenPooled
  <1>6. r \in Proc /\ r.pc = a /\ r.then = pr[p].then /\ Moves(p, r)
    BY <1>3, WithPc, SMTT(30) DEF AllPCs, UserPCs
  <1> USE <1>6
  <1> HIDE DEF r
  <1>7. pr' \in [Procs -> Proc] /\ pr'[p] = r /\ \A q \in Procs \ {p} : pr'[q] = pr[q]
    BY <1>3, Moved
  <1> USE <1>7
  <1>8. (\A q \in SocketUsers \ {p} : pr'[q] = pr[q]) /\ \A c \in Checkers : pr'[c] = pr[c]
    BY <1>3
  <1> USE <1>8
  <1>9. Ids' = Ids BY <1>5 DEF Ids
  <1>10. status = "RECYCLED" /\ ~Reviving /\ \A q \in SocketUsers \ {p} : pr[q].pc # "release_sub"
    BY DEF StatusOK
  <1>11. HoldsAt(pr[p].pc) /\ HoldsAt(r.pc) BY DEF HoldsAt
  <1>12. /\ Cardinality(Holders) \in Nat /\ Cardinality(Holders') = Cardinality(Holders)
         /\ Cardinality(Holders) >= 1
    <2>1. p \in Holders BY <1>3, <1>11 DEF Holders, HoldsAt
    <2>2. IsFiniteSet(Holders) /\ Cardinality(Holders) \in Nat BY HoldersFinite
    <2>3. Cardinality(Holders) # 0 BY <2>1, <2>2, FS_EmptySet
    <2>4. Cardinality(Holders') = Cardinality(Holders)
      BY <1>3, <1>11, HoldersMoved, SMTT(30) DEF One
    <2> QED BY <2>2, <2>3, <2>4, SMTT(30)
  <1>13. Additional /\ ~Additional'
    <2>1. Additional BY <1>3 DEF Additional
    <2>2. \A q \in Procs : pr'[q].pc \notin {"release_sub", "hc_using"}
      <3>1. \A q \in SocketUsers : pr'[q].pc # "release_sub" BY <1>10
      <3>2. \A q \in SocketUsers : pr'[q].pc # "hc_using" BY DEF Typed, UserPCs
      <3>3. \A c \in Checkers : pr'[c].pc \notin {"release_sub", "hc_using"}
        BY <1>10 DEF Typed, CheckerPCs, CheckPCs, Reviving
      <3> QED BY <3>1, <3>2, <3>3 DEF Procs
    <2> QED BY <1>10, <2>1, <2>2 DEF Additional
  <1>14. vref.ref = Cardinality(Holders) + One(entry.in) + 1 BY <1>13 DEF RefsAccounted, One
  <1>15. /\ vref.ref - 1 \in Nat /\ vref' \in [ver : Nat, ref : Nat]
         /\ vref'.ver = vref.ver /\ vref'.ref = vref.ref - 1 /\ vref'.ref # 0
    <2>1. vref.ref - 1 \in Nat /\ vref.ref - 1 # 0 BY <1>12, <1>14, SMTT(30) DEF One
    <2> QED BY <2>1, RefMoved
  <1>16. Typed' BY <1>15, SMTT(30) DEF Typed, UserPCs
  <1>17. Slot' /\ NotUsedWhenPooled' BY <1>5, <1>15 DEF Slot, NotUsedWhenPooled
  <1>18. Recyclers' BY <1>9 DEF Recyclers
  <1>19. FailedIsRecycled' BY <1>15, NotZero
  <1>20. RefsAccounted' BY <1>12, <1>13, <1>14, <1>15, SMTT(30) DEF RefsAccounted, One
  <1>21. StatusOK'
    <2>1. ~Reviving' BY <1>10 DEF Reviving
    <2>2. \A c \in Checkers : pr'[c].pc # "hc_using" BY <1>10 DEF Reviving
    <2> QED BY <1>10, <2>1, <2>2, SMTT(30) DEF StatusOK
  <1>22. OneCheck'
    <2>1. \A c \in Checkers : (Active(c)' <=> Active(c)) /\ (InCheck(c)' <=> InCheck(c))
      BY DEF Active, InCheck
    <2> QED BY <1>9, <1>15, <2>1, SMTT(30) DEF OneCheck
  <1>23. CheckedAlone'
    <2>1. Alone => Alone' BY DEF Alone
    <2>2. held' => entry'.in \/ \E q \in SocketUsers : Removing(q)'
      <3>1. Removing(p) => Removing(p)' BY DEF Removing
      <3> QED BY <3>1 DEF CheckedAlone, Removing
    <2>3. \A q \in SocketUsers : pr'[q].pc # "release_sub" BY <1>10
    <2>4. \A c \in Checkers : Resumes(c)' <=> Resumes(c) BY DEF Resumes, Active, InCheck
    <2> QED BY <2>1, <2>2, <2>3, <2>4 DEF CheckedAlone
  <1>24. AppCounted'
    <2>1. (\E c \in Checkers : Counting(c))' <=> \E c \in Checkers : Counting(c)
      BY DEF Counting
    <2>2. (\E c \in Checkers : Coming(c))' <=> \E c \in Checkers : Coming(c)
      BY DEF Coming, Active, InCheck
    <2>3. (\E q \in SocketUsers : pr[q].pc = "start_hc")' <=> \E q \in SocketUsers : pr[q].pc = "start_hc"
      OBVIOUS
    <2> QED BY <1>9, <2>1, <2>2, <2>3 DEF AppCounted
  <1> QED BY <1>16, <1>17, <1>18, <1>19, <1>20, <1>21, <1>22, <1>23, <1>24, SMTT(30) DEF LifeInv
=============================================================================

-------------------------- MODULE SocketLifeProofs --------------------------
(***************************************************************************)
(* The life of a socket slot for any number of threads, health checks,     *)
(* lives and failures: references are exact, a life is recycled once and   *)
(* nobody uses what is recycled, and a health check is alone when it       *)
(* resets its socket.  SocketUserProofs has the steps of the threads.      *)
(***************************************************************************)
EXTENDS SocketUserProofs

USE Zenon

-----------------------------------------------------------------------------
(* The health check.                                                        *)

\* HealthCheckTask::OnTriggeringTask() addresses the socket, failed or not.
LEMMA TriggerStep ==
  ASSUME LifeConstants, LifeInv, NEW c \in Checkers, OnTriggeringTask(c), UNCHANGED socket_conf
  PROVE  LifeInv'
  <1>1. Typed /\ Slot /\ OneCheck /\ CheckedAlone BY DEF LifeInv
  <1> USE <1>1
  <1>2. c \in Procs BY DEF Procs
  <1> DEFINE a == IF ~Found(c) THEN "unaddress" ELSE IF pr[c].first THEN "hc_reset" ELSE "hc_check"
             r == [pr[c] EXCEPT !.ver = vref.ver, !.then = "idle", !.pc = a]
  <1>3. /\ pr[c].pc = "hc_wait" /\ vref' = [vref EXCEPT !.ref = vref.ref + 1] /\ Moves(c, r)
        /\ UNCHANGED <<id, pooled, status, held, hc_started, entry, inflight, calls, fails>>
    BY DEF OnTriggeringTask, app, Moves
  <1> USE <1>3
  <1>4. /\ vref.ref \in Nat /\ vref.ver \in Nat /\ hc_started \in BOOLEAN /\ pr[c] \in Proc
        /\ pr[c].first \/ pr[c].then = "hc_wait"
    BY <1>2 DEF Typed
  <1> USE <1>4
  <1>5. /\ a \in {"unaddress", "hc_reset", "hc_check"} /\ (a # "unaddress" => Found(c))
        /\ a = "hc_check" => ~pr[c].first
    OBVIOUS
  <1> USE <1>5
  <1> HIDE DEF a
  <1>6. r \in Proc /\ r.pc = a /\ r.then = "idle" /\ r.id = pr[c].id
    <2>1. a \in UserPCs \cup CheckerPCs BY DEF UserPCs, CheckerPCs, CheckPCs
    <2> QED BY <2>1 DEF Proc
  <1> USE <1>6
  <1> HIDE DEF r
  <1>7. vref' \in [ver : Nat, ref : Nat] /\ vref'.ver = vref.ver /\ vref'.ref = vref.ref + 1
    BY RefMoved, SMTT(30)
  <1> USE <1>7
  <1>8. FailedIsRecycled' BY NotZero, SMTT(30)
  <1>9. a # "unaddress" => ~pooled /\ pr[c].id = id
    <2>1. pr[c].id \in Ids BY DEF OneCheck
    <2> QED BY <2>1, Matching DEF Found
  <1> USE <1>9
  <1>10. pr'[c] = r BY <1>2, Moved
  <1>11. Active(c)' => Active(c) BY <1>10 DEF Active
  <1>12. a = "hc_check" => status = "RECYCLED" /\ Alone
    <2> SUFFICES ASSUME a = "hc_check" PROVE Resumes(c) BY DEF CheckedAlone
    <2>1. pr[c].then = "hc_wait" OBVIOUS
    <2> QED BY <2>1 DEF Resumes, Active
  <1>13. vref'.ref + One(HoldsAt(pr[c].pc)) = vref.ref + One(HoldsAt(r.pc))
    BY SMTT(30) DEF One, HoldsAt
  <1>14. r.pc \in CheckerPCs \ {"hc_revive", "hc_cas", "hc_using", "hc_app"}
    BY DEF CheckerPCs, CheckPCs
  <1>15. UsesAt(r.pc) => ~pooled BY DEF UsesAt
  <1>16. r.pc \in CheckPCs => r.id = id BY DEF CheckPCs
  <1> QED BY <1>8, <1>11, <1>12, <1>13, <1>14, <1>15, <1>16, CheckerMove, SMTT(30)

\* A health check at work goes on, with its reference and without touching the socket.
LEMMA CheckerGoto ==
  ASSUME LifeConstants, LifeInv, NEW c \in Checkers, NEW r \in Proc, Moves(c, r),
         pr[c].pc \in {"hc_reset", "hc_held", "hc_check", "hc_done"},
         UNCHANGED <<socket_conf, vref, id, pooled, status, held, entry, inflight, calls, fails>>,
         r.pc \in {"hc_held", "hc_check", "hc_done", "deref"}, r.id = pr[c].id,
         r.then = "hc_wait" => r.pc = "deref" /\ pr[c].pc = "hc_check", r.then # "remove",
         pr[c].pc = "hc_done" => r.pc = "deref",
         hc_started' \in BOOLEAN, hc_started' \/ (r.pc = "deref" /\ r.then = "idle"),
         r.pc \in {"hc_held", "hc_check"} => status = "RECYCLED",
         r.pc = "hc_held" => \A p \in SocketUsers : pr[p].pc # "release_sub",
         (r.pc = "hc_held" /\ held) \/ r.pc = "hc_check" => Alone
  PROVE  LifeInv'
  <1>1. Typed /\ RefsAccounted BY DEF LifeInv
  <1> USE <1>1
  <1>2. c \in Procs BY DEF Procs
  <1>3. InCheck(c) BY DEF InCheck, CheckPCs
  <1>4. ~pooled /\ Active(c) /\ pr[c].id = id /\ hc_started BY <1>3, InCheckActive
  <1> USE <1>4
  <1>5. HoldsAt(pr[c].pc) /\ HoldsAt(r.pc) BY DEF HoldsAt
  <1>6. vref.ref >= 1 /\ vref.ref \in Nat BY <1>2, <1>5, HolderCounts
  <1>7. FailedIsRecycled' BY <1>6, NotZero, SMTT(30)
  <1>8. vref \in [ver : Nat, ref : Nat] BY DEF Typed
  <1>9. vref'.ref + One(HoldsAt(pr[c].pc)) = vref.ref + One(HoldsAt(r.pc)) BY <1>5, <1>6 DEF One
  <1>10. pr'[c] = r BY <1>2, Moved
  <1>11. hc_started => hc_started' \/ (Active(c) /\ ~Active(c)')
    BY <1>10 DEF Active, InCheck, CheckPCs
  <1>12. r.pc \in CheckerPCs \ {"hc_revive", "hc_cas", "hc_using", "hc_app"} BY DEF CheckerPCs, CheckPCs
  <1>13. Active(c)' => Active(c) /\ (pr[c].pc = "hc_done" => r.pc = "hc_done")
    BY <1>10 DEF Active, InCheck, CheckPCs
  <1> QED BY <1>7, <1>8, <1>9, <1>11, <1>12, <1>13, CheckerMove, SMTT(30)

\* WaitAndReset() goes on with two references, its own and that of the map or of who takes it from
\* the map: there is no additional one and nobody is in the socket.
LEMMA WaitAndResetStep ==
  ASSUME LifeConstants, LifeInv, NEW c \in Checkers, HCWaitAndReset(c), UNCHANGED socket_conf
  PROVE  LifeInv'
  <1>1. Typed /\ RefsAccounted /\ StatusOK /\ CheckedAlone BY DEF LifeInv
  <1> USE <1>1
  <1>2. c \in Procs /\ SocketUsers \subseteq Procs /\ c \notin SocketUsers BY DEF Procs, LifeConstants
  <1> USE <1>2
  <1> DEFINE two == vref = [ver |-> id + 1, ref |-> ExpectedNref]
             a == IF two THEN "hc_held" ELSE "hc_done"
             r == [pr[c] EXCEPT !.first = FALSE, !.pc = a]
  <1>3. /\ pr[c].pc = "hc_reset" /\ Moves(c, r)
        /\ UNCHANGED <<vref, id, pooled, status, held, hc_started, entry, inflight, calls, fails>>
    BY DEF HCWaitAndReset, app, Moves
  <1> USE <1>3
  <1>4. a \in {"hc_held", "hc_done"} /\ (a = "hc_held" => two) OBVIOUS
  <1> USE <1>4
  <1> HIDE DEF a
  <1>5. r \in Proc /\ r.pc = a /\ r.then = pr[c].then /\ r.id = pr[c].id
    <2>1. pr[c] \in Proc BY DEF Typed
    <2>2. a \in UserPCs \cup CheckerPCs BY DEF CheckerPCs, CheckPCs
    <2> QED BY <2>1, <2>2 DEF Proc
  <1> HIDE DEF r
  <1>6. pr[c].then = "idle"
    <2>1. pr[c] \in Proc BY DEF Typed
    <2> QED BY <2>1, SMTT(30) DEF Typed, Proc
  <1>7. InCheck(c) BY DEF InCheck, CheckPCs
  <1>8. ~pooled /\ hc_started /\ vref.ver = id + 1 /\ \A d \in Checkers : InCheck(d) => d = c
    BY <1>7, InCheckActive DEF Revived
  <1> USE <1>8
  <1>9. a = "hc_held" => /\ status = "RECYCLED" /\ \A p \in SocketUsers : pr[p].pc # "release_sub"
                         /\ held => Alone
    <2> SUFFICES ASSUME two
                 PROVE  /\ status = "RECYCLED" /\ \A p \in SocketUsers : pr[p].pc # "release_sub"
                        /\ held => Alone
      OBVIOUS
    <2>1. vref.ref = 2 /\ Cardinality(Holders) \in Nat BY HoldersFinite DEF ExpectedNref
    <2> USE <2>1
    <2>2. 2 = Cardinality(Holders) + One(entry.in) + One(Additional) BY DEF RefsAccounted, One
    <2>3. c \in Holders BY DEF Holders
    <2>4. ASSUME NEW p \in SocketUsers, pr[p].pc \in {"using", "start_hc", "release", "release_sub", "unheld"}
          PROVE  p \in Holders /\ p # c /\ Cardinality(Holders) = 2 /\ ~entry.in /\ ~Additional
      <3>1. p \in Holders /\ p # c BY <2>4 DEF Holders
      <3>2. Cardinality(Holders) >= 2 BY <2>3, <3>1, ThreeHold
      <3> QED BY <2>2, <3>1, <3>2, SMTT(30) DEF One
    <2> USE <2>4
    <2>5. status # "USING"
      <3> SUFFICES ASSUME status = "USING" PROVE FALSE OBVIOUS
      <3>1. PICK p \in SocketUsers : pr[p].pc \in {"start_hc", "release"} BY DEF StatusOK, Releasing
      <3>2. Additional BY DEF Additional
      <3> QED BY <3>1, <3>2
    <2>6. status # "REVIVING"
      <3> SUFFICES ASSUME status = "REVIVING" PROVE FALSE OBVIOUS
      <3>1. PICK d \in Checkers : pr[d].pc \in {"hc_cas", "hc_using"} BY DEF StatusOK, Reviving
      <3>2. InCheck(d) BY <3>1 DEF InCheck, CheckPCs
      <3> QED BY <3>1, <3>2
    <2>7. \A p \in SocketUsers : pr[p].pc # "release_sub" BY DEF Additional
    <2>8. held => Alone
      <3> SUFFICES ASSUME held, NEW p \in SocketUsers, pr[p].pc \in {"using", "start_hc"} PROVE FALSE
        BY <2>7 DEF Alone
      <3>1. p \in Holders /\ p # c /\ Cardinality(Holders) = 2 /\ ~entry.in OBVIOUS
      <3>2. PICK q \in SocketUsers : Removing(q) BY <3>1 DEF CheckedAlone
      <3>3. q \in Holders /\ q # c /\ q # p BY <3>2 DEF Removing
      <3> QED BY <2>3, <3>1, <3>3, ThreeHold, SMTT(30)
    <2> QED BY <2>5, <2>6, <2>7, <2>8 DEF Typed
  <1> QED BY <1>5, <1>6, <1>9, CheckerGoto DEF Typed

\* The socket is reset if the map, or who takes it from the map, still holds it.
LEMMA ResetStep ==
  ASSUME LifeConstants, LifeInv, NEW c \in Checkers, reset(c), UNCHANGED socket_conf
  PROVE  LifeInv'
  <1>1. Typed /\ CheckedAlone BY DEF LifeInv
  <1> USE <1>1
  <1> DEFINE a == IF held THEN "hc_check" ELSE "hc_done"
             r == [pr[c] EXCEPT !.pc = a]
  <1>2. /\ pr[c].pc = "hc_held" /\ Goto(c, a) /\ c \in Procs
        /\ UNCHANGED <<vref, id, pooled, status, held, hc_started, entry, inflight, calls, fails>>
    BY DEF reset, app, Procs
  <1> USE <1>2
  <1>3. a \in {"hc_check", "hc_done"} /\ (a = "hc_check" => held) OBVIOUS
  <1> USE <1>3
  <1> HIDE DEF a
  <1>4. r \in Proc /\ r.pc = a /\ r.then = pr[c].then /\ r.id = pr[c].id /\ Moves(c, r)
    BY WithPc DEF AllPCs, CheckerPCs, CheckPCs
  <1> HIDE DEF r
  <1>5. pr[c].then = "idle"
    <2>1. pr[c] \in Proc BY DEF Typed
    <2> QED BY <2>1 DEF Typed, Proc
  <1>6. hc_started BY InCheckActive DEF InCheck, CheckPCs
  <1>7. a = "hc_check" => status = "RECYCLED" /\ Alone BY DEF CheckedAlone
  <1> QED BY <1>4, <1>5, <1>6, <1>7, CheckerGoto, SMTT(30) DEF Typed

\* A check that did not succeed is tried again or ends.
LEMMA NotHealthyStep ==
  ASSUME LifeConstants, LifeInv, NEW c \in Checkers, pr[c].pc = "hc_check",
         \/ pr' = [pr EXCEPT ![c] = [pr[c] EXCEPT !.pc = "deref", !.then = "hc_wait"]]
         \/ Goto(c, "hc_done"),
         UNCHANGED <<socket_conf, vref, id, pooled, status, held, hc_started, entry, inflight, calls, fails>>
  PROVE  LifeInv'
  <1>1. Typed BY DEF LifeInv
  <1> USE <1>1
  <1>2. c \in Procs BY DEF Procs
  <1>3. pr[c] \in Proc BY <1>2 DEF Typed
  <1>4. hc_started BY InCheckActive DEF InCheck, CheckPCs
  <1>5. hc_started \in BOOLEAN BY DEF Typed
  <1>6. CASE pr' = [pr EXCEPT ![c] = [pr[c] EXCEPT !.pc = "deref", !.then = "hc_wait"]]
    <2> DEFINE r == [pr[c] EXCEPT !.pc = "deref", !.then = "hc_wait"]
    <2>1. r \in Proc /\ r.pc = "deref" /\ r.then = "hc_wait" /\ r.id = pr[c].id
      <3>1. "deref" \in UserPCs \cup CheckerPCs BY DEF UserPCs
      <3> QED BY <1>3, <3>1 DEF Proc
    <2>2. Moves(c, r) BY <1>6 DEF Moves
    <2> HIDE DEF r
    <2> QED BY <1>4, <1>5, <2>1, <2>2, CheckerGoto
  <1>7. CASE Goto(c, "hc_done")
    <2> DEFINE r == [pr[c] EXCEPT !.pc = "hc_done"]
    <2>1. r \in Proc /\ r.pc = "hc_done" /\ r.then = pr[c].then /\ r.id = pr[c].id /\ Moves(c, r)
      BY <1>2, <1>7, WithPc DEF AllPCs, CheckerPCs, CheckPCs
    <2>2. pr[c].then = "idle" BY <1>3 DEF Typed, Proc
    <2> HIDE DEF r
    <2> QED BY <1>4, <1>5, <2>1, <2>2, CheckerGoto
  <1> QED BY <1>6, <1>7

\* AfterHCCompleted().
LEMMA CompletedStep ==
  ASSUME LifeConstants, LifeInv, NEW c \in Checkers, AfterHCCompleted(c), UNCHANGED socket_conf
  PROVE  LifeInv'
  <1>1. Typed BY DEF LifeInv
  <1> USE <1>1
  <1>2. /\ c \in Procs /\ pr[c].pc = "hc_done" /\ Goto(c, "deref")
        /\ UNCHANGED <<vref, id, pooled, status, held, entry, inflight, calls, fails>>
    BY DEF AfterHCCompleted, Procs, app
  <1> USE <1>2
  <1>3. hc_started' \in BOOLEAN BY DEF AfterHCCompleted
  <1> DEFINE r == [pr[c] EXCEPT !.pc = "deref"]
  <1>4. r \in Proc /\ r.pc = "deref" /\ r.then = pr[c].then /\ r.id = pr[c].id /\ Moves(c, r)
    BY WithPc DEF AllPCs, CheckerPCs
  <1>5. pr[c].then = "idle"
    <2>1. pr[c] \in Proc BY DEF Typed
    <2> QED BY <2>1 DEF Typed, Proc
  <1> HIDE DEF r
  <1> QED BY <1>3, <1>4, <1>5, CheckerGoto

-----------------------------------------------------------------------------
(* Revival.                                                                 *)

WorkPCs == {"hc_revive", "hc_cas", "hc_using", "hc_app", "hc_done"}

\* The health check at work is the only one: what it does to the socket concerns nobody else's
\* check, and it keeps its reference.
LEMMA WorkMove ==
  ASSUME LifeConstants, LifeInv, NEW c \in Checkers, NEW a \in WorkPCs, Goto(c, a), InCheck(c),
         pr[c].pc # "hc_done",
         UNCHANGED <<socket_conf, id, pooled, held, hc_started, entry, fails>>,
         vref' \in [ver : Nat, ref : Nat], vref'.ref >= vref.ref,
         vref'.ver = vref.ver \/ (vref'.ver = id /\ a \in Revived /\ Alone),
         status' \in {"USING", "REVIVING", "RECYCLED"}, inflight' \in Nat, calls' \in [Lives -> Nat],
         a = "hc_revive" => status' = "RECYCLED",
         a \in {"hc_revive", "hc_cas"} => Alone /\ pr[c].pc \notin Revived
  PROVE  /\ Typed' /\ Slot' /\ NotUsedWhenPooled' /\ Recyclers' /\ FailedIsRecycled' /\ OneCheck' /\ CheckedAlone'
         /\ ~pooled /\ c \in Procs /\ pr'[c].pc = a /\ pr'[c].id = id
         /\ \A q \in Procs \ {c} : pr'[q] = pr[q]
         /\ \A d \in Checkers \ {c} : ~InCheck(d) /\ ~InCheck(d)'
         /\ Cardinality(Holders') = Cardinality(Holders) /\ Ids' = Ids /\ id \in Ids
         /\ (\E d \in Checkers : Coming(d)) /\ ((\E d \in Checkers : Coming(d))' <=> a # "hc_done")
  <1>1. /\ Typed /\ Slot /\ NotUsedWhenPooled /\ RefsAccounted /\ Recyclers
        /\ StatusOK /\ OneCheck /\ CheckedAlone
    BY DEF LifeInv
  <1> USE <1>1
  <1>2. c \in Procs /\ c \notin SocketUsers /\ SocketUsers \subseteq Procs /\ Checkers \subseteq Procs
    BY DEF Procs, LifeConstants
  <1>3. /\ ~pooled /\ Active(c) /\ pr[c].id = id /\ hc_started
        /\ \A d \in Checkers : InCheck(d) => d = c
    BY InCheckActive
  <1> USE <1>3
  <1> DEFINE r == [pr[c] EXCEPT !.pc = a]
  <1>4. r \in Proc /\ r.pc = a /\ r.then = pr[c].then /\ r.id = pr[c].id /\ Moves(c, r)
    BY <1>2, WithPc, SMTT(30) DEF AllPCs, CheckerPCs, CheckPCs, WorkPCs
  <1> USE <1>4
  <1> HIDE DEF r
  <1>5. pr' \in [Procs -> Proc] /\ pr'[c] = r /\ \A q \in Procs \ {c} : pr'[q] = pr[q]
    BY <1>2, Moved
  <1> USE <1>5
  <1>6. (\A d \in Checkers \ {c} : pr'[d] = pr[d]) /\ \A p \in SocketUsers : pr'[p] = pr[p]
    BY <1>2
  <1>7. Ids' = Ids /\ id \in Ids BY CurrentGiven DEF Ids
  <1>8. pr[c].then = "idle"
    <2>1. pr[c] \in Proc BY <1>2 DEF Typed
    <2> QED BY <2>1 DEF Typed, Proc, InCheck, CheckPCs
  <1>9. \A d \in Checkers \ {c} : ~InCheck(d) /\ ~InCheck(d)' /\ ~Active(d) /\ ~Active(d)'
    <2>1. \A d \in Checkers \ {c} : ~InCheck(d) /\ ~Active(d) BY DEF OneCheck
    <2> QED BY <1>6, <2>1 DEF Active, InCheck
  <1>10. a \in CheckPCs BY DEF WorkPCs, CheckPCs
  <1>11. InCheck(c)' /\ Active(c)' BY <1>10 DEF InCheck, Active
  <1>12. Typed'
    <2>1. ASSUME NEW d \in Checkers
          PROVE  /\ pr'[d].pc \in CheckerPCs /\ pr'[d].then # "remove"
                 /\ pr'[d].then = "hc_wait" => pr'[d].pc \in {"deref", "recycle", "hc_wait"}
                 /\ pr'[d].pc = "hc_wait" => pr'[d].first \/ pr'[d].then = "hc_wait"
      <3>1. CASE d = c BY <1>8, <1>10, <3>1 DEF CheckerPCs, CheckPCs
      <3>2. CASE d # c BY <1>6, <3>2, SMTT(30) DEF Typed
      <3> QED BY <3>1, <3>2
    <2> QED BY <1>6, <2>1, SMTT(30) DEF Typed
  <1>13. Slot' BY DEF Slot
  <1>14. NotUsedWhenPooled' BY DEF NotUsedWhenPooled
  <1>15. Recyclers' BY <1>7, SMTT(30) DEF Recyclers, WorkPCs
  <1>16. HoldsAt(pr[c].pc) /\ HoldsAt(r.pc) BY DEF HoldsAt, InCheck, CheckPCs, WorkPCs
  <1>17. FailedIsRecycled'
    <2>1. vref.ref >= 1 /\ vref.ref \in Nat BY <1>2, <1>16, HolderCounts
    <2> QED BY <2>1, NotZero, SMTT(30)
  <1>18. Cardinality(Holders') = Cardinality(Holders)
    BY <1>2, <1>16, HoldersMoved, SMTT(30) DEF One
  <1>19. OneCheck'
    <2>1. \A d \in Checkers : pr'[d].pc # "idle" => pr'[d].id \in Ids'
      <3>1. pr'[c].id \in Ids' BY <1>7
      <3>2. \A d \in Checkers \ {c} : pr'[d].pc # "idle" => pr'[d].id \in Ids' BY <1>6, <1>7 DEF OneCheck
      <3> QED BY <3>1, <3>2
    <2>2. \A d \in Checkers : InCheck(d)' => pr'[d].id = id' BY <1>9
    <2>3. pr'[c].pc \notin Revived => vref'.ver = id' + 1
      <3>1. a \notin Revived => pr[c].pc \notin Revived \/ a \in {"hc_revive", "hc_cas"}
        BY DEF Revived, WorkPCs
      <3>2. a \in {"hc_revive", "hc_cas"} => vref.ver = id + 1 BY InCheckActive
      <3> QED BY <3>1, <3>2 DEF Revived, WorkPCs
    <2>4. \A p, q \in SocketUsers : pr'[p].pc = "start_hc" =>
            vref'.ver = id' + 1 /\ (pr'[q].pc = "start_hc" => p = q)
      BY <1>6, SMTT(30) DEF OneCheck, Alone
    <2> QED BY <1>9, <2>1, <2>2, <2>3, <2>4 DEF OneCheck
  <1>20. CheckedAlone'
    <2>1. Alone' <=> Alone BY <1>6 DEF Alone
    <2>2. held' => entry'.in \/ \E p \in SocketUsers : Removing(p)'
      BY <1>6 DEF CheckedAlone, Removing
    <2>3. \A d \in Checkers \ {c} : pr'[d].pc \notin {"hc_held", "hc_cas"} /\ ~Resumes(d)'
      BY <1>9 DEF Resumes, InCheck, CheckPCs
    <2>4. pr'[c].pc # "hc_held" /\ (Resumes(c)' => a = "hc_revive")
      BY <1>8 DEF Resumes, WorkPCs
    <2>5. /\ Resumes(c)' => status' = "RECYCLED"
          /\ Resumes(c)' \/ pr'[c].pc = "hc_cas" => Alone'
      BY <2>1, <2>4
    <2> QED BY <2>2, <2>3, <2>4, <2>5 DEF CheckedAlone
  <1>21. (\E d \in Checkers : Coming(d)) /\ ((\E d \in Checkers : Coming(d))' <=> a # "hc_done")
    <2>1. Coming(c) BY DEF Coming
    <2>2. Coming(c)' <=> a # "hc_done" BY <1>11 DEF Coming
    <2>3. \A d \in Checkers \ {c} : ~Coming(d)' BY <1>9 DEF Coming
    <2> QED BY <2>1, <2>2, <2>3
  <1> QED BY <1>2, <1>7, <1>9, <1>12, <1>13, <1>14, <1>15, <1>17, <1>18, <1>19, <1>20, <1>21, SMTT(30)

\* What the health check at work does to the count and to the status.
LEMMA WorkParts ==
  ASSUME LifeConstants, LifeInv, NEW c \in Checkers, NEW a \in WorkPCs, pr'[c].pc = a,
         InCheck(c), ~pooled, pooled' = pooled, entry' = entry,
         \A q \in Procs \ {c} : pr'[q] = pr[q], \A d \in Checkers \ {c} : ~InCheck(d) /\ ~InCheck(d)'
  PROVE  /\ Reviving <=> pr[c].pc \in {"hc_cas", "hc_using"}
         /\ Reviving' <=> a \in {"hc_cas", "hc_using"}
         /\ Releasing' <=> Releasing
         /\ \A p \in SocketUsers : pr'[p] = pr[p]
         /\ (\E d \in Checkers : pr[d].pc = "hc_using") <=> pr[c].pc = "hc_using"
         /\ (\E d \in Checkers : pr[d].pc = "hc_using")' <=> a = "hc_using"
         /\ Additional <=> \/ status = "USING" \/ pr[c].pc = "hc_using"
                           \/ \E p \in SocketUsers : pr[p].pc = "release_sub"
         /\ Additional' <=> \/ status' = "USING" \/ a = "hc_using"
                            \/ \E p \in SocketUsers : pr[p].pc = "release_sub"
         /\ (\E d \in Checkers : Counting(d)) <=> Counting(c)
         /\ (\E d \in Checkers : Counting(d))' <=> a # "hc_done"
  <1>1. Typed BY DEF LifeInv
  <1>2. SocketUsers \subseteq Procs /\ Checkers \subseteq Procs /\ c \notin SocketUsers
    BY DEF Procs, LifeConstants
  <1>3. \A p \in SocketUsers : pr'[p] = pr[p] /\ pr[p].pc # "hc_using" BY <1>1, <1>2 DEF Typed, UserPCs
  <1> USE <1>3
  <1>4. \A d \in Checkers \ {c} : pr[d].pc \notin CheckPCs /\ pr'[d].pc \notin CheckPCs BY DEF InCheck
  <1> USE <1>4
  <1>5. \A d \in Checkers : pr[d].pc # "release_sub" /\ pr'[d].pc # "release_sub"
    <2>1. \A d \in Checkers : pr[d].pc # "release_sub" BY <1>1 DEF Typed, CheckerPCs, CheckPCs
    <2> QED BY <1>2, <2>1 DEF WorkPCs
  <1>6. Reviving <=> pr[c].pc \in {"hc_cas", "hc_using"} BY DEF Reviving, CheckPCs
  <1>7. Reviving' <=> a \in {"hc_cas", "hc_using"} BY DEF Reviving, CheckPCs
  <1>8. (\E d \in Checkers : pr[d].pc = "hc_using") <=> pr[c].pc = "hc_using" BY DEF CheckPCs
  <1>9. (\E d \in Checkers : pr[d].pc = "hc_using")' <=> a = "hc_using" BY DEF CheckPCs
  <1>10. Additional <=> \/ status = "USING" \/ pr[c].pc = "hc_using"
                        \/ \E p \in SocketUsers : pr[p].pc = "release_sub"
    BY <1>5, <1>8 DEF Additional, Procs
  <1>11. Additional' <=> \/ status' = "USING" \/ a = "hc_using"
                         \/ \E p \in SocketUsers : pr[p].pc = "release_sub"
    BY <1>5, <1>9 DEF Additional, Procs
  <1>12. (\E d \in Checkers : Counting(d)) <=> Counting(c) BY DEF Counting, CheckPCs
  <1>13. (\E d \in Checkers : Counting(d))' <=> a # "hc_done" BY DEF Counting, CheckPCs, WorkPCs
  <1>14. Releasing' <=> Releasing BY DEF Releasing
  <1> QED BY <1>6, <1>7, <1>8, <1>9, <1>10, <1>11, <1>12, <1>13, <1>14

\* CheckHealth() succeeds, and an application-level check is announced.
LEMMA HealthyStep ==
  ASSUME LifeConstants, LifeInv, NEW c \in Checkers, pr[c].pc = "hc_check", Goto(c, "hc_revive"),
         inflight' = IF socket_conf.app THEN inflight + 1 ELSE inflight,
         UNCHANGED <<socket_conf, vref, id, pooled, status, held, hc_started, entry, calls, fails>>
  PROVE  LifeInv'
  <1>1. Typed /\ RefsAccounted /\ StatusOK /\ CheckedAlone /\ AppCounted BY DEF LifeInv
  <1> USE <1>1
  <1>2. InCheck(c) BY DEF InCheck, CheckPCs
  <1>3. status = "RECYCLED" /\ Alone BY DEF CheckedAlone, Resumes
  <1>4. /\ vref \in [ver : Nat, ref : Nat] /\ inflight \in Nat /\ calls \in [Lives -> Nat] /\ id \in Lives
        /\ fails \in Nat
    BY SMTT(30) DEF Typed, LifeConstants
  <1> USE <1>4
  <1>5. inflight' \in Nat BY SMTT(30)
  <1>6. "hc_revive" \in WorkPCs /\ vref.ref >= vref.ref BY SMTT(30) DEF WorkPCs
  <1>7. /\ Typed' /\ Slot' /\ NotUsedWhenPooled' /\ Recyclers' /\ FailedIsRecycled' /\ OneCheck' /\ CheckedAlone'
        /\ ~pooled /\ c \in Procs /\ pr'[c].pc = "hc_revive"
        /\ \A q \in Procs \ {c} : pr'[q] = pr[q]
        /\ \A d \in Checkers \ {c} : ~InCheck(d) /\ ~InCheck(d)'
        /\ Cardinality(Holders') = Cardinality(Holders) /\ Ids' = Ids /\ id \in Ids
        /\ (\E d \in Checkers : Coming(d)) /\ (\E d \in Checkers : Coming(d))'
    BY <1>2, <1>3, <1>5, <1>6, WorkMove, SMTT(30) DEF Revived, Typed
  <1> USE <1>7
  <1>8. /\ ~Reviving /\ ~Reviving' /\ (Releasing' <=> Releasing) /\ \A p \in SocketUsers : pr'[p] = pr[p]
        /\ ~(\E d \in Checkers : pr[d].pc = "hc_using")'
        /\ (Additional' <=> Additional)
        /\ (~\E d \in Checkers : Counting(d)) /\ (\E d \in Checkers : Counting(d))'
    BY <1>2, <1>6, WorkParts DEF Counting
  <1> USE <1>8
  <1>9. RefsAccounted' BY DEF RefsAccounted
  <1>10. StatusOK' BY <1>3 DEF StatusOK
  <1>11. AppCounted'
    <2>1. (\E q \in SocketUsers : pr[q].pc = "start_hc")' <=> \E q \in SocketUsers : pr[q].pc = "start_hc"
      OBVIOUS
    <2>2. calls[id] + 1 + One(\E q \in SocketUsers : pr[q].pc = "start_hc") <= fails
      BY DEF AppCounted, One
    <2>3. socket_conf.app => inflight = calls[id] BY SMTT(30) DEF AppCounted
    <2>4. inflight' <= fails /\ (~socket_conf.app => inflight' = 0 /\ \A i \in Lives : calls[i] = 0)
      BY <2>2, <2>3, SMTT(30) DEF AppCounted, One
    <2>5. socket_conf.app => inflight' = calls[id] + 1 BY <2>3
    <2>6. \A i \in Lives : calls[i] <= fails /\ (i \notin Ids' => calls[i] = 0) BY DEF AppCounted
    <2> QED BY <2>1, <2>2, <2>4, <2>5, <2>6 DEF AppCounted, One
  <1> QED BY <1>9, <1>10, <1>11 DEF LifeInv

\* Revive() begins.
LEMMA ReviveStep ==
  ASSUME LifeConstants, LifeInv, NEW c \in Checkers, Revive(c), UNCHANGED socket_conf
  PROVE  LifeInv'
  <1>1. Typed /\ RefsAccounted /\ StatusOK /\ CheckedAlone /\ AppCounted BY DEF LifeInv
  <1> USE <1>1
  <1>2. /\ pr[c].pc = "hc_revive" /\ status' = "REVIVING" /\ Goto(c, "hc_cas")
        /\ UNCHANGED <<vref, id, pooled, held, hc_started, entry, inflight, calls, fails>>
    BY DEF Revive, app
  <1> USE <1>2
  <1>3. InCheck(c) BY DEF InCheck, CheckPCs
  <1>4. status = "RECYCLED" /\ Alone BY DEF CheckedAlone, Resumes
  <1> USE <1>4
  <1>5. vref \in [ver : Nat, ref : Nat] /\ inflight \in Nat /\ calls \in [Lives -> Nat]
    BY DEF Typed
  <1>6. "hc_cas" \in WorkPCs /\ vref.ref >= vref.ref BY <1>5, SMTT(30) DEF WorkPCs
  <1>7. /\ Typed' /\ Slot' /\ NotUsedWhenPooled' /\ Recyclers' /\ FailedIsRecycled' /\ OneCheck' /\ CheckedAlone'
        /\ ~pooled /\ c \in Procs /\ pr'[c].pc = "hc_cas"
        /\ \A q \in Procs \ {c} : pr'[q] = pr[q]
        /\ \A d \in Checkers \ {c} : ~InCheck(d) /\ ~InCheck(d)'
        /\ Cardinality(Holders') = Cardinality(Holders) /\ Ids' = Ids
        /\ (\E d \in Checkers : Coming(d)) /\ (\E d \in Checkers : Coming(d))'
    BY <1>3, <1>5, <1>6, WorkMove DEF Revived
  <1> USE <1>7
  <1>8. /\ Reviving' /\ (Releasing' <=> Releasing) /\ \A p \in SocketUsers : pr'[p] = pr[p]
        /\ ~(\E d \in Checkers : pr[d].pc = "hc_using")'
        /\ (Additional' <=> Additional)
        /\ (\E d \in Checkers : Counting(d)) /\ (\E d \in Checkers : Counting(d))'
    BY <1>3, <1>6, WorkParts DEF Counting
  <1> USE <1>8
  <1>9. RefsAccounted' BY DEF RefsAccounted
  <1>10. StatusOK' BY SMTT(30) DEF StatusOK, Alone
  <1>11. AppCounted'
    <2>1. (\E q \in SocketUsers : pr[q].pc = "start_hc")' <=> \E q \in SocketUsers : pr[q].pc = "start_hc"
      OBVIOUS
    <2> QED BY <2>1 DEF AppCounted
  <1> QED BY <1>9, <1>10, <1>11 DEF LifeInv

\* Revive() finds that nobody else has a reference, and gives up.
LEMMA AbandonStep ==
  ASSUME LifeConstants, LifeInv, NEW c \in Checkers, pr[c].pc = "hc_cas", status' = "RECYCLED",
         Goto(c, "hc_app"),
         UNCHANGED <<socket_conf, vref, id, pooled, held, hc_started, entry, inflight, calls, fails>>
  PROVE  LifeInv'
  <1>1. Typed /\ RefsAccounted /\ StatusOK /\ CheckedAlone /\ AppCounted BY DEF LifeInv
  <1> USE <1>1
  <1>2. InCheck(c) BY DEF InCheck, CheckPCs
  <1>3. status = "REVIVING" /\ Alone BY DEF CheckedAlone, StatusOK, Reviving
  <1>4. vref \in [ver : Nat, ref : Nat] /\ inflight \in Nat /\ calls \in [Lives -> Nat]
    BY DEF Typed
  <1>5. "hc_app" \in WorkPCs /\ vref.ref >= vref.ref BY <1>4, SMTT(30) DEF WorkPCs
  <1>6. /\ Typed' /\ Slot' /\ NotUsedWhenPooled' /\ Recyclers' /\ FailedIsRecycled' /\ OneCheck' /\ CheckedAlone'
        /\ ~pooled /\ c \in Procs /\ pr'[c].pc = "hc_app"
        /\ \A q \in Procs \ {c} : pr'[q] = pr[q]
        /\ \A d \in Checkers \ {c} : ~InCheck(d) /\ ~InCheck(d)'
        /\ Cardinality(Holders') = Cardinality(Holders) /\ Ids' = Ids
        /\ (\E d \in Checkers : Coming(d)) /\ (\E d \in Checkers : Coming(d))'
    BY <1>2, <1>4, <1>5, WorkMove DEF Revived
  <1> USE <1>6
  <1>7. /\ ~Reviving' /\ (Releasing' <=> Releasing) /\ \A p \in SocketUsers : pr'[p] = pr[p]
        /\ ~(\E d \in Checkers : pr[d].pc = "hc_using")'
        /\ (Additional' <=> Additional)
        /\ (\E d \in Checkers : Counting(d)) /\ (\E d \in Checkers : Counting(d))'
    BY <1>2, <1>3, <1>5, WorkParts DEF Counting
  <1> USE <1>7
  <1>8. RefsAccounted' BY DEF RefsAccounted
  <1>9. StatusOK' BY <1>3 DEF StatusOK, Alone
  <1>10. AppCounted'
    <2>1. (\E q \in SocketUsers : pr[q].pc = "start_hc")' <=> \E q \in SocketUsers : pr[q].pc = "start_hc"
      OBVIOUS
    <2> QED BY <2>1 DEF AppCounted
  <1> QED BY <1>8, <1>9, <1>10 DEF LifeInv

\* Revive() makes the version that of the life again, and adds the additional reference.
LEMMA ReviveCasStep ==
  ASSUME LifeConstants, LifeInv, NEW c \in Checkers, pr[c].pc = "hc_cas",
         vref' = [ver |-> id, ref |-> vref.ref + 1], Goto(c, "hc_using"),
         UNCHANGED <<socket_conf, id, pooled, status, held, hc_started, entry, inflight, calls, fails>>
  PROVE  LifeInv'
  <1>1. Typed /\ RefsAccounted /\ StatusOK /\ CheckedAlone /\ AppCounted BY DEF LifeInv
  <1> USE <1>1
  <1>2. InCheck(c) BY DEF InCheck, CheckPCs
  <1>3. status = "REVIVING" /\ Alone BY DEF CheckedAlone, StatusOK, Reviving
  <1> USE <1>3
  <1>4. vref \in [ver : Nat, ref : Nat] /\ inflight \in Nat /\ calls \in [Lives -> Nat] /\ id \in Nat
    BY Parity DEF Typed
  <1> USE <1>4
  <1>5. vref' \in [ver : Nat, ref : Nat] /\ vref'.ver = id /\ vref'.ref = vref.ref + 1 BY SMTT(30)
  <1> USE <1>5
  <1>6. "hc_using" \in WorkPCs /\ "hc_using" \in Revived /\ vref'.ref >= vref.ref
    BY SMTT(30) DEF WorkPCs, Revived
  <1>7. /\ Typed' /\ Slot' /\ NotUsedWhenPooled' /\ Recyclers' /\ FailedIsRecycled' /\ OneCheck' /\ CheckedAlone'
        /\ ~pooled /\ c \in Procs /\ pr'[c].pc = "hc_using"
        /\ \A q \in Procs \ {c} : pr'[q] = pr[q]
        /\ \A d \in Checkers \ {c} : ~InCheck(d) /\ ~InCheck(d)'
        /\ Cardinality(Holders') = Cardinality(Holders) /\ Ids' = Ids
        /\ (\E d \in Checkers : Coming(d)) /\ (\E d \in Checkers : Coming(d))'
    BY <1>2, <1>6, WorkMove, SMTT(30) DEF Typed
  <1> USE <1>7
  <1>8. /\ Reviving' /\ (Releasing' <=> Releasing) /\ \A p \in SocketUsers : pr'[p] = pr[p]
        /\ ~Additional /\ Additional'
        /\ (\E d \in Checkers : Counting(d)) /\ (\E d \in Checkers : Counting(d))'
    BY <1>2, <1>6, WorkParts DEF Counting, Alone
  <1> USE <1>8
  <1>9. RefsAccounted'
    <2>1. Cardinality(Holders) \in Nat BY HoldersFinite
    <2>2. vref.ref = Cardinality(Holders) + One(entry.in) BY <2>1, SMTT(30) DEF RefsAccounted, One
    <2>3. vref'.ref = Cardinality(Holders') + One(entry'.in) + 1 BY <2>1, <2>2 DEF One
    <2> QED BY <2>3 DEF RefsAccounted, One
  <1>10. StatusOK' BY SMTT(30) DEF StatusOK, Alone
  <1>11. AppCounted'
    <2>1. (\E q \in SocketUsers : pr[q].pc = "start_hc")' <=> \E q \in SocketUsers : pr[q].pc = "start_hc"
      OBVIOUS
    <2> QED BY <2>1 DEF AppCounted
  <1> QED BY <1>9, <1>10, <1>11 DEF LifeInv

\* The additional reference is in use again.
LEMMA RevivedStep ==
  ASSUME LifeConstants, LifeInv, NEW c \in Checkers, revived(c), UNCHANGED socket_conf
  PROVE  LifeInv'
  <1>1. Typed /\ RefsAccounted /\ StatusOK /\ CheckedAlone /\ AppCounted BY DEF LifeInv
  <1> USE <1>1
  <1>2. /\ pr[c].pc = "hc_using" /\ status' = "USING" /\ Goto(c, "hc_app")
        /\ UNCHANGED <<vref, id, pooled, held, hc_started, entry, inflight, calls, fails>>
    BY DEF revived, app
  <1> USE <1>2
  <1>3. InCheck(c) BY DEF InCheck, CheckPCs
  <1>4. status = "REVIVING" /\ \A p \in SocketUsers : pr[p].pc # "release_sub"
    BY DEF StatusOK, Reviving
  <1>5. vref \in [ver : Nat, ref : Nat] /\ inflight \in Nat /\ calls \in [Lives -> Nat]
    BY DEF Typed
  <1>6. "hc_app" \in WorkPCs /\ vref.ref >= vref.ref BY <1>5, SMTT(30) DEF WorkPCs
  <1>7. /\ Typed' /\ Slot' /\ NotUsedWhenPooled' /\ Recyclers' /\ FailedIsRecycled' /\ OneCheck' /\ CheckedAlone'
        /\ ~pooled /\ c \in Procs /\ pr'[c].pc = "hc_app"
        /\ \A q \in Procs \ {c} : pr'[q] = pr[q]
        /\ \A d \in Checkers \ {c} : ~InCheck(d) /\ ~InCheck(d)'
        /\ Cardinality(Holders') = Cardinality(Holders) /\ Ids' = Ids
        /\ (\E d \in Checkers : Coming(d)) /\ (\E d \in Checkers : Coming(d))'
    BY <1>3, <1>5, <1>6, WorkMove
  <1> USE <1>7
  <1>8. /\ ~Reviving' /\ (Releasing' <=> Releasing) /\ \A p \in SocketUsers : pr'[p] = pr[p]
        /\ ~(\E d \in Checkers : pr[d].pc = "hc_using")'
        /\ Additional' /\ Additional
        /\ (\E d \in Checkers : Counting(d)) /\ (\E d \in Checkers : Counting(d))'
    BY <1>3, <1>6, WorkParts DEF Counting
  <1> USE <1>8
  <1>9. RefsAccounted' BY DEF RefsAccounted
  <1>10. StatusOK'
    <2>1. vref.ver = id + 1 => Releasing BY DEF StatusOK
    <2> QED BY <1>4, <2>1 DEF StatusOK
  <1>11. AppCounted'
    <2>1. (\E q \in SocketUsers : pr[q].pc = "start_hc")' <=> \E q \in SocketUsers : pr[q].pc = "start_hc"
      OBVIOUS
    <2> QED BY <2>1 DEF AppCounted
  <1> QED BY <1>9, <1>10, <1>11 DEF LifeInv

\* The application-level check that was announced is made.
LEMMA StartCheckStep ==
  ASSUME LifeConstants, LifeInv, NEW c \in Checkers, StartCheck(c), UNCHANGED socket_conf
  PROVE  LifeInv'
  <1>1. Typed /\ RefsAccounted /\ StatusOK /\ CheckedAlone /\ AppCounted BY DEF LifeInv
  <1> USE <1>1
  <1>2. /\ pr[c].pc = "hc_app" /\ Goto(c, "hc_done")
        /\ calls' = IF socket_conf.app THEN [calls EXCEPT ![pr[c].id] = calls[pr[c].id] + 1] ELSE calls
        /\ UNCHANGED <<vref, id, pooled, status, held, hc_started, entry, inflight, fails>>
    BY DEF StartCheck
  <1> USE <1>2
  <1>3. InCheck(c) BY DEF InCheck, CheckPCs
  <1>4. pr[c].id = id BY <1>3, InCheckActive
  <1>5. /\ vref \in [ver : Nat, ref : Nat] /\ inflight \in Nat /\ calls \in [Lives -> Nat] /\ id \in Lives
        /\ fails \in Nat
    BY SMTT(30) DEF Typed, LifeConstants
  <1>6. /\ calls' \in [Lives -> Nat] /\ \A i \in Lives \ {id} : calls'[i] = calls[i]
        /\ calls'[id] = calls[id] + One(socket_conf.app)
    BY <1>4, <1>5, SMTT(30) DEF One
  <1>7. "hc_done" \in WorkPCs /\ vref.ref >= vref.ref BY <1>5, SMTT(30) DEF WorkPCs
  <1>8. /\ Typed' /\ Slot' /\ NotUsedWhenPooled' /\ Recyclers' /\ FailedIsRecycled' /\ OneCheck' /\ CheckedAlone'
        /\ ~pooled /\ c \in Procs /\ pr'[c].pc = "hc_done"
        /\ \A q \in Procs \ {c} : pr'[q] = pr[q]
        /\ \A d \in Checkers \ {c} : ~InCheck(d) /\ ~InCheck(d)'
        /\ Cardinality(Holders') = Cardinality(Holders) /\ Ids' = Ids /\ id \in Ids
        /\ (\E d \in Checkers : Coming(d)) /\ ~(\E d \in Checkers : Coming(d))'
    BY <1>3, <1>5, <1>6, <1>7, WorkMove, SMTT(30) DEF Typed
  <1>9. /\ (Reviving' <=> Reviving) /\ (Releasing' <=> Releasing) /\ \A p \in SocketUsers : pr'[p] = pr[p]
        /\ ~(\E d \in Checkers : pr[d].pc = "hc_using")'
        /\ (Additional' <=> Additional)
        /\ (\E d \in Checkers : Counting(d)) /\ ~(\E d \in Checkers : Counting(d))'
    BY <1>3, <1>7, <1>8, WorkParts DEF Counting
  <1>10. RefsAccounted' BY <1>8, <1>9 DEF RefsAccounted
  <1>11. StatusOK' BY <1>9 DEF StatusOK
  <1>12. AppCounted'
    <2>1. (\E q \in SocketUsers : pr[q].pc = "start_hc")' <=> \E q \in SocketUsers : pr[q].pc = "start_hc"
      BY <1>9
    <2>2. calls[id] + 1 + One(\E q \in SocketUsers : pr[q].pc = "start_hc") <= fails
      BY <1>8 DEF AppCounted, One
    <2>3. calls'[id] + One(\E q \in SocketUsers : pr[q].pc = "start_hc") <= fails
      BY <1>5, <1>6, <2>2, SMTT(30) DEF One
    <2>4. \A i \in Lives : calls'[i] <= fails /\ (i \notin Ids => calls'[i] = 0)
      BY <1>5, <1>6, <1>8, <2>3, SMTT(30) DEF AppCounted, One
    <2>5. socket_conf.app => inflight = calls'[id] BY <1>6, <1>8, <1>9 DEF AppCounted, One
    <2>6. ~socket_conf.app => inflight = 0 /\ \A i \in Lives : calls'[i] = 0 BY DEF AppCounted
    <2>7. /\ calls'[id] + 0 = calls'[id]
          /\ calls'[id] + 0 + One(\E q \in SocketUsers : pr[q].pc = "start_hc") <= fails
      BY <1>5, <1>6, <2>3, SMTT(30) DEF One
    <2>8. /\ inflight <= fails /\ Ids' = Ids /\ UNCHANGED <<id, pooled, inflight, fails, socket_conf>>
          /\ ~(\E d \in Checkers : Coming(d))' /\ ~(\E d \in Checkers : Counting(d))'
      BY <1>8, <1>9 DEF AppCounted
    <2>9. socket_conf.app => inflight' = calls'[id'] + (IF (\E d \in Checkers : Counting(d))' THEN 1 ELSE 0)
      BY <2>5, <2>7, <2>8
    <2>10. calls'[id'] + (IF (\E d \in Checkers : Coming(d))' THEN 1 ELSE 0)
                       + (IF (\E q \in SocketUsers : pr[q].pc = "start_hc")' THEN 1 ELSE 0) <= fails'
      BY <2>1, <2>7, <2>8 DEF One
    <2> QED BY <2>4, <2>6, <2>8, <2>9, <2>10 DEF AppCounted
  <1> QED BY <1>8, <1>10, <1>11, <1>12, SMTT(30) DEF LifeInv

\* An application-level check is over, or its life is.
LEMMA AppCheckStep ==
  ASSUME LifeConstants, LifeInv, NEW i \in Lives, NEW ok \in BOOLEAN, AppCheckDone(i, ok), UNCHANGED socket_conf
  PROVE  LifeInv'
  <1>1. Typed /\ AppCounted BY DEF LifeInv
  <1> USE <1>1
  <1>2. /\ calls[i] > 0 /\ calls' = [calls EXCEPT ![i] = calls[i] - 1]
        /\ inflight' = IF OfThisLife(i) THEN inflight - 1 ELSE inflight
        /\ UNCHANGED <<vref, id, pooled, status, held, hc_started, entry, pr, fails>>
    BY DEF AppCheckDone
  <1> USE <1>2
  <1>3. inflight \in Nat /\ calls \in [Lives -> Nat] /\ id \in Lives /\ fails \in Nat
    BY SMTT(30) DEF Typed, LifeConstants
  <1> USE <1>3
  <1>4. calls' \in [Lives -> Nat] /\ calls'[i] = calls[i] - 1 /\ \A j \in Lives \ {i} : calls'[j] = calls[j]
    BY SMTT(30)
  <1>5. socket_conf.app BY SMTT(30) DEF AppCounted
  <1>6. OfThisLife(i) => inflight >= 1 BY <1>5, SMTT(30) DEF AppCounted, OfThisLife
  <1>7. inflight' \in Nat BY <1>6, SMTT(30)
  <1>8. Typed' BY <1>4, <1>7, SMTT(30) DEF Typed
  <1>9. Slot' /\ NotUsedWhenPooled' /\ Recyclers' /\ FailedIsRecycled'
    BY SMTT(30) DEF LifeInv, Slot, NotUsedWhenPooled, Recyclers, FailedIsRecycled, Ids, RecycleWon
  <1>10. RefsAccounted' BY DEF LifeInv, RefsAccounted, Holders, Additional
  <1>11. StatusOK' /\ OneCheck'
    BY SMTT(30) DEF LifeInv, StatusOK, OneCheck, Reviving, Releasing, InCheck, Active, Ids
  <1>12. CheckedAlone' BY SMTT(30) DEF LifeInv, CheckedAlone, Removing, Alone, Resumes, Active, InCheck
  <1>13. AppCounted'
    <2>1. /\ (\E c \in Checkers : Counting(c))' <=> \E c \in Checkers : Counting(c)
          /\ (\E c \in Checkers : Coming(c))' <=> \E c \in Checkers : Coming(c)
          /\ (\E q \in SocketUsers : pr[q].pc = "start_hc")' <=> \E q \in SocketUsers : pr[q].pc = "start_hc"
          /\ Ids' = Ids
      BY DEF Counting, Coming, Active, InCheck, Ids
    <2>2. \A j \in Lives : calls'[j] <= fails /\ (j \notin Ids => calls'[j] = 0)
      BY <1>4, SMTT(30) DEF AppCounted
    <2>3. inflight' <= fails BY SMTT(30) DEF AppCounted
    <2>4. ~pooled => inflight' = calls'[id] + One(\E c \in Checkers : Counting(c))
      <3>1. ~pooled => inflight = calls[id] + One(\E c \in Checkers : Counting(c))
        BY <1>5 DEF AppCounted, One
      <3> QED BY <1>4, <3>1, SMTT(30) DEF OfThisLife, One
    <2>5. ~pooled => calls'[id] + One(\E c \in Checkers : Coming(c))
                                + One(\E q \in SocketUsers : pr[q].pc = "start_hc") <= fails
      <3>1. ~pooled => calls[id] + One(\E c \in Checkers : Coming(c))
                                 + One(\E q \in SocketUsers : pr[q].pc = "start_hc") <= fails
        BY DEF AppCounted, One
      <3>2. calls'[id] <= calls[id] BY <1>4, SMTT(30)
      <3> QED BY <1>4, <3>1, <3>2, SMTT(30) DEF One
    <2> QED BY <1>5, <2>1, <2>2, <2>3, <2>4, <2>5 DEF AppCounted, One
  <1> QED BY <1>8, <1>9, <1>10, <1>11, <1>12, <1>13, SMTT(30) DEF LifeInv

-----------------------------------------------------------------------------
(* The theorems.                                                            *)

\* A free slot is in order.
LEMMA InitLifeInv ==
  ASSUME LifeConstants, LifeInit
  PROVE  LifeInv
  <1>1. 0 \in Lives /\ 0 \in 0 .. MaxCount BY SMTT(30) DEF Lives, LifeConstants
  <1>2. IdleProc \in Proc /\ IdleProc.pc = "idle" /\ IdleProc.then = "idle"
    BY <1>1 DEF IdleProc, Proc, UserPCs, CheckerPCs
  <1>3. pr \in [Procs -> Proc] /\ \A p \in Procs : pr[p].pc = "idle" /\ pr[p].then = "idle"
    BY <1>2 DEF LifeInit
  <1>4. SocketUsers \subseteq Procs /\ Checkers \subseteq Procs BY DEF Procs
  <1>5. vref = [ver |-> 0, ref |-> 0] /\ id = 0 /\ pooled /\ status = "RECYCLED" /\ ~held /\ ~hc_started
        /\ pooled \in BOOLEAN /\ held \in BOOLEAN /\ hc_started \in BOOLEAN
    BY DEF LifeInit
  <1> USE <1>5
  <1>6. calls \in [Lives -> Nat] /\ (\A i \in Lives : calls[i] = 0) /\ inflight = 0 /\ fails = 0
    BY DEF LifeInit
  <1>7. entry \in [in : BOOLEAN, count : 0 .. MaxCount] /\ ~entry.in BY <1>1 DEF LifeInit
  <1>8. socket_conf \in SocketConfs /\ fails \in 0 .. socket_conf.fails
    BY <1>6, SMTT(30) DEF LifeInit, LifeConstants
  <1>9. Typed BY <1>1, <1>3, <1>4, <1>6, <1>7, <1>8 DEF Typed, UserPCs, CheckerPCs
  <1>10. Slot /\ NotUsedWhenPooled /\ Recyclers /\ FailedIsRecycled
    BY <1>3, <1>7, SMTT(30) DEF Slot, NotUsedWhenPooled, Recyclers, FailedIsRecycled
  <1>11. RefsAccounted
    <2>1. Holders = {} BY <1>3 DEF Holders
    <2>2. ~Additional BY <1>3 DEF Additional
    <2> QED BY <1>7, <2>1, <2>2, FS_EmptySet, SMTT(30) DEF RefsAccounted
  <1>12. StatusOK BY <1>3, <1>4 DEF StatusOK, Reviving
  <1>13. OneCheck BY <1>3, <1>4 DEF OneCheck, InCheck, Active, CheckPCs
  <1>14. CheckedAlone BY <1>3, <1>4 DEF CheckedAlone, Resumes
  <1>15. AppCounted BY <1>6, SMTT(30) DEF AppCounted
  <1> QED BY <1>9, <1>10, <1>11, <1>12, <1>13, <1>14, <1>15, SMTT(30) DEF LifeInv

\* A caller calls, or uses what it has addressed.
LEMMA CallStep ==
  ASSUME LifeConstants, LifeInv, NEW p \in SocketUsers, Call(p) \/ Use(p), UNCHANGED socket_conf
  PROVE  LifeInv'
  <1>1. ASSUME NEW i \in Ids, Address(p, i) \/ AddressFailedAsWell(p, i) PROVE LifeInv'
    BY <1>1, AddressStep
  <1>2. CASE Insert(p) BY <1>2, InsertStep
  <1>3. CASE Remove(p) \/ RemoveOrphan(p) BY <1>3, RemoveStep, SMTT(30)
  <1>4. pr[p].pc = "using" => pr[p].then # "remove" BY DEF LifeInv, Typed
  <1> USE <1>4
  <1>5. CASE drop(p) BY <1>5, UserGoto DEF drop, app
  <1>6. CASE SetFailed(p)
    <2>1. CASE Failed BY <1>6, <2>1, UserGoto, SMTT(30) DEF SetFailed, app
    <2>2. CASE ~Failed BY <1>6, <2>2, SetFailedStep DEF SetFailed, app
    <2> QED BY <2>1, <2>2
  <1>7. CASE ReleaseIfIdle(p) BY <1>7, UserGoto DEF ReleaseIfIdle, app
  <1> QED BY <1>1, <1>2, <1>3, <1>5, <1>6, <1>7 DEF Call, Use

\* SetFailed() and ReleaseAdditionalReference() of a caller go on.
LEMMA ReleasingStep ==
  ASSUME LifeConstants, LifeInv, NEW p \in SocketUsers,
         StartHealthCheck(p) \/ ReleaseAdditionalReference(p), UNCHANGED socket_conf
  PROVE  LifeInv'
  <1>1. Typed BY DEF LifeInv
  <1>2. p \in Procs BY DEF Procs
  <1>3. CASE StartHealthCheck(p)
    <2>1. pr[p].pc = "start_hc" /\ UNCHANGED <<vref, id, pooled, status, held, entry, inflight, calls, fails>>
      BY <1>3 DEF StartHealthCheck, app
    <2>2. pr[p].then # "remove" BY <1>1, <2>1 DEF Typed
    <2>3. CASE HCEnabled /\ CanStartHC
      <3>1. PICK k \in Checkers :
              /\ pr[k].pc = "idle" /\ hc_started' = TRUE
              /\ pr' = [pr EXCEPT ![p] = [pr[p] EXCEPT !.pc = "release"],
                                  ![k] = [pc |-> "hc_wait", id |-> id, ver |-> 0, to |-> 0,
                                          first |-> TRUE, then |-> "idle"]]
        BY <1>3, <2>3 DEF StartHealthCheck
      <3> DEFINE r == [pr[p] EXCEPT !.pc = "release"]
                 t == [pc |-> "hc_wait", id |-> id, ver |-> 0, to |-> 0, first |-> TRUE, then |-> "idle"]
      <3>2. r \in Proc /\ r.pc = "release" /\ r.then = pr[p].then
        BY <1>1, <1>2, WithPc DEF AllPCs, UserPCs
      <3>3. t \in Proc /\ t.pc = "hc_wait" /\ t.then = "idle" /\ t.id = id /\ t.first
        BY <1>1 DEF Typed, Proc, CheckerPCs
      <3>4. pr' = [pr EXCEPT ![p] = r, ![k] = t] BY <3>1
      <3> HIDE DEF r, t
      <3>5. pr \in [Procs -> Proc] /\ k \in Procs /\ p # k BY <1>1 DEF Typed, Procs, LifeConstants
      <3>6. /\ pr' \in [Procs -> Proc] /\ pr'[p] = r /\ pr'[k] = t
            /\ \A q \in Procs : q # p /\ q # k => pr'[q] = pr[q]
        BY <1>2, <3>2, <3>3, <3>4, <3>5
      <3>7. hc_started' \in BOOLEAN /\ hc_started' BY <3>1
      <3>8. ~hc_started BY <2>3 DEF CanStartHC
      <3>9. /\ pr'[p].pc = "release" /\ pr'[p].then = pr[p].then
            /\ pr'[k].pc = "hc_wait" /\ pr'[k].then = "idle" /\ pr'[k].id = id /\ pr'[k].first
        BY <3>2, <3>3, <3>6
      <3>10. pr[k].pc = "idle" BY <3>1
      <3> HIDE <3>1, <3>4
      <3> QED BY <2>1, <3>6, <3>7, <3>8, <3>9, <3>10, StartedStep, ZenonT(20)
    <2>4. CASE ~(HCEnabled /\ CanStartHC)
      <3>1. Goto(p, "release") /\ UNCHANGED hc_started BY <1>3, <2>4 DEF StartHealthCheck
      <3> QED BY <2>1, <2>2, <3>1, UserGoto
    <2> QED BY <2>3, <2>4
  <1>4. CASE ReleaseAdditionalReference(p)
    <2>1. pr[p].pc = "release" /\ UNCHANGED <<vref, id, pooled, held, hc_started, entry, inflight, calls, fails>>
      BY <1>4 DEF ReleaseAdditionalReference, app
    <2>2. CASE status = "USING" /\ status' = "RECYCLED" /\ Goto(p, "release_sub") BY <2>1, <2>2, ReleaseStep
    <2>3. CASE status = "RECYCLED" /\ UNCHANGED status /\ Goto(p, AfterRelease(p))
      <3>1. AfterRelease(p) \in {"unheld", "deref"} /\ (pr[p].then = "remove" => AfterRelease(p) = "unheld")
        BY DEF AfterRelease
      <3> QED BY <2>1, <2>3, <3>1, UserGoto
    <2> QED BY <1>4, <2>2, <2>3 DEF ReleaseAdditionalReference, MayRelease
  <1> QED BY <1>3, <1>4

\* A process goes on.
LEMMA ContinueStep ==
  ASSUME LifeConstants, LifeInv, NEW p \in Procs, Continue(p), UNCHANGED socket_conf
  PROVE  LifeInv'
  <1>1. CASE unaddress(p) BY <1>1, UnaddressStep
  <1>2. CASE Dereference(p) BY <1>2, DereferenceStep
  <1>3. CASE recycle(p) BY <1>3, RecycleStep
  <1>4. CASE \/ StartHealthCheck(p) \/ ReleaseAdditionalReference(p) \/ release_sub(p)
             \/ SetHCRelatedRefReleased(p)
    <2>1. pr[p].pc \in {"start_hc", "release", "release_sub", "unheld"}
      BY <1>4, SMTT(30) DEF StartHealthCheck, ReleaseAdditionalReference, release_sub, SetHCRelatedRefReleased
    <2>2. p \in SocketUsers BY <2>1, SMTT(30) DEF LifeInv, Typed, Procs, CheckerPCs, CheckPCs
    <2> QED BY <1>4, <2>2, ReleasingStep, ReleaseSubStep, UnheldStep, SMTT(30)
  <1> QED BY <1>1, <1>2, <1>3, <1>4 DEF Continue

\* A health check goes on.
LEMMA CheckStep ==
  ASSUME LifeConstants, LifeInv, NEW c \in Checkers, Check(c), UNCHANGED socket_conf
  PROVE  LifeInv'
  <1>1. CASE OnTriggeringTask(c) BY <1>1, TriggerStep
  <1>2. CASE HCWaitAndReset(c) BY <1>2, WaitAndResetStep, SMTT(30)
  <1>3. CASE reset(c) BY <1>3, ResetStep
  <1>4. CASE CheckHealth(c)
    <2>1. /\ pr[c].pc = "hc_check"
          /\ UNCHANGED <<vref, id, pooled, status, held, hc_started, entry, calls, fails>>
      BY <1>4 DEF CheckHealth
    <2>2. CASE /\ Goto(c, "hc_revive")
               /\ inflight' = IF socket_conf.app THEN inflight + 1 ELSE inflight
      BY <2>1, <2>2, HealthyStep
    <2>3. CASE /\ \/ pr' = [pr EXCEPT ![c] = [pr[c] EXCEPT !.pc = "deref", !.then = "hc_wait"]]
                  \/ Goto(c, "hc_done")
               /\ UNCHANGED inflight
      BY <2>1, <2>3, NotHealthyStep
    <2> QED BY <1>4, <2>2, <2>3 DEF CheckHealth
  <1>5. CASE Revive(c) BY <1>5, ReviveStep
  <1>6. CASE revive_cas(c)
    <2>1. CASE Abandoned BY <1>6, <2>1, AbandonStep DEF revive_cas, app
    <2>2. CASE ~Abandoned BY <1>6, <2>2, ReviveCasStep, SMTT(30) DEF revive_cas, app
    <2> QED BY <2>1, <2>2
  <1>7. CASE revived(c) BY <1>7, RevivedStep
  <1>8. CASE StartCheck(c) BY <1>8, StartCheckStep
  <1>9. CASE AfterHCCompleted(c) BY <1>9, CompletedStep
  <1> QED BY <1>1, <1>2, <1>3, <1>4, <1>5, <1>6, <1>7, <1>8, <1>9, SMTT(30) DEF Check

\* No step leaves the invariant.
LEMMA NextLifeInv ==
  ASSUME LifeConstants, LifeInv, [LifeNext]_life_vars
  PROVE  LifeInv'
  <1>1. CASE UNCHANGED life_vars
    <2>1. entry \in [in : BOOLEAN, count : 0 .. MaxCount] BY DEF LifeInv, Typed
    <2> QED BY <1>1, <2>1, CountStep, SMTT(30) DEF life_vars
  <1>2. CASE LifeNext
    <2>1. UNCHANGED socket_conf BY <1>2 DEF LifeNext
    <2> USE <2>1
    <2>2. CASE Create BY <2>2, CreatedStep DEF Create
    <2>3. ASSUME NEW p \in SocketUsers, Call(p) \/ Use(p) PROVE LifeInv' BY <2>3, CallStep
    <2>4. ASSUME NEW p \in Procs, Continue(p) PROVE LifeInv' BY <2>4, ContinueStep
    <2>5. ASSUME NEW c \in Checkers, Check(c) PROVE LifeInv' BY <2>5, CheckStep
    <2>6. ASSUME NEW i \in Lives, AppCheck(i) PROVE LifeInv' BY <2>6, AppCheckStep DEF AppCheck
    <2> QED BY <1>2, <2>2, <2>3, <2>4, <2>5, <2>6 DEF LifeNext, Step
  <1> QED BY <1>1, <1>2

\* What the invariant says of a state.
LEMMA InvSafe ==
  ASSUME LifeConstants, LifeInv
  PROVE  SocketSafe
  <1>1. /\ Typed /\ Slot /\ NotUsedWhenPooled /\ RefsAccounted /\ FailedIsRecycled /\ OneCheck /\ AppCounted
    BY DEF LifeInv
  <1> USE <1>1
  <1>2. LifeTypeOK
    <2>1. /\ vref \in [ver : Nat, ref : Nat] /\ id \in Lives /\ pooled \in BOOLEAN /\ held \in BOOLEAN
          /\ hc_started \in BOOLEAN /\ inflight \in Nat /\ calls \in [Lives -> Nat]
          /\ socket_conf \in SocketConfs /\ fails \in 0 .. socket_conf.fails /\ socket_conf.fails \in Nat
      BY DEF Typed, LifeConstants
    <2> USE <2>1
    <2>2. vref.ver <= 2 * MaxLives
      <3>1. id \in Nat /\ id + 2 <= 2 * MaxLives /\ MaxLives \in Nat BY Parity DEF LifeConstants
      <3>2. vref.ver \in {0, id, id + 1, id + 2} BY DEF Slot
      <3> QED BY <3>1, <3>2, SMTT(30)
    <2>3. vref.ref <= 2 + Cardinality(Procs) /\ Cardinality(Procs) \in Nat
      BY HoldersFinite, SMTT(30) DEF RefsAccounted
    <2>4. MaxLives \in Nat BY DEF LifeConstants
    <2>5. vref \in [ver : 0 .. 2 * MaxLives, ref : 0 .. 2 + Cardinality(Procs)] BY <2>2, <2>3, <2>4, SMTT(30)
    <2>6. inflight \in 0 .. socket_conf.fails BY SMTT(30) DEF AppCounted
    <2>7. calls \in [Lives -> 0 .. socket_conf.fails]
      <3>1. \A i \in Lives : calls[i] \in 0 .. socket_conf.fails BY SMTT(30) DEF AppCounted
      <3> QED BY <3>1
    <2>8. \A p \in Procs : pr[p].then \in {"idle", "remove", "hc_wait"} /\ pr[p].id \in Lives
      BY DEF Typed, Proc
    <2>9. {pooled, held, hc_started} \subseteq BOOLEAN OBVIOUS
    <2> QED BY <2>5, <2>6, <2>7, <2>8, <2>9, SMTT(30) DEF LifeTypeOK, Typed
  <1>3. HealthCheckChecks
    <2> SUFFICES ASSUME NEW c \in Checkers, Checking(c)
                 PROVE  vref.ver = id + 1 /\ pr[c].id = id /\ \A d \in Checkers \ {c} : ~Checking(d)
      BY DEF HealthCheckChecks
    <2>1. \A d \in Checkers : Checking(d) => InCheck(d) BY DEF Checking, InCheck, CheckPCs
    <2>2. pr[c].pc \notin Revived BY DEF Checking, Revived
    <2> QED BY <2>1, <2>2, InCheckActive
  <1> QED BY <1>2, <1>3 DEF SocketSafe

\* Who is about to reset the socket, or to recycle it, is moved by that step alone.
LEMMA OwnStep ==
  ASSUME LifeConstants, Typed, LifeNext, NEW x \in Procs, pr[x].pc \in {"hc_held", "recycle"}, pr'[x] # pr[x]
  PROVE  reset(x) \/ recycle(x)
  <1>1. pr \in [Procs -> Proc] /\ SocketUsers \subseteq Procs /\ Checkers \subseteq Procs BY DEF Typed, Procs
  <1> USE <1>1
  <1>2. CASE Create BY <1>2 DEF Create
  <1>3. ASSUME NEW p \in SocketUsers, Call(p) \/ Use(p) PROVE FALSE
    <2>1. pr[p].pc \in {"idle", "using"}
      BY <1>3
         DEF Call, Use, Address, AddressFailedAsWell, Insert, Remove, RemoveOrphan, drop, SetFailed, ReleaseIfIdle
    <2>2. p # x BY <2>1
    <2>3. ASSUME NEW r, pr' = [pr EXCEPT ![p] = r] PROVE FALSE BY <2>2, <2>3
    <2>4. ASSUME NEW a, Goto(p, a) PROVE FALSE BY <2>2, <2>4 DEF Goto
    <2>5. CASE \E i \in Ids : Address(p, i) \/ AddressFailedAsWell(p, i)
      BY <2>3, <2>5 DEF Address, AddressFailedAsWell, AddressAs
    <2>6. CASE Insert(p) BY <2>4, <2>6 DEF Insert
    <2>7. CASE Remove(p) \/ RemoveOrphan(p) BY <2>3, <2>7 DEF Remove, RemoveOrphan, Erase
    <2>8. CASE Use(p) BY <2>4, <2>8 DEF Use, drop, SetFailed, ReleaseIfIdle
    <2> QED BY <1>3, <2>5, <2>6, <2>7, <2>8 DEF Call
  <1>4. ASSUME NEW p \in Procs, Continue(p) PROVE recycle(x)
    <2>1. CASE p = x
      BY <1>4, <2>1 DEF Continue, unaddress, Dereference, StartHealthCheck, ReleaseAdditionalReference,
                        release_sub, SetHCRelatedRefReleased
    <2>2. CASE p # x
      <3> USE <2>2
      <3>1. ASSUME NEW r, pr' = [pr EXCEPT ![p] = r] PROVE FALSE BY <3>1
      <3>2. ASSUME NEW a, Goto(p, a) PROVE FALSE BY <3>2 DEF Goto
      <3>3. CASE unaddress(p) \/ Dereference(p) \/ recycle(p)
        BY <3>1, <3>3 DEF unaddress, Dereference, recycle
      <3>4. CASE StartHealthCheck(p)
        <4>1. ASSUME NEW c \in Checkers, NEW r, NEW t, pr[c].pc = "idle", pr' = [pr EXCEPT ![p] = r, ![c] = t]
              PROVE  FALSE
          BY <4>1
        <4>2. CASE Goto(p, "release") BY <3>2, <4>2
        <4>3. CASE \E c \in Checkers :
                     /\ pr[c].pc = "idle"
                     /\ pr' = [pr EXCEPT ![p] = [pr[p] EXCEPT !.pc = "release"],
                                         ![c] = [pc |-> "hc_wait", id |-> id, ver |-> 0, to |-> 0,
                                                 first |-> TRUE, then |-> "idle"]]
          <5>1. PICK c \in Checkers :
                     /\ pr[c].pc = "idle"
                     /\ pr' = [pr EXCEPT ![p] = [pr[p] EXCEPT !.pc = "release"],
                                         ![c] = [pc |-> "hc_wait", id |-> id, ver |-> 0, to |-> 0,
                                                 first |-> TRUE, then |-> "idle"]]
            BY <4>3
          <5> QED BY <4>1, <5>1
        <4> QED BY <3>4, <4>2, <4>3 DEF StartHealthCheck
      <3>5. CASE ReleaseAdditionalReference(p) \/ release_sub(p)
        BY <3>2, <3>5 DEF ReleaseAdditionalReference, release_sub
      <3>6. CASE SetHCRelatedRefReleased(p) BY <3>1, <3>6 DEF SetHCRelatedRefReleased
      <3> QED BY <1>4, <3>3, <3>4, <3>5, <3>6 DEF Continue
    <2> QED BY <2>1, <2>2
  <1>5. ASSUME NEW c \in Checkers, Check(c) PROVE reset(x)
    <2>1. CASE c = x
      BY <1>5, <2>1 DEF Check, OnTriggeringTask, HCWaitAndReset, CheckHealth, Revive, revive_cas, revived,
                        StartCheck, AfterHCCompleted
    <2>2. CASE c # x
      <3>1. ASSUME NEW r, pr' = [pr EXCEPT ![c] = r] PROVE FALSE BY <2>2, <3>1
      <3>2. ASSUME NEW a, Goto(c, a) PROVE FALSE BY <2>2, <3>2 DEF Goto
      <3>3. CASE OnTriggeringTask(c) \/ HCWaitAndReset(c)
        BY <3>1, <3>3 DEF OnTriggeringTask, HCWaitAndReset
      <3>4. CASE reset(c) \/ Revive(c) \/ revive_cas(c) \/ revived(c) \/ StartCheck(c) \/ AfterHCCompleted(c)
        BY <3>2, <3>4 DEF reset, Revive, revive_cas, revived, StartCheck, AfterHCCompleted
      <3>5. CASE CheckHealth(c) BY <3>1, <3>2, <3>5 DEF CheckHealth
      <3> QED BY <1>5, <3>3, <3>4, <3>5 DEF Check
    <2> QED BY <2>1, <2>2
  <1>6. ASSUME NEW i \in Lives, AppCheck(i) PROVE FALSE BY <1>6 DEF AppCheck, AppCheckDone
  <1> QED BY <1>2, <1>3, <1>4, <1>5, <1>6 DEF LifeNext, Step

\* What the invariant says of a step.
LEMMA InvSteps ==
  ASSUME LifeConstants, LifeInv, [LifeNext]_life_vars
  PROVE  [ResetsAlone /\ RecyclesOnce]_life_vars
  <1>1. Typed /\ Slot /\ Recyclers /\ CheckedAlone BY DEF LifeInv
  <1> USE <1>1
  <1>2. SUFFICES ASSUME LifeNext PROVE ResetsAlone /\ RecyclesOnce OBVIOUS
  <1>3. ResetsAlone
    <2> SUFFICES ASSUME NEW c \in Checkers, pr[c].pc = "hc_held", pr'[c].pc = "hc_check" PROVE Alone
      BY DEF ResetsAlone, Alone
    <2>1. c \in Procs /\ pr \in [Procs -> Proc] BY DEF Procs, Typed
    <2>2. reset(c) BY <1>2, <2>1, OwnStep DEF recycle
    <2>3. held
      <3>1. ASSUME ~held PROVE FALSE
        <4>1. Goto(c, "hc_done") BY <2>2, <3>1 DEF reset
        <4> QED BY <2>1, <4>1 DEF Goto, Proc
      <3> QED BY <3>1
    <2> QED BY <2>3 DEF CheckedAlone
  <1>4. RecyclesOnce
    <2> SUFFICES ASSUME NEW p \in Procs, pr[p].pc = "recycle", RecycleWon(p), pr'[p].pc # "recycle"
                 PROVE  ~pooled /\ vref'.ver = id + 2
      BY DEF RecyclesOnce
    <2>1. recycle(p) BY <1>2, OwnStep DEF reset
    <2>2. vref' = [ver |-> pr[p].to, ref |-> 0] BY <2>1 DEF recycle
    <2> QED BY <2>2, WonIsCurrent
  <1> QED BY <1>3, <1>4

\* The life of a socket is safe (socket.cpp, socket_inl.h, health_check.cpp, socket_map.cpp): at each
\* moment the reference count is the processes in the socket, the entry of the map and the additional
\* reference, nobody has a recycled slot, a failed socket at zero is recycled by who brought it there, and
\* a health check works on a failed socket of its life without another beside it, for any numbers of
\* callers, health checks, lives and failures.
THEOREM SocketIsSafe == ASSUME LifeConstants PROVE LifeSpec => []SocketSafe
  <1>1. LifeInit => LifeInv BY InitLifeInv
  <1>2. LifeInv /\ [LifeNext]_life_vars => LifeInv' BY NextLifeInv
  <1>3. LifeInv => SocketSafe BY InvSafe
  <1> QED BY <1>1, <1>2, <1>3, PTL DEF LifeSpec

\* A life is recycled once, and a health check closes the descriptor of a socket and clears its buffers
\* (WaitAndReset() in socket.cpp) only when no caller that addressed it is still in it, for any numbers of
\* callers, health checks, lives and failures.
THEOREM SocketStepsOK == ASSUME LifeConstants PROVE LifeSpec => SocketSteps
  <1>1. LifeInit => LifeInv BY InitLifeInv
  <1>2. LifeInv /\ [LifeNext]_life_vars => LifeInv' BY NextLifeInv
  <1>3. LifeInv /\ [LifeNext]_life_vars => [ResetsAlone /\ RecyclesOnce]_life_vars BY InvSteps
  <1> QED BY <1>1, <1>2, <1>3, PTL DEF LifeSpec, SocketSteps
=============================================================================

----------------------------- MODULE SocketLife -----------------------------
(***************************************************************************)
(* The life of one brpc::Socket slot (socket_inl.h, socket.cpp): versioned *)
(* reference, Address(), SetFailed(), the additional reference, recycling, *)
(* the health check that revives a failed socket (details/health_check.cpp *)
(* driven by periodic_task.cpp) and the SocketMap entry that shares it     *)
(* (socket_map.cpp).  Threads and health-check tasks are processes that    *)
(* take, use and drop references.                                          *)
(***************************************************************************)
EXTENDS Naturals, FiniteSets

CONSTANTS SocketUsers, Checkers,
          SocketConfs,  \* the configurations, see socket_conf
          MaxLives, MaxCount

\* There are finitely many threads; a health-check task is none of the callers.
LifeConstants ==
  /\ IsFiniteSet(SocketUsers \cup Checkers) /\ SocketUsers \cap Checkers = {}
  /\ MaxLives \in Nat \ {0} /\ MaxCount \in Nat \ {0}
  /\ \A c \in SocketConfs : c.fails \in Nat

VARIABLES socket_conf,  \* shared: it is the main socket of a SocketMap entry;
                        \* interval: health_check_interval_s > 0; app: -health_check_path is set;
                        \* ops: what threads do; fails: bound of the SetFailed() that succeed
          vref,         \* _versioned_ref: [ver, ref]
          id,           \* version of _this_id
          pooled,
          status,       \* _additional_ref_status
          held,         \* _is_hc_related_ref_held
          hc_started,
          entry,        \* SocketMap entry: [in, count]; it holds a reference while in
          inflight,     \* _ninflight_app_health_check
          calls,        \* per life, application-level health checks under way
          pr,           \* processes
          fails

life_vars == <<socket_conf, vref, id, pooled, status, held, hc_started, entry, inflight, calls, pr, fails>>
app == <<inflight, calls>>
Procs == SocketUsers \cup Checkers
Lives == {2 * n : n \in 0 .. MaxLives - 1}
\* ver: the version found; to: the version a recycler moves the slot to;
\* first: _first_time of a HealthCheckTask; then: what follows the call.
IdleProc == [pc |-> "idle", id |-> 0, ver |-> 0, to |-> 0, first |-> FALSE, then |-> "idle"]

\* The slot is free.
LifeInit == /\ socket_conf \in SocketConfs
            /\ vref = [ver |-> 0, ref |-> 0] /\ id = 0 /\ pooled = TRUE
            /\ status = "RECYCLED" /\ held = FALSE /\ hc_started = FALSE
            /\ entry = [in |-> FALSE, count |-> 0]
            /\ inflight = 0 /\ calls = [i \in Lives |-> 0]
            /\ pr = [p \in Procs |-> IdleProc]
            /\ fails = 0

Goto(p, pc) == pr' = [pr EXCEPT ![p].pc = pc]
\* The ids given out so far.
Ids == {i \in Lives : i <= id /\ (pooled => i < vref.ver)}
Failed == vref.ver # id
HCEnabled == socket_conf.interval /\ held

-----------------------------------------------------------------------------
(* References.                                                              *)

\* Address() and AddressFailedAsWell(): the reference is taken, then the version compared.
AddressAs(p, i, ok, pc) ==
  /\ vref' = [vref EXCEPT !.ref = @ + 1]
  /\ pr' = [pr EXCEPT ![p] = [@ EXCEPT !.pc = IF ok THEN pc ELSE "unaddress", !.id = i, !.ver = vref.ver]]
  /\ UNCHANGED <<id, pooled, status, held, hc_started, entry, app, fails>>

Address(p, i) ==
  /\ pr[p].pc = "idle" /\ "address" \in socket_conf.ops
  /\ AddressAs(p, i, vref.ver = i, "using")

AddressFailedAsWell(p, i) ==
  /\ pr[p].pc = "idle" /\ "epollout" \in socket_conf.ops
  /\ AddressAs(p, i, vref.ver \in {i, i + 1}, "deref")

\* The end of a call: a checker that is to check again waits for its timer.
End(p) == IF pr[p].then = "idle" THEN IdleProc ELSE [pr[p] EXCEPT !.pc = "hc_wait"]

\* nref:1->0 of a failed version: try to recycle.  An even version is taken for a free slot.
LastOfFailed_Ignored == FALSE
LastOfFailed == vref.ref = 1 /\ vref.ver % 2 = 1

unaddress(p) ==
  /\ pr[p].pc = "unaddress"
  /\ vref' = [vref EXCEPT !.ref = @ - 1]
  /\ pr' = [pr EXCEPT ![p] =
        IF LastOfFailed
        THEN [@ EXCEPT !.pc = "recycle", !.ver = vref.ver, !.to = vref.ver + 1]
        ELSE End(p)]
  /\ UNCHANGED <<id, pooled, status, held, hc_started, entry, app, fails>>

Dereference(p) ==
  /\ pr[p].pc = "deref"
  /\ vref' = [vref EXCEPT !.ref = @ - 1]
  /\ pr' = [pr EXCEPT ![p] =
        IF vref.ref = 1 /\ vref.ver \in {id, id + 1}
        THEN [@ EXCEPT !.pc = "recycle", !.ver = vref.ver, !.to = id + 2]
        ELSE End(p)]
  /\ UNCHANGED <<id, pooled, status, held, hc_started, entry, app, fails>>

RecycleWon_AnyVersion(p) == vref.ref = 0
RecycleWon_NoCAS(p) == TRUE
RecycleWon(p) == vref = [ver |-> pr[p].ver, ref |-> 0]

\* Who saw 1 -> 0 moves the version to the next life, runs OnRecycle() and
\* returns the slot; a version or a count that moved means another one will.
recycle(p) ==
  /\ pr[p].pc = "recycle"
  /\ IF RecycleWon(p)
     THEN vref' = [ver |-> pr[p].to, ref |-> 0] /\ pooled' = TRUE
     ELSE UNCHANGED <<vref, pooled>>
  /\ pr' = [pr EXCEPT ![p] = End(p)]
  /\ UNCHANGED <<id, status, held, hc_started, entry, app, fails>>

drop(p) ==
  /\ pr[p].pc = "using" /\ Goto(p, "deref")
  /\ UNCHANGED <<vref, id, pooled, status, held, hc_started, entry, app, fails>>

-----------------------------------------------------------------------------
(* SetFailed() and ReleaseAdditionalReference().                            *)

SetFailed(p) ==
  /\ pr[p].pc = "using" /\ "fail" \in socket_conf.ops /\ fails < socket_conf.fails
  /\ IF Failed THEN Goto(p, "deref") /\ UNCHANGED <<vref, fails>>
     ELSE /\ vref' = [vref EXCEPT !.ver = id + 1]
          /\ fails' = fails + 1
          /\ Goto(p, "start_hc")
  /\ UNCHANGED <<id, pooled, status, held, hc_started, entry, app>>

\* Only one health check runs at a time.
CanStartHC == ~hc_started

StartHealthCheck(p) ==
  /\ pr[p].pc = "start_hc"
  /\ IF HCEnabled /\ CanStartHC
     THEN \E c \in Checkers :
            /\ pr[c].pc = "idle"
            /\ hc_started' = TRUE
            /\ pr' = [pr EXCEPT ![p] = [@ EXCEPT !.pc = "release"],
                                ![c] = [pc |-> "hc_wait", id |-> id, ver |-> 0, to |-> 0,
                                        first |-> TRUE, then |-> "idle"]]
     ELSE Goto(p, "release") /\ UNCHANGED hc_started
  /\ UNCHANGED <<vref, id, pooled, status, held, entry, app, fails>>

ReleaseIfIdle(p) ==
  /\ pr[p].pc = "using" /\ "idle" \in socket_conf.ops /\ ~socket_conf.shared
  /\ Goto(p, "release")
  /\ UNCHANGED <<vref, id, pooled, status, held, hc_started, entry, app, fails>>

\* What follows: SocketMap::Remove() goes on with its own reference.
AfterRelease(p) == IF pr[p].then = "remove" THEN "unheld" ELSE "deref"

\* A release waits for a revival under way.
MayRelease_Reviving == status \in {"USING", "REVIVING"}
MayRelease_Again == status \in {"USING", "RECYCLED"}
MayRelease == status = "USING"

ReleaseAdditionalReference(p) ==
  /\ pr[p].pc = "release"
  /\ \/ MayRelease /\ status' = "RECYCLED" /\ Goto(p, "release_sub")
     \/ status = "RECYCLED" /\ UNCHANGED status /\ Goto(p, AfterRelease(p))
  /\ UNCHANGED <<vref, id, pooled, held, hc_started, entry, app, fails>>

release_sub(p) ==
  /\ pr[p].pc = "release_sub"
  /\ vref' = [vref EXCEPT !.ref = @ - 1] /\ Goto(p, AfterRelease(p))
  /\ UNCHANGED <<id, pooled, status, held, hc_started, entry, app, fails>>

-----------------------------------------------------------------------------
(* SocketMap.                                                               *)

\* Socket::Create(): late references of unmatched versions may be in the count.
Created(refs) ==
  /\ pooled /\ vref.ver \in Lives
  /\ pooled' = FALSE /\ id' = vref.ver /\ vref' = [vref EXCEPT !.ref = @ + refs]
  /\ status' = "USING" /\ hc_started' = FALSE /\ inflight' = 0

\* A connection of its own: accepted, pooled or short.
Create == /\ ~socket_conf.shared /\ Created(1) /\ held' = FALSE
          /\ UNCHANGED <<entry, calls, pr, fails>>

\* Insert(): share the entry, replace one that failed for good, or create it.
Insert(p) ==
  /\ pr[p].pc = "idle" /\ socket_conf.shared
  /\ \/ /\ entry.in /\ (~Failed \/ HCEnabled)
        /\ entry.count < MaxCount /\ entry' = [entry EXCEPT !.count = @ + 1]
        /\ UNCHANGED <<vref, id, pooled, status, held, hc_started, app, pr>>
     \/ /\ entry.in /\ Failed /\ ~HCEnabled
        /\ entry' = [in |-> FALSE, count |-> 0] /\ held' = FALSE
        /\ Goto(p, "deref")
        /\ UNCHANGED <<vref, id, pooled, status, hc_started, app>>
     \/ /\ ~entry.in /\ Created(2)
        /\ held' = TRUE /\ entry' = [in |-> TRUE, count |-> 1]
        /\ UNCHANGED <<calls, pr>>
  /\ UNCHANGED fails

Erase(p) == /\ entry' = [in |-> FALSE, count |-> 0]
            /\ pr' = [pr EXCEPT ![p] = [@ EXCEPT !.pc = "release", !.then = "remove"]]

\* Remove() of the last user erases the entry now, or leaves it to the watcher.
Remove(p) ==
  /\ pr[p].pc = "idle" /\ "remove" \in socket_conf.ops
  /\ entry.in /\ entry.count > 0
  /\ IF entry.count = 1 THEN Erase(p) \/ (entry' = [entry EXCEPT !.count = 0] /\ UNCHANGED pr)
     ELSE entry' = [entry EXCEPT !.count = @ - 1] /\ UNCHANGED pr
  /\ UNCHANGED <<vref, id, pooled, status, held, hc_started, app, fails>>

\* WatchConnections() removes an orphan.
RemoveOrphan(p) ==
  /\ pr[p].pc = "idle" /\ "remove" \in socket_conf.ops
  /\ entry.in /\ entry.count = 0
  /\ Erase(p)
  /\ UNCHANGED <<vref, id, pooled, status, held, hc_started, app, fails>>

SetHCRelatedRefReleased(p) ==
  /\ pr[p].pc = "unheld"
  /\ held' = FALSE
  /\ pr' = [pr EXCEPT ![p] = [@ EXCEPT !.pc = "deref", !.then = "idle"]]
  /\ UNCHANGED <<vref, id, pooled, status, hc_started, entry, app, fails>>

-----------------------------------------------------------------------------
(* HealthCheckTask::OnTriggeringTask().                                     *)

Found_Any(c) == TRUE
Found(c) == vref.ver \in {pr[c].id, pr[c].id + 1}

OnTriggeringTask(c) ==
  /\ pr[c].pc = "hc_wait"
  /\ vref' = [vref EXCEPT !.ref = @ + 1]
  /\ pr' = [pr EXCEPT ![c] = [@ EXCEPT !.ver = vref.ver, !.then = "idle",
               !.pc = IF ~Found(c) THEN "unaddress" ELSE IF pr[c].first THEN "hc_reset" ELSE "hc_check"]]
  /\ UNCHANGED <<id, pooled, status, held, hc_started, entry, app, fails>>

ExpectedNref_Three == 3
ExpectedNref == 2

\* WaitAndReset(2): sleeps while there are more references, gives up on fewer
\* or when nobody holds the reference related to the health check.
HCWaitAndReset(c) ==
  /\ pr[c].pc = "hc_reset"
  /\ vref.ver = id + 1 => vref.ref <= ExpectedNref
  /\ pr' = [pr EXCEPT ![c] = [@ EXCEPT !.first = FALSE,
               !.pc = IF vref = [ver |-> id + 1, ref |-> ExpectedNref] THEN "hc_held" ELSE "hc_done"]]
  /\ UNCHANGED <<vref, id, pooled, status, held, hc_started, entry, app, fails>>

reset(c) ==
  /\ pr[c].pc = "hc_held"
  /\ Goto(c, IF held THEN "hc_check" ELSE "hc_done")
  /\ UNCHANGED <<vref, id, pooled, status, held, hc_started, entry, app, fails>>

\* CheckHealth() succeeds, is tried again later, or (user-defined) stops the checks.
CheckHealth(c) ==
  /\ pr[c].pc = "hc_check"
  /\ \/ /\ Goto(c, "hc_revive")
        /\ inflight' = IF socket_conf.app THEN inflight + 1 ELSE inflight
     \/ /\ pr' = [pr EXCEPT ![c] = [@ EXCEPT !.pc = "deref", !.then = "hc_wait"]]
        /\ UNCHANGED inflight
     \/ "estop" \in socket_conf.ops /\ Goto(c, "hc_done") /\ UNCHANGED inflight
  /\ UNCHANGED <<vref, id, pooled, status, held, hc_started, entry, calls, fails>>

Revive(c) ==
  /\ pr[c].pc = "hc_revive"
  /\ status' = "REVIVING" /\ Goto(c, "hc_cas")
  /\ UNCHANGED <<vref, id, pooled, held, hc_started, entry, app, fails>>

Abandoned_OffByOne == vref.ref <= 2
Abandoned == vref.ref <= 1

revive_cas(c) ==
  /\ pr[c].pc = "hc_cas"
  /\ IF Abandoned
     THEN status' = "RECYCLED" /\ Goto(c, "hc_app") /\ UNCHANGED vref
     ELSE /\ vref' = [ver |-> id, ref |-> vref.ref + 1] /\ Goto(c, "hc_using")
          /\ UNCHANGED status
  /\ UNCHANGED <<id, pooled, held, hc_started, entry, app, fails>>

revived(c) ==
  /\ pr[c].pc = "hc_using"
  /\ status' = "USING" /\ Goto(c, "hc_app")
  /\ UNCHANGED <<vref, id, pooled, held, hc_started, entry, app, fails>>

\* HealthCheckManager::StartCheck(): the caller holds a reference, it addresses its life.
StartCheck(c) ==
  /\ pr[c].pc = "hc_app" /\ Goto(c, "hc_done")
  /\ calls' = IF socket_conf.app THEN [calls EXCEPT ![pr[c].id] = @ + 1] ELSE calls
  /\ UNCHANGED <<vref, id, pooled, status, held, hc_started, entry, inflight, fails>>

CallOver_Success(ok) == ok
CallOver(ok) == ok \/ Failed

OfThisLife_Ignored(i) == TRUE
OfThisLife(i) == id = i /\ ~pooled

\* OnAppHealthCheckDone::Run(): over, abandoned with its life, or called again.
AppCheckDone(i, ok) ==
  /\ calls[i] > 0 /\ (ok => ~Failed)
  /\ ~OfThisLife(i) \/ CallOver(ok)
  /\ calls' = [calls EXCEPT ![i] = @ - 1]
  /\ inflight' = IF OfThisLife(i) THEN inflight - 1 ELSE inflight
  /\ UNCHANGED <<vref, id, pooled, status, held, hc_started, entry, pr, fails>>

AfterHCCompleted(c) ==
  /\ pr[c].pc = "hc_done"
  /\ hc_started' = FALSE /\ Goto(c, "deref")
  /\ UNCHANGED <<vref, id, pooled, status, held, entry, app, fails>>

-----------------------------------------------------------------------------
Call(p) == \/ \E i \in Ids : Address(p, i) \/ AddressFailedAsWell(p, i)
           \/ Insert(p) \/ Remove(p) \/ RemoveOrphan(p)
Use(p) == drop(p) \/ SetFailed(p) \/ ReleaseIfIdle(p)
Continue(p) == \/ unaddress(p) \/ Dereference(p) \/ recycle(p)
               \/ StartHealthCheck(p) \/ ReleaseAdditionalReference(p) \/ release_sub(p)
               \/ SetHCRelatedRefReleased(p)
Check(c) == \/ OnTriggeringTask(c) \/ HCWaitAndReset(c) \/ reset(c) \/ CheckHealth(c)
            \/ Revive(c) \/ revive_cas(c) \/ revived(c) \/ StartCheck(c) \/ AfterHCCompleted(c)
AppCheck(i) == \E ok \in BOOLEAN : AppCheckDone(i, ok)

Step == \/ Create
        \/ \E p \in SocketUsers : Call(p) \/ Use(p)
        \/ \E p \in Procs : Continue(p)
        \/ \E c \in Checkers : Check(c)
        \/ \E i \in Lives : AppCheck(i)
LifeNext == Step /\ UNCHANGED socket_conf
LifeSpec == LifeInit /\ [][LifeNext]_life_vars

\* Calls and tasks under way go on; a server that is checked again and again is
\* found healthy at last, and answers a call at last or has the socket fail.
LifeFairness == /\ \A p \in Procs : WF_life_vars(Continue(p) /\ UNCHANGED socket_conf)
                /\ \A p \in SocketUsers : WF_life_vars(Use(p) /\ UNCHANGED socket_conf)
                /\ \A c \in Checkers :
                 /\ WF_life_vars(Check(c) /\ UNCHANGED socket_conf)
                 /\ SF_life_vars(CheckHealth(c) /\ UNCHANGED socket_conf /\ pr'[c].pc = "hc_revive")
                /\ \A i \in Lives : WF_life_vars(AppCheck(i) /\ UNCHANGED socket_conf)
LifeFairSpec == LifeSpec /\ LifeFairness

-----------------------------------------------------------------------------
\* Every variable has its type; no more references than processes, entry and the additional one.
LifeTypeOK ==
  /\ vref \in [ver : 0 .. 2 * MaxLives, ref : 0 .. 2 + Cardinality(Procs)]
  /\ id \in Lives /\ {pooled, held, hc_started} \subseteq BOOLEAN
  /\ status \in {"USING", "REVIVING", "RECYCLED"}
  /\ entry \in [in : BOOLEAN, count : 0 .. MaxCount]
  /\ inflight \in 0 .. socket_conf.fails /\ calls \in [Lives -> 0 .. socket_conf.fails]
  /\ \A p \in Procs : pr[p].then \in {"idle", "remove", "hc_wait"} /\ pr[p].id \in Lives

Holders == {p \in Procs : pr[p].pc \notin {"idle", "hc_wait", "recycle"}}
Additional == \/ status = "USING" /\ ~pooled
              \/ \E p \in Procs : pr[p].pc \in {"release_sub", "hc_using"}

\* The reference count is exactly the processes that hold one, the entry of the
\* map and the additional reference: none is lost and none is given back twice,
\* however SetFailed(), idle release, removal and revival interleave.
RefsAccounted ==
  vref.ref = Cardinality(Holders) + (IF entry.in THEN 1 ELSE 0) + (IF Additional THEN 1 ELSE 0)

\* A slot in the pool (OnRecycle() has run) is used by nobody: neither the map
\* nor any process that was given the socket by Address().
NotUsedWhenPooled ==
  pooled => /\ ~entry.in
            /\ \A p \in Procs : pr[p].pc \in {"idle", "hc_wait", "unaddress", "recycle"}

RecyclesOnce == \A p \in Procs : pr[p].pc = "recycle" /\ RecycleWon(p) /\ pr'[p].pc # "recycle"
                                => ~pooled /\ vref'.ver = id + 2
\* A life is recycled once, by one process: OnRecycle() and return_resource() never
\* run for a slot already in the pool or for a later life.
RecycledOnce == [][RecyclesOnce]_life_vars

\* A failed socket whose count is zero is recycled, or about to be by one that saw 1->0.
FailedIsRecycled ==
  vref.ref = 0 /\ vref.ver = id + 1
    => \E p \in Procs : pr[p].pc = "recycle" /\ RecycleWon(p)

\* "if nref changes, which must be non-zero, the slot will be returned when nref
\* changes from 1->0 again" (socket_inl.h): the same of a socket released, not failed.  It does not
\* hold: a failed Address() that drops the last reference leaves an even version alone.
ZeroIsRecycled ==
  vref.ref = 0 /\ ~pooled => \E p \in Procs : pr[p].pc = "recycle" /\ RecycleWon(p)

ResetsAlone == \A c \in Checkers : pr[c].pc = "hc_held" /\ pr'[c].pc = "hc_check" =>
                 \A p \in SocketUsers : pr[p].pc \notin {"using", "start_hc", "release_sub"}
\* The descriptor is closed and the buffers are cleared only when no caller that
\* addressed the socket is still in it: the health check is alone with the map.
ResetAlone == [][ResetsAlone]_life_vars

\* The CHECKs of the health check: its socket is failed whenever it looks, and it
\* never works on another life or beside another check of the same life.
Checking(c) == pr[c].pc \in {"hc_reset", "hc_held", "hc_check", "hc_revive", "hc_cas"}
HealthCheckChecks ==
  \A c \in Checkers : Checking(c) =>
    /\ vref.ver = id + 1 /\ pr[c].id = id
    /\ \A d \in Checkers \ {c} : ~Checking(d)

\* The life of a socket is safe.
SocketSafe ==
  LifeTypeOK /\ NotUsedWhenPooled /\ RefsAccounted /\ FailedIsRecycled /\ HealthCheckChecks
\* A life is recycled once, and a health check resets a socket only as its only user.
SocketSteps == [][ResetsAlone /\ RecyclesOnce]_life_vars

-----------------------------------------------------------------------------
(* The inductive invariant.                                                 *)

UserPCs == {"idle", "using", "deref", "unaddress", "recycle", "start_hc", "release", "release_sub", "unheld"}
CheckPCs == {"hc_reset", "hc_held", "hc_check", "hc_revive", "hc_cas", "hc_using", "hc_app", "hc_done"}
CheckerPCs == {"idle", "hc_wait", "deref", "unaddress", "recycle"} \cup CheckPCs
Proc == [pc : UserPCs \cup CheckerPCs, id : Lives, ver : Nat, to : Nat, first : BOOLEAN,
         then : {"idle", "remove", "hc_wait"}]
Typed ==
  /\ socket_conf \in SocketConfs /\ vref \in [ver : Nat, ref : Nat] /\ id \in Lives
  /\ pooled \in BOOLEAN /\ held \in BOOLEAN /\ hc_started \in BOOLEAN
  /\ status \in {"USING", "REVIVING", "RECYCLED"} /\ entry \in [in : BOOLEAN, count : 0 .. MaxCount]
  /\ inflight \in Nat /\ calls \in [Lives -> Nat] /\ fails \in 0 .. socket_conf.fails
  /\ pr \in [Procs -> Proc]
  /\ \A p \in SocketUsers : /\ pr[p].pc \in UserPCs /\ pr[p].then # "hc_wait"
                            /\ pr[p].then = "remove" => pr[p].pc \in {"release", "release_sub", "unheld"}
  /\ \A c \in Checkers : /\ pr[c].pc \in CheckerPCs /\ pr[c].then # "remove"
                         /\ pr[c].then = "hc_wait" => pr[c].pc \in {"deref", "recycle", "hc_wait"}
                         /\ pr[c].pc = "hc_wait" => pr[c].first \/ pr[c].then = "hc_wait"
\* The version is that of the life, failed or not, or of the next one when the slot is free.
Slot == /\ pooled => vref.ver = id + 2 \/ (vref.ver = 0 /\ id = 0)
        /\ ~pooled => vref.ver \in {id, id + 1}
\* Recyclers move the slot from a life that was given out to the next one.
Recyclers == \A p \in Procs : pr[p].pc = "recycle" =>
               \E i \in Ids : pr[p].to = i + 2 /\ pr[p].ver \in {i, i + 1}

\* Who gives the additional reference back of a socket that failed.
Releasing == \E p \in SocketUsers : pr[p].pc \in {"start_hc", "release"}
Reviving == \E c \in Checkers : pr[c].pc \in {"hc_cas", "hc_using"}
StatusOK ==
  /\ pooled => status = "RECYCLED"
  /\ (status = "REVIVING") <=> Reviving
  /\ \A p, q \in SocketUsers : pr[p].pc = "release_sub" =>
       status = "RECYCLED" /\ (pr[q].pc = "release_sub" => p = q)
  /\ ~pooled /\ vref.ver = id + 1 /\ (status = "USING" \/ \E c \in Checkers : pr[c].pc = "hc_using")
       => Releasing

\* The health check of this life: one at a time, of a socket that is failed until it revives it.
InCheck(c) == pr[c].pc \in CheckPCs
Active(c) == /\ pr[c].id = id /\ ~pooled
             /\ InCheck(c) \/ pr[c].pc = "hc_wait" \/ pr[c].then = "hc_wait"
Revived == {"hc_using", "hc_app", "hc_done"}
OneCheck ==
  /\ \A c \in Checkers : pr[c].pc # "idle" => pr[c].id \in Ids
  /\ \A c \in Checkers : InCheck(c) => pr[c].id = id
  /\ \A c \in Checkers : Active(c) => hc_started /\ (pr[c].pc \notin Revived => vref.ver = id + 1)
  /\ \A c, d \in Checkers : Active(c) /\ Active(d) => c = d
  /\ \A p, q \in SocketUsers : pr[p].pc = "start_hc" =>
       vref.ver = id + 1 /\ (pr[q].pc = "start_hc" => p = q)

\* Nobody is in the socket while it is checked: that has begun with two references, one of the
\* check and one of the map or of whoever takes it from the map.
Removing(p) == pr[p].then = "remove" /\ pr[p].pc \in {"release", "release_sub", "unheld"}
Resumes(c) == pr[c].pc \in {"hc_check", "hc_revive"} \/ (Active(c) /\ pr[c].then = "hc_wait")
Alone == \A p \in SocketUsers : pr[p].pc \notin {"using", "start_hc", "release_sub"}
CheckedAlone ==
  /\ held => entry.in \/ \E p \in SocketUsers : Removing(p)
  /\ \A c \in Checkers :
       /\ pr[c].pc = "hc_held" \/ Resumes(c) => status = "RECYCLED"
       /\ pr[c].pc = "hc_held" => \A p \in SocketUsers : pr[p].pc # "release_sub"
       /\ (pr[c].pc = "hc_held" /\ held) \/ Resumes(c) \/ pr[c].pc = "hc_cas" => Alone

\* Application-level checks: the count is that of the calls of this life and of the one about to be
\* made; each goes back to a SetFailed() of its own.
Counting(c) == pr[c].pc \in {"hc_revive", "hc_cas", "hc_using", "hc_app"}
Coming(c) == Active(c) /\ pr[c].pc # "hc_done"
AppCounted ==
  /\ \A i \in Lives : calls[i] <= fails /\ (i \notin Ids => calls[i] = 0)
  /\ inflight <= fails
  /\ ~pooled /\ socket_conf.app =>
       inflight = calls[id] + (IF \E c \in Checkers : Counting(c) THEN 1 ELSE 0)
  /\ ~pooled => calls[id] + (IF \E c \in Checkers : Coming(c) THEN 1 ELSE 0)
                          + (IF \E p \in SocketUsers : pr[p].pc = "start_hc" THEN 1 ELSE 0) <= fails
  /\ ~socket_conf.app => inflight = 0 /\ \A i \in Lives : calls[i] = 0

LifeInv == /\ Typed /\ Slot /\ NotUsedWhenPooled /\ RefsAccounted /\ Recyclers /\ FailedIsRecycled
           /\ StatusOK /\ OneCheck /\ CheckedAlone /\ AppCounted

-----------------------------------------------------------------------------
\* Callers leave the socket alone at last.  Without it the references that
\* Address() of a failed id takes for a moment could keep the count above
\* ExpectedNref, or above zero, at each look.
Quiet == <>[](\A p \in SocketUsers : pr[p].pc = "idle")

\* "`Socket' will be recycled automatically once on one is addressing it" (socket.h): a socket
\* that is removed from the map ends in the pool; one that failed and has a health check is revived.
Gone == ~entry.in \/ (socket_conf.interval /\ Failed)
Returns == Gone ~> pooled \/ ~Gone
\* "previous SetFailed would trigger next round of hc" (health_check.cpp): however often.
ComesBack == Quiet => Returns

\* A SetFailed() that came before the check which revived the socket has cleared _hc_started
\* started no check, and the one under way is not for it.
Overlooked == /\ entry.in /\ Failed /\ \A p \in SocketUsers : pr[p].pc # "start_hc"
              /\ \E c \in Checkers : Active(c) /\ pr[c].pc \in Revived
\* SocketMap::Remove() gave the additional reference back, and a health check still under way
\* has taken another one.
Resurrected == /\ ~entry.in /\ \A p \in SocketUsers : ~(Removing(p) /\ pr[p].pc = "release")
               /\ \E c \in Checkers : pr[c].pc = "hc_using"
\* Address() of the id while it was failed dropped the last reference after the revival, and left
\* the even version at zero (see ZeroIsRecycled).
LeftAtZero == ~Failed /\ ~ZeroIsRecycled
\* These are all that can go wrong: but for them a socket that fails again and again and is removed
\* at any time is revived each time or ends in the pool.
Races == Overlooked \/ Resurrected \/ LeftAtZero
ComesBackButForRaces == Quiet /\ []~Races => Returns

\* The count of application-level checks, which makes the socket unavailable,
\* goes back to zero, or is forgotten with the socket.
AvailableAgain == inflight > 0 ~> inflight = 0 \/ pooled
=============================================================================

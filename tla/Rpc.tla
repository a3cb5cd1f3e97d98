-------------------------------- MODULE Rpc ---------------------------------
(***************************************************************************)
(* One RPC of a client: Channel::CallMethod (channel.cpp) and the          *)
(* Controller (controller.cpp) with its tries, the backup request, the     *)
(* timers, cancellation, responses and failures of connections.  All of    *)
(* them meet at _correlation_id, a bthread_id (see BthreadId): whoever     *)
(* locks it owns the Controller, errors that come meanwhile are queued.    *)
(* Identifier 0 is _correlation_id itself, n + 1 the one of the n-th try.  *)
(***************************************************************************)
EXTENDS Naturals, Sequences, FiniteSets

CONSTANTS Confs  \* [max_retry, timeout, backup, async, connection, unqualified]

VARIABLES conf,     \* how the RPC is set up
          cid,      \* _correlation_id: "free", "locked", "doomed", "gone"
          pending,  \* its pending_q: [id, error]
          cntl,     \* fields of the Controller
          hold,     \* the owner of _correlation_id: [pc, id, responded, saved]
          tries,    \* what became of each try: [written, answer, told, sock, feedback]
          timer,    \* _timeout_id: "none", "backup", "timeout"
          firing,   \* callbacks of timers that bthread_timer_del no longer stops
          cancelled,
          said      \* the errors that were reported for each identifier

vars == <<conf, cid, pending, cntl, hold, tries, timer, firing, cancelled, said>>
timer_vars == <<timer, firing>>

Ids == 0 .. 1 + conf.max_retry
Tries == Ids \ {0}
Retryable == {"EFAILEDSOCKET", "EHOSTDOWN"}
Nobody == [pc |-> "none", id |-> 0, responded |-> FALSE, saved |-> "0"]

Init == /\ conf \in Confs
        /\ cid = "free" /\ pending = <<>> /\ hold = Nobody
        /\ cntl = [used |-> FALSE, error |-> "0", nretry |-> 0, current |-> 0, unfinished |-> 0]
        /\ tries = [i \in Tries |-> [written |-> FALSE, answer |-> "none", told |-> FALSE,
                                     sock |-> "none", feedback |-> 0]]
        /\ timer = "none" /\ firing = {} /\ cancelled = FALSE
        /\ said = [i \in Ids |-> {}]

current_id == cntl.nretry + 1
Held(pc, id, responded, saved) == [pc |-> pc, id |-> id, responded |-> responded, saved |-> saved]

-----------------------------------------------------------------------------
(* The bthread_id of the RPC.                                               *)

\* bthread_id_error: handled at once, or queued for the owner; lost after the end.
bthread_id_error(id, e) ==
  /\ said' = [said EXCEPT ![id] = @ \cup {e}]
  /\ \/ /\ cid = "free" /\ cid' = "locked" /\ hold' = Held("error", id, FALSE, e)
        /\ UNCHANGED pending
     \/ /\ cid \in {"locked", "doomed"} /\ pending' = Append(pending, [id |-> id, error |-> e])
        /\ UNCHANGED <<cid, hold>>
     \/ cid = "gone" /\ UNCHANGED <<cid, hold, pending>>

\* bthread_id_unlock by an owner that leaves q pending: the next error is handled first.
bthread_id_unlock(q) ==
  IF q = <<>>
  THEN cid' = "free" /\ hold' = Nobody /\ pending' = q
  ELSE /\ hold' = Held("error", q[1].id, FALSE, q[1].error) /\ pending' = Tail(q)
       /\ UNCHANGED cid

StartCancel ==
  /\ ~cancelled /\ cancelled' = TRUE
  /\ bthread_id_error(0, "ECANCELED")
  /\ UNCHANGED <<conf, cntl, tries, timer_vars>>

\* Controller::HandleSocketFailed, the on_error of the identifier.
HandleSocketFailed ==
  /\ hold.pc = "error"
  /\ cntl' = [cntl EXCEPT !.error = hold.saved]
  /\ IF cntl.used
     THEN /\ hold' = Held("returned", hold.id, FALSE, cntl.error)
          /\ UNCHANGED <<cid, pending>>
     ELSE bthread_id_unlock(pending)
  /\ UNCHANGED <<conf, tries, timer_vars, cancelled, said>>

-----------------------------------------------------------------------------
(* Channel::CallMethod and Controller::IssueRPC.                            *)

HandleSendFailed(e) ==
  /\ cntl' = [cntl EXCEPT !.used = TRUE, !.error = e]
  /\ hold' = Held("returned", current_id, FALSE, e)
  /\ said' = [said EXCEPT ![current_id] = @ \cup {e}]

Unfailed_Unchecked == TRUE
Unfailed == cntl.error = "0"

\* A request that cannot be serialised, or that was cancelled before, is not sent.
CallMethod ==
  /\ ~cntl.used /\ cid = "free" /\ cid' = "locked"
  /\ \/ /\ HandleSendFailed(IF cntl.error = "0" THEN "EREQUEST" ELSE cntl.error)
        /\ UNCHANGED timer
     \/ /\ Unfailed /\ cntl' = [cntl EXCEPT !.used = TRUE]
        /\ timer' = IF conf.backup THEN "backup" ELSE IF conf.timeout THEN "timeout" ELSE "none"
        /\ hold' = Held("issue", 0, FALSE, "0") /\ UNCHANGED said
  /\ UNCHANGED <<conf, pending, tries, firing, cancelled>>

\* IssueRPC clears what the last try left in _current_call; no server or connection
\* may be found, the server may be chosen in vain, or the request is written.
Cleared_Kept == cntl.current
Cleared == 0

Unissued ==
  /\ hold.pc = "issue"
  /\ LET i == current_id
     IN \/ /\ cntl' = [cntl EXCEPT !.error = "EHOSTDOWN", !.current = Cleared]
           /\ hold' = Held("returned", i, FALSE, "EHOSTDOWN")
           /\ said' = [said EXCEPT ![i] = @ \cup {"EHOSTDOWN"}] /\ UNCHANGED tries
        \/ \E e \in {"EHOSTDOWN", "EREQUEST"}, s \in {"none", "open"} :
             /\ cntl' = [cntl EXCEPT !.error = e, !.current = i]
             /\ tries' = [tries EXCEPT ![i].sock = s]
             /\ hold' = Held("returned", i, FALSE, e)
             /\ said' = [said EXCEPT ![i] = @ \cup {e}]
  /\ UNCHANGED <<conf, cid, pending, timer_vars, cancelled>>

IssueRPC ==
  /\ hold.pc = "issue"
  /\ cntl' = [cntl EXCEPT !.error = "0", !.current = current_id]
  /\ \E ok \in BOOLEAN :
       /\ tries' = [tries EXCEPT ![current_id].written = ok, ![current_id].told = ~ok,
                                 ![current_id].sock = "open"]
       /\ said' = IF ok THEN said ELSE [said EXCEPT ![current_id] = @ \cup {"EFAILEDSOCKET"}]
       /\ bthread_id_unlock(IF ok THEN pending
                            ELSE Append(pending, [id |-> current_id, error |-> "EFAILEDSOCKET"]))
  /\ UNCHANGED <<conf, timer_vars, cancelled>>

-----------------------------------------------------------------------------
(* Answers, failures and timers.                                            *)

\* ProcessRpcResponse, which locks the identifier of the try that is answered.
ProcessRpcResponse(i, e) ==
  /\ tries[i].written /\ tries[i].answer = "none"
  /\ tries' = [tries EXCEPT ![i].answer = e]
  /\ \/ /\ cid = "free" /\ cid' = "locked"
        /\ hold' = Held("returned", i, TRUE, cntl.error)
        /\ cntl' = IF e = "0" THEN cntl ELSE [cntl EXCEPT !.error = e]
        /\ said' = [said EXCEPT ![i] = @ \cup {e}]
     \/ cid \in {"doomed", "gone"} /\ UNCHANGED <<cid, hold, cntl, said>>
  /\ UNCHANGED <<conf, pending, timer_vars, cancelled>>

\* Socket::SetFailed tells the id_wait of a request that it wrote or was to write.
ConnectionFails(i) ==
  /\ tries[i].written /\ ~tries[i].told
  /\ tries' = [tries EXCEPT ![i].told = TRUE]
  /\ bthread_id_error(i, "EFAILEDSOCKET")
  /\ UNCHANGED <<conf, cntl, timer_vars, cancelled>>

TimerRuns ==
  /\ timer # "none" /\ timer' = "none" /\ firing' = firing \cup {timer}
  /\ UNCHANGED <<conf, cid, pending, cntl, hold, tries, cancelled, said>>

\* HandleTimeout and HandleBackupRequest.
HandleTimer(t) ==
  /\ t \in firing /\ firing' = firing \ {t}
  /\ bthread_id_error(0, IF t = "backup" THEN "EBACKUPREQUEST" ELSE "ERPCTIMEDOUT")
  /\ UNCHANGED <<conf, cntl, tries, timer, cancelled>>

-----------------------------------------------------------------------------
(* Controller::OnVersionedRPCReturned and EndRPC.                           *)

\* Call::OnComplete of try i with error e: the socket goes back to the pool only if
\* nothing more can arrive through it; the load balancer is told.
Reusable_Always(e, responded) == TRUE
Reusable(e, responded) == e = "0" \/ responded
OnComplete(ts, i, e, responded) ==
  IF i = 0 THEN ts
  ELSE [ts EXCEPT ![i].feedback = @ + 1,
                  ![i].sock = IF @ # "open" \/ conf.connection = "single" THEN @
                              ELSE IF conf.connection = "pooled" /\ Reusable(e, responded)
                                   THEN "pooled" ELSE "closed"]

Backup == cntl.unfinished # 0 /\ cntl.unfinished = hold.id
Stale_Never == FALSE
Stale == hold.id # 0 /\ hold.id # current_id /\ ~(Backup /\ cntl.error = "0")

Restored_Not == cntl.error
Restored == hold.saved

\* An answer or error of an earlier try is ignored; a failed first request of the
\* two that a backup request makes is completed.
Ignore ==
  /\ hold.pc = "returned" /\ Stale
  /\ tries' = IF Backup THEN OnComplete(tries, hold.id, cntl.error, hold.responded) ELSE tries
  /\ cntl' = [cntl EXCEPT !.error = Restored, !.unfinished = IF Backup THEN 0 ELSE @]
  /\ bthread_id_unlock(pending)
  /\ UNCHANGED <<conf, timer_vars, cancelled, said>>

MayTry_OffByOne == cntl.nretry <= conf.max_retry
MayTry == cntl.nretry < conf.max_retry
GoesOn == /\ hold.pc = "returned" /\ ~Stale /\ MayTry
          /\ cntl.error # "0" \/ conf.unqualified

\* The timer of the backup request has fired; the one of the RPC follows.
Rearmed_Not == timer
Rearmed == IF conf.timeout THEN "timeout" ELSE timer

SendBackupRequest ==
  /\ GoesOn /\ cntl.error = "EBACKUPREQUEST"
  /\ timer' = Rearmed
  /\ cntl' = [cntl EXCEPT !.unfinished = cntl.current, !.current = 0, !.nretry = @ + 1]
  /\ hold' = Held("issue", 0, FALSE, "0")
  /\ UNCHANGED <<conf, cid, pending, tries, firing, cancelled, said>>

\* RetryPolicy::DoRetry: the default one, or one that also retries unqualified answers.
DoRetry == cntl.error \in Retryable \cup (IF conf.unqualified THEN {"0"} ELSE {})

Retry ==
  /\ GoesOn /\ DoRetry
  /\ tries' = OnComplete(tries, cntl.current, cntl.error, hold.responded)
  /\ cntl' = [cntl EXCEPT !.nretry = @ + 1]
  /\ hold' = Held("issue", 0, FALSE, "0")
  /\ UNCHANGED <<conf, cid, pending, timer_vars, cancelled, said>>

\* bthread_id_about_to_destroy of an asynchronous call, then EndRPC, here or in a new bthread.
EndOfRPC ==
  /\ hold.pc = "returned" /\ ~Stale
  /\ ~GoesOn \/ (cntl.error # "EBACKUPREQUEST" /\ cntl.error \notin Retryable)
  /\ cid' = IF conf.async THEN "doomed" ELSE cid
  /\ hold' = [hold EXCEPT !.pc = "end"]
  /\ UNCHANGED <<conf, pending, cntl, tries, timer_vars, cancelled, said>>

Unfinished_Dropped(ts) == ts
Unfinished(ts) == OnComplete(ts, cntl.unfinished,
                             IF cntl.error = "0" THEN "EBACKUPREQUEST" ELSE cntl.error, FALSE)

EndRPC ==
  /\ hold.pc = "end" /\ timer' = "none"
  /\ tries' = IF hold.id \in {0, current_id}
              THEN OnComplete(Unfinished(tries), cntl.current, cntl.error, hold.responded)
              ELSE OnComplete(OnComplete(tries, cntl.current, "ECANCELED", FALSE),
                              cntl.unfinished, cntl.error, hold.responded)
  /\ cntl' = [cntl EXCEPT !.unfinished = 0]
  /\ hold' = [hold EXCEPT !.pc = "done"]
  /\ UNCHANGED <<conf, cid, pending, firing, cancelled, said>>

\* _done->Run() and bthread_id_unlock_and_destroy.
Done ==
  /\ hold.pc = "done"
  /\ cid' = "gone" /\ pending' = <<>> /\ hold' = [hold EXCEPT !.pc = "over"]
  /\ UNCHANGED <<conf, cntl, tries, timer_vars, cancelled, said>>

-----------------------------------------------------------------------------
Owner == \/ HandleSocketFailed \/ Unissued \/ IssueRPC \/ Ignore \/ SendBackupRequest \/ Retry
         \/ EndOfRPC \/ EndRPC \/ Done
Timers == TimerRuns \/ \E t \in {"backup", "timeout"} : HandleTimer(t)
Next == \/ Owner \/ Timers \/ StartCancel \/ CallMethod
        \/ \E i \in Tries : \/ ConnectionFails(i)
                            \/ \E e \in {"0", "EHOSTDOWN", "EREQUEST"} : ProcessRpcResponse(i, e)
Spec == Init /\ [][Next]_vars

\* Threads run and the timer thread calls back.  Servers may never answer.
Fairness == WF_vars(Owner) /\ WF_vars(Timers)
FairSpec == Spec /\ Fairness

-----------------------------------------------------------------------------
Over == hold.pc \in {"done", "over"}

\* Every variable has its type, and the tries stay in the range of the identifier.
TypeOK ==
  /\ cid \in {"free", "locked", "doomed", "gone"} /\ (cid = "free" <=> hold.pc = "none")
  /\ \A n \in DOMAIN pending : pending[n].id \in Ids
  /\ current_id \in Tries /\ {cntl.current, cntl.unfinished, hold.id} \subseteq Ids
  /\ timer \in {"none", "backup", "timeout"} /\ firing \subseteq {"backup", "timeout"}

\* Every try for which a server was chosen is completed once: the load balancer and
\* the circuit breaker hear of it once and its connection is given up once.
CompletedOnce ==
  \A i \in Tries : /\ tries[i].feedback <= 1
                   /\ Over => (tries[i].sock # "none" => tries[i].feedback = 1)

\* A connection in the pool has no answer on its way, which the next RPC that takes
\* the connection would receive.
PooledIsClean == \A i \in Tries : tries[i].sock = "pooled" => tries[i].answer # "none"

\* What the caller sees was said of the whole RPC, of the last try, or (an answer) of
\* the first request of a backup pair, never of a try that was given up.
OutcomeIsCurrent ==
  Over => /\ cntl.error \in said[hold.id]
          /\ hold.id \in {0, current_id} \/ cntl.error = "0"

\* The CHECKs of the Controller: one backup request at a time, the error that is
\* retried is of the current try, and only a try that is still held can end the RPC.
ControllerChecks ==
  /\ GoesOn /\ cntl.error = "EBACKUPREQUEST" => cntl.unfinished = 0
  /\ GoesOn /\ cntl.error # "EBACKUPREQUEST" /\ DoRetry => hold.id = current_id
  /\ hold.pc = "end" => hold.id \in {0, current_id, cntl.unfinished}

\* A backup request that cannot be sent does not end the RPC.
BackupNeverFails == Over => cntl.error # "EBACKUPREQUEST"

\* An RPC with a timeout ends, whatever the servers do; so does one that is cancelled, also when
\* it is cancelled before CallMethod.
MustEnd == cntl.used /\ (conf.timeout \/ cancelled)
Ended == cid = "gone"
CallEnds == MustEnd ~> Ended
=============================================================================

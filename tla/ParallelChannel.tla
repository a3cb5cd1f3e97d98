--------------------------- MODULE ParallelChannel ---------------------------
(***************************************************************************)
(* An RPC over brpc::ParallelChannel (brpc/parallel_channel.cpp): one call *)
(* per sub channel, whose done counts in ParallelChannelDone, which itself *)
(* is the done of the RPC.  The call id of the RPC (a bthread_id) is kept  *)
(* as its lock and the errors that wait for it; a sub call as its outcome  *)
(* and whether it was cancelled.                                           *)
(***************************************************************************)
EXTENDS Integers, Sequences, FiniteSets

CONSTANTS NumChans, Confs   \* [skip, fail_limit, timeout, cancel, bad, merge, async]

VARIABLES conf, called,    \* called: the sub calls started by CallMethod()
          sub,             \* [pc, res, cancelled, todo]: a sub call and its SubDone::Run()
          cid,             \* [lock, pend]: the call id of the RPC
          caller,          \* where CallMethod() is
          run,             \* [pc, ec, todo]: who runs ParallelChannelDone::Run()
          current_fail, current_done, msb,
          rpc              \* [pc, ec, nfailed, completes]: OnComplete()

vars == <<conf, called, sub, cid, caller, run, current_fail, current_done, msb, rpc>>
Chans == 1..NumChans
Dones == Chans \ conf.skip
ndone == Cardinality(Dones)
\* CallMethod(): fail_limit of the options, in 1..ndone.
FailLimit == IF conf.fail_limit < 0 THEN ndone
             ELSE IF conf.fail_limit < 1 THEN 1 ELSE IF conf.fail_limit > ndone THEN ndone ELSE conf.fail_limit

Init == /\ conf \in Confs /\ called = {}
        /\ sub = [i \in Chans |-> [pc |-> "idle", res |-> "none", cancelled |-> FALSE, todo |-> {}]]
        /\ cid = [lock |-> "free", pend |-> <<>>] /\ caller = "lock"
        /\ run = [pc |-> "off", ec |-> "none", todo |-> {}]
        /\ current_fail = 0 /\ current_done = 0 /\ msb = FALSE
        /\ rpc = [pc |-> "off", ec |-> "none", nfailed |-> 0, completes |-> 0]

\* bthread_id_error(cid, ec): the error handler ends the RPC and runs its done, with the id
\* locked for good; an error that finds the id locked waits, one that finds no id is dropped.
Begin(ec) == run' = [pc |-> "load", ec |-> ec, todo |-> {}]
Unlocked_InDone == cid.lock \in {"free", "done"}
Unlocked == cid.lock = "free"
IdError(ec) == \/ Unlocked /\ cid' = [cid EXCEPT !.lock = "done"] /\ Begin(ec)
               \/ ~Unlocked /\ cid.lock # "destroyed" /\ cid' = [cid EXCEPT !.pend = Append(@, ec)] /\ UNCHANGED run
               \/ cid.lock = "destroyed" /\ UNCHANGED <<cid, run>>
Bad == Dones = {} \/ conf.bad
Timeout == /\ conf.timeout /\ caller # "lock" /\ ~Bad /\ (called # {} \/ rpc.ec = "none") /\ conf' = [conf EXCEPT !.timeout = FALSE]
           /\ IdError("ERPCTIMEDOUT")
           /\ UNCHANGED <<called, sub, caller, current_fail, current_done, msb, rpc>>
\* StartCancel(); before CallMethod() it only leaves the error for it.
Cancel == /\ conf.cancel /\ conf' = [conf EXCEPT !.cancel = FALSE]
          /\ IF caller = "lock" THEN rpc' = [rpc EXCEPT !.ec = "ECANCELED"] /\ UNCHANGED <<cid, run>>
             ELSE IdError("ECANCELED") /\ UNCHANGED rpc
          /\ UNCHANGED <<called, sub, caller, current_fail, current_done, msb>>

------------------------------------------------------------------------------
(* CallMethod().  A sub call may run its done in the thread of CallMethod();   *)
(* that it does is one of the interleavings here.                              *)
Lock == /\ caller = "lock" /\ cid' = [cid EXCEPT !.lock = "caller"] /\ caller' = "map"
        /\ UNCHANGED <<conf, called, sub, run, current_fail, current_done, msb, rpc>>
\* Cancelled before, all channels skipped, a CallMapper that says Bad() or a timer that cannot be
\* added: the RPC fails before any sub call.
Fail == /\ caller = "map" /\ (Bad \/ rpc.ec # "none") /\ caller' = "fail"
        /\ rpc' = [rpc EXCEPT !.pc = IF conf.async THEN "done" ELSE "destroy", !.completes = 1,
                              !.ec = IF @ # "none" THEN @ ELSE IF Dones = {} THEN "ECANCELED" ELSE "EREQUEST"]
        /\ UNCHANGED <<conf, called, sub, cid, run, current_fail, current_done, msb>>
Unlock == /\ caller = "map" /\ ~Bad /\ rpc.ec = "none" /\ caller' = "call"
          /\ IF cid.pend = <<>> THEN cid' = [cid EXCEPT !.lock = "free"] /\ UNCHANGED run
             ELSE cid' = [lock |-> "done", pend |-> Tail(cid.pend)] /\ Begin(Head(cid.pend))
          /\ UNCHANGED <<conf, called, sub, current_fail, current_done, msb, rpc>>
NextCall == CHOOSE i \in Dones \ called : \A j \in Dones \ called : i <= j
Call == /\ caller = "call" /\ Dones \ called # {} /\ called' = called \cup {NextCall}
        /\ sub' = [sub EXCEPT ![NextCall].pc = "called"]
        /\ UNCHANGED <<conf, cid, caller, run, current_fail, current_done, msb, rpc>>
\* The end of CallMethod(), which joins the call id when there is no done.
Return == /\ ((caller = "call" /\ Dones \subseteq called) \/ caller = "fail") /\ (conf.async \/ cid.lock = "destroyed") /\ caller' = "end"
          /\ UNCHANGED <<conf, called, sub, cid, run, current_fail, current_done, msb, rpc>>

------------------------------------------------------------------------------
(* A sub call ends, and SubDone::Run() goes through OnSubDoneRun(this).        *)
EndSub(i) ==
  /\ sub[i].pc = "called"
  /\ \E res \in {"ok", "EA", "EB", "ECANCELED"} :
       /\ res = "ECANCELED" => sub[i].cancelled
       /\ sub' = [sub EXCEPT ![i].pc = IF res = "ok" THEN "add" ELSE "fail", ![i].res = res]
  /\ UNCHANGED <<conf, called, cid, caller, run, current_fail, current_done, msb, rpc>>
Reached_Exceeded(n) == n = FailLimit + 1
Reached(n) == n = FailLimit
CountFail(i) ==
  /\ sub[i].pc = "fail" /\ current_fail' = current_fail + 1
  /\ sub' = [sub EXCEPT ![i].pc = "cancel", ![i].todo = IF Reached(current_fail + 1) THEN Dones \ {i} ELSE {}]
  /\ UNCHANGED <<conf, called, cid, caller, run, current_done, msb, rpc>>
CancelSub(S, i) == [S EXCEPT ![i].cancelled = TRUE]
CancelOthers(i) ==
  /\ sub[i].pc = "cancel" /\ UNCHANGED <<conf, called, cid, caller, run, current_fail, current_done, msb, rpc>>
  /\ \/ sub[i].todo = {} /\ sub' = [sub EXCEPT ![i].pc = "add"]
     \/ \E j \in sub[i].todo : sub' = CancelSub([sub EXCEPT ![i].todo = @ \ {j}], j)
\* One fetch_add tells the last sub call, and whether Run() has been here before it.
RunCame_Any == TRUE
RunCame == msb
AddDone(i) == /\ sub[i].pc = "add" /\ current_done' = current_done + 1
              /\ sub' = [sub EXCEPT ![i].pc = IF current_done + 1 # ndone THEN "ended"
                                              ELSE IF RunCame THEN "complete" ELSE "finish"]
              /\ UNCHANGED <<conf, called, cid, caller, run, current_fail, msb, rpc>>
Finish(i) == /\ sub[i].pc = "finish" /\ sub' = [sub EXCEPT ![i].pc = "ended"] /\ IdError("EPCHANFINISH")
             /\ UNCHANGED <<conf, called, caller, current_fail, current_done, msb, rpc>>
Rendezvous == rpc' = [rpc EXCEPT !.pc = "merge", !.completes = @ + 1]
Complete(i) == /\ sub[i].pc = "complete" /\ sub' = [sub EXCEPT ![i].pc = "ended"] /\ Rendezvous
               /\ UNCHANGED <<conf, called, cid, caller, run, current_fail, current_done, msb>>

------------------------------------------------------------------------------
(* ParallelChannelDone::Run(): OnSubDoneRun(NULL).  The sub calls are          *)
(* cancelled first, because they may be gone after the fetch_or.               *)
Before == UNCHANGED <<conf, called, cid, caller, current_fail, current_done>>
LoadDone == /\ run.pc = "load" /\ Before /\ UNCHANGED <<sub, msb, rpc>>
            /\ run' = [run EXCEPT !.pc = "cancel", !.todo = IF current_done # ndone THEN Dones ELSE {}]
CancelSubs == \E j \in run.todo : /\ run.pc = "cancel" /\ run' = [run EXCEPT !.todo = @ \ {j}]
                                  /\ sub' = CancelSub(sub, j) /\ Before /\ UNCHANGED <<msb, rpc>>
AllDone_ButOne == current_done >= ndone - 1
AllDone == current_done = ndone
OrDone == /\ run.pc = "cancel" /\ run.todo = {} /\ msb' = TRUE /\ Before /\ UNCHANGED <<sub, rpc>>
          /\ run' = [run EXCEPT !.pc = IF AllDone THEN "complete" ELSE "end"]
CompleteRun == run.pc = "complete" /\ run' = [run EXCEPT !.pc = "end"] /\ Rendezvous /\ Before /\ UNCHANGED <<sub, msb>>

\* OnComplete(): responses are merged unless too many sub calls failed, a merger may fail some
\* or all; then the error of the RPC is kept, taken from the sub calls or cleared.
Errors == {sub[i].res : i \in Dones} \ {"ok", "ECANCELED"}
Unified == IF Errors = {} THEN "ECANCELED"
           ELSE IF Cardinality(Errors) = 1 THEN CHOOSE e \in Errors : TRUE ELSE "ETOOMANYFAILS"
Own == IF run.ec = "EPCHANFINISH" THEN "none" ELSE run.ec
Merged == IF current_fail >= FailLimit THEN {current_fail}
          ELSE {n \in current_fail..ndone : conf.merge \/ n = current_fail}
Failed_Own(n) == n >= FailLimit \/ Own # "none"
Failed(n) == n >= FailLimit
\* A merger that fails all of them sets ERESPONSE.
Kept(n) == {IF Own # "none" THEN Own ELSE Unified}
             \cup (IF n = ndone /\ n > current_fail THEN {"ERESPONSE"} ELSE {})
Merge == /\ rpc.pc = "merge"
         /\ \E nfailed \in Merged : \E ec \in IF Failed(nfailed) THEN Kept(nfailed) ELSE {"none"} :
              rpc' = [rpc EXCEPT !.pc = IF conf.async THEN "done" ELSE "destroy", !.nfailed = nfailed, !.ec = ec]
         /\ UNCHANGED <<conf, called, sub, cid, caller, run, current_fail, current_done, msb>>
UserDone == /\ rpc.pc = "done" /\ rpc' = [rpc EXCEPT !.pc = "destroy"]
            /\ UNCHANGED <<conf, called, sub, cid, caller, run, current_fail, current_done, msb>>
DestroyId == /\ rpc.pc = "destroy" /\ rpc' = [rpc EXCEPT !.pc = "end"] /\ cid' = [lock |-> "destroyed", pend |-> <<>>]
             /\ UNCHANGED <<conf, called, sub, caller, run, current_fail, current_done, msb>>

SubStep(i) == CountFail(i) \/ CancelOthers(i) \/ AddDone(i) \/ Finish(i) \/ Complete(i)
RunStep == LoadDone \/ CancelSubs \/ OrDone \/ CompleteRun
EndStep == Merge \/ UserDone \/ DestroyId
CallStep == Fail \/ Unlock \/ Call \/ Return
Next == Timeout \/ Cancel \/ Lock \/ CallStep \/ RunStep \/ EndStep \/ \E i \in Chans : EndSub(i) \/ SubStep(i)
Spec == Init /\ [][Next]_vars
\* Threads go on and a cancelled sub call ends; an answer of a sub channel may never come.
Fairness == /\ WF_vars(CallStep) /\ WF_vars(RunStep) /\ WF_vars(EndStep)
            /\ \A i \in Chans : WF_vars(SubStep(i)) /\ WF_vars(sub[i].cancelled /\ EndSub(i))
FairSpec == Spec /\ Fairness

------------------------------------------------------------------------------
\* Every variable has its type.
TypeOK == /\ called \subseteq Chans /\ current_fail \in 0..NumChans /\ current_done \in 0..NumChans
          /\ msb \in BOOLEAN /\ cid.lock \in {"free", "caller", "done", "destroyed"}
          /\ caller \in {"lock", "map", "fail", "call", "end"} /\ rpc.completes \in Nat

\* One and only one thread arrives at OnComplete(): the last SubDone or Run(), whichever comes later.
CompletesOnce == rpc.completes <= 1

\* When the user may have deleted the Controller, and with it ParallelChannelDone and the sub
\* controllers, nobody is about to use them: not CallMethod(), not Run(), no SubDone.
Deleted == IF conf.async THEN rpc.pc \in {"destroy", "end"} ELSE caller = "end"
NotTouched == Deleted => /\ run.pc \in {"off", "end"}
                         /\ \A i \in Chans : sub[i].pc \in {"idle", "ended", "finish"}
                         /\ caller = "call" => Dones \subseteq called

\* The RPC fails if and only if fail_limit sub calls failed, their merging included, even when
\* it timed out or was cancelled.
OutcomeExact == (rpc.pc \in {"done", "destroy", "end"} /\ called # {}) =>
                  LET failed == Cardinality({i \in Dones : sub[i].res # "ok"}) IN
                  (rpc.ec = "none") <=> (failed < FailLimit /\ rpc.nfailed < FailLimit)

\* When fail_limit is reached, the timeout fires or the RPC is cancelled, the RPC ends, whether
\* or not the sub channels ever answer.
MustEnd == run.pc # "off" \/ (called # {} /\ current_fail >= FailLimit)
Ended == rpc.pc = "end"
StopsSoon == MustEnd ~> Ended
==============================================================================

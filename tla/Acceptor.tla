------------------------------ MODULE Acceptor -------------------------------
(***************************************************************************)
(* brpc::Acceptor (brpc/acceptor.cpp): a listening socket, the map of the  *)
(* connections accepted from it, and the bthread that closes idle ones.    *)
(* One thread owns the Acceptor (starts, joins, destroys it), another may  *)
(* stop it.  Of a Socket only what the Acceptor relies on is kept: it can  *)
(* be addressed while it has references, is recycled when the last one is  *)
(* given back, and then calls BeforeRecycle() of its user.                 *)
(***************************************************************************)
EXTENDS Integers, FiniteSets, FiniteSetsExt

CONSTANTS Listeners, Conns,   \* the SocketIds to come, disjoint sets of numbers
          Confs               \* [fd, idle, fails, streams]

VARIABLES conf,
          am,     \* [status, idle, fd, acception, map, alive]
          sk,     \* sockets: [st, add, ref]
          th,     \* the threads that call the Acceptor: [pc, ids, del]
          acc,    \* the bthread in OnNewConnections: [pc, l, c]
          closer, \* the bthread in CloseIdleConnections: [pc, ids, stop]
          cond    \* _empty_cond: the threads that wait

vars == <<conf, am, sk, th, acc, closer, cond>>
Threads == {"owner", "stopper"}
Ids == Listeners \cup Conns
None == 0

Init == /\ conf \in Confs
        /\ am = [status |-> "UNINITIALIZED", idle |-> FALSE, fd |-> -1, acception |-> None,
                 map |-> {}, alive |-> TRUE]
        /\ sk = [i \in Ids |-> [st |-> "none", add |-> FALSE, ref |-> 0]]
        /\ th = [t \in Threads |-> [pc |-> "out", ids |-> {}, del |-> FALSE]]
        /\ acc = [pc |-> "off", l |-> None, c |-> None]
        /\ closer = [pc |-> "off", ids |-> {}, stop |-> FALSE] /\ cond = {}

------------------------------------------------------------------------------
(* Sockets.  The last reference makes a socket unaddressable at once; its      *)
(* BeforeRecycle comes later (`dying').                                        *)
Addressable(i) == sk[i].st = "ok"
AddressableFailed(i) == sk[i].st \in {"ok", "failed"}
Settled(s) == IF s.ref = 0 /\ ~s.add THEN [s EXCEPT !.st = "dying"] ELSE s
Dereferred(s) == Settled([s EXCEPT !.ref = @ - 1])
Released(s) == Settled([s EXCEPT !.add = FALSE])
SetFailed(s) == IF s.st = "ok" THEN Settled([s EXCEPT !.st = "failed", !.add = FALSE]) ELSE s
NextOf(S) == Min({i \in S : sk[i].st = "none"})
Created(s) == [s EXCEPT !.st = "ok", !.add = TRUE]
\* StartAccept() has the _map_mutex for ever when the socket it failed to create is recycled.
Unlocked == th["owner"].pc # "stuck"
Waker == IF "owner" \in cond THEN [th EXCEPT !["owner"].pc = "join"] ELSE th

\* BeforeRecycle() of the listening socket or of a connection.
Erased_Running(i) == IF am.status = "RUNNING" THEN am.map \ {i} ELSE am.map
Erased(i) == am.map \ {i}
Emptied_Never(m) == FALSE
Emptied(m) == m = {}
BeforeRecycle(i) ==
  /\ Unlocked /\ sk[i].st = "dying" /\ sk' = [sk EXCEPT ![i].st = "gone"]
  /\ IF i = am.acception
       THEN am' = [am EXCEPT !.fd = -1] /\ th' = Waker /\ cond' = {}
       ELSE /\ am' = [am EXCEPT !.map = Erased(i)]
            /\ IF Emptied(Erased(i)) THEN th' = Waker /\ cond' = {} ELSE UNCHANGED <<th, cond>>
  /\ UNCHANGED <<conf, acc, closer>>

\* A request comes in and refers to its connection until it is answered; the peer closes.
Request(i) == /\ i \in Conns /\ Addressable(i) /\ sk[i].ref = 0
              /\ sk' = [sk EXCEPT ![i].ref = @ + 1] /\ UNCHANGED <<conf, am, th, acc, closer, cond>>
Answered(i) == /\ i \in Conns /\ sk[i].ref > IF acc.c = i /\ acc.pc # "created" THEN 1 ELSE 0
               /\ sk' = [sk EXCEPT ![i] = Dereferred(@)]
               /\ UNCHANGED <<conf, am, th, acc, closer, cond>>
PeerCloses(i) == /\ i \in Conns /\ sk[i].st = "ok"
                 /\ sk' = [sk EXCEPT ![i] = SetFailed(@)] /\ UNCHANGED <<conf, am, th, acc, closer, cond>>

------------------------------------------------------------------------------
(* StartAccept(), all of it under _map_mutex: the bthread for idle connections *)
(* first, then the listening socket, which may fail to be created: without     *)
(* memory, or later, when it is recycled and BeforeRecycle() wants the mutex.  *)
Start == /\ th["owner"].pc = "out" /\ am.alive /\ th["stopper"].pc = "out"
         /\ am.status \in {"UNINITIALIZED", "READY"} /\ closer.pc = "off" /\ \E l \in Listeners : sk[l].st = "none"
         /\ closer' = IF conf.idle THEN [pc |-> "sleep", ids |-> {}, stop |-> FALSE] ELSE closer
         /\ LET l == NextOf(Listeners) IN
            \/ /\ sk' = [sk EXCEPT ![l] = Created(@)]
               /\ am' = [am EXCEPT !.status = "RUNNING", !.idle = conf.idle, !.acception = l, !.fd = conf.fd]
               /\ UNCHANGED th
            \/ /\ conf.fails /\ am' = [am EXCEPT !.status = "READY", !.idle = conf.idle]
               /\ \/ sk' = [sk EXCEPT ![l].st = "gone"] /\ UNCHANGED th
                  \/ sk' = [sk EXCEPT ![l].st = "dying"] /\ th' = [th EXCEPT !["owner"].pc = "stuck"]
         /\ UNCHANGED <<conf, acc, cond>>

After(t) == IF th[t].del THEN "delete_join" ELSE "out"

\* StopAccept(): the status under the lock, the listening socket, the list, one connection after
\* the other.  ~Acceptor() calls it as well, and nobody else calls the Acceptor then.
Stop(t) == /\ Unlocked /\ am.alive /\ IF t = "owner" THEN th[t].pc = "delete" ELSE th[t].pc = "out" /\ ~th["owner"].del
           /\ IF am.status = "RUNNING"
                THEN am' = [am EXCEPT !.status = "STOPPING"] /\ th' = [th EXCEPT ![t].pc = "fail"]
                ELSE th' = [th EXCEPT ![t].pc = After(t)] /\ UNCHANGED am
           /\ UNCHANGED <<conf, sk, acc, closer, cond>>
FailAcception(t) ==
  /\ th[t].pc = "fail" /\ sk' = [sk EXCEPT ![am.acception] = SetFailed(@)]
  /\ th' = [th EXCEPT ![t].pc = "list"] /\ UNCHANGED <<conf, am, acc, closer, cond>>
ListConnections(t) == /\ th[t].pc = "list" /\ th' = [th EXCEPT ![t].pc = "erase", ![t].ids = am.map]
                      /\ UNCHANGED <<conf, am, sk, acc, closer, cond>>
Dropped(i) == IF i \in conf.streams THEN SetFailed(sk[i]) ELSE Released(sk[i])
EraseOne(t) ==
  /\ th[t].pc = "erase" /\ UNCHANGED <<conf, am, acc, closer, cond>>
  /\ \/ th[t].ids = {} /\ th' = [th EXCEPT ![t].pc = After(t)] /\ UNCHANGED sk
     \/ \E i \in th[t].ids : /\ th' = [th EXCEPT ![t].ids = @ \ {i}]
                             /\ sk' = IF Addressable(i) THEN [sk EXCEPT ![i] = Dropped(i)] ELSE sk

\* Join(), also by ~Acceptor(): wait for the last BeforeRecycle(), then stop the bthread for idle
\* connections.
Goto(pc) == th' = [th EXCEPT !["owner"].pc = pc]
Leave == Goto(IF th["owner"].del THEN "destroy" ELSE "out")
Join == /\ am.alive /\ (th["owner"].pc = "out" \/ th["owner"].pc = "delete_join")
        /\ IF am.status \in {"RUNNING", "STOPPING"} THEN Goto("join") ELSE Leave
        /\ UNCHANGED <<conf, am, sk, acc, closer, cond>>
Occupied_ByMap == am.map # {}
Occupied == am.fd > 0 \/ am.map # {}
JoinLoop ==
  /\ th["owner"].pc = "join" /\ UNCHANGED <<conf, sk, acc>>
  /\ IF Occupied
       THEN cond' = {"owner"} /\ Goto("waiting") /\ UNCHANGED <<am, closer>>
       ELSE /\ am' = [am EXCEPT !.idle = FALSE] /\ UNCHANGED cond
            /\ IF am.idle THEN Goto("join_idle") /\ closer' = [closer EXCEPT !.stop = TRUE]
               ELSE Goto("ready") /\ UNCHANGED closer
JoinIdle == /\ th["owner"].pc = "join_idle" /\ closer.pc = "off" /\ Goto("ready")
            /\ UNCHANGED <<conf, am, sk, acc, closer, cond>>
Ready == /\ th["owner"].pc = "ready" /\ am' = [am EXCEPT !.status = "READY"] /\ Leave
         /\ UNCHANGED <<conf, sk, acc, closer, cond>>
Delete == /\ th["owner"].pc = "out" /\ am.alive /\ th["stopper"].pc = "out"
          /\ th' = [th EXCEPT !["owner"].pc = "delete", !["owner"].del = TRUE]
          /\ UNCHANGED <<conf, am, sk, acc, closer, cond>>
Destroy == /\ th["owner"].pc = "destroy" /\ am' = [am EXCEPT !.alive = FALSE] /\ Goto("end")
           /\ UNCHANGED <<conf, sk, acc, closer, cond>>

------------------------------------------------------------------------------
(* OnNewConnections(), in a bthread that refers to the listening socket.       *)
Stay == UNCHANGED <<conf, th, closer, cond>>
NewEvent == /\ acc.pc = "off" /\ \E l \in Listeners : Addressable(l)
            /\ acc' = [acc EXCEPT !.pc = "accept", !.l = am.acception]
            /\ sk' = [sk EXCEPT ![am.acception].ref = @ + 1] /\ UNCHANGED am /\ Stay
\* accept() gives a connection, and a Socket is created for it; or EAGAIN.
Accept == /\ acc.pc = "accept" /\ \E c \in Conns : sk[c].st = "none"
          /\ acc' = [acc EXCEPT !.pc = "created", !.c = NextOf(Conns)]
          /\ sk' = [sk EXCEPT ![NextOf(Conns)] = Created(@)] /\ UNCHANGED am /\ Stay
EAGAIN == acc.pc = "accept" /\ acc' = [acc EXCEPT !.pc = "more"] /\ UNCHANGED <<am, sk>> /\ Stay
AddressFailedAsWell ==
  /\ acc.pc = "created" /\ UNCHANGED am /\ Stay
  /\ IF AddressableFailed(acc.c)
       THEN sk' = [sk EXCEPT ![acc.c].ref = @ + 1] /\ acc' = [acc EXCEPT !.pc = "insert"]
       ELSE acc' = [acc EXCEPT !.pc = "accept", !.c = None] /\ UNCHANGED sk
\* The status is read and the connection inserted under one lock.
IsRunning_Open == am.fd > 0
IsRunning == am.status = "RUNNING"
Insert == /\ acc.pc = "insert" /\ am' = [am EXCEPT !.map = @ \cup {acc.c}]
          /\ acc' = [acc EXCEPT !.pc = IF IsRunning THEN "release" ELSE "discard"]
          /\ UNCHANGED sk /\ Stay
Discard == /\ acc.pc = "discard" /\ sk' = [sk EXCEPT ![acc.c] = Dereferred(SetFailed(@))]
           /\ acc' = [acc EXCEPT !.pc = "more", !.c = None] /\ UNCHANGED am /\ Stay
Release == /\ acc.pc = "release" /\ sk' = [sk EXCEPT ![acc.c] = Dereferred(@)]
           /\ acc' = [acc EXCEPT !.pc = "accept", !.c = None] /\ UNCHANGED am /\ Stay
\* MoreReadEvents() unless the listening socket has failed; the end of the bthread.
More == acc.pc = "more" /\ sk[acc.l].st = "ok" /\ acc' = [acc EXCEPT !.pc = "accept"] /\ UNCHANGED <<am, sk>> /\ Stay
EndEvent == /\ acc.pc = "more" /\ acc' = [acc EXCEPT !.pc = "off"]
            /\ sk' = [sk EXCEPT ![acc.l] = Dereferred(@)] /\ UNCHANGED am /\ Stay

(* CloseIdleConnections().                                                     *)
CloserRests == UNCHANGED <<conf, am, th, acc, cond>>
Check == /\ closer.pc = "sleep" /\ ~closer.stop /\ am.map # {} /\ UNCHANGED sk /\ CloserRests
         /\ closer' = [closer EXCEPT !.pc = "check", !.ids = am.map]
Idle == /\ closer.pc = "check" /\ CloserRests
        /\ \/ closer.ids = {} /\ closer' = [closer EXCEPT !.pc = "sleep"] /\ UNCHANGED sk
           \/ \E i \in closer.ids : /\ closer' = [closer EXCEPT !.ids = @ \ {i}]
                                    /\ \/ UNCHANGED sk
                                       \/ Addressable(i) /\ sk' = [sk EXCEPT ![i] = Dropped(i)]
Stopped == /\ closer.pc = "sleep" /\ closer.stop /\ closer' = [closer EXCEPT !.pc = "off"]
           /\ UNCHANGED sk /\ CloserRests

Stopping(t) == FailAcception(t) \/ ListConnections(t) \/ EraseOne(t)
Joining == JoinLoop \/ JoinIdle \/ Ready
Accepting == AddressFailedAsWell \/ Insert \/ Discard \/ Release \/ EndEvent \/ EAGAIN
Next == \/ \E i \in Ids : BeforeRecycle(i) \/ Request(i) \/ Answered(i) \/ PeerCloses(i)
        \/ Start \/ Join \/ Joining \/ Delete \/ Destroy
        \/ \E t \in Threads : Stop(t) \/ Stopping(t)
        \/ NewEvent \/ Accept \/ More \/ Accepting
        \/ Check \/ Idle \/ Stopped
Spec == Init /\ [][Next]_vars
\* Bthreads and calls go on, requests are answered; nobody has to start, stop or connect.
Fairness == /\ \A i \in Ids : WF_vars(BeforeRecycle(i)) /\ WF_vars(Answered(i))
            /\ \A t \in Threads : WF_vars(Stopping(t))
            /\ WF_vars(Joining) /\ WF_vars(Accepting) /\ WF_vars(Idle \/ Stopped)
FairSpec == Spec /\ Fairness

------------------------------------------------------------------------------
\* Every variable has its type; only its holders refer to a socket.
TypeOK == /\ am.map \subseteq Conns /\ am.acception \in Listeners \cup {None} /\ cond \subseteq {"owner"}
          /\ \A i \in Ids : /\ sk[i].st \in {"none", "ok", "failed", "dying", "gone"} /\ sk[i].ref \in 0..2
                           /\ sk[i].st \in {"none", "dying", "gone"} <=> sk[i].ref = 0 /\ ~sk[i].add

\* No entry of the map outlives its connection: BeforeRecycle() comes once, and Join() would wait
\* for ever for an entry that is inserted after it.
MapExact == \A i \in am.map : sk[i].st # "gone"

\* When StopAccept() is through, no connection keeps its own reference, whenever it was accepted:
\* those the list missed are discarded by OnNewConnections().
StopMissesNone == (am.status = "STOPPING" /\ \A t \in Threads : th[t].pc \notin {"fail", "list", "erase"})
                    => \A i \in am.map : sk[i].add => acc.pc = "discard" /\ acc.c = i

\* After Join() the Acceptor may be started again or destroyed: nothing that uses it is left, but
\* for a connection that was being recycled before it could be put into the map.
JoinedIsQuiet == ((am.status = "READY" /\ Unlocked) \/ ~am.alive) =>
                   /\ acc.pc = "off" /\ closer.pc = "off" /\ am.map = {}
                   /\ \A l \in Listeners : sk[l].st \in {"none", "gone"}
                   /\ \A c \in Conns : sk[c].st \in {"none", "dying", "gone"}

\* The bthread for idle connections does not outlive the Acceptor.
IdleStoppedByDestructor == ~am.alive => closer.pc = "off"

\* Join() of a stopped Acceptor returns.
Ended == th["owner"].pc \notin {"join", "waiting", "join_idle"}
MustEnd == am.status = "STOPPING" /\ ~Ended
JoinReturns == MustEnd ~> Ended
==============================================================================

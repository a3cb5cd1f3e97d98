----------------------------- MODULE MCBrpcLive ------------------------------
(* Liveness of the components of brpc, each on a small instance of its own: a *)
(* behaviour is one of the component `part', the others do not move.          *)
EXTENDS Integers, TLC
CONSTANTS t1, t2, c1, c2, r1, r2, NULL,
          Parts, LifeConfs, StreamConfs  \* what is checked
VARIABLES part,
          socket_conf, vref, id, pooled, status, held, hc_started, entry, inflight, calls, pr, fails,
          head, next, rq, wr, wire, unwritten, overcrowded, shut, fd, failing, waitlist, pipe,
          notes, order,
          call, cid, pending, cntl, hold, tries, timer, firing, cancelled, said,
          i_conf, i_wire, i_fd, event, disp, nevent, ninprocess, eof, failed, auth, got, cut, rd,
          msg, lives,
          s_conf, s, host, s_wire, out, queue, th, rpc, sent, recv,
          a_conf, am, sk, a_th, acc, closer, cond,
          p_conf, called, sub, p_cid, caller, run, current_fail, current_done, msb, p_rpc

\* Without health check; with it and application-level checks, of a socket that fails twice,
\* possibly while it is checked, and may be removed.
Unchecked == [shared |-> TRUE, interval |-> FALSE, app |-> FALSE, fails |-> 1,
              ops |-> {"address", "fail", "remove"}]
Checked == [shared |-> TRUE, interval |-> TRUE, app |-> TRUE, fails |-> 2,
            ops |-> {"address", "fail", "remove"}]
AnyLife == {Unchecked, Checked}
FailsTwice == {[Checked EXCEPT !.ops = {"address", "fail"}]}
Life == INSTANCE SocketLife WITH
          SocketUsers <- {t1, t2}, Checkers <- {c1, c2}, MaxLives <- 1, MaxCount <- 1,
          SocketConfs <- LifeConfs
Writing == INSTANCE SocketWrite WITH
          Reqs <- {r1, r2}, DATA_LIST_MAX <- 2, MaxUnwritten <- 3,
          Options <- {[size |-> 1, shutdown |-> b, notify |-> ~b, background |-> b,
                       ignore |-> b, pipelined |-> TRUE, msgfails |-> FALSE] : b \in BOOLEAN}

\* A backup request and one try more; one retry without a timeout.
Calling == INSTANCE Rpc WITH
          Confs <- {[max_retry |-> 1, timeout |-> t, backup |-> t, async |-> TRUE,
                     connection |-> "short", unqualified |-> FALSE] : t \in BOOLEAN},
          conf <- call

\* A client with authentication, whose reads may fail.
Reading == INSTANCE InputEvent WITH
          Readers <- {"r1", "r2"}, Messages <- {1, 2},
          Confs <- {[client |-> TRUE, verify |-> TRUE, bad |-> 0, progressive |-> FALSE,
                     stale |-> FALSE, lives |-> 1, errors |-> TRUE]},
          conf <- i_conf, wire <- i_wire, fd <- i_fd
\* Two writers at the client, which wait asynchronously or with a deadline, connected or not;
\* or without either.
Buffers(waits) ==
  [max_buf |-> 2, min_buf |-> 1, limited |-> FALSE, lens |-> {2},
   handler |-> [x \in {"client", "server"} |-> TRUE], waits |-> waits, crowds |-> FALSE,
   users |-> {"c1", "c2"}, writes |-> ("client" :> 2 @@ "server" :> 0)]
Waits == {Buffers({<<FALSE, FALSE>>, <<TRUE, TRUE>>})}
WaitsForEver == {Buffers({<<TRUE, FALSE>>})}
Streaming == INSTANCE Stream WITH
          Threads <- {"c1", "c2"}, SideOf <- ("c1" :> "client" @@ "c2" :> "client"),
          Confs <- StreamConfs, conf <- s_conf, wire <- s_wire

\* One listener with idle connections closed, one connection with a stream.
Accepting == INSTANCE Acceptor WITH
          Listeners <- {1}, Conns <- {3},
          Confs <- {[fd |-> 3, idle |-> TRUE, fails |-> FALSE, streams |-> {3}]},
          conf <- a_conf, th <- a_th
\* Two sub channels, one of which may fail; with a timeout, and cancelled.
Fanning == INSTANCE ParallelChannel WITH
          NumChans <- 2,
          Confs <- {[skip |-> {}, fail_limit |-> 1, timeout |-> TRUE, cancel |-> TRUE, bad |-> FALSE,
                     merge |-> FALSE, async |-> FALSE]},
          conf <- p_conf, cid <- p_cid, rpc <- p_rpc

life_vars == <<socket_conf, vref, id, pooled, status, held, hc_started, entry, inflight, calls, pr, fails>>
write_vars == <<head, next, rq, wr, wire, unwritten, overcrowded, shut, fd, failing, waitlist,
                pipe, notes, order>>
rpc_vars == <<call, cid, pending, cntl, hold, tries, timer, firing, cancelled, said>>
input_vars == <<i_conf, i_wire, i_fd, event, disp, nevent, ninprocess, eof, failed, auth, got,
                cut, rd, msg, lives>>
stream_vars == <<s_conf, s, host, s_wire, out, queue, th, rpc, sent, recv>>
acceptor_vars == <<a_conf, am, sk, a_th, acc, closer, cond>>
parallel_vars == <<p_conf, called, sub, p_cid, caller, run, current_fail, current_done, msb, p_rpc>>
vars == <<part, life_vars, write_vars, rpc_vars, input_vars, stream_vars, acceptor_vars, parallel_vars>>
Only(p) == /\ part = p /\ UNCHANGED part
           /\ IF p = "life" THEN UNCHANGED socket_conf ELSE UNCHANGED life_vars
           /\ IF p = "write" THEN TRUE ELSE UNCHANGED write_vars
           /\ IF p = "rpc" THEN TRUE ELSE UNCHANGED rpc_vars
           /\ IF p = "input" THEN TRUE ELSE UNCHANGED input_vars
           /\ IF p = "stream" THEN TRUE ELSE UNCHANGED stream_vars
           /\ IF p = "acceptor" THEN TRUE ELSE UNCHANGED acceptor_vars
           /\ IF p = "parallel" THEN TRUE ELSE UNCHANGED parallel_vars
InLife(A) == Only("life") /\ A
InWriting(A) == Only("write") /\ A

Init == /\ part \in Parts
        /\ Life!LifeInit /\ Writing!Init /\ Calling!Init /\ Reading!InputInit /\ Streaming!Init
        /\ Accepting!Init /\ Fanning!Init
        /\ part # "life" => socket_conf = CHOOSE c \in LifeConfs : TRUE
        /\ part # "stream" => s_conf = CHOOSE c \in StreamConfs : TRUE
        /\ part # "write" => fd = "open"
        /\ part # "rpc" => call.timeout
Next == \/ Only("life") /\ Life!LifeNext
        \/ Only("write") /\ Writing!Next
        \/ Only("rpc") /\ Calling!Next
        \/ Only("input") /\ Reading!InputNext
        \/ Only("stream") /\ Streaming!Next
        \/ Only("acceptor") /\ Accepting!Next
        \/ Only("parallel") /\ Fanning!Next

\* The fairness of each component.  What a thread, a task or a socket may do next depends on where
\* it is, so it has one condition of fairness.  One health check and one writer run at a time.  As
\* the parts exclude each other, fairness of a disjunction of actions of different parts is
\* fairness of each.
InRpc(A) == Only("rpc") /\ A
InInput(A) == Only("input") /\ A
InStream(A) == Only("stream") /\ A
InAcceptor(A) == Only("acceptor") /\ A
InParallel(A) == Only("parallel") /\ A
Fairness ==
  /\ WF_vars(InLife(Life!Continue(t1) \/ Life!Use(t1)) \/ InWriting(Writing!Step(r1))
             \/ InInput(Reading!Dispatch) \/ InStream(Streaming!Handshake)
             \/ InAcceptor(Accepting!BeforeRecycle(1)) \/ InParallel(Fanning!CallStep))
  /\ WF_vars(InLife(Life!Continue(t2) \/ Life!Use(t2)) \/ InWriting(Writing!Step(r2))
             \/ InInput(\E r \in {"r1", "r2"} : Reading!OnNewMessages(r)) \/ InStream(Streaming!Call("c1"))
             \/ InAcceptor(Accepting!BeforeRecycle(3) \/ Accepting!Answered(3)) \/ InParallel(Fanning!RunStep))
  /\ WF_vars(InLife(Life!Continue(c1) \/ Life!Check(c1))
             \/ InWriting(failing = "other" /\ Writing!OtherSetFailed)
             \/ InInput(Reading!Start(1) \/ Reading!Destroy(1)) \/ InStream(Streaming!Call("c2"))
             \/ InAcceptor(Accepting!Stopping("owner") \/ Accepting!Joining) \/ InParallel(Fanning!EndStep))
  /\ WF_vars(InLife(Life!Continue(c2) \/ Life!Check(c2)) \/ InRpc(Calling!Owner)
             \/ InInput(Reading!Start(2) \/ Reading!Destroy(2)) \/ InStream(Streaming!Library("client"))
             \/ InAcceptor(Accepting!Stopping("stopper")) \/ InParallel(Fanning!SubStep(1)))
  /\ WF_vars(InLife(Life!AppCheck(0)) \/ InRpc(Calling!Timers) \/ InStream(Streaming!Library("server"))
             \/ InAcceptor(Accepting!Accepting) \/ InParallel(Fanning!SubStep(2)))
  /\ WF_vars(InStream(\/ ~host["server"] /\ Streaming!HostFails("client")
                      \/ ~host["client"] /\ Streaming!HostFails("server"))
             \/ InAcceptor(Accepting!Idle \/ Accepting!Stopped)
             \/ InParallel(sub[1].cancelled /\ Fanning!EndSub(1)))
  /\ WF_vars(InStream(Streaming!RpcFails) \/ InParallel(sub[2].cancelled /\ Fanning!EndSub(2)))
  /\ SF_vars(InLife(\E c \in {c1, c2} : Life!CheckHealth(c) /\ pr'[c].pc = "hc_revive")
             \/ InWriting(\E r \in {r1, r2} : Writing!Progress(r)))
FairSpec == Init /\ [][Next]_vars /\ Fairness

\* SocketLife: a removed socket ends in the pool and one that failed is revived, unless the health
\* check that ends overlooks the failure or revives what was removed, or a failed Address() drops
\* the last reference; one under application-level checks becomes available again.
SocketComesBack == part = "life" => Life!ComesBackButForRaces /\ Life!AvailableAgain
\* SocketLife: a SetFailed() during the application-level check has the socket checked again.
SocketRevives == part = "life" => Life!ComesBack
\* As the parts exclude each other, one formula states a promise of several of them.
\* Rpc, ParallelChannel: an RPC with a timeout ends, so does a cancelled one and one whose sub
\* calls failed as often as fail_limit allows.  Acceptor: Join() of a stopped Acceptor returns.
CallsEnd == part \in {"rpc", "parallel", "acceptor"} =>
            (\/ part = "rpc" /\ Calling!MustEnd
             \/ part = "parallel" /\ Fanning!MustEnd
             \/ part = "acceptor" /\ Accepting!MustEnd)
            ~> (\/ part = "rpc" /\ Calling!Ended
                \/ part = "parallel" /\ Fanning!Ended
                \/ part = "acceptor" /\ Accepting!Ended)
\* SocketWrite: every Write() ends, its id told or waiting for the failure of the socket (r1 and r2
\* are alike).
\* InputEvent: every message that was cut is processed to its end, and the end of a connection
\* fails its socket.  Stream: all who wait are told, unless the stream cannot be connected any more.
TransfersEnd ==
  /\ part \in {"write", "input", "stream"} =>
       ((\/ part = "write" /\ wr[r1].pc # "idle"
         \/ part = "input" /\ Reading!InProcess # {}
         \/ part = "stream" /\ Streaming!Waiting # {})
        ~> (\/ part = "write" /\ Writing!Told(r1)
            \/ part = "input" /\ Reading!InProcess = {}
            \/ part = "stream" /\ Streaming!Waiting = {}))
  /\ part = "input" => (i_wire.eof ~> Reading!Noticed)
\* Stream: "StreamWait wakes up immediately" and on_closed is called after StreamClose().
StreamEnds == part = "stream" => Streaming!WaitersWake /\ Streaming!ClosedIsNotified
==============================================================================

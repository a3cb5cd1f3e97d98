------------------------------- MODULE MCBrpc --------------------------------
(* Safety of brpc: the life of a socket, writing to it and reading from it,    *)
(* the RPC of a client, a stream, the acceptor of a server, a ParallelChannel  *)
(* and the weights of a load balancer, each on an instance of its own.  A      *)
(* behaviour is one of the component `part', the others do not move.           *)
EXTENDS InputEvent, SocketLife, Integers, TLC
CONSTANTS t1, t2, t3, NULL
VARIABLES part,
          head, next, rq, wr, w_wire, unwritten, overcrowded, shut, w_fd, failing, waitlist, pipe,
          notes, order,
          call, cid, pending, cntl, hold, tries, timer, firing, cancelled, said,
          s_conf, s, host, s_wire, out, queue, th, rpc, sent, recv,
          a_conf, am, sk, a_th, acc, closer, cond,
          p_conf, called, sub, p_cid, caller, run, current_fail, current_done, msb, p_rpc,
          l_conf, tree, fg, w, left, nleft, total, l_rd, mod

\* A socket shared through the map, under application-level checks, and one of its own.
LifeConfs == {[shared |-> TRUE, interval |-> TRUE, app |-> TRUE, fails |-> 2,
               ops |-> {"address", "epollout", "fail", "remove", "estop"}],
              [shared |-> FALSE, interval |-> TRUE, app |-> FALSE, fails |-> 2,
               ops |-> {"address", "epollout", "fail", "idle"}]}

Opt(size, shutdown, notify, background, pipelined, msgfails) ==
  [size |-> size, shutdown |-> shutdown, notify |-> notify, background |-> background,
   ignore |-> background, pipelined |-> pipelined, msgfails |-> msgfails]
Writing == INSTANCE SocketWrite WITH
          Reqs <- {t1, t2, t3}, DATA_LIST_MAX <- 2, MaxUnwritten <- 3, wire <- w_wire, fd <- w_fd,
          Options <- {Opt(2, FALSE, TRUE, FALSE, TRUE, FALSE), Opt(1, TRUE, FALSE, FALSE, FALSE, FALSE),
                      Opt(1, FALSE, FALSE, TRUE, TRUE, TRUE)}

RpcConf(retry, timeout, backup, connection) ==
  [max_retry |-> retry, timeout |-> timeout, backup |-> backup, async |-> timeout,
   connection |-> connection, unqualified |-> FALSE]
Calling == INSTANCE Rpc WITH
          Confs <- {RpcConf(0, TRUE, TRUE, "pooled"), RpcConf(1, TRUE, TRUE, "pooled"),
                    RpcConf(2, FALSE, TRUE, "pooled"), RpcConf(1, FALSE, TRUE, "single"),
                    RpcConf(1, TRUE, FALSE, "short")},
          conf <- call

\* Clients and servers with and without authentication, a message that cannot be parsed, a
\* message that is read progressively; two connections of the socket.
Input(client, verify, bad, progressive) ==
  [client |-> client, verify |-> verify, bad |-> bad, progressive |-> progressive,
   stale |-> FALSE, lives |-> 2, errors |-> TRUE]
InputConfs == {Input(TRUE, TRUE, 0, FALSE), Input(TRUE, FALSE, 2, FALSE),
               Input(FALSE, TRUE, 2, FALSE), Input(FALSE, TRUE, 0, TRUE), Input(TRUE, FALSE, 0, TRUE)}
\* The instances are such as the theorems are about.
ASSUME InstancesOK == InputConstants /\ LifeConstants

\* Two writers at the client and a limited window; a writer at each end; no handler at the client.
Buffers(max, min, limited) ==
  [max_buf |-> max, min_buf |-> min, limited |-> limited, lens |-> {2},
   handler |-> [x \in {"client", "server"} |-> TRUE],
   waits |-> BOOLEAN \X BOOLEAN, crowds |-> FALSE, users |-> {"c1", "s1"}, writes |-> ("client" :> 1 @@ "server" :> 1)]
Streaming == INSTANCE Stream WITH
          Threads <- {"c1", "c2", "s1"},
          SideOf <- ("c1" :> "client" @@ "c2" :> "client" @@ "s1" :> "server"),
          Confs <- {[Buffers(2, 1, TRUE) EXCEPT !.users = {"c1", "c2"}, !.lens = {1, 3},
                                                !.waits = BOOLEAN \X {FALSE},
                                                !.writes = ("client" :> 3 @@ "server" :> 0)],
                    Buffers(1, 0, FALSE),
                    [Buffers(0, 0, FALSE) EXCEPT !.handler["client"] = FALSE]},
          conf <- s_conf, wire <- s_wire

\* A listener with a thread that closes idle connections, and one whose socket cannot be created.
Accepting == INSTANCE Acceptor WITH
          Listeners <- {1, 2}, Conns <- {3, 4},
          Confs <- {[fd |-> 3, idle |-> b, fails |-> ~b, streams |-> {4}] : b \in BOOLEAN},
          conf <- a_conf, th <- a_th

\* Limits of 2 failures, of 0 (that is 1) and none; skipped channels, all of them included; a
\* request that cannot be mapped; a merger that fails.
Fan(skip, limit, timeout, cancel, async) ==
  [skip |-> skip, fail_limit |-> limit, timeout |-> timeout, cancel |-> cancel, bad |-> FALSE,
   merge |-> FALSE, async |-> async]
Fanning == INSTANCE ParallelChannel WITH
          NumChans <- 3,
          Confs <- {Fan({}, 2, TRUE, FALSE, FALSE), Fan({2}, 0, TRUE, TRUE, TRUE),
                    Fan({3}, -1, FALSE, TRUE, FALSE), Fan({1, 2, 3}, -1, TRUE, FALSE, TRUE),
                    [Fan({}, 3, FALSE, FALSE, FALSE) EXCEPT !.merge = TRUE],
                    [Fan({}, -1, TRUE, TRUE, TRUE) EXCEPT !.bad = TRUE]},
          conf <- p_conf, cid <- p_cid, rpc <- p_rpc

\* Two readers while servers are removed, one while they are added and removed.
Weighing == INSTANCE LocalityAware WITH
          Servers <- {1, 2, 3, 4}, Readers <- {"r1", "r2"}, Weights <- {1, 3}, WEIGHT_SCALE <- 2,
          None <- NULL,
          Confs <- {[initial |-> <<1, 2, 3>>, adds |-> 0, removes |-> 2, updates |-> 2,
                     readers |-> {"r1", "r2"}],
                    [initial |-> <<1>>, adds |-> 2, removes |-> 2, updates |-> 2, readers |-> {"r1"}]},
          conf <- l_conf, rd <- l_rd

write_vars == <<head, next, rq, wr, w_wire, unwritten, overcrowded, shut, w_fd, failing, waitlist,
                pipe, notes, order>>
rpc_vars == <<call, cid, pending, cntl, hold, tries, timer, firing, cancelled, said>>
stream_vars == <<s_conf, s, host, s_wire, out, queue, th, rpc, sent, recv>>
acceptor_vars == <<a_conf, am, sk, a_th, acc, closer, cond>>
parallel_vars == <<p_conf, called, sub, p_cid, caller, run, current_fail, current_done, msb, p_rpc>>
weight_vars == <<l_conf, tree, fg, w, left, nleft, total, l_rd, mod>>
mc_vars == <<part, life_vars, write_vars, rpc_vars, input_vars, stream_vars, acceptor_vars,
          parallel_vars, weight_vars>>
Only(p) == /\ part = p /\ UNCHANGED part
           /\ IF p = "life" THEN TRUE ELSE UNCHANGED life_vars
           /\ IF p = "write" THEN TRUE ELSE UNCHANGED write_vars
           /\ IF p = "rpc" THEN TRUE ELSE UNCHANGED rpc_vars
           /\ IF p = "input" THEN TRUE ELSE UNCHANGED input_vars
           /\ IF p = "stream" THEN TRUE ELSE UNCHANGED stream_vars
           /\ IF p = "acceptor" THEN TRUE ELSE UNCHANGED acceptor_vars
           /\ IF p = "parallel" THEN TRUE ELSE UNCHANGED parallel_vars
           /\ IF p = "weights" THEN TRUE ELSE UNCHANGED weight_vars

\* Reading and the life of a socket stay in one initial state while others move, the variables of
\* the other parts have no value when they do not move.
IdleWrite == /\ head = 0 /\ next = 0 /\ rq = 0 /\ wr = 0 /\ w_wire = 0 /\ unwritten = 0
             /\ overcrowded = 0 /\ shut = 0 /\ w_fd = 0 /\ failing = 0 /\ waitlist = 0 /\ pipe = 0
             /\ notes = 0 /\ order = 0
IdleRpc == /\ call = 0 /\ cid = 0 /\ pending = 0 /\ cntl = 0 /\ hold = 0 /\ tries = 0
           /\ timer = 0 /\ firing = 0 /\ cancelled = 0 /\ said = 0
IdleStream == /\ s_conf = 0 /\ s = 0 /\ host = 0 /\ s_wire = 0 /\ out = 0 /\ queue = 0 /\ th = 0
              /\ rpc = 0 /\ sent = 0 /\ recv = 0
IdleAcceptor == /\ a_conf = 0 /\ am = 0 /\ sk = 0 /\ a_th = 0 /\ acc = 0 /\ closer = 0 /\ cond = 0
IdleParallel == /\ p_conf = 0 /\ called = 0 /\ sub = 0 /\ p_cid = 0 /\ caller = 0 /\ run = 0
                /\ current_fail = 0 /\ current_done = 0 /\ msb = 0 /\ p_rpc = 0
IdleWeights == /\ l_conf = 0 /\ tree = 0 /\ fg = 0 /\ w = 0 /\ left = 0 /\ nleft = 0 /\ total = 0
               /\ l_rd = 0 /\ mod = 0
MCInit == /\ part \in {"life", "write", "rpc", "input", "stream", "acceptor", "parallel", "weights"}
          /\ InputInit /\ (part # "input" => conf = CHOOSE c \in Confs : TRUE)
          /\ LifeInit /\ (part # "life" => socket_conf = CHOOSE c \in SocketConfs : TRUE)
          /\ IF part = "write" THEN Writing!Init ELSE IdleWrite
          /\ IF part = "rpc" THEN Calling!Init ELSE IdleRpc
          /\ IF part = "stream" THEN Streaming!Init ELSE IdleStream
          /\ IF part = "acceptor" THEN Accepting!Init ELSE IdleAcceptor
          /\ IF part = "parallel" THEN Fanning!Init ELSE IdleParallel
          /\ IF part = "weights" THEN Weighing!Init ELSE IdleWeights
MCNext == \/ Only("life") /\ LifeNext
          \/ Only("write") /\ Writing!Next
          \/ Only("rpc") /\ Calling!Next
          \/ Only("input") /\ InputNext
          \/ Only("stream") /\ Streaming!Next
          \/ Only("acceptor") /\ Accepting!Next
          \/ Only("parallel") /\ Fanning!Next
          \/ Only("weights") /\ Weighing!Next
MCSpec == MCInit /\ [][MCNext]_mc_vars
Symmetry == Permutations({t1, t2, t3})

\* SocketWrite: one thread writes at a time, requests and their pipelined information go out whole,
\* once and in the order of their exchange, and nothing follows a request that shuts down.
WireInOrder == part = "write" => /\ Writing!TypeOK /\ Writing!OneWriter /\ Writing!WireInOrder
                                 /\ Writing!PipelineInOrder /\ Writing!ShutdownIsLast
\* SocketWrite: whoever waits for a write is told once, and of a success only if all was sent; the
\* count of unwritten bytes is that of the requests left, and the CHECKs on released ones hold.
ToldOnce == part = "write" => /\ Writing!ToldOnce /\ Writing!OkMeansSent /\ Writing!UnwrittenExact
                              /\ Writing!ReleaseChecks
\* Rpc: every try with a server is completed once, the outcome is that of the last try or of a
\* successful backup request, the CHECKs of the Controller hold, and a connection in the pool has no
\* answer on its way.
RpcSafe == part = "rpc" => /\ Calling!TypeOK /\ Calling!CompletedOnce /\ Calling!OutcomeIsCurrent
                           /\ Calling!ControllerChecks /\ Calling!PooledIsClean
\* Stream: messages are received in order, all of them before the close; what is not consumed fits
\* in the window but for one message, and who waits on an open stream waits because it is full; the CHECKs hold.
StreamSafe == part = "stream" => /\ Streaming!TypeOK /\ Streaming!InOrder /\ Streaming!ClosedAfterData
                                 /\ Streaming!WindowBound /\ Streaming!WaitsForRoom /\ Streaming!StreamChecks
\* Acceptor: its map has exactly its live connections, StopAccept() misses none, after Join()
\* nothing uses the Acceptor.
AcceptorSafe == part = "acceptor" => /\ Accepting!TypeOK /\ Accepting!MapExact /\ Accepting!StopMissesNone
                                     /\ Accepting!JoinedIsQuiet
\* ParallelChannel: an RPC completes once, its outcome counts the failures of its sub calls, and
\* nothing touches its state after it is destroyed.
ParallelSafe == part = "parallel" => /\ Fanning!TypeOK /\ Fanning!CompletesOnce /\ Fanning!NotTouched
                                     /\ Fanning!OutcomeExact
\* LocalityAware: the sums of the tree are exact, no weight is used after it is freed, a server is
\* selected in proportion to its weight.
WeightsSafe == part = "weights" => /\ Weighing!TypeOK /\ Weighing!SumsExact /\ Weighing!NotFreed
                                   /\ Weighing!Proportional
==============================================================================

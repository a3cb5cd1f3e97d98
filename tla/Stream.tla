------------------------------- MODULE Stream -------------------------------
(***************************************************************************)
(* Streaming RPC (stream.cpp, streaming_rpc_protocol.cpp): the two ends of *)
(* one stream over a connection that keeps order and may break.  An end    *)
(* is the connection of a fake socket (see SocketLife and SocketWrite): it *)
(* is recycled when the fake socket has failed and nobody refers to it.    *)
(* Messages have lengths and are numbered in the order they are accepted.  *)
(***************************************************************************)
EXTENDS Integers, Sequences, FiniteSets, FiniteSetsExt

CONSTANTS Threads, SideOf,  \* user threads and the end that each of them uses
          Confs             \* [max_buf, min_buf, limited, handler, lens: of messages, waits:
                            \*  <<sync, timed>> of the StreamWait() called, crowds, users,
                            \*  writes: bound on the messages accepted at each end]

Client == "client"
Server == "server"
Sides == {Client, Server}
Peer(x) == IF x = Client THEN Server ELSE Client

VARIABLES conf,
          s,      \* the Stream of each end
          host,   \* whether the socket under each end works
          wire,   \* frames on the way to each end
          out,    \* write requests of the fake socket
          queue,  \* _consumer_queue
          th,     \* user threads: [pc, len: of the message, sync, timed]
          rpc,    \* SendRpcResponse of the server: "service", "host", "sent", "over"
          sent,   \* lengths of the messages accepted from the user
          recv    \* messages given to the handler

vars == <<conf, s, host, wire, out, queue, th, rpc, sent, recv>>
user == <<th, sent, recv>>

Response(accepted) == [type |-> "DATA", data |-> IF accepted THEN "accepted" ELSE "refused"]
Frame(type, data) == [type |-> type, data |-> data]
IdleThread == [pc |-> "idle", len |-> 0, sync |-> FALSE, timed |-> FALSE]
Bytes(x, I) == MapThenSumSet(LAMBDA i : sent[x][i], I)
BufSize == IF conf.limited /\ conf.min_buf > 0 THEN conf.min_buf ELSE conf.max_buf

\* Stream::Create by StreamCreate (client) and StreamAccept (server, in the service).
Init == /\ conf \in Confs
        /\ s = [x \in Sides |-> [life |-> "open", host |-> FALSE, connected |-> FALSE,
                 closed |-> FALSE, error |-> "0", produced |-> 0, remote_consumed |-> 0,
                 cur |-> BufSize, local_consumed |-> 0, parse |-> x = Client,
                 on_connect |-> "none", waiters |-> {}, closer |-> "none"]]
        /\ host = [x \in Sides |-> TRUE] /\ wire = [x \in Sides |-> <<>>]
        /\ out = [x \in Sides |-> <<>>] /\ queue = [x \in Sides |-> <<>>]
        /\ th = [t \in Threads |-> IdleThread]
        /\ rpc = "service"
        /\ sent = [x \in Sides |-> <<>>] /\ recv = [x \in Sides |-> <<>>]

\* A frame written by x is lost when the connection is broken at x.
Written(x, f) == wire' = IF host[x] THEN [wire EXCEPT ![Peer(x)] = Append(@, f)] ELSE wire

\* Stream::Close: the first error counts; a Connect() that waits is told.
Close(st, e, by) ==
  LET failed == [st EXCEPT !.life = IF @ = "open" THEN "failed" ELSE @]
  IN IF st.closed THEN failed
     ELSE [failed EXCEPT !.closed = TRUE, !.error = e, !.closer = by,
             !.on_connect = IF ~st.connected /\ @ = "waiting" THEN "error" ELSE @]

\* Stream::SetConnected, which is nothing on a closed stream.
Connected(st) == IF st.closed THEN st
                 ELSE [st EXCEPT !.connected = TRUE,
                                 !.on_connect = IF @ = "waiting" THEN "ok" ELSE @]

-----------------------------------------------------------------------------
(* Writing.                                                                 *)

Full_Exceeded(st) == st.produced > st.remote_consumed + st.cur
Full(st) == st.produced >= st.remote_consumed + st.cur
Idle(t) == t \in conf.users /\ th[t].pc = "idle"
Goto(t, pc) == th' = [th EXCEPT ![t] = IF pc = "idle" THEN IdleThread ELSE [@ EXCEPT !.pc = pc]]

\* StreamWrite, and AppendIfNotFull under _congestion_control_mutex: the length of the message
\* does not matter to whether there is room.  With a limit on unconsumed bytes a client must not
\* write before the first frame of the server, as AppendIfNotFull goes on to use _host_socket.
StreamWrite(t, len) ==
  LET x == SideOf[t]
  IN /\ Idle(t) /\ s[x].life = "open" /\ Len(sent[x]) < conf.writes[x] /\ len \in conf.lens
     /\ conf.limited => s[x].host
     /\ IF s[x].cur > 0
        THEN ~Full(s[x]) /\ s' = [s EXCEPT ![x].produced = @ + len]
        ELSE UNCHANGED s
     /\ th' = [th EXCEPT ![t].pc = "write", ![t].len = len]
     /\ UNCHANGED <<conf, host, wire, out, queue, rpc, sent, recv>>

\* Socket::Write of the fake socket fails: the message is not produced after all.
WriteFails(t) ==
  LET x == SideOf[t]
  IN /\ th[t].pc = "write" /\ (s[x].life # "open" \/ conf.crowds)
     /\ s' = [s EXCEPT ![x].produced = @ - th[t].len]
     /\ Goto(t, "idle")
     /\ UNCHANGED <<conf, host, wire, out, queue, rpc, sent, recv>>

\* It has not failed: the request is queued, the first one connects.
WriteQueued(t) ==
  LET x == SideOf[t]
  IN /\ th[t].pc = "write" /\ s[x].life = "open"
     /\ Goto(t, "exchange")
     /\ UNCHANGED <<conf, s, host, wire, out, queue, rpc, sent, recv>>

Exchange(t) ==
  LET x == SideOf[t]
  IN /\ th[t].pc = "exchange"
     /\ sent' = [sent EXCEPT ![x] = Append(@, th[t].len)]
     /\ out' = [out EXCEPT ![x] = Append(@, Len(sent[x]) + 1)]
     /\ Goto(t, IF out[x] = <<>> /\ s[x].on_connect # "fd" THEN "connect" ELSE "idle")
     /\ UNCHANGED <<conf, s, host, wire, queue, rpc, recv>>

\* Stream::Connect: runs the callback now or when the stream is connected.
Connect(t) ==
  LET x == SideOf[t]
  IN /\ th[t].pc = "connect" /\ Goto(t, "idle")
     /\ IF s[x].on_connect = "none"
        THEN /\ s' = [s EXCEPT ![x].on_connect = IF s[x].connected THEN "ok" ELSE "waiting"]
             /\ UNCHANGED out
        ELSE out' = [out EXCEPT ![x] = <<>>] /\ UNCHANGED s
     /\ UNCHANGED <<conf, host, wire, queue, rpc, sent, recv>>

\* RunOnConnect in a new bthread: the requests are written or released.
RunOnConnect(x) ==
  /\ s[x].on_connect \in {"ok", "error"}
  /\ IF s[x].on_connect = "ok"
     THEN s' = [s EXCEPT ![x].on_connect = "fd"] /\ UNCHANGED out
     ELSE s' = [s EXCEPT ![x].on_connect = "gone"] /\ out' = [out EXCEPT ![x] = <<>>]
  /\ UNCHANGED <<conf, host, wire, queue, rpc, user>>

Oldest_Newest(x) == out[x][Len(out[x])]
Oldest(x) == Head(out[x])

\* KeepWrite: CutMessageIntoFileDescriptor puts the requests on the connection.
CutMessageIntoFileDescriptor(x) ==
  /\ s[x].on_connect = "fd" /\ out[x] # <<>>
  /\ IF conf.handler[Peer(x)]
     THEN /\ Written(x, Frame("DATA", Oldest(x)))
          /\ out' = [out EXCEPT ![x] = Tail(@)] /\ UNCHANGED s
     ELSE /\ s' = [s EXCEPT ![x].life = "failed"] /\ out' = [out EXCEPT ![x] = <<>>]
          /\ UNCHANGED wire
  /\ UNCHANGED <<conf, host, queue, rpc, user>>

-----------------------------------------------------------------------------
(* Waiting until the stream is writable.                                    *)

MustWait(st) == st.cur > 0 /\ Full(st)

\* StreamWait on a full stream; a synchronous call keeps its reference to the stream.
StreamWait(t, sync, timed) ==
  LET x == SideOf[t]
  IN /\ Idle(t) /\ s[x].life = "open" /\ <<sync, timed>> \in conf.waits
     /\ MustWait(s[x])
     /\ s' = [s EXCEPT ![x].waiters = @ \cup {t}]
     /\ th' = [th EXCEPT ![t] = [pc |-> "waiting", len |-> 0, sync |-> sync, timed |-> timed]]
     /\ UNCHANGED <<conf, host, wire, out, queue, rpc, sent, recv>>

\* TriggerOnWritable of all of W.
Woken(W) == [t \in Threads |-> IF t \in W THEN IdleThread ELSE th[t]]

OnTimedOut(t) ==
  /\ th[t].pc = "waiting" /\ th[t].timed
  /\ th' = Woken({t}) /\ s' = [s EXCEPT ![SideOf[t]].waiters = @ \ {t}]
  /\ UNCHANGED <<conf, host, wire, out, queue, rpc, sent, recv>>

\* The buffer is cut when the streams of the connection hold too much that is not consumed
\* (crowded), and grows when the peer is slow.
Resized(st, consumed, crowded) ==
  IF ~conf.limited THEN st.cur
  ELSE IF crowded THEN IF conf.min_buf > 0 THEN conf.min_buf ELSE st.cur \div 2
  ELSE IF st.produced >= consumed + st.cur /\ (conf.max_buf <= 0 \/ st.cur < conf.max_buf)
       THEN IF conf.max_buf > 0 /\ st.cur * 2 > conf.max_buf THEN conf.max_buf ELSE st.cur * 2
  ELSE st.cur

WakesUp_IfFull(was, is) == ~was /\ ~is
WakesUp(was, is) == was /\ ~is

SetRemoteConsumed(x, n) ==
  IF n <= s[x].remote_consumed THEN UNCHANGED <<s, th>>
  ELSE \E crowded \in IF conf.limited THEN BOOLEAN ELSE {FALSE} :
       LET st == [s[x] EXCEPT !.remote_consumed = n, !.cur = Resized(s[x], n, crowded)]
           W == IF WakesUp(Full(s[x]), Full(st)) THEN st.waiters ELSE {}
       IN /\ s' = [s EXCEPT ![x] = [st EXCEPT !.waiters = @ \ W]] /\ th' = Woken(W)

-----------------------------------------------------------------------------
(* Receiving.                                                               *)

\* ParseStreamingMessage for a stream that is gone: RST, but never for a feedback.
Unknown(x, f) == wire' = IF f.type \in {"DATA", "CLOSE"}
                         THEN [wire EXCEPT ![x] = Tail(@), ![Peer(x)] = Append(@, Frame("RST", 0))]
                         ELSE [wire EXCEPT ![x] = Tail(@)]

Received(x) == [wire EXCEPT ![x] = Tail(@)]

Hosted_Not(st) == st
Hosted(st) == [st EXCEPT !.host = TRUE]

\* ParseStreamingMessage and Stream::OnReceived; the first frame sets the host socket.
OnReceived(x) ==
  /\ wire[x] # <<>> /\ host[x] /\ UNCHANGED <<conf, host, out, rpc, sent, recv>>
  /\ LET f == Head(wire[x])
         st == Hosted(s[x])
     IN \/ s[x].life # "open" /\ Unknown(x, f) /\ UNCHANGED <<s, queue, th>>
        \/ /\ s[x].life = "open" /\ f.type = "FEEDBACK" /\ wire' = Received(x)
           /\ SetRemoteConsumed(x, f.data) /\ UNCHANGED queue
        \/ /\ s[x].life = "open" /\ f.type = "DATA" /\ wire' = Received(x)
           /\ queue' = [queue EXCEPT ![x] = Append(@, f.data)]
           /\ s' = [s EXCEPT ![x] = st] /\ UNCHANGED th
        \/ /\ s[x].life = "open" /\ f.type \in {"RST", "CLOSE"} /\ wire' = Received(x)
           /\ s' = [s EXCEPT ![x] = Close(st, IF f.type = "RST" THEN "ECONNRESET" ELSE "0", f.type)]
           /\ UNCHANGED <<queue, th>>

\* HandleRpcResponse ends the RPC of the client and connects the stream, or not if the
\* server did not accept it or the client has closed it.
HandleRpcResponse(accepted) ==
  LET live == s[Client].life = "open"
  IN /\ s' = [s EXCEPT ![Client] = IF accepted /\ live THEN Connected([@ EXCEPT !.parse = FALSE])
                                   ELSE Close([@ EXCEPT !.parse = FALSE], "EREQUEST", "rpc")]
     /\ IF accepted /\ ~live THEN Written(Client, Frame("RST", 0)) ELSE UNCHANGED wire
     /\ UNCHANGED recv

\* Stream::Consume of a batch: the handler gets it, then the writer is told.
Consume(x, n) ==
  LET consumed == s[x].local_consumed + Bytes(Peer(x), {queue[x][i] : i \in 1 .. n})
  IN
  /\ queue[x] # <<>> /\ n \in 1 .. Len(queue[x])
  /\ queue' = [queue EXCEPT ![x] = SubSeq(@, n + 1, Len(@))]
  /\ IF s[x].parse THEN n = 1 /\ HandleRpcResponse(Head(queue[x]) = "accepted")
     ELSE /\ recv' = [recv EXCEPT ![x] = @ \o SubSeq(queue[x], 1, n)]
          /\ IF conf.max_buf > 0
             THEN /\ s' = [s EXCEPT ![x].local_consumed = consumed]
                  /\ Written(x, Frame("FEEDBACK", consumed))
             ELSE UNCHANGED <<s, wire>>
  /\ UNCHANGED <<conf, host, out, rpc, th, sent>>

-----------------------------------------------------------------------------
(* The RPC that sets the stream up, and its end.                            *)

\* SendRpcResponse: SetHostSocket, the response as a message of the stream, SetConnected.
SetHostSocket ==
  /\ rpc = "service" /\ rpc' = IF s[Server].life = "open" THEN "host" ELSE "closed"
  /\ s' = IF s[Server].life = "open" THEN [s EXCEPT ![Server].host = host[Server]] ELSE s
  /\ UNCHANGED <<conf, host, wire, out, queue, user>>

SendRpcResponse ==
  /\ rpc \in {"host", "closed"} /\ Written(Server, Response(rpc = "host"))
  /\ rpc' = IF host[Server] /\ rpc = "host" THEN "sent" ELSE "over"
  /\ s' = IF ~host[Server] /\ rpc = "host"
          THEN [s EXCEPT ![Server] = Close(@, "EFAILEDSOCKET", "rpc")] ELSE s
  /\ UNCHANGED <<conf, host, out, queue, user>>

SetConnected ==
  /\ rpc = "sent" /\ rpc' = "over" /\ s' = [s EXCEPT ![Server] = Connected(@)]
  /\ UNCHANGED <<conf, host, wire, out, queue, user>>

\* The RPC fails at the client (timeout, broken connection) before the response is handled.
RpcFails ==
  /\ s[Client].parse /\ ~s[Client].closed /\ s' = [s EXCEPT ![Client] = Close(@, "ERPCTIMEDOUT", "rpc")]
  /\ UNCHANGED <<conf, host, wire, out, queue, rpc, user>>

StreamClose(t) ==
  LET x == SideOf[t]
  IN /\ Idle(t) /\ ~s[x].closed /\ s' = [s EXCEPT ![x] = Close(@, "0", "local")]
     /\ UNCHANGED <<conf, host, wire, out, queue, rpc, user>>

\* Socket::SetFailed of the connection at one end, and ResetAllStreams.
HostFails(x) ==
  /\ host[x] /\ host' = [host EXCEPT ![x] = FALSE] /\ wire' = [wire EXCEPT ![x] = <<>>]
  /\ s' = IF s[x].host THEN [s EXCEPT ![x] = Close(@, "EFAILEDSOCKET", "host")] ELSE s
  /\ UNCHANGED <<conf, out, queue, rpc, user>>

InCall(t) == th[t].pc \notin {"idle", "waiting"} \/ (th[t].pc = "waiting" /\ th[t].sync)
Referred_Callers(x) == \E t \in Threads : SideOf[t] = x /\ InCall(t)
Referred(x) == \/ out[x] # <<>>
               \/ \E t \in Threads : SideOf[t] = x /\ InCall(t)
               \/ x = Server /\ rpc \in {"host", "sent"}

Reset_None(x) == {}
Reset(x) == s[x].waiters

\* BeforeRecycle: waiters are told, the peer gets a CLOSE frame, the queue is stopped.
BeforeRecycle(x) ==
  /\ s[x].life = "failed" /\ ~Referred(x)
  /\ s' = [s EXCEPT ![x] = [@ EXCEPT !.life = "recycled", !.waiters = {}]]
  /\ th' = Woken(Reset(x))
  /\ IF s[x].connected THEN Written(x, Frame("CLOSE", 0)) ELSE UNCHANGED wire
  /\ UNCHANGED <<conf, host, out, queue, rpc, sent, recv>>

\* The last iteration of Consume: on_failed, on_closed, and the Stream is deleted.
OnClosed(x) ==
  /\ s[x].life = "recycled" /\ queue[x] = <<>>
  /\ s' = [s EXCEPT ![x] = [@ EXCEPT !.life = "deleted", !.host = FALSE]]
  /\ UNCHANGED <<conf, host, wire, out, queue, rpc, user>>

-----------------------------------------------------------------------------
Library(x) == \/ RunOnConnect(x) \/ CutMessageIntoFileDescriptor(x) \/ OnReceived(x)
              \/ (\E n \in 1 .. Len(queue[x]) : Consume(x, n)) \/ BeforeRecycle(x) \/ OnClosed(x)
Call(t) == WriteFails(t) \/ WriteQueued(t) \/ Exchange(t) \/ Connect(t) \/ OnTimedOut(t)
Handshake == SetHostSocket \/ SendRpcResponse \/ SetConnected
Next == \/ Handshake \/ RpcFails
        \/ \E x \in Sides : Library(x) \/ HostFails(x)
        \/ \E t \in Threads : \/ Call(t) \/ StreamClose(t) \/ \E len \in conf.lens : StreamWrite(t, len)
                              \/ \E sync, timed \in BOOLEAN : StreamWait(t, sync, timed)
Spec == Init /\ [][Next]_vars

\* bthreads and threads inside a call run; the RPC ends; a connection broken at one end
\* breaks at the other.
Fairness == /\ WF_vars(Handshake) /\ \A t \in Threads : WF_vars(Call(t))
            /\ \A x \in Sides : WF_vars(Library(x)) /\ WF_vars(~host[Peer(x)] /\ HostFails(x))
            /\ WF_vars(RpcFails)
FairSpec == Spec /\ Fairness

-----------------------------------------------------------------------------
\* Every variable has its type.
TypeOK ==
  /\ \A x \in Sides : /\ s[x].life \in {"open", "failed", "recycled", "deleted"}
                      /\ s[x].on_connect \in {"none", "waiting", "ok", "error", "fd", "gone"}
                      /\ s[x].waiters \subseteq Threads /\ Len(sent[x]) <= 1 + conf.writes[x]
  /\ \A t \in Threads : th[t].pc \in {"idle", "write", "exchange", "connect", "waiting"}

\* The handler gets the messages in the order they were written, none missing in between
\* ("The remote-side handler will received the message by the written order").
InOrder == \A x \in Sides : /\ Len(recv[x]) <= Len(sent[Peer(x)])
                            /\ \A i \in DOMAIN recv[x] : recv[x][i] = i

\* What was accepted from the writers and not given to the handler of the peer is less than
\* max_buf_size without one of these messages: AppendIfNotFull looks at the room before it adds
\* a message, however long, and of several writers only one may take the last room.  (stream.h
\* calls max_buf_size "The max size of unconsumed data allowed at remote side".)
Unconsumed(x) == Len(recv[Peer(x)]) + 1 .. Len(sent[x])
WindowBound == \A x \in Sides : conf.max_buf > 0 /\ conf.handler[Peer(x)] /\ s[x].life = "open" =>
                 \/ Unconsumed(x) = {}
                 \/ \E i \in Unconsumed(x) : Bytes(x, Unconsumed(x) \ {i}) < conf.max_buf

\* A writer that waits on an open stream waits because it is full: no wake-up is missed.
WaitsForRoom == \A x \in Sides : s[x].life = "open" /\ s[x].waiters # {} => MustWait(s[x])

\* A stream that ends because of the CLOSE frame of its peer has received all that the peer
\* accepted ("on_closed would be notifed after all the pending buffers have been received").
ClosedAfterData ==
  \A x \in Sides : s[x].life = "deleted" /\ s[x].closer = "CLOSE" /\ conf.handler[x] => Len(recv[x]) = Len(sent[Peer(x)])

\* The CHECKs: a connected stream has its host socket until it is deleted, and the response
\* is the first message of the client's stream.
StreamChecks ==
  /\ \A x \in Sides : s[x].connected /\ s[x].life # "deleted" => s[x].host
  /\ \A x \in Sides : s[x].on_connect = "fd" => s[x].host \/ s[x].life = "deleted"
  /\ queue[Client] # <<>> /\ s[Client].parse => queue[Client][1] \in {"accepted", "refused"}

\* A request written to a stream that was closed before it was connected waits for ever for
\* Connect(), and so does the stream with all who wait on it: Connect() does not look at _closed.
Stranded(x) == s[x].closed /\ ~s[x].connected /\ s[x].on_connect = "waiting"
Waiting == {t \in Threads : th[t].pc = "waiting" /\ ~Stranded(SideOf[t])}
\* All who wait on a stream are told in the end, that it is writable, of the deadline or of its
\* end, unless the stream is stranded ("StreamWait wakes up", stream.h).
WaitersWake == Waiting # {} ~> Waiting = {}

\* A closed stream is notified by on_closed and deleted (stream.h).
ClosedIsNotified == \A x \in Sides : s[x].closed ~> s[x].life = "deleted"
=============================================================================

---------------------------- MODULE SocketWrite -----------------------------
(***************************************************************************)
(* The write path of brpc::Socket (socket.cpp): the wait-free list of      *)
(* WriteRequests behind _write_head, connection on demand, KeepWrite,      *)
(* write shutdown, the count of unwritten bytes, the pipelined information *)
(* and the notification of the ids that wait.  Each request is one call of *)
(* Write(); whoever found the list empty goes on as its own KeepWrite.     *)
(***************************************************************************)
EXTENDS Naturals, Sequences, SequencesExt, FiniteSets, FiniteSetsExt

CONSTANTS Reqs,
          Options,        \* what callers ask: [size, shutdown, notify, background, ignore
                          \* (ignore_eovercrowded), pipelined, msgfails]
          DATA_LIST_MAX,  \* requests of one writev
          MaxUnwritten,   \* -socket_max_unwritten_bytes
          NULL

VARIABLES head,        \* _write_head
          next,        \* WriteRequest::next before the reversal; r itself is UNCONNECTED
          rq,          \* requests: options, bytes left, whether Setup() is done
          wr,          \* callers of Write() and the KeepWrite they turn into
          wire,        \* what the peer receives: the request of each byte
          unwritten, overcrowded,
          shut,        \* _is_write_shutdown
          fd,          \* "none", "open", "broken", "unpolled" (open, WaitEpollOut() failed)
          failing,     \* SetFailed(): "no", "set" (or "other": by another thread), "done"
          waitlist,    \* _id_wait_list
          pipe,        \* _pipeline_q
          notes,       \* what bthread_id_error() told each id_wait
          order        \* order of the exchanges on _write_head

vars == <<head, next, rq, wr, wire, unwritten, overcrowded, shut, fd, failing, waitlist, pipe,
          notes, order>>
list_vars == <<head, next, order>>
count_vars == <<unwritten, overcrowded>>
id_vars == <<failing, waitlist, notes>>
net_vars == <<wire, fd>>

NoOption == [size |-> 0, shutdown |-> FALSE, notify |-> FALSE, background |-> FALSE,
             ignore |-> FALSE, pipelined |-> FALSE, msgfails |-> FALSE]

Init == /\ head = NULL /\ next = [r \in Reqs |-> r]
        /\ rq = [r \in Reqs |-> [opt |-> NoOption, left |-> 0, setup |-> FALSE]]
        /\ wr = [r \in Reqs |-> [pc |-> "idle", list |-> <<>>, new |-> NULL, releasing |-> FALSE]]
        /\ wire = <<>> /\ unwritten = 0 /\ overcrowded = FALSE /\ shut = FALSE
        /\ fd \in {"none", "open"}
        /\ failing = "no" /\ waitlist = {} /\ pipe = <<>>
        /\ notes = [r \in Reqs |-> <<>>] /\ order = <<>>

Failed == failing # "no"
Goto(w, pc) == wr' = [wr EXCEPT ![w].pc = pc]
Notify(r, what) == notes' = [notes EXCEPT ![r] = Append(@, what)]

-----------------------------------------------------------------------------
(* Accounting and notification.                                             *)

Crowded_NotReset(n) == overcrowded \/ n >= MaxUnwritten
Crowded(n) == n >= MaxUnwritten
Count(n) == unwritten' = n /\ overcrowded' = Crowded(n)

SetupOrder_NewestFirst(list) == Reverse(list)
SetupOrder(list) == list

\* Setup() of requests, oldest first; one whose message cannot be serialised is
\* told so and goes on empty.
Setup(list) ==
  LET fresh == SelectSeq(list, LAMBDA r : ~rq[r].setup)
      bad == {r \in Range(fresh) : rq[r].opt.msgfails}
      good == Range(fresh) \ bad
  IN /\ rq' = [r \in Reqs |-> [rq[r] EXCEPT !.setup = @ \/ r \in Range(fresh),
                                             !.left = IF r \in bad THEN 0 ELSE @]]
     /\ Count(unwritten + MapThenSumSet(LAMBDA r : rq[r].left, good))
     /\ notes' = [r \in Reqs |-> IF r \in bad THEN Append(notes[r], "error") ELSE notes[r]]
     /\ pipe' = pipe \o SelectSeq(SetupOrder(fresh), LAMBDA r : r \in good /\ rq[r].opt.pipelined)

WaitsForFailure_NoCheck(r) == TRUE
WaitsForFailure(r) == ~Failed

\* ReturnSuccessfulWriteRequest() with NotifyOnFailed(), which holds _id_wait_list_mutex.  The
\* option is read after the request went back to its pool: it may be that of another Write().
ReturnSuccessfulWriteRequest(r) ==
  \E o \in Options :
    IF o.notify /\ ~Failed THEN Notify(r, "ok") /\ UNCHANGED waitlist
    ELSE IF WaitsForFailure(r) THEN waitlist' = waitlist \cup {r} /\ UNCHANGED notes
    ELSE Notify(r, "error") /\ UNCHANGED waitlist

Uncounted_NotSetup(r) == rq[r].left
Uncounted(r) == IF rq[r].setup THEN rq[r].left ELSE 0

\* The data of a failed request are dropped; what Setup() counted is taken back.
Cancel(r) == /\ Count(unwritten - Uncounted(r))
             /\ rq' = [rq EXCEPT ![r].left = 0, ![r].setup = TRUE]

-----------------------------------------------------------------------------
(* Write() and StartWrite().                                                *)

Write(w, o) ==
  /\ wr[w].pc = "idle"
  /\ IF Failed \/ (overcrowded /\ ~o.ignore)
     THEN Notify(w, "error") /\ Goto(w, "done") /\ UNCHANGED rq
     ELSE /\ rq' = [rq EXCEPT ![w] = [opt |-> o, left |-> o.size, setup |-> FALSE]]
          /\ Goto(w, "exchange") /\ UNCHANGED notes
  /\ UNCHANGED <<list_vars, count_vars, net_vars, shut, failing, waitlist, pipe>>

GotRight_Always == TRUE
GotRight == head = NULL

exchange(w) ==
  /\ wr[w].pc = "exchange"
  /\ head' = w /\ order' = Append(order, w)
  /\ wr' = [wr EXCEPT ![w].pc = IF GotRight THEN "own" ELSE "link", ![w].new = head,
                       ![w].list = IF GotRight THEN <<w>> ELSE <<>>]
  /\ UNCHANGED <<next, rq, count_vars, net_vars, shut, id_vars, pipe>>

link(w) ==
  /\ wr[w].pc = "link"
  /\ next' = [next EXCEPT ![w] = wr[w].new] /\ Goto(w, "done")
  /\ UNCHANGED <<head, order, rq, count_vars, net_vars, shut, id_vars, pipe>>

\* The right to write: fail fast after a shutdown, else connect or set up.
ShutNow_Kept(w) == FALSE
ShutNow(w) == shut

own(w) ==
  /\ wr[w].pc = "own"
  /\ \/ /\ ShutNow(w) /\ Goto(w, "release")
        /\ UNCHANGED <<rq, count_vars, shut, notes, pipe>>
     \/ /\ ~ShutNow(w) /\ fd = "none" /\ shut' = rq[w].opt.shutdown
        /\ (Goto(w, "connecting") \/ Goto(w, "fail"))
        /\ UNCHANGED <<rq, count_vars, notes, pipe>>
     \/ /\ ~ShutNow(w) /\ fd # "none" /\ shut' = rq[w].opt.shutdown
        /\ Setup(<<w>>)
        /\ Goto(w, IF rq[w].opt.background THEN "start" ELSE "once")
  /\ UNCHANGED <<list_vars, net_vars, failing, waitlist>>

\* HandleEpollOutRequest() -> KeepWriteIfConnected() -> AfterAppConnected(): the
\* first of EPOLLOUT and the timer calls back, with or without an error.
AfterAppConnected(w) ==
  /\ wr[w].pc = "connecting"
  /\ \/ fd' = "open" /\ Setup(<<w>>) /\ Goto(w, "start")
     \/ Goto(w, "fail") /\ UNCHANGED <<fd, rq, count_vars, notes, pipe>>
  /\ UNCHANGED <<list_vars, wire, shut, failing, waitlist>>

-----------------------------------------------------------------------------
(* KeepWrite().                                                             *)

Bytes(list) == FlattenSeq([i \in DOMAIN list |-> [k \in 1 .. rq[list[i]].left |-> list[i]]])

\* n bytes of the requests in batch leave for the peer.
Cut(batch, n) ==
  LET sent == SubSeq(Bytes(batch), 1, n)
  IN /\ fd # "broken" /\ UNCHANGED fd
     /\ wire' = wire \o sent
     /\ rq' = [r \in Reqs |-> [rq[r] EXCEPT !.left = @ - Cardinality({i \in 1 .. n : sent[i] = r})]]
     /\ Count(unwritten - n)

\* An error of a TCP descriptor stays: later writes into it fail as well.
Broken == fd' = (IF fd = "open" THEN "broken" ELSE fd) /\ UNCHANGED <<wire, rq, count_vars>>

\* The one write of the calling thread, any part of it, or an error of the descriptor.
once(w) ==
  /\ wr[w].pc = "once"
  /\ \/ \E n \in 0 .. rq[w].left : Cut(<<w>>, n) /\ Goto(w, "complete")
     \/ Broken /\ Goto(w, "fail")
  /\ UNCHANGED <<list_vars, shut, id_vars, pipe>>

\* A request that is written and not the last one is returned; one that asked
\* for the shutdown ends the writing.
Popped(w, go_on) ==
  LET r == wr[w].list[1]
  IN /\ ReturnSuccessfulWriteRequest(r)
     /\ wr' = [wr EXCEPT ![w].list = Tail(@),
                         ![w].pc = IF rq[r].opt.shutdown THEN "release" ELSE go_on]
MayPop_Unwritten(w) == Len(wr[w].list) > 1
MayPop(w) == Len(wr[w].list) > 1 /\ rq[wr[w].list[1]].left = 0

start(w) ==
  /\ wr[w].pc = "start"
  /\ IF MayPop(w) THEN Popped(w, "write") ELSE Goto(w, "write") /\ UNCHANGED <<notes, waitlist>>
  /\ UNCHANGED <<list_vars, rq, count_vars, net_vars, shut, failing, pipe>>

\* DoWrite() takes the requests up to one that shuts down.
Batch_PastShutdown(list) == list
Batch(list) ==
  LET stops == {i \in DOMAIN list : rq[list[i]].opt.shutdown} \cup {Len(list), DATA_LIST_MAX}
  IN SubSeq(list, 1, Min(stops))

write(w) ==
  /\ wr[w].pc = "write"
  /\ LET batch == Batch(wr[w].list)
     IN /\ shut' = (shut \/ \E r \in Range(batch) : rq[r].opt.shutdown)
        /\ \/ \E n \in 0 .. Len(Bytes(batch)) : Cut(batch, n) /\ Goto(w, "pop")
           \/ Broken /\ Goto(w, "fail")
  /\ UNCHANGED <<list_vars, id_vars, pipe>>

\* Then, when nothing was written, WaitEpollOut() waits, no longer than a timeout.
pop(w) ==
  /\ wr[w].pc = "pop"
  /\ \/ MayPop(w) /\ Popped(w, "pop")
     \/ ~MayPop(w) /\ Goto(w, "complete") /\ UNCHANGED <<notes, waitlist>>
  /\ UNCHANGED <<list_vars, rq, count_vars, net_vars, shut, failing, pipe>>

WaitEpollOutFails(w) ==
  /\ wr[w].pc = "pop" /\ ~MayPop(w)
  /\ fd' = "unpolled" /\ Goto(w, "fail")
  /\ UNCHANGED <<list_vars, rq, count_vars, wire, shut, id_vars, pipe>>

-----------------------------------------------------------------------------
(* IsWriteComplete().                                                       *)

Written_Empty(w) == rq[Last(wr[w].list)].left = 0
Written(w) == rq[Last(wr[w].list)].left = 0 /\ Len(wr[w].list) = 1

complete(w) ==
  /\ wr[w].pc = "complete"
  /\ IF head = Last(wr[w].list)
     THEN /\ head' = IF Written(w) THEN NULL ELSE head
          /\ Goto(w, IF ~Written(w) THEN "start" ELSE IF wr[w].releasing THEN "failed" ELSE "success")
     ELSE wr' = [wr EXCEPT ![w].pc = "reverse", ![w].new = head] /\ UNCHANGED head
  /\ UNCHANGED <<next, order, rq, count_vars, net_vars, shut, id_vars, pipe>>

\* The requests newer than old, oldest first, as far as they are connected.
Newer(old, new) ==
  LET chain[n \in 0 .. Cardinality(Reqs)] ==
        IF n = 0 THEN <<new>>
        ELSE LET c == chain[n - 1]
                 p == next[c[1]]
             IN IF p \in {old, c[1]} THEN c ELSE <<p>> \o c
  IN chain[Cardinality(Reqs)]

Linked_NewFirst(list, newer) == Reverse(newer)
Linked_Lost(list, newer) == list
Linked(list, newer) == list \o newer

reverse(w) ==
  LET old == Last(wr[w].list)
      newer == Newer(old, wr[w].new)
  IN /\ wr[w].pc = "reverse" /\ next[newer[1]] = old
     /\ wr' = [wr EXCEPT ![w].list = Linked(@, newer),
                         ![w].pc = IF wr[w].releasing THEN "release" ELSE "start"]
     /\ Setup(newer)
     /\ UNCHANGED <<list_vars, net_vars, shut, failing, waitlist>>

success(w) ==
  /\ wr[w].pc = "success"
  /\ ReturnSuccessfulWriteRequest(wr[w].list[1])
  /\ wr' = [wr EXCEPT ![w].pc = "done", ![w].list = <<>>]
  /\ UNCHANGED <<list_vars, rq, count_vars, net_vars, shut, failing, pipe>>

-----------------------------------------------------------------------------
(* SetFailed() and ReleaseAllFailedWriteRequests().                         *)

SetFailed(w) ==
  /\ wr[w].pc = "fail"
  /\ IF Failed THEN Goto(w, "release") /\ UNCHANGED failing
     ELSE failing' = "set" /\ Goto(w, "reset")
  /\ UNCHANGED <<list_vars, rq, count_vars, net_vars, shut, waitlist, notes, pipe>>

ResetIds == /\ failing' = "done" /\ waitlist' = {}
            /\ notes' = [r \in Reqs |-> IF r \in waitlist THEN Append(notes[r], "error") ELSE notes[r]]

reset(w) ==
  /\ wr[w].pc = "reset"
  /\ ResetIds /\ Goto(w, "release")
  /\ UNCHANGED <<list_vars, rq, count_vars, net_vars, shut, pipe>>

\* Another thread fails the socket, after a read error or a timeout say.
OtherSetFailed ==
  /\ \/ failing = "no" /\ failing' = "other" /\ UNCHANGED <<waitlist, notes>>
     \/ failing = "other" /\ ResetIds
  /\ UNCHANGED <<list_vars, rq, wr, count_vars, net_vars, shut, pipe>>

release(w) ==
  /\ wr[w].pc = "release"
  /\ LET r == wr[w].list[1]
     IN /\ Cancel(r)
        /\ IF Len(wr[w].list) > 1
           THEN Notify(r, "error") /\ wr' = [wr EXCEPT ![w].list = Tail(@)]
           ELSE UNCHANGED notes /\ wr' = [wr EXCEPT ![w].pc = "complete", ![w].releasing = TRUE]
  /\ UNCHANGED <<list_vars, net_vars, shut, failing, waitlist, pipe>>

failed(w) ==
  /\ wr[w].pc = "failed"
  /\ Notify(wr[w].list[1], "error") /\ wr' = [wr EXCEPT ![w].pc = "done", ![w].list = <<>>]
  /\ UNCHANGED <<list_vars, rq, count_vars, net_vars, shut, failing, waitlist, pipe>>

-----------------------------------------------------------------------------
Step(w) == \/ exchange(w) \/ link(w) \/ own(w) \/ AfterAppConnected(w) \/ once(w) \/ start(w)
           \/ write(w) \/ pop(w) \/ WaitEpollOutFails(w) \/ complete(w) \/ reverse(w) \/ success(w)
           \/ SetFailed(w) \/ reset(w) \/ release(w) \/ failed(w)
Next == \/ \E w \in Reqs : Step(w) \/ \E o \in Options : Write(w, o)
        \/ OtherSetFailed
Spec == Init /\ [][Next]_vars

\* Threads run; a connection attempt ends (it has a timer); a descriptor tried again
\* and again takes some bytes or fails.
Progress(w) == write(w) /\ (wire' # wire \/ wr'[w].pc = "fail")
Fairness == /\ WF_vars(failing = "other" /\ OtherSetFailed)
            /\ \A w \in Reqs : WF_vars(Step(w)) /\ SF_vars(Progress(w))
FairSpec == Spec /\ Fairness

-----------------------------------------------------------------------------
Started == Range(order)
Place(r) == CHOOSE i \in DOMAIN order : order[i] = r
Sent(r) == Cardinality({i \in DOMAIN wire : wire[i] = r})
Held == UNION {Range(wr[w].list) : w \in Reqs}

\* Every variable has its type; what is written of a request is not more than asked.
TypeOK ==
  /\ head \in Reqs \cup {NULL} /\ \A r \in Reqs : next[r] \in Reqs
  /\ \A r \in Reqs : rq[r].left + Sent(r) <= rq[r].opt.size
  /\ unwritten \in Nat /\ {overcrowded, shut} \subseteq BOOLEAN /\ fd \in {"none", "open", "broken", "unpolled"}
  /\ failing \in {"no", "set", "other", "done"}
  /\ waitlist \subseteq Reqs /\ Range(pipe) \subseteq Reqs

\* The peer receives requests in the order of the exchanges, each whole before a byte
\* of a later one; none of its bytes come when it was released unsent.  (Not so after
\* a failure of epoll itself: the rest of a request is dropped, and a thread that had
\* seen the socket healthy writes the next one into the same good descriptor.)
WireInOrder ==
  fd # "unpolled" => \A i \in DOMAIN wire, r \in Started :
     Place(r) < Place(wire[i]) =>
        /\ Cardinality({j \in 1 .. i : wire[j] = r}) \in {0, rq[r].opt.size}
        /\ r \notin {wire[j] : j \in i .. Len(wire)}
        /\ r \notin Range(wire) => notes[r] # <<>> \/ rq[r].left = 0

\* The pipelined information is queued in the order of the exchanges, once per request,
\* and before a byte of the request: answers are matched by position.
PipelineInOrder ==
  /\ \A i, j \in DOMAIN pipe : i < j => Place(pipe[i]) < Place(pipe[j])
  /\ \A r \in Range(wire) : rq[r].opt.pipelined => r \in Range(pipe)

\* Nothing follows a request that asked to shut down writing.
ShutdownIsLast ==
  \A r \in Range(wire), q \in Range(wire) : rq[r].opt.shutdown => Place(q) <= Place(r)

\* The right to write belongs to one thread; it is not lost while requests are held,
\* and each request is held once.
Writing(w) == wr[w].pc \notin {"idle", "exchange", "link", "done", "success", "failed"}
OneWriter ==
  /\ \A v, w \in Reqs : Writing(v) /\ Writing(w) => v = w
  /\ head # NULL <=> \E w \in Reqs : Writing(w)
  /\ \A v, w \in Reqs : v # w => Range(wr[v].list) \cap Range(wr[w].list) = {}

\* _unwritten_bytes is what Setup() counted and is neither written nor dropped;
\* _overcrowded follows it both ways, so writers are not refused for ever.
UnwrittenExact ==
  /\ unwritten = MapThenSumSet(LAMBDA r : rq[r].left, {r \in Held : rq[r].setup})
  /\ overcrowded <=> unwritten >= MaxUnwritten

\* An id_wait is told once (one whose message failed is told of that first), and once
\* SetFailed() is over no id waits in the list.
ToldOnce ==
  /\ \A r \in Reqs : Len(notes[r]) + (IF r \in waitlist THEN 1 ELSE 0)
                         <= (IF rq[r].opt.msgfails THEN 2 ELSE 1)
  /\ failing = "done" => waitlist = {}

\* The CHECKs: requests are released only on a failed or shut down socket, and a
\* request is returned as successful only when its data are written.
ReleaseChecks ==
  \A w \in Reqs :
    /\ wr[w].pc = "release" => Failed \/ shut
    /\ wr[w].pc = "success" => rq[wr[w].list[1]].left = 0

\* A socket reports a request as written only if the peer got all its bytes.  (One whose
\* message failed goes on empty, and may be called written after its id was told of that.)
OkMeansSent == \A r \in Reqs : notes[r] # <<>> /\ notes[r][1] = "ok" => Sent(r) = rq[r].opt.size

\* Every Write() ends: its id is told, or waits for the failure of the socket.
Told(r) == notes[r] # <<>> \/ r \in waitlist
WriteEnds == \A r \in Reqs : wr[r].pc # "idle" ~> Told(r)
=============================================================================

----------------------------- MODULE InputEvent ------------------------------
(***************************************************************************)
(* Reading from a brpc socket: EventDispatcher::Run hands edge-triggered   *)
(* events to Socket::StartInputEvent, whose _nevent keeps one bthread in   *)
(* InputMessenger::OnNewMessages; it reads, cuts and queues messages, and  *)
(* runs the last one itself.  At a client the EOF of the connection waits  *)
(* for the messages in process (_ninprocess).                              *)
(* A message has two bytes, so that it may arrive in parts.                *)
(***************************************************************************)
EXTENDS Naturals, FiniteSets

CONSTANTS Readers,   \* bthreads that may run ProcessEvent
          Messages,  \* 1 .. n, what the remote side sends in a connection
          Confs      \* [client, verify, bad, progressive, stale, lives, errors]

Conf == [client : BOOLEAN, verify : BOOLEAN, bad : Nat, progressive : BOOLEAN,
         stale : BOOLEAN, lives : Nat \ {0}, errors : BOOLEAN]
Reader == [pc : {"idle", "read", "cut", "more", "eof", "last"}, progress : Nat \ {0},
           last : {0} \cup Messages, read_eof : BOOLEAN]

\* What the proofs need of the constants.
InputConstants == IsFiniteSet(Messages) /\ Messages = 1 .. Cardinality(Messages) /\ Confs \subseteq Conf

VARIABLES conf,
          wire,    \* of the connection: [sent, eof], bytes sent and not more to come
          fd,      \* "open", or "none" between a reset and the next connection
          event,   \* whether epoll has an event for the descriptor
          disp,    \* EventDispatcher::Run: "idle", "got", "addressed"
          nevent, ninprocess, eof,     \* _nevent; _ninprocess and its EOF_FLAG
          failed,  \* "no" or the error of SetFailed
          auth,    \* _auth_flag_error: "none", "ok", "error"
          got, cut,  \* bytes in _read_buf ever, messages cut from it
          rd,      \* the reading bthreads: [pc, progress, last, read_eof]
          msg,     \* "none", "held" by last_msg, "queued", "running", "done", "dropped"
          lives

input_vars == <<conf, wire, fd, event, disp, nevent, ninprocess, eof, failed, auth, got, cut, rd, msg, lives>>
Connection == <<wire, fd, event>>
Counters == <<nevent, ninprocess, eof>>

Idle == [pc |-> "idle", progress |-> 1, last |-> 0, read_eof |-> FALSE]
InputInit == /\ conf \in Confs
             /\ wire = [sent |-> 0, eof |-> FALSE] /\ fd = "open" /\ event = FALSE /\ disp = "idle"
             /\ nevent = 0 /\ ninprocess = 1 /\ eof = FALSE /\ failed = "no" /\ auth = "none"
             /\ got = 0 /\ cut = 0 /\ rd = [r \in Readers |-> Idle]
             /\ msg = [m \in Messages |-> "none"] /\ lives = 1

\* The descriptor is closed when the socket is recycled or reset, not by SetFailed.
Fail(why) == failed' = IF failed = "no" THEN why ELSE failed

-----------------------------------------------------------------------------
(* The remote side and the EventDispatcher.                                 *)

RemoteSends == /\ fd = "open" /\ ~wire.eof /\ wire.sent < 2 * Cardinality(Messages)
               /\ wire' = [wire EXCEPT !.sent = @ + 1] /\ event' = TRUE
               /\ UNCHANGED <<conf, fd, disp, Counters, failed, auth, got, cut, rd, msg, lives>>
RemoteCloses == /\ fd = "open" /\ ~wire.eof /\ wire' = [wire EXCEPT !.eof = TRUE] /\ event' = TRUE
                /\ UNCHANGED <<conf, fd, disp, Counters, failed, auth, got, cut, rd, msg, lives>>

Poll == /\ disp = "idle" /\ event /\ event' = FALSE /\ disp' = "got"
        /\ UNCHANGED <<conf, wire, fd, Counters, failed, auth, got, cut, rd, msg, lives>>

\* Address() of StartInputEvent; a failed socket is left alone.
AddressEvent == /\ disp = "got" /\ disp' = IF failed = "no" THEN "addressed" ELSE "idle"
                /\ UNCHANGED <<conf, Connection, Counters, failed, auth, got, cut, rd, msg, lives>>

IsFirst_Always == TRUE
IsFirst == nevent = 0

\* One of the events starts ProcessEvent, the others are left to it.
StartInputEvent ==
  /\ disp = "addressed" /\ disp' = "idle"
  /\ IF fd = "none" THEN UNCHANGED <<nevent, rd>>
     ELSE /\ nevent' = nevent + 1
          /\ IF IsFirst
             THEN \E r \in Readers : /\ rd[r].pc = "idle"
                                     /\ rd' = [rd EXCEPT ![r] = [Idle EXCEPT !.pc = "read"]]
             ELSE UNCHANGED rd
  /\ UNCHANGED <<conf, Connection, ninprocess, eof, failed, auth, got, cut, msg, lives>>

-----------------------------------------------------------------------------
(* OnNewMessages.                                                           *)

\* DoRead: some of the bytes, the end of them, nothing (EAGAIN) or an error.
DoRead(r) ==
  /\ rd[r].pc = "read"
  /\ \/ \E n \in got + 1 .. wire.sent : got' = n /\ rd' = [rd EXCEPT ![r].pc = "cut"]
     \/ /\ got = wire.sent /\ UNCHANGED got
        /\ rd' = [rd EXCEPT ![r].pc = IF wire.eof THEN "cut" ELSE "more", ![r].read_eof = wire.eof]
  /\ UNCHANGED <<conf, Connection, disp, Counters, failed, auth, cut, msg, lives>>
ReadFails(r) ==
  /\ conf.errors /\ rd[r].pc = "read" /\ rd' = [rd EXCEPT ![r].pc = "last"] /\ Fail("read")
  /\ UNCHANGED <<conf, Connection, disp, Counters, auth, got, cut, msg, lives>>

\* MoreReadEvents: the CAS fails if events came meanwhile.
Seen_Any(r) == TRUE
Seen(r) == nevent = rd[r].progress
MoreReadEvents(r) ==
  /\ rd[r].pc = "more"
  /\ IF Seen(r) THEN nevent' = 0 /\ rd' = [rd EXCEPT ![r].pc = "last"]
     ELSE rd' = [rd EXCEPT ![r].pc = "read", ![r].progress = nevent] /\ UNCHANGED nevent
  /\ UNCHANGED <<conf, Connection, disp, ninprocess, eof, failed, auth, got, cut, msg, lives>>

\* The message before is queued; the new one is verified, unless the connection is, and kept
\* as the last one, or queued at once if it is read progressively.
Postponed_Not == ninprocess
Postponed == IF conf.client THEN ninprocess + 1 ELSE ninprocess
Verified_Never == {auth}
Verified == IF conf.verify /\ auth = "none" THEN {"ok", "error"} ELSE {auth}
CutMessage(r) ==
  LET m == cut + 1
      queued == IF rd[r].last = 0 THEN msg ELSE [msg EXCEPT ![rd[r].last] = "queued"]
  IN /\ rd[r].pc = "cut" /\ got >= 2 * m /\ m # conf.bad /\ cut' = m
     /\ \E a \in Verified :
          /\ auth' = a
          /\ IF a = "error"   \* the message is destroyed, which takes its PostponeEOF back
             THEN /\ Fail("auth") /\ rd' = [rd EXCEPT ![r].pc = "last", ![r].last = 0]
                  /\ msg' = [queued EXCEPT ![m] = "dropped"] /\ UNCHANGED ninprocess
             ELSE /\ msg' = [queued EXCEPT ![m] = IF conf.progressive THEN "queued" ELSE "held"]
                  /\ rd' = [rd EXCEPT ![r].last = IF conf.progressive THEN 0 ELSE m]
                  /\ ninprocess' = Postponed /\ UNCHANGED failed
     /\ UNCHANGED <<conf, Connection, disp, nevent, eof, got, lives>>

ParseFails(r) ==
  /\ rd[r].pc = "cut" /\ got >= 2 * (cut + 1) /\ cut + 1 = conf.bad
  /\ rd' = [rd EXCEPT ![r].pc = "last"] /\ Fail("parse")
  /\ UNCHANGED <<conf, Connection, disp, Counters, auth, got, cut, msg, lives>>

NotEnoughData(r) ==
  /\ rd[r].pc = "cut" /\ got < 2 * (cut + 1)
  /\ rd' = [rd EXCEPT ![r].pc = IF rd[r].read_eof THEN "eof" ELSE "read"]
  /\ UNCHANGED <<conf, Connection, disp, Counters, failed, auth, got, cut, msg, lives>>

\* CheckEOFInternal: the last one in process fails the socket.
LastInProcess_BeforeSub == ninprocess = 0
LastInProcess == ninprocess = 1
Released == ninprocess' = ninprocess - 1 /\ IF LastInProcess THEN Fail("eof") ELSE UNCHANGED failed
SetEOF(r) ==
  /\ rd[r].pc = "eof" /\ rd' = [rd EXCEPT ![r].pc = "last"] /\ eof' = TRUE
  /\ IF eof THEN UNCHANGED <<ninprocess, failed>> ELSE Released
  /\ UNCHANGED <<conf, Connection, disp, nevent, auth, got, cut, msg, lives>>

\* Every return runs the last message, which keeps the bthread until it is done.
Runs_UnlessFailed(m) == m # 0 /\ failed = "no"
Runs(m) == m # 0
RunLastMessage(r) ==
  /\ rd[r].pc = "last" /\ rd' = [rd EXCEPT ![r] = Idle]
  /\ msg' = IF Runs(rd[r].last) THEN [msg EXCEPT ![rd[r].last] = "running"] ELSE msg
  /\ UNCHANGED <<conf, Connection, disp, Counters, failed, auth, got, cut, lives>>

\* ProcessInputMessage starts in a bthread of its own, and destroys the message in the end.
Start(m) == /\ msg[m] = "queued" /\ msg' = [msg EXCEPT ![m] = "running"]
            /\ UNCHANGED <<conf, Connection, disp, Counters, failed, auth, got, cut, rd, lives>>
CheckEOF_AtServers == TRUE
CheckEOF == conf.client
Destroy(m) ==
  /\ msg[m] = "running" /\ msg' = [msg EXCEPT ![m] = "done"]
  /\ IF CheckEOF THEN Released ELSE UNCHANGED <<ninprocess, failed>>
  /\ UNCHANGED <<conf, Connection, disp, nevent, eof, auth, got, cut, rd, lives>>

-----------------------------------------------------------------------------
(* WaitAndReset by the health check, Revive and the next connection.        *)

Unreferenced_ByEvents == /\ \A r \in Readers : rd[r].pc = "idle"
                         /\ \A m \in Messages : msg[m] \in {"none", "done", "dropped"}
Unreferenced == /\ disp # "addressed" /\ \A r \in Readers : rd[r].pc = "idle"
                /\ \A m \in Messages : msg[m] \in {"none", "done", "dropped"}
\* Without conf.stale no event outlives the seconds that a health check takes.
WaitAndReset ==
  /\ conf.client /\ failed # "no" /\ lives < conf.lives /\ Unreferenced
  /\ conf.stale \/ disp # "got"
  /\ fd' = "none" /\ event' = FALSE /\ wire' = [sent |-> 0, eof |-> FALSE]
  /\ nevent' = 0 /\ ninprocess' = 1 /\ eof' = FALSE /\ auth' = "none" /\ got' = 0 /\ cut' = 0
  /\ msg' = [m \in Messages |-> "none"] /\ failed' = "no" /\ lives' = lives + 1
  /\ UNCHANGED <<conf, disp, rd>>
Connect == /\ fd = "none" /\ fd' = "open"
           /\ UNCHANGED <<conf, wire, event, disp, Counters, failed, auth, got, cut, rd, msg, lives>>

-----------------------------------------------------------------------------
Dispatch == Poll \/ AddressEvent \/ StartInputEvent
OnNewMessages(r) == \/ DoRead(r) \/ MoreReadEvents(r) \/ CutMessage(r) \/ ParseFails(r)
                    \/ NotEnoughData(r) \/ SetEOF(r) \/ RunLastMessage(r)
InputNext == \/ RemoteSends \/ RemoteCloses \/ Dispatch \/ WaitAndReset \/ Connect
             \/ \E r \in Readers : OnNewMessages(r) \/ ReadFails(r)
             \/ \E m \in Messages : Start(m) \/ Destroy(m)
InputSpec == InputInit /\ [][InputNext]_input_vars

\* The dispatcher, the reading bthread and the bthreads of the messages are scheduled.
InputFairness == /\ WF_input_vars(Dispatch) /\ WF_input_vars(\E r \in Readers : OnNewMessages(r))
                 /\ \A m \in Messages : WF_input_vars(Start(m) \/ Destroy(m))
InputFairSpec == InputSpec /\ InputFairness

-----------------------------------------------------------------------------
Reading(r) == rd[r].pc \in {"read", "cut", "more", "eof"}

\* Every variable has its type.
InputTypeOK ==
  /\ conf \in Confs /\ wire \in [sent : 0 .. 2 * Cardinality(Messages), eof : BOOLEAN]
  /\ fd \in {"open", "none"} /\ event \in BOOLEAN /\ disp \in {"idle", "got", "addressed"}
  /\ nevent \in Nat /\ ninprocess \in Nat /\ eof \in BOOLEAN
  /\ failed \in {"no", "eof", "read", "parse", "auth"} /\ auth \in {"none", "ok", "error"}
  /\ got \in 0 .. wire.sent /\ cut \in 0 .. got
  /\ rd \in [Readers -> Reader]
  /\ msg \in [Messages -> {"none", "held", "queued", "running", "done", "dropped"}]
  /\ lives \in 1 .. conf.lives

\* One bthread at a time reads the descriptor and cuts _read_buf, though events start new ones.
OneReader == \A r, s \in Readers : Reading(r) /\ Reading(s) => r = s

\* An event is not lost: while something is unread, an event is on its way, counted and still
\* to be looked at, or nobody will read any more because of a failure or an EOF.
NoLostEvent == fd = "open" /\ (got < wire.sent \/ wire.eof) =>
   \/ event \/ disp # "idle" \/ failed # "no" \/ eof
   \/ \E r \in Readers : rd[r].pc \in {"read", "cut", "eof"} \/ (rd[r].pc = "more" /\ ~Seen(r))

\* At a client the EOF fails the socket after every message that came before it in full is
\* processed, so that an answer is not taken for a broken connection.
EOFAfterMessages == conf.client /\ failed = "eof" =>
   eof /\ \A m \in Messages : 2 * m <= wire.sent => msg[m] = "done"

\* "Verify will always be called in this bthread at most once and before any process"; nothing
\* is cut after the verification failed ("Impossible!" otherwise).
VerifiedFirst == conf.verify =>
   /\ (\E m \in Messages : msg[m] \in {"held", "queued", "running", "done"}) => auth = "ok"
   /\ auth = "error" => failed # "no" /\ ~\E r \in Readers : Reading(r)

\* CHECK of StartInputEvent: no event for reading comes while there is no descriptor, if no
\* event outlives a health check.
EventHasFd == ~conf.stale /\ disp = "addressed" => fd = "open"

\* Reading is safe: all of the above together, what InputEventProofs proves of InputSpec.
InputSafe == /\ InputTypeOK /\ OneReader /\ NoLostEvent /\ EOFAfterMessages /\ VerifiedFirst
             /\ EventHasFd

InProcess == {m \in Messages : msg[m] \in {"held", "queued", "running"}}

\* The inductive invariant.  _nevent stays positive while somebody reads and for good once
\* reading ended with a failure or an EOF; _ninprocess counts the messages in process and the
\* connection; an EOF comes after all the bytes; a bthread keeps a message of its own.
Counted == /\ \A r \in Readers : Reading(r) => rd[r].progress <= nevent
           /\ nevent > 0 => failed # "no" \/ eof \/ \E r \in Readers : Reading(r)
           /\ eof \/ auth = "error" => nevent > 0 /\ \A r \in Readers : ~Reading(r)
Postponing == ninprocess = (IF eof THEN 0 ELSE 1) + (IF conf.client THEN Cardinality(InProcess) ELSE 0)
NoFd == /\ fd = "none" => wire.sent = 0 /\ ~wire.eof /\ ~event
        /\ ~conf.stale /\ disp # "idle" => fd = "open"
AllRead == wire.eof /\ got = wire.sent
EndReached == /\ \A r \in Readers : rd[r].read_eof => AllRead /\ rd[r].pc # "idle"
              /\ \A r \in Readers : rd[r].pc = "eof" => AllRead /\ got < 2 * (cut + 1)
              /\ eof => AllRead /\ got < 2 * (cut + 1)
Kept == /\ \A m \in Messages : msg[m] = "none" <=> m > cut
        /\ \A r \in Readers : rd[r].last # 0 => rd[r].pc # "idle" /\ msg[rd[r].last] = "held"
        /\ \A r, s \in Readers : rd[r].last = rd[s].last /\ r # s => rd[r].last = 0
Ends == /\ failed = "eof" => eof /\ (conf.client => InProcess = {})
        /\ \A m \in Messages : msg[m] = "dropped" => failed \notin {"no", "eof"}
InputInv == /\ InputTypeOK /\ OneReader /\ NoLostEvent /\ VerifiedFirst
            /\ Counted /\ Postponing /\ NoFd /\ EndReached /\ Kept /\ Ends

\* Every message that is cut is processed to its end, also after a failure.
EveryMessageEnds == InProcess # {} ~> InProcess = {}
\* The end of a connection is noticed: its socket fails.
Noticed == failed # "no" \/ ~wire.eof
EOFFails == wire.eof ~> Noticed
==============================================================================

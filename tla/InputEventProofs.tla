------------------------- MODULE InputEventProofs --------------------------
(***************************************************************************)
(* One reader, no lost event, and an EOF after all messages: the safety of *)
(* StartInputEvent, OnNewMessages and _ninprocess, for any number of       *)
(* bthreads and messages and any configuration of the socket.              *)
(***************************************************************************)
EXTENDS InputEvent, FiniteSetTheorems, TLAPS

-----------------------------------------------------------------------------
(* What the steps have in common.                                           *)

\* The messages in process are finitely many.
LEMMA InProcessFinite == ASSUME InputConstants
                         PROVE  IsFiniteSet(InProcess) /\ Cardinality(InProcess) \in Nat
BY FS_Subset, FS_CardinalityType, Zenon DEF InputConstants, InProcess

\* A step that leaves the messages alone leaves those in process alone.
LEMMA SameInProcess == ASSUME msg' = msg PROVE InProcess' = InProcess
BY Zenon DEF InProcess

\* The configuration is a record with the fields of Conf.
LEMMA ConfType == ASSUME InputConstants, InputTypeOK PROVE conf \in Conf
BY Zenon DEF InputConstants, InputTypeOK

\* A bthread r moves on to q and the others stay where they are.
Moves(r, q) == q \in Reader /\ rd' = [rd EXCEPT ![r] = q]
LEMMA MovesTo == ASSUME InputTypeOK, NEW r \in Readers, NEW q, Moves(r, q)
                 PROVE  /\ rd' \in [Readers -> Reader] /\ rd'[r] = q
                        /\ \A s \in Readers : s # r => rd'[s] = rd[s]
BY Zenon DEF Moves, InputTypeOK

\* What the invariant says of single values.
LEMMA Types ==
  ASSUME InputConstants, InputInv
  PROVE  /\ InputTypeOK /\ conf \in Conf /\ nevent \in Nat /\ ninprocess \in Nat /\ eof \in BOOLEAN
         /\ got \in Nat /\ cut \in Nat /\ wire.sent \in Nat /\ got <= wire.sent /\ cut <= got
         /\ wire.eof \in BOOLEAN /\ IsFiniteSet(InProcess) /\ Cardinality(InProcess) \in Nat
         /\ \A r \in Readers : /\ rd[r] \in Reader /\ rd[r].progress \in Nat \ {0}
                               /\ rd[r].last \in {0} \cup Messages
         /\ \A m \in Messages : m \in Nat \ {0}
<1>1. InputTypeOK BY Zenon DEF InputInv
<1>2. conf \in Conf BY <1>1, ConfType, Zenon
<1>3. wire.sent \in Nat /\ wire.eof \in BOOLEAN BY <1>1, FS_CardinalityType, SMTT(30) DEF InputTypeOK, InputConstants
<1>4. got \in Nat /\ cut \in Nat /\ got <= wire.sent /\ cut <= got BY <1>1, <1>3, SMTT(30) DEF InputTypeOK
<1>5. \A r \in Readers : /\ rd[r] \in Reader /\ rd[r].progress \in Nat \ {0}
                         /\ rd[r].last \in {0} \cup Messages
  BY <1>1, Zenon DEF InputTypeOK, Reader
<1>6. \A m \in Messages : m \in Nat \ {0} BY FS_CardinalityType, SMTT(30) DEF InputConstants
<1> QED BY <1>1, <1>2, <1>3, <1>4, <1>5, <1>6, InProcessFinite, Zenon DEF InputTypeOK

\* A step that leaves the readers, the messages and the counters alone disturbs at most what is
\* said of the connection.
LEMMA Quiet ==
  ASSUME InputInv, UNCHANGED <<conf, Counters, failed, auth, cut, rd, msg>>,
         InputTypeOK', NoLostEvent', NoFd', EndReached'
  PROVE  InputInv'
<1>1. InProcess' = InProcess BY SameInProcess, Zenon
<1>2. OneReader' /\ Counted' BY Zenon DEF InputInv, OneReader, Counted, Reading, Counters
<1>3. VerifiedFirst' /\ Kept' BY Zenon DEF InputInv, VerifiedFirst, Kept, Reading
<1>4. Postponing' /\ Ends' BY <1>1, Zenon DEF InputInv, Postponing, Ends, Counters
<1> QED BY <1>2, <1>3, <1>4, Zenon DEF InputInv

\* Bytes arrive: an event is on its way.
LEMMA RemoteSendsStep == ASSUME InputConstants, InputInv, RemoteSends PROVE InputInv'
<1> USE DEF Connection, Counters, Conf
<1>1. InputTypeOK /\ conf \in Conf BY ConfType, Zenon DEF InputInv
<1>2. InputTypeOK'
  <2>1. wire'.sent = wire.sent + 1 /\ wire'.eof = wire.eof BY <1>1, Zenon DEF InputTypeOK, RemoteSends
  <2>2. Cardinality(Messages) \in Nat BY FS_CardinalityType, Zenon DEF InputConstants
  <2>3. wire' \in [sent : 0 .. 2 * Cardinality(Messages), eof : BOOLEAN]
    BY <1>1, <2>2, SMTT(30) DEF InputTypeOK, RemoteSends
  <2> QED BY <1>1, <2>1, <2>3, SMTT(30) DEF InputTypeOK, RemoteSends
<1>3. NoLostEvent' BY <1>1, Zenon DEF InputInv, NoLostEvent, Seen, NoFd, InputTypeOK, RemoteSends
<1>4. NoFd' BY <1>1, Zenon DEF InputInv, NoFd, InputTypeOK, RemoteSends
<1>5. EndReached' BY <1>1, Zenon DEF InputInv, EndReached, AllRead, InputTypeOK, RemoteSends
<1> QED BY <1>2, <1>3, <1>4, <1>5, Quiet, Zenon DEF RemoteSends

\* The end of the bytes arrives: an event is on its way.
LEMMA RemoteClosesStep == ASSUME InputConstants, InputInv, RemoteCloses PROVE InputInv'
<1> USE DEF Connection, Counters, Conf
<1>1. InputTypeOK /\ conf \in Conf BY ConfType, Zenon DEF InputInv
<1>2. InputTypeOK' BY <1>1, Zenon DEF InputTypeOK, RemoteCloses
<1>3. NoLostEvent' BY <1>1, Zenon DEF InputInv, NoLostEvent, Seen, NoFd, InputTypeOK, RemoteCloses
<1>4. NoFd' BY <1>1, Zenon DEF InputInv, NoFd, InputTypeOK, RemoteCloses
<1>5. EndReached' BY <1>1, Zenon DEF InputInv, EndReached, AllRead, InputTypeOK, RemoteCloses
<1> QED BY <1>2, <1>3, <1>4, <1>5, Quiet, Zenon DEF RemoteCloses

\* The dispatcher takes the event.
LEMMA PollStep == ASSUME InputConstants, InputInv, Poll PROVE InputInv'
<1> USE DEF Connection, Counters, Conf
<1>1. InputTypeOK /\ conf \in Conf BY ConfType, Zenon DEF InputInv
<1>2. InputTypeOK' BY <1>1, Zenon DEF InputTypeOK, Poll
<1>3. NoLostEvent' BY <1>1, Zenon DEF InputInv, NoLostEvent, Seen, NoFd, InputTypeOK, Poll
<1>4. NoFd' BY <1>1, Zenon DEF InputInv, NoFd, InputTypeOK, Poll
<1>5. EndReached' BY <1>1, Zenon DEF InputInv, EndReached, AllRead, InputTypeOK, Poll
<1> QED BY <1>2, <1>3, <1>4, <1>5, Quiet, Zenon DEF Poll

\* The dispatcher finds the socket failed, or keeps it.
LEMMA AddressEventStep == ASSUME InputConstants, InputInv, AddressEvent PROVE InputInv'
<1> USE DEF Connection, Counters, Conf
<1>1. InputTypeOK /\ conf \in Conf BY ConfType, Zenon DEF InputInv
<1>2. InputTypeOK' BY <1>1, Zenon DEF InputTypeOK, AddressEvent
<1>3. NoLostEvent' BY <1>1, Zenon DEF InputInv, NoLostEvent, Seen, NoFd, InputTypeOK, AddressEvent
<1>4. NoFd' BY <1>1, Zenon DEF InputInv, NoFd, InputTypeOK, AddressEvent
<1>5. EndReached' BY <1>1, Zenon DEF InputInv, EndReached, AllRead, InputTypeOK, AddressEvent
<1> QED BY <1>2, <1>3, <1>4, <1>5, Quiet, Zenon DEF AddressEvent

\* A new descriptor: nothing was sent through it yet.
LEMMA ConnectStep == ASSUME InputConstants, InputInv, Connect PROVE InputInv'
<1> USE DEF Connection, Counters, Conf
<1>1. InputTypeOK /\ conf \in Conf BY ConfType, Zenon DEF InputInv
<1>2. InputTypeOK' BY <1>1, Zenon DEF InputTypeOK, Connect
<1>3. NoLostEvent' BY <1>1, SMTT(30) DEF InputInv, NoLostEvent, Seen, NoFd, InputTypeOK, Connect
<1>4. NoFd' BY <1>1, Zenon DEF InputInv, NoFd, InputTypeOK, Connect
<1>5. EndReached' BY <1>1, Zenon DEF InputInv, EndReached, AllRead, InputTypeOK, Connect
<1> QED BY <1>2, <1>3, <1>4, <1>5, Quiet, Zenon DEF Connect

\* A read fails: the socket fails, the reader ends.
LEMMA ReadFailsStep == ASSUME InputConstants, InputInv, NEW r \in Readers, ReadFails(r) PROVE InputInv'
<1>1. /\ rd[r].pc = "read" /\ UNCHANGED <<conf, wire, fd, event, disp, nevent, ninprocess, eof>>
      /\ UNCHANGED <<auth, got, cut, msg, lives>> /\ failed' = IF failed = "no" THEN "read" ELSE failed
  BY Zenon DEF ReadFails, Fail, Connection, Counters
<1>2. InProcess' = InProcess BY <1>1, SameInProcess, Zenon
<1>3. failed' # "no" /\ (failed' = "eof" => failed = "eof") /\ failed' \in {"no", "eof", "read", "parse", "auth"}
  BY <1>1, Types, Zenon DEF InputTypeOK
<1>4. Moves(r, [rd[r] EXCEPT !.pc = "last"]) BY Types, Zenon DEF Moves, ReadFails, Reader
<1>5. rd' \in [Readers -> Reader] /\ \A s \in Readers : s # r => rd'[s] = rd[s] BY <1>4, Types, MovesTo, Zenon
<1>6. /\ rd'[r].pc = "last" /\ rd'[r].progress = rd[r].progress /\ rd'[r].last = rd[r].last
      /\ rd'[r].read_eof = rd[r].read_eof
  BY <1>4, Types, MovesTo, SMTT(30) DEF Reader
<1>7. Reading(r) /\ \A s \in Readers : ~Reading(s)' BY <1>1, <1>5, <1>6, Zenon DEF InputInv, OneReader, Reading
<1>c0. InputTypeOK' BY <1>1, <1>5, Types, <1>3, Zenon DEF InputTypeOK
<1>c1. OneReader' BY <1>7, Zenon DEF OneReader
<1>c2. NoLostEvent' BY <1>3, Zenon DEF NoLostEvent
<1>c3. VerifiedFirst' BY <1>1, <1>3, <1>7, Zenon DEF InputInv, VerifiedFirst
<1>c4. Counted' BY <1>1, <1>3, <1>7, Zenon DEF InputInv, Counted
<1>c5. Postponing' BY <1>1, <1>2, Zenon DEF InputInv, Postponing
<1>c6. NoFd' BY <1>1, Zenon DEF InputInv, NoFd
<1>c7. EndReached' BY <1>1, <1>5, <1>6, Types, Zenon DEF InputInv, EndReached, AllRead
<1>c8. Kept' BY <1>1, <1>5, <1>6, SMTT(30) DEF InputInv, Kept
<1>c9. Ends' BY <1>1, <1>2, <1>3, Zenon DEF InputInv, Ends
<1> QED BY <1>c0, <1>c1, <1>c2, <1>c3, <1>c4, <1>c5, <1>c6, <1>c7, <1>c8, <1>c9, Zenon DEF InputInv

\* A message cannot be parsed: the socket fails, the reader ends.
LEMMA ParseFailsStep == ASSUME InputConstants, InputInv, NEW r \in Readers, ParseFails(r) PROVE InputInv'
<1>1. /\ rd[r].pc = "cut" /\ UNCHANGED <<conf, wire, fd, event, disp, nevent, ninprocess, eof>>
      /\ UNCHANGED <<auth, got, cut, msg, lives>> /\ failed' = IF failed = "no" THEN "parse" ELSE failed
  BY Zenon DEF ParseFails, Fail, Connection, Counters
<1>2. InProcess' = InProcess BY <1>1, SameInProcess, Zenon
<1>3. failed' # "no" /\ (failed' = "eof" => failed = "eof") /\ failed' \in {"no", "eof", "read", "parse", "auth"}
  BY <1>1, Types, Zenon DEF InputTypeOK
<1>4. Moves(r, [rd[r] EXCEPT !.pc = "last"]) BY Types, Zenon DEF Moves, ParseFails, Reader
<1>5. rd' \in [Readers -> Reader] /\ \A s \in Readers : s # r => rd'[s] = rd[s] BY <1>4, Types, MovesTo, Zenon
<1>6. /\ rd'[r].pc = "last" /\ rd'[r].progress = rd[r].progress /\ rd'[r].last = rd[r].last
      /\ rd'[r].read_eof = rd[r].read_eof
  BY <1>4, Types, MovesTo, SMTT(30) DEF Reader
<1>7. Reading(r) /\ \A s \in Readers : ~Reading(s)' BY <1>1, <1>5, <1>6, Zenon DEF InputInv, OneReader, Reading
<1>c0. InputTypeOK' BY <1>1, <1>5, Types, <1>3, Zenon DEF InputTypeOK
<1>c1. OneReader' BY <1>7, Zenon DEF OneReader
<1>c2. NoLostEvent' BY <1>3, Zenon DEF NoLostEvent
<1>c3. VerifiedFirst' BY <1>1, <1>3, <1>7, Zenon DEF InputInv, VerifiedFirst
<1>c4. Counted' BY <1>1, <1>3, <1>7, Zenon DEF InputInv, Counted
<1>c5. Postponing' BY <1>1, <1>2, Zenon DEF InputInv, Postponing
<1>c6. NoFd' BY <1>1, Zenon DEF InputInv, NoFd
<1>c7. EndReached' BY <1>1, <1>5, <1>6, Types, Zenon DEF InputInv, EndReached, AllRead
<1>c8. Kept' BY <1>1, <1>5, <1>6, SMTT(30) DEF InputInv, Kept
<1>c9. Ends' BY <1>1, <1>2, <1>3, Zenon DEF InputInv, Ends
<1> QED BY <1>c0, <1>c1, <1>c2, <1>c3, <1>c4, <1>c5, <1>c6, <1>c7, <1>c8, <1>c9, Zenon DEF InputInv

\* The rest of a message is missing: more is read, unless the end was reached.
LEMMA NotEnoughDataStep == ASSUME InputConstants, InputInv, NEW r \in Readers, NotEnoughData(r) PROVE InputInv'
<1>1. /\ rd[r].pc = "cut" /\ UNCHANGED <<conf, wire, fd, event, disp, nevent, ninprocess, eof>>
      /\ UNCHANGED <<failed, auth, got, cut, msg, lives>> /\ got < 2 * (cut + 1)
  BY Zenon DEF NotEnoughData, Connection, Counters
<1>2. InProcess' = InProcess BY <1>1, SameInProcess, Zenon
<1>3. Moves(r, [rd[r] EXCEPT !.pc = IF rd[r].read_eof THEN "eof" ELSE "read"]) BY Types, Zenon DEF Moves, NotEnoughData, Reader
<1>4. rd' \in [Readers -> Reader] /\ \A s \in Readers : s # r => rd'[s] = rd[s] BY <1>3, Types, MovesTo, Zenon
<1>5. /\ rd'[r].pc = (IF rd[r].read_eof THEN "eof" ELSE "read") /\ rd'[r].progress = rd[r].progress
      /\ rd'[r].last = rd[r].last /\ rd'[r].read_eof = rd[r].read_eof
  BY <1>3, Types, MovesTo, SMTT(30) DEF Reader
<1>c0. InputTypeOK' BY <1>1, <1>4, Types, SMTT(30) DEF InputTypeOK
<1>c1. OneReader' BY <1>1, <1>4, <1>5, Zenon DEF InputInv, OneReader, Reading
<1>c2. NoLostEvent' BY <1>5, Zenon DEF NoLostEvent
<1>c3. VerifiedFirst' BY <1>1, <1>4, <1>5, Zenon DEF InputInv, VerifiedFirst, Reading
<1>c4. Counted' BY <1>1, <1>4, <1>5, Types, Zenon DEF InputInv, Counted, Reading, OneReader
<1>c5. Postponing' BY <1>1, <1>2, Zenon DEF InputInv, Postponing
<1>c6. NoFd' BY <1>1, Zenon DEF InputInv, NoFd
<1>c7. EndReached' BY <1>1, <1>4, <1>5, Types, Zenon DEF InputInv, EndReached, AllRead
<1>c8. Kept' BY <1>1, <1>4, <1>5, SMTT(30) DEF InputInv, Kept
<1>c9. Ends' BY <1>1, <1>2, Zenon DEF InputInv, Ends
<1> QED BY <1>c0, <1>c1, <1>c2, <1>c3, <1>c4, <1>c5, <1>c6, <1>c7, <1>c8, <1>c9, Zenon DEF InputInv

\* The first event starts a reader, the others are counted.
LEMMA StartInputEventStep == ASSUME InputConstants, InputInv, StartInputEvent PROVE InputInv'
<1>1. /\ UNCHANGED <<conf, wire, fd, event, ninprocess, eof>> /\ disp = "addressed" /\ disp' = "idle"
      /\ UNCHANGED <<failed, auth, got, cut, msg, lives>>
  BY Zenon DEF StartInputEvent, Connection
<1>2. InProcess' = InProcess BY <1>1, SameInProcess, Zenon
<1>3. CASE fd = "none" \/ ~IsFirst
  <2>1. rd' = rd /\ nevent' \in Nat /\ (nevent' = nevent \/ (nevent' = nevent + 1 /\ nevent > 0))
    BY <1>3, Types, SMTT(30) DEF StartInputEvent, IsFirst
  <2>2. fd = "open" => nevent' = nevent + 1 /\ nevent > 0 BY <1>3, Types, SMTT(30) DEF StartInputEvent, IsFirst
  <2>c0. InputTypeOK' BY <1>1, <2>1, Types, Zenon DEF InputTypeOK
  <2>c1. OneReader' BY <1>1, <2>1, Zenon DEF InputInv, OneReader, Reading
  <2>c2. NoLostEvent'
    <3> SUFFICES ASSUME fd = "open", failed = "no", ~eof PROVE \E r \in Readers : rd[r].pc \in {"read", "cut", "eof"}
                                                                       \/ (rd[r].pc = "more" /\ nevent' # rd[r].progress)
      BY <1>1, <2>1, Zenon DEF NoLostEvent, Seen
    <3>1. PICK r \in Readers : Reading(r) BY <2>2, Zenon DEF InputInv, Counted
    <3>2. rd[r].progress <= nevent /\ nevent' = nevent + 1 BY <2>2, <3>1, Zenon DEF InputInv, Counted
    <3> QED BY <3>1, <3>2, Types, SMTT(30) DEF Reading
  <2>c3. VerifiedFirst' BY <1>1, <2>1, Zenon DEF InputInv, VerifiedFirst, Reading
  <2>c4. Counted' BY <1>1, <2>1, Types, SMTT(30) DEF InputInv, Counted, Reading, OneReader
  <2>c5. Postponing' BY <1>1, <1>2, Zenon DEF InputInv, Postponing
  <2>c6. NoFd' BY <1>1, Zenon DEF InputInv, NoFd
  <2>c7. EndReached' BY <1>1, <2>1, Types, Zenon DEF InputInv, EndReached, AllRead
  <2>c8. Kept' BY <1>1, <2>1, Zenon DEF InputInv, Kept
  <2>c9. Ends' BY <1>1, <1>2, Zenon DEF InputInv, Ends
  <2> QED BY <2>c0, <2>c1, <2>c2, <2>c3, <2>c4, <2>c5, <2>c6, <2>c7, <2>c8, <2>c9, Zenon DEF InputInv
<1>4. CASE fd # "none" /\ IsFirst
  <2>1. Idle \in Reader BY SMTT(30) DEF Idle, Reader
  <2>2. [Idle EXCEPT !.pc = "read"] \in Reader BY <2>1, Zenon DEF Reader
  <2>3. PICK r \in Readers : rd[r].pc = "idle" /\ Moves(r, [Idle EXCEPT !.pc = "read"])
    BY <1>4, <2>2, Zenon DEF Moves, StartInputEvent
  <2>4. rd' \in [Readers -> Reader] /\ \A s \in Readers : s # r => rd'[s] = rd[s] BY <2>3, Types, MovesTo, Zenon
  <2>5. rd'[r].pc = "read" /\ rd'[r].progress = 1 /\ rd'[r].last = 0 /\ rd'[r].read_eof = FALSE
    BY <2>3, Types, MovesTo, SMTT(30) DEF Idle
  <2>6. nevent = 0 /\ nevent' = 1 BY <1>4, Types, SMTT(30) DEF StartInputEvent, IsFirst
  <2>7. \A s \in Readers : ~Reading(s) /\ (Reading(s)' <=> s = r)
    BY <2>3, <2>4, <2>5, <2>6, Types, SMTT(30) DEF InputInv, Counted, Reading
  <2>8. ~eof /\ auth # "error" BY <2>6, Types, SMTT(30) DEF InputInv, Counted
  <2>c0. InputTypeOK' BY <1>1, <2>4, Types, <2>6, Zenon DEF InputTypeOK
  <2>c1. OneReader' BY <2>7, Zenon DEF OneReader
  <2>c2. NoLostEvent' BY <2>5, Zenon DEF NoLostEvent
  <2>c3. VerifiedFirst' BY <1>1, <2>8, Zenon DEF InputInv, VerifiedFirst
  <2>c4. Counted' BY <1>1, <2>4, <2>5, <2>6, <2>7, <2>8, SMTT(30) DEF Counted
  <2>c5. Postponing' BY <1>1, <1>2, Zenon DEF InputInv, Postponing
  <2>c6. NoFd' BY <1>1, Zenon DEF InputInv, NoFd
  <2>c7. EndReached' BY <1>1, <2>4, <2>5, Types, <2>3, Zenon DEF InputInv, EndReached, AllRead
  <2>c8. Kept' BY <1>1, <2>4, <2>5, <2>3, SMTT(30) DEF InputInv, Kept
  <2>c9. Ends' BY <1>1, <1>2, Zenon DEF InputInv, Ends
  <2> QED BY <2>c0, <2>c1, <2>c2, <2>c3, <2>c4, <2>c5, <2>c6, <2>c7, <2>c8, <2>c9, Zenon DEF InputInv
<1> QED BY <1>3, <1>4, Zenon

\* Bytes are read, or the end, or nothing.
LEMMA DoReadStep == ASSUME InputConstants, InputInv, NEW r \in Readers, DoRead(r) PROVE InputInv'
<1>1. /\ rd[r].pc = "read" /\ UNCHANGED <<conf, wire, fd, event, disp, nevent, ninprocess, eof>>
      /\ UNCHANGED <<failed, auth, cut, msg, lives>>
  BY Zenon DEF DoRead, Connection, Counters
<1>2. InProcess' = InProcess BY <1>1, SameInProcess, Zenon
<1>r. ~eof BY <1>1, Zenon DEF InputInv, Counted, Reading
<1>3. CASE got' # got
  <2>1. got < got' /\ got' <= wire.sent /\ got' \in Nat BY <1>3, Types, SMTT(30) DEF DoRead
  <2>2. Moves(r, [rd[r] EXCEPT !.pc = "cut"]) BY <1>3, Types, Zenon DEF Moves, DoRead, Reader
  <2>3. rd' \in [Readers -> Reader] /\ \A s \in Readers : s # r => rd'[s] = rd[s] BY <2>2, Types, MovesTo, Zenon
  <2>4. /\ rd'[r].pc = "cut" /\ rd'[r].progress = rd[r].progress /\ rd'[r].last = rd[r].last
        /\ rd'[r].read_eof = rd[r].read_eof
    BY <2>2, Types, MovesTo, SMTT(30) DEF Reader
  <2>c0. InputTypeOK' BY <1>1, <2>3, Types, <2>1, SMTT(30) DEF InputTypeOK
  <2>c1. OneReader' BY <1>1, <2>3, <2>4, Zenon DEF InputInv, OneReader, Reading
  <2>c2. NoLostEvent' BY <2>4, Zenon DEF NoLostEvent
  <2>c3. VerifiedFirst' BY <1>1, <2>3, <2>4, Zenon DEF InputInv, VerifiedFirst, Reading
  <2>c4. Counted' BY <1>1, <2>3, <2>4, Types, Zenon DEF InputInv, Counted, Reading, OneReader
  <2>c5. Postponing' BY <1>1, <1>2, Zenon DEF InputInv, Postponing
  <2>c6. NoFd' BY <1>1, Zenon DEF InputInv, NoFd
  <2>c7. EndReached' BY <1>1, <2>3, <2>4, Types, <2>1, SMTT(30) DEF InputInv, EndReached, AllRead
  <2>c8. Kept' BY <1>1, <2>3, <2>4, SMTT(30) DEF InputInv, Kept
  <2>c9. Ends' BY <1>1, <1>2, Zenon DEF InputInv, Ends
  <2> QED BY <2>c0, <2>c1, <2>c2, <2>c3, <2>c4, <2>c5, <2>c6, <2>c7, <2>c8, <2>c9, Zenon DEF InputInv
<1>4. CASE got' = got
  <2>1. got = wire.sent /\ rd' = [rd EXCEPT ![r].pc = IF wire.eof THEN "cut" ELSE "more", ![r].read_eof = wire.eof]
    BY <1>4, Types, SMTT(30) DEF DoRead
  <2> DEFINE q == [rd[r] EXCEPT !.pc = IF wire.eof THEN "cut" ELSE "more", !.read_eof = wire.eof]
  <2>a. q \in Reader BY Types, Zenon DEF Reader
  <2>b. \A p, e : [rd EXCEPT ![r].pc = p, ![r].read_eof = e] = [rd EXCEPT ![r] = [rd[r] EXCEPT !.pc = p, !.read_eof = e]]
    BY Types, Zenon DEF InputTypeOK
  <2>2. Moves(r, q) BY <2>a, <2>b, <2>1, Zenon DEF Moves
  <2>3. rd' \in [Readers -> Reader] /\ \A s \in Readers : s # r => rd'[s] = rd[s] BY <2>2, Types, MovesTo, Zenon
  <2>4. /\ rd'[r].pc = (IF wire.eof THEN "cut" ELSE "more") /\ rd'[r].progress = rd[r].progress
        /\ rd'[r].last = rd[r].last /\ rd'[r].read_eof = wire.eof
    <3>1. rd'[r] = q /\ rd[r] \in Reader BY <2>2, Types, MovesTo, Zenon
    <3> QED BY <3>1, Zenon DEF Reader
  <2>c0. InputTypeOK' BY <1>1, <2>3, Types, <1>4, SMTT(30) DEF InputTypeOK
  <2>c1. OneReader' BY <1>1, <2>3, <2>4, SMTT(30) DEF InputInv, OneReader, Reading
  <2>c2. NoLostEvent' BY <1>1, <2>3, <2>4, Types, <1>4, <2>1, SMTT(30) DEF InputInv, NoLostEvent, Seen, OneReader, Reading
  <2>c3. VerifiedFirst' BY <1>1, <2>3, <2>4, Zenon DEF InputInv, VerifiedFirst, Reading
  <2>c4. Counted' BY <1>1, <2>3, <2>4, Types, Zenon DEF InputInv, Counted, Reading, OneReader
  <2>c5. Postponing' BY <1>1, <1>2, Zenon DEF InputInv, Postponing
  <2>c6. NoFd' BY <1>1, Zenon DEF InputInv, NoFd
  <2>c7. EndReached' BY <1>1, <2>3, <2>4, Types, <1>4, <2>1, SMTT(30) DEF InputInv, EndReached, AllRead
  <2>c8. Kept' BY <1>1, <2>3, <2>4, SMTT(30) DEF InputInv, Kept
  <2>c9. Ends' BY <1>1, <1>2, Zenon DEF InputInv, Ends
  <2> QED BY <2>c0, <2>c1, <2>c2, <2>c3, <2>c4, <2>c5, <2>c6, <2>c7, <2>c8, <2>c9, Zenon DEF InputInv
<1> QED BY <1>3, <1>4, Zenon

\* The reader ends if no event came since it looked, or reads again.
LEMMA MoreReadEventsStep == ASSUME InputConstants, InputInv, NEW r \in Readers, MoreReadEvents(r) PROVE InputInv'
<1>1. /\ rd[r].pc = "more" /\ UNCHANGED <<conf, wire, fd, event, disp, ninprocess, eof>>
      /\ UNCHANGED <<failed, auth, got, cut, msg, lives>>
  BY Zenon DEF MoreReadEvents, Connection
<1>2. InProcess' = InProcess BY <1>1, SameInProcess, Zenon
<1>r. Reading(r) /\ ~eof /\ auth # "error" /\ nevent > 0 /\ \A s \in Readers : Reading(s) => s = r
  <2>1. Reading(r) BY <1>1, Zenon DEF Reading
  <2> QED BY <2>1, Types, SMTT(30) DEF InputInv, Counted, OneReader
<1>3. CASE Seen(r)
  <2>1. nevent' = 0 BY <1>3, Zenon DEF MoreReadEvents
  <2>2. Moves(r, [rd[r] EXCEPT !.pc = "last"]) BY <1>3, Types, Zenon DEF Moves, MoreReadEvents, Reader
  <2>3. rd' \in [Readers -> Reader] /\ \A s \in Readers : s # r => rd'[s] = rd[s] BY <2>2, Types, MovesTo, Zenon
  <2>4. /\ rd'[r].pc = "last" /\ rd'[r].progress = rd[r].progress /\ rd'[r].last = rd[r].last
        /\ rd'[r].read_eof = rd[r].read_eof
    BY <2>2, Types, MovesTo, SMTT(30) DEF Reader
  <2>5. \A s \in Readers : ~Reading(s)' BY <1>r, <2>3, <2>4, Zenon DEF Reading
  <2>c0. InputTypeOK' BY <1>1, <2>3, Types, <2>1, SMTT(30) DEF InputTypeOK
  <2>c1. OneReader' BY <2>5, Zenon DEF OneReader
  <2>c2. NoLostEvent'
    <3> SUFFICES ASSUME fd = "open", got < wire.sent \/ wire.eof PROVE event \/ disp # "idle" \/ failed # "no" \/ eof
      BY <1>1, Zenon DEF NoLostEvent
    <3>1. \A s \in Readers : ~(rd[s].pc \in {"read", "cut", "eof"} \/ (rd[s].pc = "more" /\ ~Seen(s)))
      BY <1>1, <1>r, <1>3, Zenon DEF Reading
    <3> QED BY <3>1, Zenon DEF InputInv, NoLostEvent
  <2>c3. VerifiedFirst' BY <1>1, <2>5, Zenon DEF InputInv, VerifiedFirst
  <2>c4. Counted' BY <1>1, <1>r, <2>1, <2>5, SMTT(30) DEF Counted
  <2>c5. Postponing' BY <1>1, <1>2, Zenon DEF InputInv, Postponing
  <2>c6. NoFd' BY <1>1, Zenon DEF InputInv, NoFd
  <2>c7. EndReached' BY <1>1, <2>3, <2>4, Types, Zenon DEF InputInv, EndReached, AllRead
  <2>c8. Kept' BY <1>1, <2>3, <2>4, SMTT(30) DEF InputInv, Kept
  <2>c9. Ends' BY <1>1, <1>2, Zenon DEF InputInv, Ends
  <2> QED BY <2>c0, <2>c1, <2>c2, <2>c3, <2>c4, <2>c5, <2>c6, <2>c7, <2>c8, <2>c9, Zenon DEF InputInv
<1>4. CASE ~Seen(r)
  <2>1. nevent' = nevent /\ nevent # 0 BY <1>4, <1>r, Types, SMTT(30) DEF MoreReadEvents
  <2>2. Moves(r, [rd[r] EXCEPT !.pc = "read", !.progress = nevent])
    BY <1>4, <2>1, Types, ZenonT(20) DEF Moves, MoreReadEvents, Reader, InputTypeOK
  <2>3. rd' \in [Readers -> Reader] /\ \A s \in Readers : s # r => rd'[s] = rd[s] BY <2>2, Types, MovesTo, Zenon
  <2>4. /\ rd'[r].pc = "read" /\ rd'[r].progress = nevent /\ rd'[r].last = rd[r].last
        /\ rd'[r].read_eof = rd[r].read_eof
    <3>1. rd'[r] = [rd[r] EXCEPT !.pc = "read", !.progress = nevent] /\ rd[r] \in Reader BY <2>2, Types, MovesTo, Zenon
    <3> QED BY <3>1, Zenon DEF Reader
  <2>c0. InputTypeOK' BY <1>1, <2>1, <2>3, Types, SMTT(30) DEF InputTypeOK
  <2>c1. OneReader' BY <1>1, <2>1, <2>3, <2>4, Zenon DEF InputInv, OneReader, Reading
  <2>c2. NoLostEvent' BY <2>4, Zenon DEF NoLostEvent
  <2>c3. VerifiedFirst' BY <1>1, <2>1, <2>3, <2>4, Zenon DEF InputInv, VerifiedFirst, Reading
  <2>c4. Counted' BY <1>1, <2>1, <2>3, <2>4, Types, SMTT(30) DEF InputInv, Counted, Reading, OneReader
  <2>c5. Postponing' BY <1>1, <2>1, <1>2, Zenon DEF InputInv, Postponing
  <2>c6. NoFd' BY <1>1, <2>1, Zenon DEF InputInv, NoFd
  <2>c7. EndReached' BY <1>1, <2>1, <2>3, <2>4, Types, Zenon DEF InputInv, EndReached, AllRead
  <2>c8. Kept' BY <1>1, <2>1, <2>3, <2>4, SMTT(30) DEF InputInv, Kept
  <2>c9. Ends' BY <1>1, <2>1, <1>2, Zenon DEF InputInv, Ends
  <2> QED BY <2>c0, <2>c1, <2>c2, <2>c3, <2>c4, <2>c5, <2>c6, <2>c7, <2>c8, <2>c9, Zenon DEF InputInv
<1> QED BY <1>3, <1>4, Zenon

\* The EOF is set, and the reference of the connection given up.
LEMMA SetEOFStep == ASSUME InputConstants, InputInv, NEW r \in Readers, SetEOF(r) PROVE InputInv'
<1>1. /\ rd[r].pc = "eof" /\ UNCHANGED <<conf, wire, fd, event, disp, nevent>>
      /\ UNCHANGED <<auth, got, cut, msg, lives>> /\ eof' = TRUE
  BY Zenon DEF SetEOF, Connection
<1>2. InProcess' = InProcess BY <1>1, SameInProcess, Zenon
<1>3. Reading(r) /\ ~eof /\ auth # "error" /\ nevent > 0 /\ \A s \in Readers : Reading(s) => s = r
  <2>1. Reading(r) BY <1>1, Zenon DEF Reading
  <2> QED BY <2>1, Types, SMTT(30) DEF InputInv, Counted, OneReader
<1>4. /\ ninprocess = 1 + (IF conf.client THEN Cardinality(InProcess) ELSE 0) /\ ninprocess' = ninprocess - 1
      /\ failed' = IF ninprocess = 1 /\ failed = "no" THEN "eof" ELSE failed
  BY <1>3, Zenon DEF SetEOF, Released, LastInProcess, Fail, InputInv, Postponing
<1>5. ninprocess = 1 /\ conf.client => InProcess = {} BY <1>4, Types, FS_EmptySet, SMTT(30)
<1>6. failed # "eof" BY <1>3, Zenon DEF InputInv, Ends
<1>7. Moves(r, [rd[r] EXCEPT !.pc = "last"]) BY Types, Zenon DEF Moves, SetEOF, Reader
<1>8. rd' \in [Readers -> Reader] /\ \A s \in Readers : s # r => rd'[s] = rd[s] BY <1>7, Types, MovesTo, Zenon
<1>9. /\ rd'[r].pc = "last" /\ rd'[r].progress = rd[r].progress /\ rd'[r].last = rd[r].last
      /\ rd'[r].read_eof = rd[r].read_eof
  BY <1>7, Types, MovesTo, SMTT(30) DEF Reader
<1>10. \A s \in Readers : ~Reading(s)' BY <1>3, <1>8, <1>9, Zenon DEF Reading
<1>11. ninprocess' \in Nat /\ failed' \in {"no", "eof", "read", "parse", "auth"} /\ (failed # "no" => failed' # "no")
  BY <1>4, Types, SMTT(30) DEF InputTypeOK
<1>c0. InputTypeOK' BY <1>1, <1>8, Types, <1>11, Zenon DEF InputTypeOK
<1>c1. OneReader' BY <1>10, Zenon DEF OneReader
<1>c2. NoLostEvent' BY <1>1, Zenon DEF NoLostEvent
<1>c3. VerifiedFirst' BY <1>1, <1>10, <1>11, Zenon DEF InputInv, VerifiedFirst
<1>c4. Counted' BY <1>1, <1>3, <1>10, Zenon DEF Counted
<1>c5. Postponing' BY <1>1, <1>2, <1>4, Types, SMTT(30) DEF Postponing
<1>c6. NoFd' BY <1>1, Zenon DEF InputInv, NoFd
<1>c7. EndReached' BY <1>1, <1>8, <1>9, Types, Zenon DEF InputInv, EndReached, AllRead
<1>c8. Kept' BY <1>1, <1>8, <1>9, SMTT(30) DEF InputInv, Kept
<1>c9. Ends'
  <2>1. ASSUME NEW m \in Messages, msg[m] = "dropped" PROVE failed' \notin {"no", "eof"}
    BY <1>4, <2>1, Zenon DEF InputInv, Ends
  <2> QED BY <1>1, <1>2, <1>4, <1>5, <1>6, <2>1, Zenon DEF Ends
<1> QED BY <1>c0, <1>c1, <1>c2, <1>c3, <1>c4, <1>c5, <1>c6, <1>c7, <1>c8, <1>c9, Zenon DEF InputInv

\* A message m changes from v0 to v, the one before it, l, is queued.
Status == {"none", "held", "queued", "running", "done", "dropped"}
LEMMA QueuedBut ==
  ASSUME InputConstants, InputTypeOK, NEW m \in Messages, NEW l \in {0} \cup Messages, l # m, NEW v \in Status,
         msg' = [(IF l = 0 THEN msg ELSE [msg EXCEPT ![l] = "queued"]) EXCEPT ![m] = v]
  PROVE  /\ msg' \in [Messages -> Status] /\ msg'[m] = v
         /\ \A k \in Messages : k # m => msg'[k] = IF k = l THEN "queued" ELSE msg[k]
<1>1. 0 \notin Messages /\ msg \in [Messages -> Status] BY FS_CardinalityType, SMTT(30) DEF InputConstants, InputTypeOK, Status
<1>2. CASE l = 0 BY <1>1, <1>2, Zenon DEF Status
<1>3. CASE l # 0 BY <1>1, <1>3, Zenon DEF Status
<1> QED BY <1>2, <1>3, Zenon

\* A message m changes to v, and the others stay what they are.
LEMMA BecomesStatus ==
  ASSUME InputTypeOK, NEW m \in Messages, NEW v \in Status, msg' = [msg EXCEPT ![m] = v]
  PROVE  /\ msg' \in [Messages -> Status] /\ msg'[m] = v
         /\ \A k \in Messages : k # m => msg'[k] = msg[k]
BY Zenon DEF InputTypeOK, Status

\* A reader that ends runs the message it kept.
LEMMA RunLastMessageStep == ASSUME InputConstants, InputInv, NEW r \in Readers, RunLastMessage(r) PROVE InputInv'
<1>1. /\ rd[r].pc = "last" /\ UNCHANGED <<conf, wire, fd, event, disp, nevent, ninprocess, eof>>
      /\ UNCHANGED <<failed, auth, got, cut, lives>>
  BY Zenon DEF RunLastMessage, Connection, Counters
<1>2. Moves(r, Idle) BY SMTT(30) DEF Moves, RunLastMessage, Idle, Reader
<1>3. /\ msg' \in [Messages -> Status]
      /\ rd[r].last # 0 => /\ msg[rd[r].last] = "held" /\ msg'[rd[r].last] = "running"
      /\ \A k \in Messages : k # rd[r].last => msg'[k] = msg[k]
  BY Types, Zenon DEF RunLastMessage, Runs, InputInv, InputTypeOK, Kept, Status
<1>5. ASSUME NEW k \in Messages
      PROVE  /\ msg'[k] \in {"held", "queued", "running"} <=> msg[k] \in {"held", "queued", "running"}
             /\ msg'[k] = "done" <=> msg[k] = "done"
             /\ msg'[k] = "none" <=> msg[k] = "none"
             /\ msg'[k] = "dropped" <=> msg[k] = "dropped"
  <2>1. CASE k = rd[r].last
    <3>1. rd[r].last # 0 BY <2>1, Types, Zenon
    <3> QED BY <1>3, <2>1, <3>1, Zenon
  <2>2. CASE k # rd[r].last BY <1>3, <2>2, Zenon
  <2> QED BY <2>1, <2>2, Zenon
<1>4. InProcess' = InProcess BY <1>5, Zenon DEF InProcess
<1>6. rd' \in [Readers -> Reader] /\ \A s \in Readers : s # r => rd'[s] = rd[s] BY <1>2, Types, MovesTo, Zenon
<1>7. rd'[r].pc = "idle" /\ rd'[r].progress = 1 /\ rd'[r].last = 0 /\ rd'[r].read_eof = FALSE
  BY <1>2, Types, MovesTo, SMTT(30) DEF Idle
<1>8. \A s \in Readers : Reading(s)' <=> Reading(s) BY <1>1, <1>6, <1>7, Zenon DEF Reading
<1>c0. InputTypeOK' BY <1>1, <1>6, Types, <1>3, SMTT(30) DEF InputTypeOK, Status
<1>c1. OneReader' BY <1>8, Zenon DEF InputInv, OneReader
<1>c2. NoLostEvent' BY <1>1, <1>6, Zenon DEF InputInv, NoLostEvent, Seen
<1>c3. VerifiedFirst' BY <1>1, <1>5, <1>8, Zenon DEF InputInv, VerifiedFirst
<1>c4. Counted' BY <1>1, <1>6, <1>8, Zenon DEF InputInv, Counted, Reading
<1>c5. Postponing' BY <1>1, <1>4, Zenon DEF InputInv, Postponing
<1>c6. NoFd' BY <1>1, Zenon DEF InputInv, NoFd
<1>c7. EndReached' BY <1>1, <1>6, <1>7, Types, Zenon DEF InputInv, EndReached, AllRead
<1>c8. Kept'
  <2>1. ASSUME NEW s \in Readers, rd'[s].last # 0 PROVE rd'[s].pc # "idle" /\ msg'[rd'[s].last] = "held"
    <3>1. s # r /\ rd'[s] = rd[s] BY <1>6, <1>7, <2>1, Zenon
    <3>2. rd[s].last # rd[r].last /\ rd[s].last \in Messages BY <2>1, <3>1, Types, Zenon DEF InputInv, Kept
    <3> QED BY <1>3, <2>1, <3>1, <3>2, SMTT(30) DEF InputInv, Kept
  <2>2. \A k \in Messages : msg'[k] = "none" <=> k > cut' BY <1>1, <1>5, Zenon DEF InputInv, Kept
  <2>3. \A s, t \in Readers : rd'[s].last = rd'[t].last /\ s # t => rd'[s].last = 0 BY <1>6, <1>7, SMTT(30) DEF InputInv, Kept
  <2> QED BY <2>1, <2>2, <2>3, Zenon DEF Kept
<1>c9. Ends' BY <1>1, <1>4, <1>5, Zenon DEF InputInv, Ends
<1> QED BY <1>c0, <1>c1, <1>c2, <1>c3, <1>c4, <1>c5, <1>c6, <1>c7, <1>c8, <1>c9, Zenon DEF InputInv

\* A queued message is run.
LEMMA StartStep == ASSUME InputConstants, InputInv, NEW m \in Messages, Start(m) PROVE InputInv'
<1>1. /\ UNCHANGED <<conf, wire, fd, event, disp, nevent, ninprocess, eof>>
      /\ UNCHANGED <<failed, auth, got, cut, rd, lives>>
  BY Zenon DEF Start, Connection, Counters
<1>2. /\ msg' \in [Messages -> Status] /\ msg'[m] = "running" /\ msg[m] = "queued"
      /\ \A k \in Messages : k # m => msg'[k] = msg[k]
  BY Types, BecomesStatus, Zenon DEF Start, Status
<1>3. InProcess' = InProcess BY <1>2, Zenon DEF InProcess
<1>c0. InputTypeOK' BY <1>1, Types, <1>2, SMTT(30) DEF InputTypeOK, Status
<1>c1. OneReader' BY <1>1, Zenon DEF InputInv, OneReader, Reading
<1>c2. NoLostEvent' BY <1>1, Types, Zenon DEF InputInv, NoLostEvent, Seen, OneReader, Reading
<1>c3. VerifiedFirst' BY <1>1, <1>2, Zenon DEF InputInv, VerifiedFirst, Reading
<1>c4. Counted' BY <1>1, Types, Zenon DEF InputInv, Counted, Reading, OneReader
<1>c5. Postponing' BY <1>1, <1>3, Zenon DEF InputInv, Postponing
<1>c6. NoFd' BY <1>1, Zenon DEF InputInv, NoFd
<1>c7. EndReached' BY <1>1, Types, Zenon DEF InputInv, EndReached, AllRead
<1>c8. Kept'
  <2>1. \A r \in Readers : rd[r].last # 0 => rd[r].last # m BY <1>2, Zenon DEF InputInv, Kept
  <2>2. \A r \in Readers : rd[r].last # 0 => rd[r].pc # "idle" /\ msg'[rd[r].last] = "held"
    BY <1>2, <2>1, Types, SMTT(30) DEF InputInv, Kept
  <2>3. \A k \in Messages : msg'[k] = "none" <=> msg[k] = "none" BY <1>2, Zenon
  <2> QED BY <1>1, <2>2, <2>3, Zenon DEF InputInv, Kept
<1>c9. Ends' BY <1>1, <1>3, <1>2, Zenon DEF InputInv, Ends
<1> QED BY <1>c0, <1>c1, <1>c2, <1>c3, <1>c4, <1>c5, <1>c6, <1>c7, <1>c8, <1>c9, Zenon DEF InputInv

\* A message is done; the last one in process after the EOF fails the socket.
LEMMA DestroyStep == ASSUME InputConstants, InputInv, NEW m \in Messages, Destroy(m) PROVE InputInv'
<1>1. /\ UNCHANGED <<conf, wire, fd, event, disp, nevent, eof>> /\ UNCHANGED <<auth, got, cut, rd, lives>>
  BY Zenon DEF Destroy, Connection
<1>2. /\ msg' \in [Messages -> Status] /\ msg'[m] = "done" /\ msg[m] = "running"
      /\ \A k \in Messages : k # m => msg'[k] = msg[k]
  BY Types, BecomesStatus, Zenon DEF Destroy, Status
<1>3. InProcess' = InProcess \ {m} /\ m \in InProcess BY <1>2, Zenon DEF InProcess
<1>4. Cardinality(InProcess') = Cardinality(InProcess) - 1 /\ IsFiniteSet(InProcess')
  BY <1>3, Types, FS_RemoveElement, Zenon
<1>5. Cardinality(InProcess) > 0 BY <1>3, <1>4, Types, FS_EmptySet, FS_CardinalityType, SMTT(30)
<1>6. /\ ninprocess' = IF conf.client THEN ninprocess - 1 ELSE ninprocess
      /\ failed' = IF conf.client /\ ninprocess = 1 /\ failed = "no" THEN "eof" ELSE failed
  BY Zenon DEF Destroy, CheckEOF, Released, LastInProcess, Fail
<1>7. conf.client => ninprocess = (IF eof THEN 0 ELSE 1) + Cardinality(InProcess) BY Zenon DEF InputInv, Postponing
<1>8. conf.client /\ ninprocess = 1 => eof /\ InProcess' = {} BY <1>4, <1>5, <1>7, Types, FS_EmptySet, SMTT(30)
<1>9. /\ ninprocess' \in Nat /\ failed' \in {"no", "eof", "read", "parse", "auth"} /\ (failed # "no" => failed' = failed)
      /\ failed' # failed => failed = "no" /\ failed' = "eof" /\ eof /\ conf.client /\ InProcess' = {}
  BY <1>5, <1>6, <1>7, <1>8, Types, SMTT(30) DEF InputTypeOK
<1>10. failed = "eof" /\ conf.client => FALSE BY <1>3, Zenon DEF InputInv, Ends
<1>11. \A k \in Messages : msg[k] = "dropped" => failed \notin {"no", "eof"} BY Zenon DEF InputInv, Ends
<1>c0. InputTypeOK' BY <1>1, Types, <1>2, <1>9, Zenon DEF InputTypeOK, Status
<1>c1. OneReader' BY <1>1, Zenon DEF InputInv, OneReader, Reading
<1>c2. NoLostEvent' BY <1>1, Types, <1>9, Zenon DEF InputInv, NoLostEvent, Seen, OneReader, Reading
<1>c3. VerifiedFirst' BY <1>1, <1>2, <1>9, Zenon DEF InputInv, VerifiedFirst, Reading
<1>c4. Counted' BY <1>1, Types, <1>9, Zenon DEF InputInv, Counted, Reading, OneReader
<1>c5. Postponing' BY <1>1, <1>4, <1>6, <1>7, Types, SMTT(30) DEF InputInv, Postponing
<1>c6. NoFd' BY <1>1, Zenon DEF InputInv, NoFd
<1>c7. EndReached' BY <1>1, Types, Zenon DEF InputInv, EndReached, AllRead
<1>c8. Kept'
  <2>1. \A r \in Readers : rd[r].last # 0 => rd[r].last # m BY <1>2, Zenon DEF InputInv, Kept
  <2>2. \A r \in Readers : rd[r].last # 0 => rd[r].pc # "idle" /\ msg'[rd[r].last] = "held"
    BY <1>2, <2>1, Types, SMTT(30) DEF InputInv, Kept
  <2>3. \A k \in Messages : msg'[k] = "none" <=> msg[k] = "none" BY <1>2, Zenon
  <2> QED BY <1>1, <2>2, <2>3, Zenon DEF InputInv, Kept
<1>c9. Ends' BY <1>1, <1>2, <1>9, <1>10, <1>11, Zenon DEF InputInv, Ends
<1> QED BY <1>c0, <1>c1, <1>c2, <1>c3, <1>c4, <1>c5, <1>c6, <1>c7, <1>c8, <1>c9, Zenon DEF InputInv

\* Nobody uses the connection: everything starts again.
LEMMA WaitAndResetStep == ASSUME InputConstants, InputInv, WaitAndReset PROVE InputInv'
<1>1. /\ UNCHANGED <<conf, disp, rd>> /\ fd' = "none" /\ event' = FALSE /\ wire' = [sent |-> 0, eof |-> FALSE]
      /\ nevent' = 0 /\ ninprocess' = 1 /\ eof' = FALSE /\ auth' = "none" /\ got' = 0 /\ cut' = 0
      /\ failed' = "no" /\ lives' = lives + 1 /\ lives < conf.lives
      /\ conf.stale \/ disp = "idle" \/ disp \notin {"got", "addressed"}
  BY Zenon DEF WaitAndReset, Unreferenced
<1>2. InProcess' = {} /\ Cardinality(InProcess') = 0 BY FS_EmptySet, Zenon DEF WaitAndReset, InProcess
<1>3. \A r \in Readers : rd[r].pc = "idle" /\ rd'[r] = rd[r] /\ rd[r].last = 0 /\ ~rd[r].read_eof
  BY Zenon DEF WaitAndReset, Unreferenced, InputInv, Kept, EndReached
<1>4. wire'.sent = 0 /\ ~wire'.eof BY <1>1, Zenon
<1>5. \A k \in Messages : k \in Nat \ {0} /\ msg'[k] = "none" BY Types, Zenon DEF WaitAndReset
<1>6. msg' \in [Messages -> {"none", "held", "queued", "running", "done", "dropped"}] BY Zenon DEF WaitAndReset
<1>c0. InputTypeOK'
  <2>1. wire' \in [sent : 0 .. 2 * Cardinality(Messages), eof : BOOLEAN]
    BY <1>1, FS_CardinalityType, SMTT(30) DEF InputConstants
  <2>2. lives' \in 1 .. conf.lives BY <1>1, Types, SMTT(30) DEF InputTypeOK, Conf
  <2>3. got' \in 0 .. wire'.sent /\ cut' \in 0 .. got' BY <1>1, <1>4, SMTT(30)
  <2> QED BY <1>1, <1>6, <2>1, <2>2, <2>3, Types, Zenon DEF InputTypeOK
<1>c1. OneReader' BY <1>3, Zenon DEF OneReader, Reading
<1>c2. NoLostEvent' BY <1>1, Zenon DEF NoLostEvent
<1>c3. VerifiedFirst' BY <1>1, <1>3, <1>5, Zenon DEF VerifiedFirst, Reading
<1>c4. Counted' BY <1>1, <1>3, SMTT(30) DEF Counted, Reading
<1>c5. Postponing' BY <1>1, <1>2, Types, SMTT(30) DEF Postponing, Conf
<1>c6. NoFd' BY <1>1, <1>4, Types, Zenon DEF InputTypeOK, NoFd
<1>c7. EndReached' BY <1>1, <1>3, Zenon DEF EndReached
<1>c8. Kept' BY <1>1, <1>3, <1>5, SMTT(30) DEF InputInv, Kept
<1>c9. Ends' BY <1>1, <1>5, Zenon DEF Ends
<1> QED BY <1>c0, <1>c1, <1>c2, <1>c3, <1>c4, <1>c5, <1>c6, <1>c7, <1>c8, <1>c9, Zenon DEF InputInv

\* A message is cut: it is verified and kept or queued, or the connection fails for want of
\* authentication.
LEMMA CutMessageStep == ASSUME InputConstants, InputInv, NEW r \in Readers, CutMessage(r) PROVE InputInv'
<1> DEFINE m == cut + 1
           l == rd[r].last
<1>1. /\ rd[r].pc = "cut" /\ UNCHANGED <<conf, wire, fd, event, disp, nevent, eof, got, lives>> /\ cut' = m /\ 2 * m <= got
  BY Types, Zenon DEF CutMessage, Connection
<1>2. m \in Messages /\ m \in Nat /\ cut < m
  <2>1. Cardinality(Messages) \in Nat /\ wire.sent <= 2 * Cardinality(Messages)
    BY Types, FS_CardinalityType, SMTT(30) DEF InputConstants, InputTypeOK
  <2>2. m <= Cardinality(Messages) BY <1>1, <2>1, Types, SMTT(30)
  <2> QED BY <2>1, <2>2, Types, SMTT(30) DEF InputConstants
<1>3. /\ msg[m] = "none" /\ (l # 0 => msg[l] = "held") /\ l # m /\ l \in {0} \cup Messages
  <2>1. msg[m] = "none" /\ (l # 0 => msg[l] = "held") BY <1>2, Zenon DEF InputInv, Kept
  <2> QED BY <1>2, <2>1, Types, Zenon
<1>4. Reading(r) /\ ~eof /\ auth # "error" /\ nevent > 0 /\ failed # "eof" /\ \A s \in Readers : Reading(s) => s = r
  <2>1. Reading(r) BY <1>1, Zenon DEF Reading
  <2> QED BY <2>1, Types, SMTT(30) DEF InputInv, Counted, OneReader, Ends
<1>5. PICK a \in Verified :
        /\ auth' = a
        /\ IF a = "error"
           THEN /\ Fail("auth") /\ rd' = [rd EXCEPT ![r].pc = "last", ![r].last = 0]
                /\ msg' = [(IF l = 0 THEN msg ELSE [msg EXCEPT ![l] = "queued"]) EXCEPT ![m] = "dropped"]
                /\ UNCHANGED ninprocess
           ELSE /\ msg' = [(IF l = 0 THEN msg ELSE [msg EXCEPT ![l] = "queued"])
                             EXCEPT ![m] = IF conf.progressive THEN "queued" ELSE "held"]
                /\ rd' = [rd EXCEPT ![r].last = IF conf.progressive THEN 0 ELSE m]
                /\ ninprocess' = Postponed /\ UNCHANGED failed
  BY Zenon DEF CutMessage
<1>6. a \in {"none", "ok", "error"} /\ (conf.verify => a # "none") /\ (a # "error" /\ conf.verify => a = "ok")
      /\ (a = "error" => conf.verify /\ auth = "none") /\ auth' = a
  BY <1>4, <1>5, Types, Zenon DEF Verified, InputTypeOK
<1> HIDE DEF m, l
<1>7. CASE a = "error"
  <2>1. Moves(r, [rd[r] EXCEPT !.pc = "last", !.last = 0])
    <3>1. rd' = [rd EXCEPT ![r].pc = "last", ![r].last = 0] BY <1>5, <1>7, Zenon
    <3> QED BY <3>1, Types, Zenon DEF Moves, InputTypeOK, Reader
  <2>2. /\ msg' \in [Messages -> Status] /\ msg'[m] = "dropped"
        /\ \A k \in Messages : k # m => msg'[k] = IF k = l THEN "queued" ELSE msg[k]
    <3>1. msg' = [(IF l = 0 THEN msg ELSE [msg EXCEPT ![l] = "queued"]) EXCEPT ![m] = "dropped"] BY <1>5, <1>7, Zenon
    <3>2. "dropped" \in Status BY Zenon DEF Status
    <3> QED BY <1>2, <1>3, <3>1, <3>2, Types, QueuedBut, ZenonT(20)
  <2>3. rd' \in [Readers -> Reader] /\ \A s \in Readers : s # r => rd'[s] = rd[s] BY <2>1, Types, MovesTo, Zenon
  <2>4. /\ rd'[r].pc = "last" /\ rd'[r].progress = rd[r].progress /\ rd'[r].last = 0
        /\ rd'[r].read_eof = rd[r].read_eof
    <3>1. rd'[r] = [rd[r] EXCEPT !.pc = "last", !.last = 0] /\ rd[r] \in Reader BY <2>1, Types, MovesTo, Zenon
    <3> QED BY <3>1, Zenon DEF Reader
  <2>5. \A s \in Readers : ~Reading(s)' BY <1>4, <2>3, <2>4, Zenon DEF Reading
  <2>6. failed' \in {"read", "parse", "auth"} /\ ninprocess' = ninprocess BY <1>4, <1>5, <1>7, Types, Zenon DEF Fail, InputTypeOK
  <2>q. ASSUME NEW k \in Messages PROVE msg'[k] = "none" <=> k > m
    <3>1. msg[k] = "none" <=> k > cut BY Zenon DEF InputInv, Kept
    <3>2. k \in Nat /\ m = cut + 1 /\ cut \in Nat BY Types, Zenon DEF m
    <3>3. CASE k = m BY <2>2, <3>2, <3>3, SMTT(30)
    <3>4. CASE k # m /\ k = l BY <1>3, <2>2, <3>1, <3>2, <3>4, Types, SMTT(30)
    <3>5. CASE k # m /\ k # l BY <2>2, <3>1, <3>2, <3>5, SMTT(30)
    <3> QED BY <3>3, <3>4, <3>5, Zenon
  <2>s. ASSUME NEW s \in Readers, s # r, rd[s].last # 0
        PROVE  rd[s].pc # "idle" /\ rd[s].last # m /\ rd[s].last # l /\ msg'[rd[s].last] = "held"
    <3>1. rd[s].last \in Messages /\ msg[rd[s].last] = "held" /\ rd[s].pc # "idle" BY <2>s, Types, Zenon DEF InputInv, Kept
    <3>2. rd[s].last # m /\ rd[s].last # l BY <1>3, <2>s, <3>1, Zenon DEF InputInv, Kept, l
    <3> QED BY <2>2, <3>1, <3>2, Zenon
  <2>7. InProcess' = InProcess
    <3>1. ASSUME NEW k \in Messages PROVE msg'[k] \in {"held", "queued", "running"} <=> msg[k] \in {"held", "queued", "running"}
      BY <1>3, <2>2, Types, Zenon
    <3> QED BY <3>1, Zenon DEF InProcess
  <2>8. ASSUME NEW k \in Messages, msg'[k] \in {"held", "queued", "running", "done"} PROVE FALSE
    <3>1. msg[k] \in {"held", "queued", "running", "done"} BY <1>3, <2>2, <2>8, Types, Zenon
    <3> QED BY <1>6, <1>7, <3>1, Zenon DEF InputInv, VerifiedFirst
  <2>c0. InputTypeOK'
    <3>1. cut' \in 0 .. got BY <1>1, <1>2, Types, SMTT(30)
    <3> QED BY <1>1, <1>6, <2>2, <2>3, <2>6, <3>1, Types, Zenon DEF InputTypeOK, Status
  <2>c1. OneReader' BY <2>5, Zenon DEF OneReader
  <2>c2. NoLostEvent' BY <2>6, Zenon DEF NoLostEvent
  <2>c3. VerifiedFirst' BY <2>5, <2>6, <2>8, Zenon DEF VerifiedFirst
  <2>c4. Counted' BY <1>1, <1>4, <2>5, <2>6, Zenon DEF Counted
  <2>c5. Postponing' BY <1>1, <2>6, <2>7, Zenon DEF InputInv, Postponing
  <2>c6. NoFd' BY <1>1, Zenon DEF InputInv, NoFd
  <2>c7. EndReached' BY <1>1, <1>2, <1>4, <2>3, <2>4, Types, SMTT(30) DEF InputInv, EndReached, AllRead, m
  <2>c8. Kept'
    <3>1. ASSUME NEW s \in Readers, rd'[s].last # 0 PROVE rd'[s].pc # "idle" /\ msg'[rd'[s].last] = "held"
      BY <2>3, <2>4, <2>s, <3>1, Zenon
    <3>2. ASSUME NEW s \in Readers, NEW t \in Readers, rd'[s].last = rd'[t].last, s # t, rd'[s].last # 0 PROVE FALSE
      <4>1. CASE s # r /\ t # r BY <2>3, <3>2, <4>1, SMTT(30) DEF InputInv, Kept
      <4>2. CASE s = r \/ t = r BY <2>3, <2>4, <2>s, <3>2, <4>2, Zenon
      <4> QED BY <4>1, <4>2, Zenon
    <3> QED BY <1>1, <2>q, <3>1, <3>2, Zenon DEF Kept
  <2>c9. Ends' BY <2>6, Zenon DEF Ends
  <2> QED BY <2>c0, <2>c1, <2>c2, <2>c3, <2>c4, <2>c5, <2>c6, <2>c7, <2>c8, <2>c9, Zenon DEF InputInv
<1>8. CASE a # "error"
  <2> DEFINE v == IF conf.progressive THEN "queued" ELSE "held"
             n == IF conf.progressive THEN 0 ELSE m
  <2>a. v \in Status /\ v \in {"queued", "held"} /\ n \in {0} \cup Messages /\ (n # 0 => n = m /\ v = "held") BY <1>2, Zenon DEF Status
  <2>b. msg' = [(IF l = 0 THEN msg ELSE [msg EXCEPT ![l] = "queued"]) EXCEPT ![m] = v] /\ rd' = [rd EXCEPT ![r].last = n]
    BY <1>5, <1>8, Zenon
  <2> HIDE DEF v, n
  <2>1. Moves(r, [rd[r] EXCEPT !.last = n]) BY <2>a, <2>b, Types, Zenon DEF Moves, InputTypeOK, Reader
  <2>2. /\ msg' \in [Messages -> Status] /\ msg'[m] = v
        /\ \A k \in Messages : k # m => msg'[k] = IF k = l THEN "queued" ELSE msg[k]
    BY <1>2, <1>3, <2>a, <2>b, Types, QueuedBut, ZenonT(20)
  <2>3. rd' \in [Readers -> Reader] /\ \A s \in Readers : s # r => rd'[s] = rd[s] BY <2>1, Types, MovesTo, Zenon
  <2>4. /\ rd'[r].pc = "cut" /\ rd'[r].progress = rd[r].progress /\ rd'[r].last = n
        /\ rd'[r].read_eof = rd[r].read_eof
    BY <1>1, <2>1, Types, MovesTo, SMTT(30) DEF Reader
  <2>q. ASSUME NEW k \in Messages PROVE msg'[k] = "none" <=> k > m
    <3>1. msg[k] = "none" <=> k > cut BY Zenon DEF InputInv, Kept
    <3>2. k \in Nat /\ m = cut + 1 /\ cut \in Nat BY Types, Zenon DEF m
    <3>3. CASE k = m BY <2>a, <2>2, <3>2, <3>3, SMTT(30)
    <3>4. CASE k # m /\ k = l BY <1>3, <2>2, <3>1, <3>2, <3>4, Types, SMTT(30)
    <3>5. CASE k # m /\ k # l BY <2>2, <3>1, <3>2, <3>5, SMTT(30)
    <3> QED BY <3>3, <3>4, <3>5, Zenon
  <2>s. ASSUME NEW s \in Readers, s # r, rd[s].last # 0
        PROVE  rd[s].pc # "idle" /\ rd[s].last # m /\ rd[s].last # l /\ msg'[rd[s].last] = "held"
    <3>1. rd[s].last \in Messages /\ msg[rd[s].last] = "held" /\ rd[s].pc # "idle" BY <2>s, Types, Zenon DEF InputInv, Kept
    <3>2. rd[s].last # m /\ rd[s].last # l BY <1>3, <2>s, <3>1, Zenon DEF InputInv, Kept, l
    <3> QED BY <2>2, <3>1, <3>2, Zenon
  <2>5. InProcess' = InProcess \cup {m} /\ m \notin InProcess
    <3>1. m \in InProcess' /\ m \notin InProcess BY <1>2, <1>3, <2>a, <2>2, Zenon DEF InProcess
    <3>2. ASSUME NEW k \in Messages, k # m PROVE k \in InProcess' <=> k \in InProcess
      BY <1>3, <2>2, <3>2, Types, Zenon DEF InProcess
    <3> QED BY <1>2, <3>1, <3>2, Zenon DEF InProcess
  <2>6. Cardinality(InProcess') = Cardinality(InProcess) + 1 BY <2>5, Types, FS_AddElement, Zenon
  <2>7. failed' = failed /\ ninprocess' = (IF conf.client THEN ninprocess + 1 ELSE ninprocess) /\ ninprocess' \in Nat
    BY <1>5, <1>8, Types, SMTT(30) DEF Postponed
  <2>8. \A k \in Messages : msg'[k] = "dropped" => msg[k] = "dropped" BY <1>3, <2>a, <2>2, Zenon
  <2>c0. InputTypeOK'
    <3>1. cut' \in 0 .. got BY <1>1, <1>2, Types, SMTT(30)
    <3> QED BY <1>1, <1>6, <2>2, <2>3, <2>7, <3>1, Types, Zenon DEF InputTypeOK, Status
  <2>c1. OneReader' BY <1>1, <2>3, <2>4, Zenon DEF InputInv, OneReader, Reading
  <2>c2. NoLostEvent' BY <2>4, Zenon DEF NoLostEvent
  <2>c3. VerifiedFirst' BY <1>1, <1>6, <1>8, Zenon DEF VerifiedFirst
  <2>c4. Counted' BY <1>1, <1>4, <1>6, <1>8, <2>3, <2>4, <2>7, Zenon DEF InputInv, Counted, Reading
  <2>c5. Postponing' BY <1>1, <2>6, <2>7, Types, SMTT(30) DEF InputInv, Postponing
  <2>c6. NoFd' BY <1>1, Zenon DEF InputInv, NoFd
  <2>c7. EndReached'
    <3>1. rd[r].pc # "eof" /\ \A s \in Readers : rd[s].pc # "eof" BY <1>1, <1>4, Zenon DEF Reading
    <3> QED BY <1>1, <1>4, <2>3, <2>4, <3>1, Zenon DEF InputInv, EndReached, AllRead
  <2>c8. Kept'
    <3>1. ASSUME NEW s \in Readers, rd'[s].last # 0 PROVE rd'[s].pc # "idle" /\ msg'[rd'[s].last] = "held"
      BY <2>3, <2>4, <2>s, <3>1, <1>1, <2>a, <2>2, Zenon
    <3>2. ASSUME NEW s \in Readers, NEW t \in Readers, rd'[s].last = rd'[t].last, s # t, rd'[s].last # 0 PROVE FALSE
      <4>1. CASE s # r /\ t # r BY <2>3, <3>2, <4>1, Zenon DEF InputInv, Kept
      <4>2. CASE s = r \/ t = r BY <2>3, <2>4, <2>s, <3>2, <4>2, <2>a, Zenon
      <4> QED BY <4>1, <4>2, Zenon
    <3> QED BY <1>1, <2>q, <3>1, <3>2, Zenon DEF Kept
  <2>c9. Ends' BY <1>1, <1>4, <2>7, <2>8, Zenon DEF InputInv, Ends
  <2> QED BY <2>c0, <2>c1, <2>c2, <2>c3, <2>c4, <2>c5, <2>c6, <2>c7, <2>c8, <2>c9, Zenon DEF InputInv
<1> QED BY <1>7, <1>8, Zenon

-----------------------------------------------------------------------------
(* The theorem.                                                             *)

\* A new socket has nothing to read.
LEMMA InitInputInv == ASSUME InputConstants, InputInit PROVE InputInv
<1> USE DEF InputInit, Idle
<1>1. conf \in Conf /\ Cardinality(Messages) \in Nat /\ \A m \in Messages : m \in Nat \ {0}
  BY FS_CardinalityType, SMTT(30) DEF InputConstants
<1>2. InProcess = {} /\ Cardinality(InProcess) = 0 BY FS_EmptySet, Zenon DEF InProcess
<1>3. InputTypeOK
  <2>1. wire \in [sent : 0 .. 2 * Cardinality(Messages), eof : BOOLEAN] BY <1>1, SMTT(30)
  <2>2. Idle \in Reader BY SMTT(30) DEF Reader
  <2>3. rd \in [Readers -> Reader] BY <2>2, Zenon
  <2>4. lives \in 1 .. conf.lives BY <1>1, SMTT(30) DEF Conf
  <2>5. got \in 0 .. wire.sent /\ cut \in 0 .. got OBVIOUS
  <2> QED BY <2>1, <2>3, <2>4, <2>5, Zenon DEF InputTypeOK
<1>4. OneReader /\ NoLostEvent /\ VerifiedFirst /\ Counted /\ NoFd /\ EndReached
  BY SMTT(30) DEF OneReader, NoLostEvent, VerifiedFirst, Counted, NoFd, EndReached, Reading
<1>5. Postponing /\ Kept /\ Ends BY <1>1, <1>2, SMTT(30) DEF Postponing, Kept, Ends
<1> QED BY <1>3, <1>4, <1>5, Zenon DEF InputInv

\* Every step of the dispatcher, a reader, a message, the remote side or the health check
\* preserves the invariant.
LEMMA NextInputInv == ASSUME InputConstants, InputInv, [InputNext]_input_vars PROVE InputInv'
<1>1. CASE UNCHANGED input_vars
  <2>1. /\ UNCHANGED <<conf, wire, fd, event, disp, nevent, ninprocess, eof>> /\ UNCHANGED <<failed, auth, got, cut, rd, msg, lives>>
    BY <1>1, Zenon DEF input_vars
  <2>2. UNCHANGED Counters BY <2>1, Zenon DEF Counters
  <2>3. InputTypeOK' /\ NoLostEvent' /\ NoFd' /\ EndReached'
    BY <2>1, SMTT(30) DEF InputInv, InputTypeOK, NoLostEvent, Seen, NoFd, EndReached, AllRead
  <2> QED BY <2>1, <2>2, <2>3, Quiet, Zenon
<1>2. CASE RemoteSends \/ RemoteCloses \/ Dispatch \/ WaitAndReset \/ Connect
  BY <1>2, RemoteSendsStep, RemoteClosesStep, PollStep, AddressEventStep, StartInputEventStep,
     WaitAndResetStep, ConnectStep, Zenon DEF Dispatch
<1>3. ASSUME NEW r \in Readers, OnNewMessages(r) \/ ReadFails(r) PROVE InputInv'
  BY <1>3, DoReadStep, MoreReadEventsStep, CutMessageStep, ParseFailsStep, NotEnoughDataStep,
     SetEOFStep, RunLastMessageStep, ReadFailsStep, Zenon DEF OnNewMessages
<1>4. ASSUME NEW m \in Messages, Start(m) \/ Destroy(m) PROVE InputInv'
  BY <1>4, StartStep, DestroyStep, Zenon
<1> QED BY <1>1, <1>2, <1>3, <1>4, Zenon DEF InputNext

\* The invariant says all that the safety of reading does: when a client's socket fails with the
\* EOF nothing is in process, and what was sent before the EOF was read and cut.
LEMMA IInvSafe == ASSUME InputConstants, InputInv PROVE InputSafe
<1>1. EventHasFd BY Zenon DEF InputInv, NoFd, EventHasFd
<1>2. EOFAfterMessages
  <2> SUFFICES ASSUME conf.client, failed = "eof" PROVE eof /\ \A m \in Messages : 2 * m <= wire.sent => msg[m] = "done"
    BY Zenon DEF EOFAfterMessages
  <2>1. eof /\ InProcess = {} /\ AllRead /\ got < 2 * (cut + 1) BY Zenon DEF InputInv, Ends, EndReached
  <2>2. ASSUME NEW m \in Messages, 2 * m <= wire.sent PROVE msg[m] = "done"
    <3>1. m \in Nat /\ cut \in Nat /\ got \in Nat /\ got = wire.sent
      BY <2>1, FS_CardinalityType, SMTT(30) DEF InputConstants, InputInv, InputTypeOK, AllRead
    <3>2. ~(m > cut) BY <2>1, <2>2, <3>1, SMTT(30)
    <3>3. msg[m] # "none" /\ msg[m] # "dropped" BY <3>2, Zenon DEF InputInv, Kept, Ends
    <3> QED BY <2>1, <3>3, Zenon DEF InProcess, InputInv, InputTypeOK
  <2> QED BY <2>1, <2>2, Zenon
<1> QED BY <1>1, <1>2, Zenon DEF InputInv, InputSafe

\* Whatever order bytes, events, readers, messages and health checks come in: one bthread reads at
\* a time, no event is lost, nothing is processed before the verification, and at a client an EOF
\* fails the socket after every message that came before it was processed.
THEOREM ReadingIsSafe == ASSUME InputConstants PROVE InputSpec => []InputSafe
<1>1. InputInit => InputInv BY InitInputInv, Zenon
<1>2. InputInv /\ [InputNext]_input_vars => InputInv' BY NextInputInv, Zenon
<1>3. InputInv => InputSafe BY IInvSafe, Zenon
<1> QED BY <1>1, <1>2, <1>3, PTL DEF InputSpec
=============================================================================

--------------------------- MODULE CountdownEvent ----------------------------
(***************************************************************************)
(* bthread::CountdownEvent (bthread/countdown_event.cpp): a counter in a   *)
(* butex.  Waiters sleep while the counter they saw is positive; whoever   *)
(* brings it to zero wakes all of them, after it can be destroyed.         *)
(***************************************************************************)
EXTENDS Integers, FiniteSets

CONSTANTS Signallers, EventWaiters,
          Initial,   \* initial_count
          Sigs       \* what each signaller counts down

\* What the users have to see to: what they count down adds up to the initial count.  The sum of
\* a set of signallers is the additive function of that set.
IsSum(W) == /\ W[{}] = 0
            /\ \A S \in SUBSET Signallers : \A t \in Signallers \ S : W[S \cup {t}] = W[S] + Sigs[t]
EventConstants ==
  /\ Initial \in Nat /\ Sigs \in [Signallers -> Nat \ {0}] /\ Signallers \cap EventWaiters = {}
  /\ \E W \in [SUBSET Signallers -> 0 .. Initial] : IsSum(W) /\ W[Signallers] = Initial

VARIABLES count,     \* *_butex
          asleep,    \* the waiters in butex_wait
          owner,     \* the waiter that destroys the event when its wait() returns
          destroyed,
          et         \* [pc, seen]

event_vars == <<count, asleep, owner, destroyed, et>>

EventInit == /\ count = Initial /\ asleep = {} /\ owner \in EventWaiters /\ destroyed = FALSE
             /\ et = [t \in Signallers \cup EventWaiters |-> [pc |-> "start", seen |-> 0]]

\* signal(): fetch_sub; the last one wakes all through the butex it saved before.
Last_Positive(prev, sig) == prev < sig
Last(prev, sig) == prev <= sig
signal(t) == /\ et[t].pc = "start" /\ count' = count - Sigs[t]
             /\ et' = [et EXCEPT ![t].pc = IF Last(count, Sigs[t]) THEN "wake_all" ELSE "done"]
             /\ UNCHANGED <<asleep, owner, destroyed>>
ButexWakeAll(t) == /\ et[t].pc = "wake_all" /\ asleep' = {}
                   /\ et' = [u \in DOMAIN et |-> IF u \in asleep THEN [et[u] EXCEPT !.pc = "load"]
                                                 ELSE IF u = t THEN [et[t] EXCEPT !.pc = "done"] ELSE et[u]]
                   /\ UNCHANGED <<count, owner, destroyed>>

\* wait() and timed_wait().
AtZero_OffByOne == count <= 1
AtZero == count <= 0
Load(t) == /\ et[t].pc \in {"start", "load"}
           /\ et' = [et EXCEPT ![t] = [pc |-> IF AtZero THEN "zero" ELSE "sleep", seen |-> count]]
           /\ UNCHANGED <<count, asleep, owner, destroyed>>
Unchanged_Ignored(t) == TRUE
Unchanged(t) == count = et[t].seen
Sleep(t) == /\ et[t].pc = "sleep"
            /\ IF Unchanged(t) THEN asleep' = asleep \cup {t} /\ et' = [et EXCEPT ![t].pc = "asleep"]
               ELSE et' = [et EXCEPT ![t].pc = "load"] /\ UNCHANGED asleep
            /\ UNCHANGED <<count, owner, destroyed>>
\* EINTR, after which the counter is loaded again, or the end of a timed_wait.
Awake_Queued(t) == asleep
Awake(t) == asleep \ {t}
Leave(t) == /\ et[t].pc = "asleep" /\ asleep' = Awake(t)
            /\ \E pc \in {"load", "timedout"} : et' = [et EXCEPT ![t].pc = pc]
            /\ UNCHANGED <<count, owner, destroyed>>
\* Whoever owns the event may destroy it when all others have returned from wait().
Destroy(t) == /\ et[t].pc = "zero" /\ t = owner /\ ~destroyed /\ destroyed' = TRUE
              /\ \A u \in EventWaiters \ {t} : et[u].pc \in {"zero", "timedout"}
              /\ UNCHANGED <<count, asleep, owner, et>>

EventContinue(t) == IF t \in Signallers THEN ButexWakeAll(t) ELSE Load(t) \/ Sleep(t)
EventNext == \/ \E t \in Signallers : signal(t) \/ ButexWakeAll(t)
             \/ \E t \in EventWaiters : Load(t) \/ Sleep(t) \/ Leave(t) \/ Destroy(t)
EventSpec == EventInit /\ [][EventNext]_event_vars
\* Threads go on; whether and when somebody counts down is up to the user.
EventFairness == \A t \in Signallers \cup EventWaiters : WF_event_vars(EventContinue(t))
EventFairSpec == EventSpec /\ EventFairness

Pending == {t \in Signallers : et[t].pc = "start"}

\* Every variable has its type, and a waiter is in the butex when it says so.
EventTypeOK ==
  /\ count \in Int /\ owner \in EventWaiters /\ destroyed \in BOOLEAN
  /\ et \in [Signallers \cup EventWaiters ->
               [pc : {"start", "wake_all", "done", "load", "sleep", "asleep", "zero", "timedout"}, seen : Int]]
  /\ asleep = {t \in EventWaiters : et[t].pc = "asleep"}

\* The event is destroyed only when nobody will subtract from it any more: the owner must not
\* be let go by a counter that others have still to bring to zero.
DestroyedAtZero == destroyed => Pending = {}

\* Whoever sleeps in wait() when the counter is at zero is about to be woken.
SleepersKnown == count <= 0 /\ asleep # {} => \E t \in Signallers : et[t].pc = "wake_all"

\* The event is safe: the three above.
EventSafe == EventTypeOK /\ DestroyedAtZero /\ SleepersKnown

\* The inductive invariant: the counter is the sum W of what is left to subtract; a waiter sleeps,
\* or is about to, for a counter it saw above zero, and returns 0 from wait() at zero.
EventInv(W) ==
  /\ EventSafe /\ count = W[Pending]
  /\ \A t \in Signallers : et[t].pc \in {"start", "wake_all", "done"}
  /\ \A t \in EventWaiters : /\ et[t].pc \notin {"wake_all", "done"}
                             /\ et[t].pc = "sleep" => et[t].seen > 0
                             /\ et[t].pc = "zero" => count <= 0

\* At zero every waiter returns.
ZeroWakes == []<>(count <= 0 => \A t \in EventWaiters : et[t].pc \in {"zero", "timedout"})
==============================================================================

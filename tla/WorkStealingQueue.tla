-------------------------- MODULE WorkStealingQueue --------------------------
(***************************************************************************)
(* bthread::WorkStealingQueue (work_stealing_queue.h): the owner pushes    *)
(* and pops at the bottom of a ring, thieves steal at its top.             *)
(***************************************************************************)
EXTENDS Integers

CONSTANTS Thieves, Capacity,
          MaxPush    \* bound on the items pushed

ASSUME CapacityAssumption == Capacity \in Nat /\ Capacity > 0
ASSUME MaxPushAssumption == MaxPush \in Nat

VARIABLES bottom, top, buffer,
          owner,     \* [pc, newb] of the thread that pushes and pops
          thief,     \* [pc, t, val] of each thread in steal()
          pushed,    \* items pushed so far: item i is the i-th
          taken      \* how often each item was popped or stolen

vars == <<bottom, top, buffer, owner, thief, pushed, taken>>

Items == 1 .. MaxPush
Slot(i) == i % Capacity

Init == /\ bottom = 1 /\ top = 1 /\ pushed = 0
        /\ buffer = [i \in 0 .. Capacity - 1 |-> 0]
        /\ owner = [pc |-> "idle", newb |-> 0]
        /\ thief = [h \in Thieves |-> [pc |-> "idle", t |-> 0, val |-> 0]]
        /\ taken = [i \in Items |-> 0]

Take(item) == taken' = [taken EXCEPT ![item] = @ + 1]

-----------------------------------------------------------------------------
(* push() and pop(), by the owner only.                                     *)

Full_OffByOne == bottom > top + Capacity
Full == bottom >= top + Capacity

push == /\ owner.pc = "idle" /\ pushed < MaxPush /\ ~Full
        /\ buffer' = [buffer EXCEPT ![Slot(bottom)] = pushed + 1]
        /\ pushed' = pushed + 1 /\ owner' = [owner EXCEPT !.pc = "publish"]
        /\ UNCHANGED <<bottom, top, thief, taken>>

publish == /\ owner.pc = "publish" /\ bottom' = bottom + 1
           /\ owner' = [owner EXCEPT !.pc = "idle"]
           /\ UNCHANGED <<top, buffer, thief, pushed, taken>>

pop == /\ owner.pc = "idle" /\ top < bottom
       /\ owner' = [pc |-> "store", newb |-> bottom - 1]
       /\ UNCHANGED <<bottom, top, buffer, thief, pushed, taken>>

pop_store == /\ owner.pc = "store" /\ bottom' = owner.newb
             /\ owner' = [owner EXCEPT !.pc = "load"]
             /\ UNCHANGED <<top, buffer, thief, pushed, taken>>

\* The last element is competed for with the thieves.
IsLast_Unchecked == FALSE
IsLast == top = owner.newb

pop_load ==
  /\ owner.pc = "load"
  /\ IF top > owner.newb
     THEN owner' = [owner EXCEPT !.pc = "restore"] /\ UNCHANGED taken
     ELSE IF IsLast THEN owner' = [owner EXCEPT !.pc = "cas"] /\ UNCHANGED taken
     ELSE owner' = [owner EXCEPT !.pc = "idle"] /\ Take(buffer[Slot(owner.newb)])
  /\ UNCHANGED <<bottom, top, buffer, thief, pushed>>

pop_cas ==
  /\ owner.pc = "cas" /\ owner' = [owner EXCEPT !.pc = "restore"]
  /\ IF top = owner.newb
     THEN top' = top + 1 /\ Take(buffer[Slot(owner.newb)])
     ELSE UNCHANGED <<top, taken>>
  /\ UNCHANGED <<bottom, buffer, thief, pushed>>

Restored_Not == bottom
Restored == owner.newb + 1

pop_restore == /\ owner.pc = "restore" /\ bottom' = Restored
               /\ owner' = [owner EXCEPT !.pc = "idle"]
               /\ UNCHANGED <<top, buffer, thief, pushed, taken>>

-----------------------------------------------------------------------------
(* steal().                                                                 *)

steal(h) == /\ thief[h].pc = "idle"
            /\ thief' = [thief EXCEPT ![h] = [pc |-> "check", t |-> top, val |-> @.val]]
            /\ UNCHANGED <<bottom, top, buffer, owner, pushed, taken>>

\* Both tests of t against _bottom: the one before the loop and the one in it.
steal_check(h) ==
  /\ thief[h].pc = "check"
  /\ thief' = [thief EXCEPT ![h].pc = IF thief[h].t >= bottom THEN "idle" ELSE "read"]
  /\ UNCHANGED <<bottom, top, buffer, owner, pushed, taken>>

steal_read(h) ==
  /\ thief[h].pc = "read"
  /\ thief' = [thief EXCEPT ![h] = [pc |-> "cas", t |-> @.t, val |-> buffer[Slot(@.t)]]]
  /\ UNCHANGED <<bottom, top, buffer, owner, pushed, taken>>

CasWins_Always(h) == TRUE
CasWins(h) == top = thief[h].t

\* A compare-and-swap that fails loads _top into t and the loop goes on.
steal_cas(h) ==
  /\ thief[h].pc = "cas"
  /\ IF CasWins(h)
     THEN /\ top' = thief[h].t + 1 /\ Take(thief[h].val)
          /\ thief' = [thief EXCEPT ![h].pc = "idle"]
     ELSE thief' = [thief EXCEPT ![h] = [pc |-> "check", t |-> top, val |-> @.val]] /\ UNCHANGED <<top, taken>>
  /\ UNCHANGED <<bottom, buffer, owner, pushed>>

Next == \/ push \/ publish \/ pop \/ pop_store \/ pop_load \/ pop_cas \/ pop_restore
        \/ \E h \in Thieves : steal(h) \/ steal_check(h) \/ steal_read(h) \/ steal_cas(h)
Spec == Init /\ [][Next]_vars

-----------------------------------------------------------------------------
\* The bottom as it will be when the operation of the owner is undone, an item being
\* pushed included.
Bottom == bottom + (IF owner.pc \in {"load", "cas", "restore", "publish"} THEN 1 ELSE 0)
Held == {buffer[Slot(i)] : i \in top .. Bottom - 1}

OwnerState == [pc : {"idle", "publish", "store", "load", "cas", "restore"}, newb : Nat]
ThiefState == [pc : {"idle", "check", "read", "cas"}, t : Nat, val : 0 .. MaxPush]

\* Every variable has its type, and the queue never holds more than its capacity.
TypeOK == /\ bottom \in Nat /\ top \in Nat /\ pushed \in 0 .. MaxPush
          /\ buffer \in [0 .. Capacity - 1 -> 0 .. MaxPush]
          /\ owner \in OwnerState /\ thief \in [Thieves -> ThiefState]
          /\ taken \in [Items -> Nat]
          /\ Bottom <= top + Capacity

\* An item is popped or stolen at most once, however pop() and steal() interleave.
TakenOnce == \A i \in Items : taken[i] <= 1

\* An item that was pushed and is not in the queue was given to somebody.
NothingLost == \A i \in 1 .. pushed : i \in Held \/ taken[i] = 1
=============================================================================

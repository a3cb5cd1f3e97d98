-------------------------- MODULE DoublyBufferedData -------------------------
(***************************************************************************)
(* butil::DoublyBufferedData (doubly_buffered_data.h): readers use the     *)
(* foreground instance, Modify() changes the background one, flips them,   *)
(* waits for the readers of the old foreground thread by thread and        *)
(* changes it too.  Several bthreads of a thread share its Wrapper.        *)
(***************************************************************************)
EXTENDS Naturals

CONSTANTS Readers, Wrappers,
          WrapperOf,     \* the thread-local Wrapper of each reader
          MayExit,       \* whether a thread may exit while a bthread it started reads
          MaxReads, MaxModify  \* bounds on what is called

ASSUME WrapperAssumption == WrapperOf \in [Readers -> Wrappers]
None == "none"
ASSUME NoneAssumption == None \notin Readers
ASSUME ExitAssumption == MayExit \in BOOLEAN
ASSUME BoundAssumption == MaxReads \in Nat /\ MaxModify \in Nat

VARIABLES guard,     \* what a reader leaves its instance to: "mutex", or "count" if
                     \* AllowBthreadSuspended, a parameter of the template
          index,     \* _index: which instance is the foreground
          data,      \* how many modifications each instance has
          wrappers,  \* _wrappers
          lock,      \* the holder of each Wrapper's mutex
          refs,      \* readers that are counted in _ref[i] of each Wrapper
          rd,        \* where every reader is
          at,        \* the instance it reads
          reads,     \* how often it has read
          mpc,       \* where the thread in Modify() is
          bg,        \* its bg_index
          left,      \* the Wrappers it has still to wait for
          waits,     \* the Wrapper in whose condition variable it sleeps
          done       \* how many Modify() have returned

vars == <<guard, index, data, wrappers, lock, refs, rd, at, reads, mpc, bg, left, waits, done>>
rd_vars == <<rd, at, reads>>
mod_vars == <<mpc, bg, left, waits, done>>

Other(i) == IF i = 0 THEN 1 ELSE 0

Init == /\ guard \in {"mutex", "count"}
        /\ index = 0 /\ data = [i \in {0, 1} |-> 0] /\ wrappers = {}
        /\ lock = [w \in Wrappers |-> None] /\ refs = [w \in Wrappers |-> {}]
        /\ rd = [r \in Readers |-> "idle"]
        /\ at = [r \in Readers |-> 0] /\ reads = [r \in Readers |-> 0]
        /\ mpc = "idle" /\ bg = 1 /\ left = {} /\ waits = {} /\ done = 0

Scanning == mpc \in {"scan", "asleep"}   \* Modify() holds _wrappers_mutex

-----------------------------------------------------------------------------
(* Read() and the end of the ScopedPtr.                                     *)

AddWrapper(r) ==
  /\ rd[r] = "idle" /\ reads[r] < MaxReads /\ WrapperOf[r] \notin wrappers /\ ~Scanning
  /\ wrappers' = wrappers \cup {WrapperOf[r]}
  /\ UNCHANGED <<guard, index, data, lock, refs, rd_vars, mod_vars>>

BeginRead(r) ==
  /\ rd[r] = "idle" /\ reads[r] < MaxReads /\ WrapperOf[r] \in wrappers
  /\ lock[WrapperOf[r]] = None /\ lock' = [lock EXCEPT ![WrapperOf[r]] = r]
  /\ rd' = [rd EXCEPT ![r] = IF guard = "count" THEN "locked" ELSE "reading"]
  /\ at' = [at EXCEPT ![r] = index] /\ reads' = [reads EXCEPT ![r] = @ + 1]
  /\ UNCHANGED <<guard, index, data, wrappers, refs, mod_vars>>

\* The reference replaces the mutex while the bthread may be suspended.
AddRef(r) ==
  /\ rd[r] = "locked" /\ rd' = [rd EXCEPT ![r] = "reading"]
  /\ refs' = [refs EXCEPT ![WrapperOf[r]] = @ \cup {<<r, at[r]>>}]
  /\ lock' = [lock EXCEPT ![WrapperOf[r]] = None]
  /\ UNCHANGED <<guard, index, data, wrappers, at, reads, mod_vars>>

\* SignalReadCond: the last reader wakes up Modify() if it waits for this instance.
Signals_Never(w, i, rest) == FALSE
Signals(w, i, rest) == (\A r \in Readers : <<r, i>> \notin rest) /\ mpc = "asleep" /\ waits = {w} /\ i = bg

EndRead(r) ==
  LET w == WrapperOf[r]
      i == at[r]
  IN /\ rd[r] = "reading" /\ rd' = [rd EXCEPT ![r] = "idle"]
     /\ IF guard = "count"
        THEN /\ lock[w] = None /\ refs' = [refs EXCEPT ![w] = @ \ {<<r, i>>}]
             /\ IF Signals(w, i, refs[w] \ {<<r, i>>}) THEN mpc' = "scan" /\ waits' = {}
                ELSE UNCHANGED <<mpc, waits>>
             /\ UNCHANGED <<bg, left, done>>
             /\ UNCHANGED lock
        ELSE lock' = [lock EXCEPT ![w] = None] /\ UNCHANGED <<refs, mod_vars>>
     /\ UNCHANGED <<guard, index, data, wrappers, at, reads>>

\* RemoveWrapper when the thread exits; ~Wrapper then waits for what is still read.
RemoveWrapper(w) ==
  /\ w \in wrappers /\ ~Scanning /\ (MayExit \/ \A r \in Readers : WrapperOf[r] = w => rd[r] = "idle")
  /\ wrappers' = wrappers \ {w}
  /\ UNCHANGED <<guard, index, data, lock, refs, rd_vars, mod_vars>>

-----------------------------------------------------------------------------
(* Modify(), one at a time because of _modify_mutex.                        *)

Background == Other(index)

Modify == /\ mpc = "idle" /\ done < MaxModify /\ mpc' = "fn" /\ bg' = Background
          /\ UNCHANGED <<guard, index, data, wrappers, lock, refs, rd_vars, left, waits, done>>

\* fn() of the background either changes nothing, or the instances are flipped.
Unmodified == /\ mpc = "fn" /\ mpc' = "idle" /\ done' = done + 1
              /\ UNCHANGED <<guard, index, data, wrappers, lock, refs, rd_vars, bg, left, waits>>

Flip_SameAgain == /\ mpc = "fn" /\ data' = [data EXCEPT ![bg] = @ + 1]
                  /\ index' = bg /\ mpc' = "lock"
                  /\ UNCHANGED <<guard, wrappers, lock, refs, rd_vars, bg, left, waits, done>>
Flip == /\ mpc = "fn" /\ data' = [data EXCEPT ![bg] = @ + 1]
        /\ index' = bg /\ bg' = Other(bg) /\ mpc' = "lock"
        /\ UNCHANGED <<guard, wrappers, lock, refs, rd_vars, left, waits, done>>

LockWrappers == /\ mpc = "lock" /\ mpc' = "scan" /\ left' = wrappers
                /\ UNCHANGED <<guard, index, data, wrappers, lock, refs, rd_vars, bg, waits, done>>

ReadDone_ByMutex(w) == TRUE
ReadDone(w) == \A r \in Readers : <<r, bg>> \notin refs[w]

\* WaitReadDone of the next Wrapper: its mutex, and for readers that may be suspended its count.
WaitReadDone(w) ==
  /\ mpc = "scan" /\ w \in left /\ lock[w] = None
  /\ IF ReadDone(w) THEN left' = left \ {w} /\ UNCHANGED <<mpc, waits>>
     ELSE mpc' = "asleep" /\ waits' = {w} /\ UNCHANGED left
  /\ UNCHANGED <<guard, index, data, wrappers, lock, refs, rd_vars, bg, done>>

Scanned == /\ mpc = "scan" /\ left = {} /\ mpc' = "fn_again"
           /\ UNCHANGED <<guard, index, data, wrappers, lock, refs, rd_vars, bg, left, waits, done>>

ModifyAgain == /\ mpc = "fn_again" /\ data' = [data EXCEPT ![bg] = @ + 1]
               /\ mpc' = "idle" /\ done' = done + 1
               /\ UNCHANGED <<guard, index, wrappers, lock, refs, rd_vars, bg, left, waits>>

-----------------------------------------------------------------------------
Read(r) == AddWrapper(r) \/ BeginRead(r) \/ AddRef(r)
Modifying == \/ Flip \/ LockWrappers \/ Scanned \/ ModifyAgain
             \/ \E w \in Wrappers : WaitReadDone(w)
Next == \/ \E r \in Readers : Read(r) \/ EndRead(r)
        \/ \E w \in Wrappers : RemoveWrapper(w)
        \/ Modify \/ Unmodified \/ Modifying
Spec == Init /\ [][Next]_vars

\* Whoever reads stops reading, and Modify() goes on.
Fairness == WF_vars(Modifying) /\ \A r \in Readers : WF_vars(AddRef(r) \/ EndRead(r))
FairSpec == Spec /\ Fairness

-----------------------------------------------------------------------------
\* Every variable has its type.
TypeOK == /\ guard \in {"mutex", "count"}
          /\ index \in {0, 1} /\ data \in [{0, 1} -> Nat] /\ wrappers \in SUBSET Wrappers
          /\ lock \in [Wrappers -> Readers \cup {None}]
          /\ refs \in [Wrappers -> SUBSET (Readers \X {0, 1})]
          /\ rd \in [Readers -> {"idle", "locked", "reading"}]
          /\ at \in [Readers -> {0, 1}] /\ reads \in [Readers -> Nat]
          /\ mpc \in {"idle", "fn", "lock", "scan", "asleep", "fn_again"} /\ bg \in {0, 1}
          /\ left \in SUBSET Wrappers /\ waits \in SUBSET Wrappers /\ done \in Nat

\* "The instance will not be changed until ptr is destructed": Modify() never calls fn() on
\* an instance that somebody reads.
ReadIsStable == mpc \in {"fn", "fn_again"} =>
   \A r \in Readers : rd[r] \in {"locked", "reading"} => at[r] # bg

\* The two instances get the same modifications: they differ by the one in progress only.
InstancesAgree ==
  /\ mpc \in {"idle", "fn"} => data[0] = data[1]
  /\ mpc \notin {"idle", "fn"} => data[index] = data[Other(index)] + 1

\* Modify() returns once the reads that began before it was called have ended.
ModifyReturns == mpc = "fn" ~> mpc = "idle"

-----------------------------------------------------------------------------
(* Why Modify() leaves what is read alone: a reader is in the mutex or in    *)
(* the count of a registered Wrapper, and one of the old foreground is in a  *)
(* Wrapper that Modify() has still to wait for.                              *)

Protected(r) ==
  /\ WrapperOf[r] \in wrappers
  /\ rd[r] = "locked" => guard = "count"
  /\ rd[r] = "locked" \/ guard = "mutex" => lock[WrapperOf[r]] = r
  /\ rd[r] = "reading" /\ guard = "count" => <<r, at[r]>> \in refs[WrapperOf[r]]
Awaited(r) == mpc = "lock" \/ (Scanning /\ WrapperOf[r] \in left)

\* The inductive invariant of ReadIsStable and InstancesAgree.
IInv == /\ TypeOK /\ InstancesAgree
        /\ mpc # "idle" => bg = Other(index)
        /\ \A r \in Readers : rd[r] # "idle" =>
              Protected(r) /\ (at[r] = index \/ Awaited(r))
=============================================================================

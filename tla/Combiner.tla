------------------------------- MODULE Combiner -------------------------------
(***************************************************************************)
(* bvar::detail::AgentCombiner (combiner.h, agent_group.h): every thread   *)
(* adds its samples to an element of its own, the values of all elements   *)
(* and of threads that exited are combined or reset under a lock that      *)
(* writers do not take.  Three kinds of bvar write differently: a reducer  *)
(* (reducer.h) by compare-and-swap, an IntRecorder (recorder.h) commits an *)
(* element that would overflow, a Percentile (percentile.cpp) merges a     *)
(* full element under the two locks in turn.  A sample counts 1.           *)
(***************************************************************************)
EXTENDS Naturals, Sequences, SequencesExt, FiniteSets, FiniteSetsExt

CONSTANTS Threads,
          Confs,    \* [kind, adds: bound on the samples, lives: how many combiners get the AgentId]
          FULL      \* samples that an element of a recorder or a percentile holds

VARIABLES conf,
          life,     \* the combiner that has the AgentId
          global,   \* _global_result
          element,  \* of the agent of each thread
          combiner, \* of the agent of each thread, 0 for NULL
          agents,   \* _agents
          th,       \* where a thread is in operator<< or its exit, and the value n it read
          rd,       \* who has the _lock to combine or to reset, with its agents left and sum
          added, taken,  \* history: samples added, samples that reset_all_agents() returned
          first,         \* history: what there was to combine when combine_agents() began
          twice          \* history: samples of a percentile that were merged and reset
vars == <<conf, life, global, element, combiner, agents, th, rd, added, taken, first, twice>>

Init == /\ conf \in Confs /\ life = 1 /\ global = 0 /\ element = [t \in Threads |-> 0]
        /\ combiner = [t \in Threads |-> 0] /\ agents = <<>>
        /\ th = [t \in Threads |-> [pc |-> "idle", n |-> 0]]
        /\ rd = [pc |-> "idle", left |-> <<>>, sum |-> 0] /\ added = 0 /\ taken = 0 /\ first = 0 /\ twice = 0

Locks == conf.kind = "percentile"   \* elements have a lock, and are not atomic
Unlocked == rd.pc = "idle" /\ \A t \in Threads : th[t].pc # "merge"
\* A percentile holds the lock of its element while it adds to it.
ElementFree(t) == Locks => th[t].pc # "add"
Goto(t, pc) == th' = [th EXCEPT ![t].pc = pc]
Added(t, value) == element' = [element EXCEPT ![t] = value] /\ added' = added + 1 /\ Goto(t, "idle")

\* get_or_create_tls_agent(): an agent of no combiner is reset and appended to the list.
get_or_create_tls_agent(t) ==
  /\ th[t].pc = "idle" /\ added < conf.adds
  /\ IF combiner[t] # 0 THEN Goto(t, "write") /\ UNCHANGED <<element, combiner>>
     ELSE /\ combiner' = [combiner EXCEPT ![t] = life]
          /\ element' = [element EXCEPT ![t] = 0] /\ Goto(t, "append")
  /\ UNCHANGED <<conf, life, global, agents, rd, added, taken, first, twice>>
append(t) == /\ th[t].pc = "append" /\ Unlocked
             /\ agents' = Append(agents, t) /\ Goto(t, "write")
             /\ UNCHANGED <<conf, life, global, element, combiner, rd, added, taken, first, twice>>

\* A reducer and a recorder load their element; a percentile locks it, and if it is full unlocks
\* it again to lock the combiner.
Overflows(n) == conf.kind = "recorder" /\ n + 1 > FULL
Seen(t) == th' = [th EXCEPT ![t] = [n |-> element[t],
                                    pc |-> IF Overflows(element[t]) THEN "commit" ELSE "cas"]]
write(t) == /\ th[t].pc = "write"
            /\ IF Locks THEN Goto(t, IF element[t] = FULL THEN "lock" ELSE "add") ELSE Seen(t)
            /\ UNCHANGED <<conf, life, global, element, combiner, agents, rd, added, taken, first, twice>>

\* The compare-and-swap fails when a reset or a commit came between.
SameValue_Unchecked(t) == TRUE
SameValue(t) == element[t] = th[t].n
cas(t) == /\ th[t].pc = "cas"
          /\ IF SameValue(t) THEN Added(t, th[t].n + 1) ELSE Seen(t) /\ UNCHANGED <<element, added>>
          /\ UNCHANGED <<conf, life, global, combiner, agents, rd, taken, first, twice>>
commit_and_clear(t) ==
  /\ th[t].pc = "commit" /\ Unlocked
  /\ global' = global + element[t] /\ element' = [element EXCEPT ![t] = 0]
  /\ th' = [th EXCEPT ![t] = [pc |-> "cas", n |-> 0]]
  /\ UNCHANGED <<conf, life, combiner, agents, rd, added, taken, first, twice>>

\* merge_global() with AddLatency: between the two locks others may reset the element.
lock(t) == /\ th[t].pc = "lock" /\ Unlocked /\ Goto(t, "merge")
           /\ UNCHANGED <<conf, life, global, element, combiner, agents, rd, added, taken, first, twice>>
merge(t) == /\ th[t].pc = "merge" /\ global' = global + element[t]
            /\ th' = [th EXCEPT ![t] = [pc |-> "relock", n |-> element[t]]]
            /\ UNCHANGED <<conf, life, element, combiner, agents, rd, added, taken, first, twice>>
relock(t) == /\ th[t].pc = "relock" /\ element' = [element EXCEPT ![t] = 0]
             /\ th' = [th EXCEPT ![t] = [pc |-> "add", n |-> 0]]
             /\ twice' = twice + th[t].n - element[t]
             /\ UNCHANGED <<conf, life, global, combiner, agents, rd, added, taken, first>>
add(t) == /\ th[t].pc = "add" /\ Added(t, element[t] + 1)
          /\ UNCHANGED <<conf, life, global, combiner, agents, rd, taken, first, twice>>

\* The thread exits: its agent commits what it has.  Its place is taken by a new thread.
commit_and_erase(t) ==
  /\ th[t].pc = "idle" /\ combiner[t] # 0 /\ Unlocked
  /\ global' = global + element[t] /\ agents' = SelectSeq(agents, LAMBDA u : u # t)
  /\ combiner' = [combiner EXCEPT ![t] = 0]
  /\ UNCHANGED <<conf, life, element, th, rd, added, taken, first, twice>>

\* combine_agents() and reset_all_agents() go through the agents one by one.
combine_agents == /\ Unlocked /\ rd' = [pc |-> "combine", left |-> agents, sum |-> global]
                  /\ first' = IF Locks THEN 0 ELSE added - taken
                  /\ UNCHANGED <<conf, life, global, element, combiner, agents, th, added, taken, twice>>
reset_all_agents == /\ Unlocked /\ rd' = [pc |-> "reset", left |-> agents, sum |-> global]
                    /\ global' = 0
                    /\ UNCHANGED <<conf, life, element, combiner, agents, th, added, taken, first, twice>>
visit == /\ rd.left # <<>> /\ ElementFree(Head(rd.left))
         /\ rd' = [rd EXCEPT !.left = Tail(@), !.sum = @ + element[Head(rd.left)]]
         /\ element' = IF rd.pc = "reset" THEN [element EXCEPT ![Head(rd.left)] = 0] ELSE element
         /\ UNCHANGED <<conf, life, global, combiner, agents, th, added, taken, first, twice>>
finish == /\ rd.pc # "idle" /\ rd.left = <<>> /\ rd' = [pc |-> "idle", left |-> <<>>, sum |-> 0]
          /\ taken' = taken + IF rd.pc = "reset" THEN rd.sum ELSE 0
          /\ UNCHANGED <<conf, life, global, element, combiner, agents, th, added, first, twice>>

\* ~AgentCombiner() when nobody uses it: its agents are free for the next combiner that gets its
\* AgentId.  What it counted is gone.
Recreate == /\ life < conf.lives /\ Unlocked /\ \A t \in Threads : th[t].pc = "idle"
            /\ combiner' = [t \in Threads |-> IF t \in Range(agents) THEN 0 ELSE combiner[t]]
            /\ element' = [t \in Threads |-> IF t \in Range(agents) THEN 0 ELSE element[t]]
            /\ agents' = <<>> /\ life' = life + 1 /\ global' = 0 /\ taken' = added
            /\ twice' = 0 /\ UNCHANGED <<conf, th, rd, added, first>>

Write(t) == \/ get_or_create_tls_agent(t) \/ append(t) \/ write(t) \/ cas(t) \/ commit_and_clear(t)
            \/ lock(t) \/ merge(t) \/ relock(t) \/ add(t)
Next == \/ \E t \in Threads : Write(t) \/ commit_and_erase(t)
        \/ combine_agents \/ reset_all_agents \/ visit \/ finish \/ Recreate
Spec == Init /\ [][Next]_vars

-------------------------------------------------------------------------------
\* Every variable has its type; an agent is in the list when it has a combiner, once.
TypeOK == /\ conf \in Confs /\ {global, added, taken, first, twice, rd.sum} \subseteq Nat
          /\ \A t \in Threads : Cardinality({i \in DOMAIN agents : agents[i] = t}) =
               IF combiner[t] = life /\ th[t].pc # "append" THEN 1 ELSE 0

Kept == global + MapThenSumSet(LAMBDA t : element[t], Range(agents)) + IF rd.pc = "reset" THEN rd.sum ELSE 0

Merging == {t \in Threads : th[t].pc = "relock"}

\* No sample is lost or counted twice, whatever resets, commits and exits of threads come between:
\* what was added is what resets returned and what is left to combine.  The one exception is a
\* percentile between the two locks of merge_global(), whose element is in the global result and
\* not yet cleared: a reset then returns it a second time.
SamplesExact == /\ taken + Kept = added + twice + MapThenSumSet(LAMBDA t : th[t].n, Merging)
                /\ twice > 0 => Locks

\* combine_agents() returns a value the bvar had between its call and its return, though writers go
\* on meanwhile.
CombinesBetween == rd.pc = "combine" /\ rd.left = <<>> /\ ~Locks => rd.sum \in first .. added - taken
===============================================================================

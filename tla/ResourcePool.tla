----------------------------- MODULE ResourcePool -----------------------------
(***************************************************************************)
(* butil::ResourcePool (resource_pool_inl.h): identifiers of items in      *)
(* blocks that are never given back.  A thread gets one from its own free  *)
(* list, from a chunk of free ones that another thread gave to the pool,   *)
(* from its current block or from a new block, which it puts in the        *)
(* table of blocks without a lock.  ObjectPool is the same with pointers.  *)
(***************************************************************************)
EXTENDS Integers, Sequences, SequencesExt, FiniteSets, FiniteSetsExt

CONSTANTS Threads,
          MAX_BLOCK_NGROUP, GROUP_NBLOCK, BLOCK_NITEM,
          FREE_CHUNK_NITEM   \* free_chunk_nitem()

VARIABLES ngroup,       \* _ngroup
          nblock,       \* nblock of each BlockGroup
          nitem,        \* of each Block in the table, -1 for no Block
          free_chunks,  \* _free_chunks
          lp,           \* the LocalPools, whose _cur_block is -1 for NULL
          th,           \* where threads are in get(), with the ngroup they read and their place
          users,        \* how many have got an identifier and not returned it
          lost          \* identifiers whose return failed
vars == <<ngroup, nblock, nitem, free_chunks, lp, th, users, lost>>

Groups == 1 .. MAX_BLOCK_NGROUP
Blocks == 0 .. MAX_BLOCK_NGROUP * GROUP_NBLOCK - 1
Ids == 0 .. MAX_BLOCK_NGROUP * GROUP_NBLOCK * BLOCK_NITEM - 1
NoLocalPool == [cur_block |-> -1, cur_free |-> <<>>]
Idle == [pc |-> "idle", ngroup |-> 0, index |-> 0]

Init == /\ ngroup = 0 /\ nblock = [g \in Groups |-> 0] /\ nitem = [b \in Blocks |-> -1]
        /\ free_chunks = <<>> /\ lp = [t \in Threads |-> NoLocalPool]
        /\ th = [t \in Threads |-> Idle] /\ users = [i \in Ids |-> 0] /\ lost = {}

Goto(t, pc) == th' = [th EXCEPT ![t].pc = pc]
\* The caller gets id and the local free list becomes cur_free.
Got(t, id, cur_free) == /\ users' = [users EXCEPT ![id] = @ + 1]
                        /\ lp' = [lp EXCEPT ![t].cur_free = cur_free]
                        /\ th' = [th EXCEPT ![t] = Idle]

\* get() takes the last identifier of the local free list, or looks at the global one.
get(t) == /\ th[t].pc = "idle"
          /\ IF lp[t].cur_free # <<>>
             THEN Got(t, Last(lp[t].cur_free), Front(lp[t].cur_free))
             ELSE Goto(t, "empty") /\ UNCHANGED <<users, lp>>
          /\ UNCHANGED <<ngroup, nblock, nitem, free_chunks, lost>>

\* pop_free_chunk() looks at the list without the mutex first.
empty(t) == /\ th[t].pc = "empty"
            /\ Goto(t, IF free_chunks = <<>> THEN "block" ELSE "pop")
            /\ UNCHANGED <<ngroup, nblock, nitem, free_chunks, lp, users, lost>>
pop_free_chunk(t) ==
  /\ th[t].pc = "pop"
  /\ IF free_chunks # <<>>
     THEN LET c == Last(free_chunks) IN
          Got(t, Last(c), Front(c)) /\ free_chunks' = Front(free_chunks)
     ELSE Goto(t, "block") /\ UNCHANGED <<users, lp, free_chunks>>
  /\ UNCHANGED <<ngroup, nblock, nitem, lost>>

\* An item of the current block, which may turn out invalid, or else a new block, if there is memory.
block(t) ==
  /\ th[t].pc = "block"
  /\ LET b == lp[t].cur_block IN
     IF b # -1 /\ nitem[b] < BLOCK_NITEM
     THEN \/ /\ Got(t, b * BLOCK_NITEM + nitem[b], lp[t].cur_free)
             /\ nitem' = [nitem EXCEPT ![b] = @ + 1]
          \/ th' = [th EXCEPT ![t] = Idle] /\ UNCHANGED <<nitem, lp, users>>
     ELSE /\ UNCHANGED <<nitem, users>>
          /\ \/ Goto(t, "load") /\ UNCHANGED lp
             \/ th' = [th EXCEPT ![t] = Idle] /\ lp' = [lp EXCEPT ![t].cur_block = -1]
  /\ UNCHANGED <<ngroup, nblock, free_chunks, lost>>

\* add_block(): a place in the last group, or a new group.
load(t) == /\ th[t].pc = "load"
           /\ th' = [th EXCEPT ![t].ngroup = ngroup, ![t].pc = IF ngroup >= 1 THEN "count" ELSE "add"]
           /\ UNCHANGED <<ngroup, nblock, nitem, free_chunks, lp, users, lost>>
InGroup_OffByOne(i) == i <= GROUP_NBLOCK
InGroup(i) == i < GROUP_NBLOCK
count(t) == /\ th[t].pc = "count"
            /\ LET g == th[t].ngroup IN
               /\ th' = [th EXCEPT ![t].pc = IF InGroup(nblock[g]) THEN "store" ELSE "sub",
                                   ![t].index = (g - 1) * GROUP_NBLOCK + nblock[g]]
               /\ nblock' = [nblock EXCEPT ![g] = @ + 1]
            /\ UNCHANGED <<ngroup, nitem, free_chunks, lp, users, lost>>
store(t) == /\ th[t].pc = "store"
            /\ nitem' = [nitem EXCEPT ![th[t].index] = 0]
            /\ lp' = [lp EXCEPT ![t].cur_block = th[t].index]
            /\ th' = [th EXCEPT ![t] = [Idle EXCEPT !.pc = "block"]]
            /\ UNCHANGED <<ngroup, nblock, free_chunks, users, lost>>
sub(t) == /\ th[t].pc = "sub"
          /\ nblock' = [nblock EXCEPT ![th[t].ngroup] = @ - 1]
          /\ Goto(t, "add")
          /\ UNCHANGED <<ngroup, nitem, free_chunks, lp, users, lost>>
\* Another thread may have added a group meanwhile; there may be no memory for one.
add_block_group(t) ==
  /\ th[t].pc = "add"
  /\ \/ ngroup # th[t].ngroup /\ Goto(t, "load") /\ UNCHANGED <<ngroup, lp>>
     \/ /\ ngroup = th[t].ngroup /\ ngroup < MAX_BLOCK_NGROUP
        /\ ngroup' = ngroup + 1 /\ Goto(t, "load") /\ UNCHANGED lp
     \/ /\ ngroup = th[t].ngroup /\ UNCHANGED ngroup
        /\ th' = [th EXCEPT ![t] = Idle] /\ lp' = [lp EXCEPT ![t].cur_block = -1]
  /\ UNCHANGED <<nblock, nitem, free_chunks, users, lost>>

\* Any user of an identifier may return it, in any thread.  A full local list goes to the pool;
\* without memory for that the identifier is not returned.
return_resource(t) ==
  /\ th[t].pc = "idle"
  /\ \E id \in Ids :
     /\ users[id] > 0 /\ users' = [users EXCEPT ![id] = @ - 1]
     /\ \/ /\ Len(lp[t].cur_free) < FREE_CHUNK_NITEM
           /\ lp' = [lp EXCEPT ![t].cur_free = Append(@, id)] /\ UNCHANGED <<free_chunks, lost>>
        \/ /\ Len(lp[t].cur_free) >= FREE_CHUNK_NITEM
           /\ free_chunks' = Append(free_chunks, lp[t].cur_free)
           /\ lp' = [lp EXCEPT ![t].cur_free = <<id>>] /\ UNCHANGED lost
        \/ /\ Len(lp[t].cur_free) >= FREE_CHUNK_NITEM
           /\ lost' = lost \cup {id} /\ UNCHANGED <<lp, free_chunks>>
  /\ UNCHANGED <<ngroup, nblock, nitem, th>>

\* The thread exits or calls clear_resources(): the destructor of its LocalPool gives the free
\* identifiers to the pool, if there are some and memory to do so.
delete_local_pool(t) ==
  /\ th[t].pc = "idle" /\ lp[t] # NoLocalPool
  /\ lp' = [lp EXCEPT ![t] = NoLocalPool]
  /\ \/ lp[t].cur_free # <<>> /\ free_chunks' = Append(free_chunks, lp[t].cur_free) /\ UNCHANGED lost
     \/ lost' = lost \cup Range(lp[t].cur_free) /\ UNCHANGED free_chunks
  /\ UNCHANGED <<ngroup, nblock, nitem, th, users>>

Next == \E t \in Threads :
  \/ get(t) \/ empty(t) \/ pop_free_chunk(t) \/ block(t) \/ load(t) \/ count(t) \/ store(t)
  \/ sub(t) \/ add_block_group(t) \/ return_resource(t) \/ delete_local_pool(t)
Spec == Init /\ [][Next]_vars

-------------------------------------------------------------------------------
\* What address_resource(id) finds.
Made(id) == nitem[id \div BLOCK_NITEM] > id % BLOCK_NITEM
Times(id, list) == Cardinality({i \in DOMAIN list : list[i] = id})
FreeIn(id) == MapThenSumSet(LAMBDA t : Times(id, lp[t].cur_free), Threads)
              + MapThenSumSet(LAMBDA i : Times(id, free_chunks[i]), DOMAIN free_chunks)

\* Every variable has its type.
TypeOK == /\ ngroup \in 0 .. MAX_BLOCK_NGROUP /\ nblock \in [Groups -> Nat]
          /\ nitem \in [Blocks -> -1 .. BLOCK_NITEM] /\ users \in [Ids -> Nat] /\ lost \subseteq Ids
          /\ \A t \in Threads : lp[t].cur_block \in Blocks \cup {-1}

\* An identifier that was made is with one user or in one free list, and no other identifier is
\* with anybody: nobody gets the item of somebody else, and none is forgotten unless its return
\* failed.
IdsExact == \A id \in Ids :
  users[id] + FreeIn(id) + (IF id \in lost THEN 1 ELSE 0) = (IF Made(id) THEN 1 ELSE 0)

\* pop_free_chunk() takes the last identifier of a chunk without looking at its size, into an
\* array of FREE_CHUNK_NITEM: no chunk is empty or longer.
ChunksFit == /\ \A i \in DOMAIN free_chunks : Len(free_chunks[i]) \in 1 .. FREE_CHUNK_NITEM
             /\ \A t \in Threads : Len(lp[t].cur_free) <= FREE_CHUNK_NITEM

\* Threads put their blocks in different places of the table, and no group is left half used for
\* a new one: a group with room is the last one.
BlocksApart ==
  /\ \A t, u \in Threads : t # u /\ lp[t].cur_block # -1 => lp[t].cur_block # lp[u].cur_block
  /\ \A g \in Groups : g < ngroup => nblock[g] >= GROUP_NBLOCK
===============================================================================

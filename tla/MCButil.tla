-------------------------------- MODULE MCButil ------------------------------
(* What threads share of butil and bvar, for TLC: DoublyBufferedData, IOBuf, ResourcePool and *)
(* the combiner of bvars.  Each is a part of its own, chosen in the initial state.            *)
EXTENDS DoublyBufferedData, TLC

VARIABLES part, blk, view, tls, num, chain, out, area, clock, call, conf,
          ngroup, nblock, nitem, free_chunks, lp, th, users, lost,
          bvar, life, global, element, combiner, agents, adder, sampler, added, taken, first, twice

Calls(kinds, threads, arg, max) == [calls |-> kinds, threads |-> threads, arg |-> arg, max |-> max]
One == {"t1"}
\* Which calls meet: sharing and cutting with one and with two bytes, the ring of a BigView,
\* copies and user data, a portal, two threads' output streams, reserved areas, and empty
\* references among the others and under an output stream.
Buffers == INSTANCE IOBuf WITH
  Threads <- {"t1", "t2"}, Bufs <- {"b1", "b2"}, Portals <- {"b1"}, NumBlocks <- 3, Cap <- 2,
  InitialCap <- 4, MaxTls <- 1, MaxLen <- 6, MaxRefIndex <- 1, MaxRefOffset <- 1, NumValues <- 2,
  BackUpAgain <- FALSE,
  Confs <- {Calls({"append", "share", "cut"}, One, 2, 5),
            Calls({"append", "share", "pop"}, One, 1, 7),
            Calls({"append", "user", "move", "copy", "pop", "share"}, One, 2, 4),
            Calls({"append", "read", "cut", "exit"}, One, 2, 5),
            Calls({"append", "stream"}, {"t1", "t2"}, 2, 4),
            Calls({"append", "reserve"}, One, 2, 5),
            Calls({"append", "appendv", "share", "cut", "move", "pop"}, One, 1, 5),
            Calls({"append", "appendv", "stream", "reserve", "pop"}, One, 2, 4)}

Pool == INSTANCE ResourcePool WITH
  Threads <- {"t1", "t2"}, MAX_BLOCK_NGROUP <- 2, GROUP_NBLOCK <- 1, BLOCK_NITEM <- 2,
  FREE_CHUNK_NITEM <- 2

Bvar(kind) == [kind |-> kind, adds |-> 4, lives |-> 2]
Combining == INSTANCE Combiner WITH
  Threads <- {"t1", "t2"}, FULL <- 2, conf <- bvar, th <- adder, rd <- sampler,
  Confs <- {Bvar("reducer"), Bvar("recorder"), Bvar("percentile")}

pool_vars == <<ngroup, nblock, nitem, free_chunks, lp, th, users, lost>>
bvar_vars == <<bvar, life, global, element, combiner, agents, adder, sampler, added, taken, first, twice>>
buffers_vars == <<blk, view, tls, num, chain, out, area, clock, call, conf>>
others == <<pool_vars, bvar_vars>>
MCvars == <<part, vars, buffers_vars, others>>

IdleBuffers == /\ blk = 0 /\ view = 0 /\ tls = 0 /\ num = 0 /\ chain = 0 /\ out = 0 /\ area = 0
               /\ clock = 0 /\ call = 0 /\ conf = 0
IdlePool == /\ ngroup = 0 /\ nblock = 0 /\ nitem = 0 /\ free_chunks = 0 /\ lp = 0 /\ th = 0
            /\ users = 0 /\ lost = 0
IdleBvar == /\ bvar = 0 /\ life = 0 /\ global = 0 /\ element = 0 /\ combiner = 0 /\ agents = 0
            /\ adder = 0 /\ sampler = 0 /\ added = 0 /\ taken = 0 /\ first = 0 /\ twice = 0
MCInit == /\ part \in {"data", "buffers", "pool", "bvar"} /\ Init
          /\ IF part = "pool" THEN Pool!Init ELSE IdlePool
          /\ IF part = "bvar" THEN Combining!Init ELSE IdleBvar
          /\ IF part = "buffers" THEN Buffers!Init ELSE IdleBuffers
          /\ part # "data" => guard = "mutex"
InData(A) == part = "data" /\ A /\ UNCHANGED <<part, buffers_vars, others>>
MCNext == \/ InData(Next)
          \/ part = "buffers" /\ Buffers!Next /\ UNCHANGED <<part, vars, others>>
          \/ part = "pool" /\ Pool!Next /\ UNCHANGED <<part, vars, buffers_vars, bvar_vars>>
          \/ part = "bvar" /\ Combining!Next /\ UNCHANGED <<part, vars, buffers_vars, pool_vars>>
MCSpec == /\ MCInit /\ [][MCNext]_MCvars
          /\ WF_MCvars(InData(Modifying))
          /\ \A r \in Readers : WF_MCvars(InData(AddRef(r) \/ EndRead(r)))

\* IOBuf: the count of every block is the number of its references and keepers, a block that may be
\* appended to has one appender, a view has the form and length of its references, and the CHECKs
\* of the portal and of the output stream hold.
BlocksExact == part = "buffers" => /\ Buffers!TypeOK /\ Buffers!RefCountExact /\ Buffers!OneAppender
                                   /\ Buffers!ViewsExact /\ Buffers!ChecksHold
\* IOBuf: the buffers are independent sequences of bytes (the refinement of ByteBuffers).
BuffersAreSequences ==
  /\ part = "buffers" => Buffers!Abstract!Init
  /\ [][part = "buffers" => [Buffers!Abstract!Next]_(<<view, blk, clock, call>>)]_MCvars

\* ResourcePool: an identifier is with one user or in one free list, free chunks are neither empty
\* nor too long, and threads have different blocks.
PoolExact == part = "pool" => /\ Pool!TypeOK /\ Pool!IdsExact /\ Pool!ChunksFit /\ Pool!BlocksApart
\* Combiner: every sample is counted once, but for those a percentile is merging, and what
\* combine_agents() returns was the value at some time of its call.
CombinerExact == part = "bvar" => /\ Combining!TypeOK /\ Combining!SamplesExact
                                  /\ Combining!CombinesBetween

MCWrapperOf == "r1" :> "w1" @@ "r2" :> "w1" @@ "r3" :> "w2"
==============================================================================

-------------------------------- MODULE IOBuf --------------------------------
(* butil::IOBuf, IOPortal and IOBufAsZeroCopyOutputStream (iobuf.cpp):         *)
(* buffers that are queues of references to parts of reference-counted blocks, *)
(* and the threads' caches of blocks that all of them append to.  A buffer is  *)
(* used by one thread at a time and the counts are atomic, so that a call is   *)
(* one step.                                                                   *)
EXTENDS Naturals, Sequences, FiniteSets, SequencesExt, FiniteSetsExt

CONSTANTS Threads, Bufs,
          Portals,      \* the buffers that are IOPortals
          NumBlocks,    \* memory, in blocks: when it is used up create_block() is NULL
          Cap,          \* what a block holds (DEFAULT_BLOCK_SIZE less its header)
          InitialCap,   \* INITIAL_CAP of a BigView
          MaxTls,       \* MAX_BLOCKS_PER_THREAD
          MaxRefIndex, MaxRefOffset, \* MAX_REF_INDEX and MAX_REF_OFFSET of an Area
          MaxLen,       \* bound on the bytes of a buffer
          Confs,        \* bounds: which calls are made, by which threads, with how many bytes
                        \* at most, and how many calls
          NumValues,    \* how many values of bytes are told apart
          BackUpAgain   \* whether BackUp() may follow BackUp()

VARIABLES blk,   \* the blocks: nshared (0 when deallocated), cap, size and data
          view,  \* the views of the buffers: cap is 2 in a SmallView
          tls,   \* TLSData::block_head of each thread, and the blocks linked to it
          num,   \* TLSData::num_blocks
          chain, \* IOPortal::_block and the blocks linked to it
          out,   \* the output stream of each buffer, if any: _cur_block, how many bytes at the
                 \* end of the buffer it may take back, and whether it has met a LOG(FATAL)
          area,  \* the reserved area of each buffer, if any
          clock, call, \* how many calls, and the last one with its arguments
          conf

vars == <<blk, view, tls, num, chain, out, area, clock, call, conf>>

Blocks == 1..NumBlocks
None == 0
Closed == [open |-> FALSE, cur |-> None, tail |-> 0, fatal |-> FALSE]
NoArea == <<>>
Value(k) == 1 + (k % NumValues)
Fill(n) == [i \in 1..n |-> Value(clock)]
Least(x, y) == IF x < y THEN x ELSE y

\* A call changes several of these, block by block: they are passed on as a record.
Mem == [blk |-> blk, view |-> view, tls |-> tls, num |-> num, chain |-> chain, out |-> out]

-----------------------------------------------------------------------------
(* Blocks.                                                                  *)

Dead == [nshared |-> 0, cap |-> 0, size |-> 0, data |-> <<>>]
NewBlock == [nshared |-> 1, cap |-> Cap, size |-> 0, data |-> [i \in 1..Cap |-> 0]]
UserBlock(data) == [nshared |-> 1, cap |-> Len(data), size |-> Len(data), data |-> data]
Full(m, b) == m.blk[b].size >= m.blk[b].cap
LeftSpace_Whole(m, b) == m.blk[b].cap
LeftSpace(m, b) == m.blk[b].cap - m.blk[b].size

IncRef(m, b) == [m EXCEPT !.blk[b].nshared = @ + 1]
DecRef(m, b) == [m EXCEPT !.blk[b] = IF @.nshared = 1 THEN Dead ELSE [@ EXCEPT !.nshared = @ - 1]]
DecRefs(m, bs) == FoldSeq(LAMBDA b, n : DecRef(n, b), m, bs)

Unused(m) == {b \in Blocks : m.blk[b].nshared = 0}
CanCreate(m) == Unused(m) # {}
Created(m) == Min(Unused(m))
Create(m) == [m EXCEPT !.blk[Created(m)] = NewBlock]

\* The bytes are copied behind the size of the block, which then covers them.
Written(m, b, bytes) ==
  [m EXCEPT !.blk[b].data = [i \in DOMAIN @ |->
                               IF i - m.blk[b].size \in DOMAIN bytes THEN bytes[i - m.blk[b].size] ELSE @[i]],
            !.blk[b].size = @ + Len(bytes)]

\* The full blocks at the head of a thread's chain leave it.
LeadingFull(m, t) == Min({i \in 0..Len(m.tls[t]) : i < Len(m.tls[t]) => ~Full(m, m.tls[t][i + 1])})
Trim(m, t) == LET k == LeadingFull(m, t)
              IN [DecRefs(m, SubSeq(m.tls[t], 1, k)) EXCEPT
                    !.tls[t] = SubSeq(@, k + 1, Len(@)), !.num[t] = @ - k]

\* share_tls_block(): the block stays in TLS.
Share(m, t) == LET n == Trim(m, t)
               IN IF n.tls[t] # <<>> \/ ~CanCreate(n) THEN n
                  ELSE [Create(n) EXCEPT !.tls[t] = <<Created(n)>>, !.num[t] = @ + 1]
\* acquire_tls_block(): the block leaves TLS.
Acquired(m, t) == LET n == Trim(m, t)
                  IN IF n.tls[t] # <<>> THEN Head(n.tls[t]) ELSE IF CanCreate(n) THEN Created(n) ELSE None
Acquire_Shares(m, t) == Share(m, t)
Acquire(m, t) == LET n == Trim(m, t)
                 IN IF n.tls[t] # <<>> THEN [n EXCEPT !.tls[t] = Tail(@), !.num[t] = @ - 1]
                    ELSE IF CanCreate(n) THEN Create(n) ELSE n
\* release_tls_block()
Release(m, t, b) ==
  IF b = None THEN m
  ELSE IF Full(m, b) \/ m.num[t] >= MaxTls THEN DecRef(m, b)
  ELSE [m EXCEPT !.tls[t] = <<b>> \o @, !.num[t] = @ + 1]
\* release_tls_block_chain()
ReleaseChain(m, t, bs) ==
  IF bs # <<>> /\ m.num[t] >= MaxTls THEN DecRefs(m, bs)
  ELSE [m EXCEPT !.tls[t] = bs \o @, !.num[t] = @ + Len(bs)]

-----------------------------------------------------------------------------
(* Views: a SmallView of at most two references, or a ring of them.         *)

NoRef == [block |-> None, offset |-> 0, length |-> 0]
RECURSIVE Total(_)
Total(refs) == IF refs = <<>> THEN 0 ELSE Head(refs).length + Total(Tail(refs))
ViewOf(cap, refs) == [cap |-> cap, start |-> 0, nref |-> Len(refs),
                      nbytes |-> IF cap = 2 THEN 0 ELSE Total(refs),
                      refs |-> [i \in 0..cap - 1 |-> IF i < Len(refs) THEN refs[i + 1] ELSE NoRef]]
Empty == ViewOf(2, <<>>)
Small(v) == v.cap = 2
Slot(v, i) == (v.start + i) % v.cap
RefsOf(v) == [i \in 1..v.nref |-> v.refs[Slot(v, i - 1)]]
Counted(v) == Total(RefsOf(v))
Length(v) == IF Small(v) THEN Counted(v) ELSE v.nbytes
IsEmpty(v) == IF Small(v) THEN v.nref = 0 ELSE v.nbytes = 0   \* empty()
BackRef(v) == v.refs[Slot(v, v.nref - 1)]
BytesIn(v, n) == IF Small(v) THEN 0 ELSE n   \* what nbytes changes by

\* _push_or_move_back_ref_to_smallview() and _to_bigview()
Merges_SameBlock(v, r) == v.nref > 0 /\ BackRef(v).block = r.block
Merges(v, r) == /\ v.nref > 0 /\ BackRef(v).block = r.block
                /\ BackRef(v).offset + BackRef(v).length = r.offset
Grown(v) == IF v.nref < v.cap THEN v
            ELSE ViewOf(IF Small(v) THEN InitialCap ELSE 2 * v.cap, RefsOf(v))
Pushed(v, r) ==
  IF Merges(v, r)
  THEN [v EXCEPT !.refs[Slot(v, v.nref - 1)].length = @ + r.length, !.nbytes = @ + BytesIn(v, r.length)]
  ELSE LET w == Grown(v)
       IN [w EXCEPT !.refs[Slot(w, w.nref)] = r, !.nref = @ + 1, !.nbytes = @ + BytesIn(w, r.length)]
PushBackRef(m, o, r) == LET n == [m EXCEPT !.view[o] = Pushed(@, r)]
                        IN IF Merges(m.view[o], r) THEN n ELSE IncRef(n, r.block)
MoveBackRef_Held(m, o, r) == [m EXCEPT !.view[o] = Pushed(@, r)]
MoveBackRef(m, o, r) == LET n == [m EXCEPT !.view[o] = Pushed(@, r)]
                        IN IF Merges(m.view[o], r) THEN DecRef(n, r.block) ELSE n
PushAll(m, o, refs) == FoldLeft(LAMBDA n, r : PushBackRef(n, o, r), m, refs)
MoveAll(m, o, refs) == FoldLeft(LAMBDA n, r : MoveBackRef(n, o, r), m, refs)

\* _pop_or_moveout_front_ref() and _pop_back_ref(): two references are a SmallView again.
FrontPopped_Uncounted(v) ==
  IF v.nref - 1 > 2
  THEN [v EXCEPT !.refs[v.start] = NoRef, !.start = (@ + 1) % v.cap, !.nref = @ - 1]
  ELSE ViewOf(2, Tail(RefsOf(v)))
FrontPopped(v) ==
  IF v.nref - 1 > 2
  THEN [v EXCEPT !.refs[v.start] = NoRef, !.start = (@ + 1) % v.cap, !.nref = @ - 1,
                 !.nbytes = @ - v.refs[v.start].length]
  ELSE ViewOf(2, Tail(RefsOf(v)))
BackPopped(v) ==
  IF v.nref - 1 > 2
  THEN [v EXCEPT !.refs[Slot(v, v.nref - 1)] = NoRef, !.nref = @ - 1, !.nbytes = @ - BackRef(v).length]
  ELSE ViewOf(2, Front(RefsOf(v)))
\* A part of the front or of the back reference is given up.
FrontCut(v, n) == [v EXCEPT !.refs[v.start].offset = @ + n, !.refs[v.start].length = @ - n,
                            !.nbytes = @ - BytesIn(v, n)]
BackCut(v, n) == [v EXCEPT !.refs[Slot(v, v.nref - 1)].length = @ - n, !.nbytes = @ - BytesIn(v, n)]

BlocksOf(refs) == [i \in DOMAIN refs |-> refs[i].block]
Clear(m, b) == [DecRefs(m, BlocksOf(RefsOf(m.view[b]))) EXCEPT !.view[b] = Empty]

-----------------------------------------------------------------------------
(* The loops of the calls.                                                  *)

RECURSIVE AppendLoop(_, _, _, _), PopFrontLoop(_, _, _), PopBackLoop(_, _, _), CutLoop(_, _, _, _)
\* append(data, count), push_back() and resize(), until the bytes or the memory end.
AppendLoop(m, t, b, bytes) ==
  LET n == Share(m, t)
      s == Head(n.tls[t])
      nc == Least(Len(bytes), LeftSpace(n, s))
      ref == [block |-> s, offset |-> n.blk[s].size, length |-> nc]
  IN IF bytes = <<>> \/ n.tls[t] = <<>> THEN IF bytes = <<>> THEN m ELSE n
     ELSE AppendLoop(PushBackRef(Written(n, s, SubSeq(bytes, 1, nc)), b, ref),
                     t, b, SubSeq(bytes, nc + 1, Len(bytes)))

PopFrontLoop(m, b, n) ==
  LET v == m.view[b]   r == v.refs[v.start]
  IN IF n >= Length(v) THEN Clear(m, b)
     ELSE IF n = 0 THEN m
     ELSE IF r.length > n THEN [m EXCEPT !.view[b] = FrontCut(@, n)]
     ELSE PopFrontLoop([DecRef(m, r.block) EXCEPT !.view[b] = FrontPopped(@)], b, n - r.length)

PopBackLoop(m, b, n) ==
  LET v == m.view[b]   r == BackRef(v)
  IN IF n >= Length(v) THEN Clear(m, b)
     ELSE IF n = 0 THEN m
     ELSE IF r.length > n THEN [m EXCEPT !.view[b] = BackCut(@, n)]
     ELSE PopBackLoop([DecRef(m, r.block) EXCEPT !.view[b] = BackPopped(@)], b, n - r.length)

\* cutn(out, n): whole references are moved, the last one may be split.
CutLoop(m, b, o, n) ==
  LET v == m.view[b]   r == v.refs[v.start]
  IN IF n = 0 \/ v.nref = 0 THEN m
     ELSE IF r.length <= n
     THEN CutLoop([MoveBackRef(m, o, r) EXCEPT !.view[b] = FrontPopped(@)], b, o, n - r.length)
     ELSE [PushBackRef(m, o, [r EXCEPT !.length = n]) EXCEPT !.view[b] = FrontCut(@, n)]

\* BackUp(count): the stream takes the blocks of the bytes back and gives them to TLS.
RECURSIVE BackUpLoop(_, _, _, _)
BackUpLoop(m, t, b, n) ==
  LET v == m.view[b]
      r == BackRef(v)
      ends == r.offset + r.length = m.blk[r.block].size
      held == m.out[b].cur # None
      k == IF held THEN m ELSE IncRef([m EXCEPT !.out[b].cur = r.block], r.block)
      part == [k EXCEPT !.view[b] = BackCut(@, n), !.blk[r.block].size = @ - n, !.out[b].tail = @ - n]
      all == DecRef([k EXCEPT !.view[b] = BackPopped(@), !.blk[r.block].size = @ - r.length,
                              !.out[b].tail = @ - r.length], r.block)
      Given(w) == [Release(w, t, r.block) EXCEPT !.out[b].cur = None]
  IN IF IsEmpty(v) \/ (held /\ m.out[b].cur # r.block) \/ (~ends /\ (held \/ m.blk[r.block].nshared = 1))
     THEN [m EXCEPT !.out[b].fatal = TRUE]
     ELSE IF ~ends THEN [PopBackLoop(m, b, n) EXCEPT !.out[b].tail = @ - n]
     ELSE IF r.length > n THEN Given(part)
     ELSE IF r.length = n THEN Given(all)
     ELSE BackUpLoop(Given(all), t, b, n - r.length)

-----------------------------------------------------------------------------
(* The calls.  While bytes are reserved the buffer is only appended to; its *)
(* output stream may stay open, but a call on the buffer itself ends what   *)
(* BackUp() may take back, as iobuf.h demands.                              *)

Init == /\ blk = [b \in Blocks |-> Dead]
        /\ view = [b \in Bufs |-> Empty]
        /\ tls = [t \in Threads |-> <<>>] /\ num = [t \in Threads |-> 0]
        /\ chain = [b \in Portals |-> <<>>]
        /\ out = [b \in Bufs |-> Closed] /\ area = [b \in Bufs |-> NoArea]
        /\ conf \in Confs /\ clock = 0 /\ call = <<"none">>

Called(m, c) == /\ clock < conf.max /\ clock' = clock + 1 /\ call' = c /\ UNCHANGED conf
                /\ blk' = m.blk /\ view' = m.view /\ tls' = m.tls /\ num' = m.num
                /\ chain' = m.chain /\ out' = m.out
Open(b) == out[b].open
Free(b) == area[b] = NoArea
Using(S) == [Mem EXCEPT !.out = [b \in Bufs |-> IF b \in S THEN [out[b] EXCEPT !.tail = 0] ELSE out[b]]]
Fits(b, n) == Length(view[b]) + n <= MaxLen   \* bound on the contents

AppendData(t, b, n) ==
  LET m == AppendLoop(Using({b}), t, b, Fill(n))
      ok == Length(m.view[b]) = Length(view[b]) + n
  IN /\ Fits(b, n)
     /\ Called(m, <<IF ok THEN "append" ELSE "fails", b, n>>)
     /\ UNCHANGED area
\* appendv() of nothing but empty vectors: a reference of length 0.
AppendEmpty(t, b) ==
  LET m == Share(Using({b}), t)
      s == Head(m.tls[t])
  IN /\ Called(IF m.tls[t] = <<>> THEN m
               ELSE PushBackRef(m, b, [block |-> s, offset |-> m.blk[s].size, length |-> 0]),
               <<IF m.tls[t] = <<>> THEN "fails" ELSE "append", b, 0>>)
     /\ UNCHANGED area
AppendUserData(b, n) ==
  /\ Fits(b, n) /\ CanCreate(Mem)
  /\ Called(MoveBackRef([Using({b}) EXCEPT !.blk[Created(Mem)] = UserBlock(Fill(n))], b,
                         [block |-> Created(Mem), offset |-> 0, length |-> n]),
            <<"append", b, n>>)
  /\ UNCHANGED area

\* The parts that n bytes after the first pos have in the references.
RefsIn(refs, n, pos) ==
  LET Before(i) == Total(SubSeq(refs, 1, i - 1))
      Meets(i) == /\ pos <= Before(i) \/ pos < Before(i) + refs[i].length
                  /\ Before(i) < pos + n
      From(i) == IF pos > Before(i) THEN pos - Before(i) ELSE 0
      To(i) == IF pos + n > Before(i) THEN Least(refs[i].length, pos + n - Before(i)) ELSE 0
      cut == [i \in DOMAIN refs |-> IF Meets(i)
                THEN [block |-> refs[i].block, offset |-> refs[i].offset + From(i),
                      length |-> To(i) - From(i)]
                ELSE NoRef]
  IN SelectSeq(cut, LAMBDA r : r # NoRef)
AppendTo(b, o, n, pos) ==
  /\ b # o /\ Free(b) /\ Fits(o, Least(n, Length(view[b])))
  /\ Called(PushAll(Using({b, o}), o, RefsIn(RefsOf(view[b]), n, pos)), <<"share", b, o, n, pos>>)
  /\ UNCHANGED area
\* append(const IOBuf&)
AppendBuf(b, o) ==
  /\ b # o /\ Free(b) /\ Fits(o, Length(view[b]))
  /\ Called(PushAll(Using({b, o}), o, RefsOf(view[b])), <<"share", b, o, Length(view[b]), 0>>)
  /\ UNCHANGED area
MoveAppend(b, o) ==
  /\ b # o /\ Free(b) /\ Fits(o, Length(view[b]))
  /\ LET k == Using({b, o})
         m == IF IsEmpty(view[o]) THEN [k EXCEPT !.view[o] = view[b]] ELSE MoveAll(k, o, RefsOf(view[b]))
     IN Called([m EXCEPT !.view[b] = IF IsEmpty(view[o]) THEN view[o] ELSE Empty],
               <<"cut", b, o, Length(view[b])>>)
  /\ UNCHANGED area
\* operator= and the copy constructor
CopyOf(v) == ViewOf(v.cap, RefsOf(v))
Assign(b, o) ==
  /\ b # o /\ Free(b) /\ Free(o)
  /\ LET m == [Clear(Using({b, o}), o) EXCEPT !.view[o] = CopyOf(view[b])]
     IN Called(FoldSeq(LAMBDA r, k : IncRef(k, r.block), m, RefsOf(view[b])), <<"copy", b, o>>)
  /\ UNCHANGED area

PopFront(b, n) == /\ Free(b) /\ n <= Length(view[b])
                  /\ Called(PopFrontLoop(Using({b}), b, n), <<"pop_front", b, n>>)
                  /\ UNCHANGED area
PopBack(b, n) == /\ Free(b) /\ n <= Length(view[b])
                 /\ Called(PopBackLoop(Using({b}), b, n), <<"pop_back", b, n>>)
                 /\ UNCHANGED area
CutInto(b, o, n) == /\ b # o /\ Free(b) /\ n <= Length(view[b]) /\ Fits(o, n)
                    /\ Called(CutLoop(Using({b, o}), b, o, n), <<"cut", b, o, n>>)
                    /\ UNCHANGED area

\* reserve(n) and unsafe_assign(): the area is a reference's index and an offset in it
\* (pos is where that was in the buffer).  What the bytes are until then is not said: 0 here.
MakeArea(v, n, pos) ==
  IF v.nref - 1 > MaxRefIndex \/ BackRef(v).length - 1 > MaxRefOffset THEN NoArea
  ELSE [ref |-> v.nref - 1, offset |-> BackRef(v).length - 1, size |-> n, pos |-> pos]
Reserve(t, b, n) ==
  LET m == AppendLoop(Using({b}), t, b, [i \in 1..n |-> 0])
      ok == Length(m.view[b]) = Length(view[b]) + n
      first == AppendLoop(Mem, t, b, <<0>>).view[b]   \* what the first push leads to
  IN /\ n > 0 /\ area[b] = NoArea /\ Fits(b, n)
     /\ Called(m, <<"reserve", b, n, ok>>)
     /\ area' = [area EXCEPT ![b] = IF ok THEN MakeArea(first, n, Length(view[b])) ELSE NoArea]
UnsafeAssign(b) ==
  LET refs == RefsOf(view[b])
      a == area[b]
      pos == a.offset + Total(SubSeq(refs, 1, a.ref))
      parts == RefsIn(refs, a.size, pos)
      Covers(x, i) == \E k \in DOMAIN parts : /\ parts[k].block = x
                                             /\ parts[k].offset < i /\ i <= parts[k].offset + parts[k].length
  IN /\ a # NoArea
     /\ Called([Using({b}) EXCEPT !.blk = [x \in Blocks |-> [blk[x] EXCEPT
                  !.data = [i \in DOMAIN @ |-> IF Covers(x, i) THEN Value(clock) ELSE @[i]]]]],
               <<"assign", b, a.size, a.pos>>)
     /\ area' = [area EXCEPT ![b] = NoArea]

\* IOPortal: append_from_file_descriptor() prepares blocks for max bytes and reads n of them.
RECURSIVE Prepare(_, _, _, _), ReadLoop(_, _, _), ReadLoop_LastKept(_, _, _)
Space(m, b) == FoldSeq(LAMBDA x, k : k + LeftSpace(m, x), 0, m.chain[b])
Prepare(m, t, b, max) ==
  IF Space(m, b) >= max \/ Acquired(m, t) = None THEN m
  ELSE Prepare([Acquire(m, t) EXCEPT !.chain[b] = @ \o <<Acquired(m, t)>>], t, b, max)
ReadLoop_LastKept(m, b, bytes) ==
  LET x == Head(m.chain[b])
      nc == Least(Len(bytes), LeftSpace(m, x))
      ref == [block |-> x, offset |-> m.blk[x].size, length |-> nc]
      n == PushBackRef(Written(m, x, SubSeq(bytes, 1, nc)), b, ref)
  IN IF bytes = <<>> THEN m
     ELSE ReadLoop_LastKept(IF nc < Len(bytes) THEN [DecRef(n, x) EXCEPT !.chain[b] = Tail(@)] ELSE n,
                            b, SubSeq(bytes, nc + 1, Len(bytes)))
ReadLoop(m, b, bytes) ==
  LET x == Head(m.chain[b])
      nc == Least(Len(bytes), LeftSpace(m, x))
      ref == [block |-> x, offset |-> m.blk[x].size, length |-> nc]
      n == PushBackRef(Written(m, x, SubSeq(bytes, 1, nc)), b, ref)
  IN IF bytes = <<>> THEN m
     ELSE ReadLoop(IF Full(n, x) THEN [DecRef(n, x) EXCEPT !.chain[b] = Tail(@)] ELSE n,
                   b, SubSeq(bytes, nc + 1, Len(bytes)))
ReturnCached(m, t, b) == [ReleaseChain(m, t, m.chain[b]) EXCEPT !.chain[b] = <<>>]
PortalRead(t, b, n, max) ==
  LET m == Prepare(Using({b}), t, b, max)
  IN /\ b \in Portals /\ Free(b) /\ n <= max /\ max > 0 /\ Fits(b, max)
     /\ Called(IF Space(m, b) < max THEN m
               ELSE IF n = 0 THEN IF IsEmpty(view[b]) THEN ReturnCached(m, t, b) ELSE m
               ELSE ReadLoop(m, b, Fill(n)),
               IF n = 0 \/ Space(m, b) < max THEN <<"none">> ELSE <<"append", b, n>>)
     /\ UNCHANGED area
PortalClear(t, b) == /\ b \in Portals /\ Free(b)
                     /\ Called(ReturnCached(Clear(Using({b}), b), t, b), <<"pop_front", b, Length(view[b])>>)
                     /\ UNCHANGED area

\* IOBufAsZeroCopyOutputStream on the blocks of TLS; the caller fills what Next() gives it.
Next1(m, t, b) ==
  LET held == m.out[b].cur # None /\ ~Full(m, m.out[b].cur)
      k == [Release(m, t, m.out[b].cur) EXCEPT !.out[b].cur = None]
  IN IF held THEN m ELSE [Acquire(k, t) EXCEPT !.out[b].cur = Acquired(k, t)]
StreamNext(t, b) ==
  LET m == Next1(Mem, t, b)
      x == m.out[b].cur
      n == LeftSpace(m, x)
      ref == [block |-> x, offset |-> m.blk[x].size, length |-> n]
  IN /\ x # None => Fits(b, n)
     /\ IF x = None THEN Called([m EXCEPT !.out[b].open = TRUE], <<"none">>)
        ELSE Called([PushBackRef(Written(m, x, Fill(n)), b, ref) EXCEPT
                       !.out[b].open = TRUE, !.out[b].tail = @ + n], <<"append", b, n>>)
     /\ UNCHANGED area
StreamBackUp(t, b, n) ==
  /\ Open(b) /\ 0 < n /\ n <= out[b].tail /\ (out[b].cur # None \/ BackUpAgain)
  /\ Called(BackUpLoop(Mem, t, b, n), <<"pop_back", b, n>>)
  /\ UNCHANGED area
StreamEnd(t, b) ==
  /\ Open(b)
  /\ Called([Release(Mem, t, out[b].cur) EXCEPT !.out[b] = [Closed EXCEPT !.fatal = out[b].fatal]], <<"none">>)
  /\ UNCHANGED area

\* remove_tls_block_chain(), when a thread exits; another may have its name later.
ThreadExit(t) ==
  /\ tls[t] # <<>>
  /\ Called([DecRefs(Mem, tls[t]) EXCEPT !.tls[t] = <<>>, !.num[t] = 0], <<"none">>)
  /\ UNCHANGED area

Calls(kind) == kind \in conf.calls
Args == 1..conf.arg
Appends(t, b) == Calls("append") /\ \E n \in Args : AppendData(t, b, n)
AppendsEmpty(t, b) == Calls("appendv") /\ AppendEmpty(t, b)
AppendsUser(b) == Calls("user") /\ \E n \in Args : AppendUserData(b, n)
Shares(b, o) == /\ Calls("share")
                /\ AppendBuf(b, o) \/ \E n \in Args, pos \in 0..conf.arg : AppendTo(b, o, n, pos)
Moves(b, o) == Calls("move") /\ MoveAppend(b, o)
Copies(b, o) == Calls("copy") /\ Assign(b, o)
Cuts(b, o) == Calls("cut") /\ \E n \in Args : CutInto(b, o, n)
Pops(b) == Calls("pop") /\ \E n \in Args : PopFront(b, n) \/ PopBack(b, n)
Reserves(t, b) == Calls("reserve") /\ (UnsafeAssign(b) \/ \E n \in Args : Reserve(t, b, n))
Reads(t, b) == /\ Calls("read")
               /\ PortalClear(t, b) \/ \E n \in 0..conf.arg, max \in Args : PortalRead(t, b, n, max)
Streams(t, b) == /\ Calls("stream")
                 /\ StreamNext(t, b) \/ StreamEnd(t, b) \/ \E n \in 1..MaxLen : StreamBackUp(t, b, n)
Exits(t) == Calls("exit") /\ ThreadExit(t)

Next == \/ \E b \in Bufs : AppendsUser(b) \/ Pops(b)
        \/ \E b, o \in Bufs : Shares(b, o) \/ Moves(b, o) \/ Copies(b, o) \/ Cuts(b, o)
        \/ \E t \in conf.threads, b \in Bufs : \/ Appends(t, b) \/ AppendsEmpty(t, b) \/ Reserves(t, b)
                                          \/ Reads(t, b) \/ Streams(t, b)
        \/ \E t \in conf.threads : Exits(t)
Spec == Init /\ [][Next]_vars

-----------------------------------------------------------------------------
(* Properties.                                                              *)

Refs == [block : 0..NumBlocks, offset : 0..Cap + MaxLen, length : 0..MaxLen]
\* Blocks, views and chains have their types; a size is within the block.
TypeOK ==
  /\ \A b \in Blocks : /\ blk[b].nshared \in Nat /\ blk[b].cap \in 0..Cap + MaxLen
                       /\ blk[b].size \in 0..blk[b].cap /\ DOMAIN blk[b].data = 1..blk[b].cap
  /\ \A b \in Bufs : /\ view[b].start \in 0..view[b].cap - 1 /\ view[b].nref \in 0..view[b].cap
                     /\ view[b].refs \in [0..view[b].cap - 1 -> Refs]
  /\ tls \in [Threads -> Seq(Blocks)] /\ chain \in [Portals -> Seq(Blocks)]
  /\ num \in [Threads -> Nat] /\ clock \in 0..conf.max

Occurs(x, s) == Cardinality({i \in DOMAIN s : s[i] = x})
Appenders(x) == LET In(S, f) == FoldSet(LAMBDA k, n : n + Occurs(x, f[k]), 0, S)
                IN In(Threads, tls) + In(Portals, chain) + Cardinality({b \in Bufs : out[b].cur = x})
Referred(x) == FoldSet(LAMBDA b, n : n + Occurs(x, BlocksOf(RefsOf(view[b]))), 0, Bufs)

\* nshared (iobuf.cpp, Block) is the number of references to the block and of its keepers: no
\* block is freed under a reference (Dead has none), none is left with a count and no holder.
RefCountExact == \A x \in Blocks : blk[x].nshared = Referred(x) + Appenders(x)

\* Whoever appends to a block is its only appender: it is in one thread's TLS, one portal's
\* chain or one stream, once, and num_blocks (CHECK_EQ in remove_tls_block_chain) counts it.
OneAppender == /\ \A x \in Blocks : Appenders(x) <= 1
               /\ \A t \in Threads : num[t] = Len(tls[t])

\* A view is big exactly with more than two references, none reaches beyond what was written in
\* its block or is empty unless appendv() was given nothing, and nbytes of a BigView is their sum.
ViewsExact == \A b \in Bufs : LET v == view[b] IN
  /\ Small(v) <=> v.nref <= 2
  /\ ~Small(v) => v.nbytes = Counted(v)
  /\ \A i \in DOMAIN RefsOf(v) : LET r == RefsOf(v)[i] IN
       /\ r.offset + r.length <= blk[r.block].size
       /\ r.length = 0 => Calls("appendv")

\* The CHECK of release_tls_block_chain() that no block of a portal is full, and the LOG(FATAL)
\* of BackUp() when the end of the buffer is not the end of the stream's block.
ChecksHold == /\ \A b \in Portals : \A i \in DOMAIN chain[b] : ~Full(Mem, chain[b][i])
              /\ \A b \in Bufs : ~out[b].fatal

ByteAt(r, i) == IF r.offset + i \in DOMAIN blk[r.block].data THEN blk[r.block].data[r.offset + i] ELSE None
Content(v) == FlattenSeq([k \in 1..v.nref |->
                LET r == RefsOf(v)[k] IN [i \in 1..r.length |-> ByteAt(r, i)]])
Abstract == INSTANCE ByteBuffers WITH bytes <- [b \in Bufs |-> Content(view[b])]
\* Through every call each buffer is the byte sequence that the calls on it alone make, though
\* the buffers share blocks and append to the same ones (the refinement of ByteBuffers).
BuffersAreSequences == Abstract!Spec
==============================================================================

---------------------------- MODULE ByteBuffers ------------------------------
(* What butil::IOBuf promises (iobuf.h): every buffer is a sequence of bytes   *)
(* of its own, whatever blocks the buffers share beneath.                      *)
EXTENDS Naturals, Sequences, SequencesExt
CONSTANTS Bufs,      \* the IOBufs
          Value(_)   \* the byte that the k-th call writes
VARIABLES bytes, clock, call  \* the contents, how many calls, and the last with its arguments
LOCAL vars == <<bytes, clock, call>>

Init == bytes = [b \in Bufs |-> <<>>] /\ clock = 0 /\ call = <<"none">>

Fill(n) == [i \in 1..n |-> Value(clock)]
Becomes(b, s) == bytes' = [bytes EXCEPT ![b] = s]
FirstOf(s, n) == SubSeq(s, 1, IF n < Len(s) THEN n ELSE Len(s))
After(s, n) == SubSeq(s, n + 1, Len(s))

\* append(data, n)
AppendData(b, n) == Becomes(b, bytes[b] \o Fill(n))
\* The same without memory: a part of the data may have been appended.
AppendFails(b, n) == \E k \in 0..n : Becomes(b, bytes[b] \o Fill(k))
\* reserve(n): the bytes are not initialised.
Reserve(b, n, ok) == /\ \A o \in Bufs \ {b} : bytes'[o] = bytes[o]
                     /\ FirstOf(bytes'[b], Len(bytes[b])) = bytes[b]
                     /\ ok => Len(bytes'[b]) = Len(bytes[b]) + n
\* unsafe_assign() of n bytes after the first pos ones.
Assign(b, n, pos) == Becomes(b, FirstOf(bytes[b], pos) \o Fill(n) \o After(bytes[b], pos + n))
\* append_to(other, n, pos); append(other) is that with the whole buffer.
Share(b, o, n, pos) == Becomes(o, bytes[o] \o FirstOf(After(bytes[b], pos), n))
Copy(b, o) == Becomes(o, bytes[b])
\* cutn(out, n); append(other.movable()) is that with the whole buffer.
Cut(b, o, n) == bytes' = [bytes EXCEPT ![b] = After(@, n), ![o] = @ \o FirstOf(bytes[b], n)]
PopFront(b, n) == Becomes(b, After(bytes[b], n))
PopBack(b, n) == Becomes(b, FirstOf(bytes[b], Len(bytes[b]) - n))

Does(c) == \/ c[1] = "none" /\ UNCHANGED bytes
           \/ c[1] = "append" /\ AppendData(c[2], c[3])
           \/ c[1] = "fails" /\ AppendFails(c[2], c[3])
           \/ c[1] = "reserve" /\ Reserve(c[2], c[3], c[4])
           \/ c[1] = "assign" /\ Assign(c[2], c[3], c[4])
           \/ c[1] = "share" /\ Share(c[2], c[3], c[4], c[5])
           \/ c[1] = "copy" /\ Copy(c[2], c[3])
           \/ c[1] = "cut" /\ Cut(c[2], c[3], c[4])
           \/ c[1] = "pop_front" /\ PopFront(c[2], c[3])
           \/ c[1] = "pop_back" /\ PopBack(c[2], c[3])
Next == clock' = clock + 1 /\ Does(call')
Spec == Init /\ [][Next]_vars
==============================================================================

----------------------------- MODULE ByteQueue -----------------------------
(***************************************************************************)
(* What include/buffer.h promises of a DocketBuffer: a first-in first-out  *)
(* queue of bytes.  Nothing here knows of chunks, offsets or a pool.       *)
(* `ret` is the interface: the operation just performed, the bytes it took *)
(* from or handed to its caller (or to the socket), and its return value.  *)
(***************************************************************************)
EXTENDS Integers, Sequences

CONSTANTS Buffers,   \* the DocketBuffers of the program
          Sizes      \* the values of `len` a caller passes

VARIABLES queue,     \* queue[b]: the bytes buffer b holds, oldest first
          ret        \* the last call and its result

Prefix(s, k) == SubSeq(s, 1, k)
Drop(s, k)   == SubSeq(s, k + 1, Len(s))
Least(m, n)  == IF m < n THEN m ELSE n

Returns(op, bytes, code) == ret' = [op |-> op, bytes |-> bytes, code |-> code]

Init == /\ queue = [b \in Buffers |-> << >>]
        /\ ret = [op |-> "new", bytes |-> << >>, code |-> 0]

\* The caller's bytes are appended, all of them.
Write(b) ==
  /\ Returns("write", ret'.bytes, Len(ret'.bytes))
  /\ queue' = [queue EXCEPT ![b] = @ \o ret'.bytes]

\* "length of data read from buffer": the oldest bytes, at most n of them.
Take(op, b, n) ==
  IF n = 0
  THEN Returns(op, << >>, -1) /\ UNCHANGED queue
  ELSE LET k == Least(n, Len(queue[b]))
       IN  /\ Returns(op, Prefix(queue[b], k), k)
           /\ queue' = [queue EXCEPT ![b] = Drop(@, k)]

Look(op, b, n) ==
  /\ UNCHANGED queue
  /\ IF n = 0
     THEN Returns(op, << >>, -1)
     ELSE LET k == Least(n, Len(queue[b]))
          IN  Returns(op, Prefix(queue[b], k), k)

Refuse(op) == Returns(op, << >>, -1) /\ UNCHANGED queue

Read(b, n) == Take("read", b, n)
Peek(b, n) == Look("peek", b, n)

\* "-1 or len": all of the n bytes or none.
ReadFull(b, n) ==
  IF n > Len(queue[b]) THEN Refuse("read_full") ELSE Take("read_full", b, n)
PeekFull(b, n) ==
  IF n > Len(queue[b]) THEN Refuse("peek_full") ELSE Look("peek_full", b, n)

\* The socket takes the oldest k bytes and these are the ones removed.
Send(b) ==
  \/ \E k \in 1..Len(queue[b]) :
       /\ Returns("send", Prefix(queue[b], k), k)
       /\ queue' = [queue EXCEPT ![b] = Drop(@, k)]
  \/ Refuse("send")

MoveTo(dest, from) ==
  /\ Returns("moveto", << >>, Len(queue[from]))
  /\ queue' = IF dest = from THEN queue
              ELSE [queue EXCEPT ![dest] = @ \o queue[from], ![from] = << >>]

Free(b) == /\ Returns("free", << >>, 0)
           /\ queue' = [queue EXCEPT ![b] = << >>]

Next ==
  \E b \in Buffers :
    \/ Write(b) \/ Send(b) \/ Free(b)
    \/ \E n \in Sizes : Read(b, n) \/ ReadFull(b, n) \/ Peek(b, n) \/ PeekFull(b, n)
    \/ \E from \in Buffers : MoveTo(b, from)

Spec == Init /\ [][Next]_<<queue, ret>>
=============================================================================

---------------------------- MODULE DocketBuffer ----------------------------
(***************************************************************************)
(* devent/buffer.c: a DocketBuffer is a linked list of fixed-size chunks   *)
(* (struct buffer: len, pos, data) and a byte count.  Chunks have identity *)
(* because they are recycled through buffer_pool, which every buffer of    *)
(* the process shares: a drained chunk of one connection is the next chunk *)
(* of another, with whatever pos, len and data it was left with.           *)
(* Bytes are numbered 1, 2, 3, ... in the order callers write them, so the *)
(* content of a queue tells order, loss and duplication.                   *)
(***************************************************************************)
EXTENDS Integers, FiniteSets, SequencesExt

CONSTANTS Buffers,         \* DocketBuffers of the program
          Chunks,          \* addresses malloc can return for a chunk
          ChunkSize,       \* DEVENT_BUFFER_SIZE
          PoolSize,        \* MAX_POOL_SIZE
          Sizes,           \* lengths that callers pass
          MaxBytes,        \* bound of the model: bytes written in a behaviour
          ShortSend        \* TRUE for a plain socket, where send() may accept a
                           \* part of the chunk; FALSE for TLS, where SSL_write
                           \* takes all of it or fails

ASSUME BufferAssumption ==
  /\ ChunkSize \in Nat \ {0} /\ PoolSize \in Nat /\ MaxBytes \in Nat
  /\ Sizes \subseteq Nat
  /\ ShortSend \in BOOLEAN

VARIABLES chunk,       \* chunk[c]: the struct buffer at address c
          list,        \* list[b]: the chunks of buffer b, header first
          length,      \* length[b]: buffer->length
          pool,        \* buffer_pool
          written,     \* how many bytes callers have written so far
          ret          \* the last call: operation, bytes handed over, result

vars == <<chunk, list, length, pool, written, ret>>

Blank == [pos |-> 0, len |-> 0, data |-> [i \in 1..ChunkSize |-> 0]]

Init == /\ chunk = [c \in Chunks |-> Blank]
        /\ list = [b \in Buffers |-> << >>]
        /\ length = [b \in Buffers |-> 0]
        /\ pool = << >>
        /\ written = 0
        /\ ret = [op |-> "new", bytes |-> << >>, code |-> 0]

-----------------------------------------------------------------------------
InUse == (UNION {Range(list[b]) : b \in Buffers}) \cup Range(pool)

\* The bytes a chunk still holds.
Bytes(c) == SubSeq(chunk[c].data, chunk[c].pos + 1, chunk[c].pos + chunk[c].len)

\* The bytes of a list of chunks, in order.
Content(s) == FlattenSeq([i \in 1..Len(s) |-> Bytes(s[i])])

\* How much the first k chunks of a list hold: the sum of their len fields.
LenOf(s, k) == Len(Content(SubSeq(s, 1, k)))

Least(m, n) == IF m < n THEN m ELSE n

\* What get_buffer_from_pool returns in k calls: the header of the pool first,
\* then what malloc returns, addresses that are not in use.
Obtained(k) ==
  LET reused == Least(k, Len(pool))
  IN  {f \in [1..k -> Chunks] :
         /\ \A i \in 1..reused : f[i] = pool[i]
         /\ \A i \in reused + 1..k : f[i] \notin InUse
         /\ \A i, j \in reused + 1..k : f[i] = f[j] => i = j}

\* get_buffer_from_pool clears pos and len of the chunk, whatever they were.
Reset(c) == [chunk[c] EXCEPT !.pos = 0, !.len = 0]

\* memcpy of bytes to the end of a chunk.
Filled(c, bytes) ==
  [c EXCEPT !.len = @ + Len(bytes),
            !.data = [i \in 1..ChunkSize |->
                        IF i \in c.pos + c.len + 1 .. c.pos + c.len + Len(bytes)
                        THEN bytes[i - c.pos - c.len] ELSE @[i]]]

\* buffer_release of one chunk after another: beyond the limit it is freed.
Release(p, cs) ==
  LET room == IF Len(p) <= PoolSize THEN PoolSize + 1 - Len(p) ELSE 0
  IN  p \o SubSeq(cs, 1, Least(room, Len(cs)))

\* merge and move take the nodes of a list and leave it empty (a slip: they do not).
NotEmptied(b) == list
Emptied(b) == [list EXCEPT ![b] = << >>]

\* merge puts the nodes of the source behind those of the destination (a slip:
\* in front of them).
InFront(dest, src) == src \o dest
Joined(dest, src) == dest \o src

\* ... and the byte count of the emptied buffer is cleared (a slip: it is not).
NotZeroed(b) == length
Zeroed(b) == [length EXCEPT ![b] = 0]

Returns(op, bytes, code) == ret' = [op |-> op, bytes |-> bytes, code |-> code]
Fails(op, code) == Returns(op, << >>, code) /\ UNCHANGED <<chunk, list, length, pool, written>>

-----------------------------------------------------------------------------
\* DocketBuffer_write always starts a chunk of its own: the space left in the
\* last chunk of the buffer is not used.
Write(b, n) ==
  IF n = 0 THEN Fails("write", 0)
  ELSE LET k     == (n + ChunkSize - 1) \div ChunkSize
           bytes == [i \in 1..n |-> written + i]
           slice(i) == SubSeq(bytes, (i - 1) * ChunkSize + 1,
                              IF i = k THEN n ELSE i * ChunkSize)
       IN  /\ written + n <= MaxBytes
           /\ \E fresh \in Obtained(k) :
                /\ chunk' = [c \in Chunks |->
                               IF c \in Range(fresh)
                               THEN Filled(Reset(c), slice(CHOOSE i \in 1..k : fresh[i] = c))
                               ELSE chunk[c]]
                /\ list' = [list EXCEPT ![b] = @ \o fresh]
           /\ length' = [length EXCEPT ![b] = @ + n]
           /\ pool' = SubSeq(pool, k + 1, Len(pool))
           /\ written' = written + n
           /\ Returns("write", bytes, n)

\* DocketBuffer_read_internal: whole chunks go back to the pool as long as they
\* fit in what is left to read, then a part of the next one is taken.
ReadInternal(op, b, n) ==
  IF n = 0 THEN Fails(op, -1)
  ELSE LET s       == list[b]
           drained == CHOOSE k \in 0..Len(s) :
                        /\ LenOf(s, k) <= n
                        /\ k = Len(s) \/ LenOf(s, k + 1) > n
           left    == n - LenOf(s, drained)
           partial == drained < Len(s)
           removed == LenOf(s, drained) + IF partial THEN left ELSE 0
       IN  /\ list' = [list EXCEPT ![b] = SubSeq(@, drained + 1, Len(@))]
           /\ pool' = Release(pool, SubSeq(s, 1, drained))
           /\ chunk' = IF partial
                       THEN [chunk EXCEPT ![s[drained + 1]].pos = @ + left,
                                          ![s[drained + 1]].len = @ - left]
                       ELSE chunk
           /\ length' = [length EXCEPT ![b] = @ - removed]
           /\ Returns(op, SubSeq(Content(s), 1, removed), removed)
           /\ UNCHANGED written

\* DocketBuffer_peek_internal: whole chunks as long as they are shorter than
\* what is left to copy, then what is left from the next one.
PeekInternal(op, b, n) ==
  IF n = 0 THEN Fails(op, -1)
  ELSE LET s      == list[b]
           whole  == CHOOSE k \in 0..Len(s) :
                       /\ LenOf(s, k) < n
                       /\ k = Len(s) \/ LenOf(s, k + 1) >= n
           part   == IF whole < Len(s)
                     THEN SubSeq(Bytes(s[whole + 1]), 1, n - LenOf(s, whole))
                     ELSE << >>
           bytes  == Content(SubSeq(s, 1, whole)) \o part
       IN  /\ Returns(op, bytes, Len(bytes))
           /\ UNCHANGED <<chunk, list, length, pool, written>>

Read(b, n) == ReadInternal("read", b, n)
Peek(b, n) == PeekInternal("peek", b, n)

ReadFull(b, n) ==
  IF n > length[b] THEN Fails("read_full", -1) ELSE ReadInternal("read_full", b, n)

PeekFull(b, n) ==
  IF n > length[b] THEN Fails("peek_full", -1) ELSE PeekInternal("peek_full", b, n)

\* DocketBuffer_send offers the header chunk to the socket.  The chunk is then
\* dropped as a whole, whatever part of it the socket accepted.
Send(b) ==
  /\ list[b] # << >>
  /\ LET head == Head(list[b])
     IN  \/ Fails("send", -1)
         \/ \E wr \in 1..chunk[head].len :
              /\ ShortSend \/ wr = chunk[head].len
              /\ list' = [list EXCEPT ![b] = Tail(@)]
              /\ length' = [length EXCEPT ![b] = @ - chunk[head].len]
              /\ pool' = Release(pool, <<head>>)
              /\ Returns("send", SubSeq(Bytes(head), 1, wr), wr)
              /\ UNCHANGED <<chunk, written>>

\* DocketBuffer_moveto: the list of `from` is appended to the one of `dest`.
MoveTo(dest, from) ==
  /\ list' = [Emptied(from) EXCEPT ![dest] = Joined(@, list[from])]
  /\ length' = [Zeroed(from) EXCEPT ![dest] = @ + length[from]]
  /\ Returns("moveto", << >>, length[from])
  /\ UNCHANGED <<chunk, pool, written>>

\* DocketBuffer_free, and the DocketBuffer_new of the next owner of the name:
\* the chunks join the pool, all of them.
Free(b) ==
  /\ list[b] # << >>
  /\ pool' = pool \o list[b]
  /\ list' = Emptied(b)
  /\ length' = Zeroed(b)
  /\ Returns("free", << >>, 0)
  /\ UNCHANGED <<chunk, written>>

Next ==
  \E b \in Buffers :
    \/ Send(b)
    \/ Free(b)
    \/ \E n \in Sizes : \/ Write(b, n)
                        \/ Read(b, n)
                        \/ ReadFull(b, n)
                        \/ Peek(b, n)
                        \/ PeekFull(b, n)
    \/ \E from \in Buffers : MoveTo(b, from)

Spec == Init /\ [][Next]_vars

-----------------------------------------------------------------------------
ChunkType == [pos : 0..ChunkSize, len : 0..ChunkSize,
              data : [1..ChunkSize -> 0..MaxBytes]]

\* The types of the buffers, their chunks and the pool.
TypeOK ==
  /\ chunk \in [Chunks -> ChunkType]
  /\ list \in [Buffers -> Seq(Chunks)]
  /\ length \in [Buffers -> Nat]
  /\ pool \in Seq(Chunks)
  /\ written \in 0..MaxBytes

\* A chunk belongs to one place of one list, or of the pool, and to no other:
\* get_buffer_from_pool, buffer_release, moveto and free hand chunks around
\* between connections and never leave one in two lists, where the data of one
\* connection would be sent to the peer of another.
ChunkOwnedOnce ==
  /\ \A b, d \in Buffers :
       \A i \in 1..Len(list[b]), j \in 1..Len(list[d]) :
         list[b][i] = list[d][j] => b = d /\ i = j
  /\ \A i, j \in 1..Len(pool) : pool[i] = pool[j] => i = j
  /\ \A b \in Buffers : Range(list[b]) \cap Range(pool) = {}

\* Every variable has its type, and buffer->length is the number of bytes the
\* chunks hold.  The write loop of
\* write.c runs on the one and dereferences the header of the other
\* (DocketBuffer_send takes head->data with no check), and read_full decides by
\* the one what read_internal then takes from the other.
LengthAgrees ==
  /\ TypeOK
  /\ \A b \in Buffers : /\ length[b] = Len(Content(list[b]))
                        /\ length[b] = 0 <=> list[b] = << >>

\* The bytes in all the buffers.
Held == UNION {Range(Content(list[b])) : b \in Buffers}

\* A byte leaves the buffers only into the hands of a reader or of the socket
\* (or with a buffer that is freed): what is written is written to the peer.
NoByteLost ==
  [][ret'.op # "free" =>
       Held \ Held' \subseteq Range(ret'.bytes)]_vars

\* The buffers implement the byte queues of include/buffer.h: every call has
\* the effect and the result the queue has.
Queue == INSTANCE ByteQueue WITH queue <- [b \in Buffers |-> Content(list[b])]
ImplementsByteQueue == Queue!Spec
=============================================================================

--------------------------- MODULE DocketBufferProofs ---------------------------
(***************************************************************************)
(* For any chunk size, pool size and lengths: a chunk is never in two      *)
(* lists, the byte count of a buffer is what its chunks hold, and, over    *)
(* sockets that take whole chunks, buffers implement byte queues and lose  *)
(* no byte.                                                                *)
(*                                                                         *)
(* The content of a buffer is the concatenation of what its chunks hold    *)
(* (FlattenSeq; StreamProofs shows how one goes on with one more           *)
(* sequence).  The first part is about the content of lists of chunks, the *)
(* second about who owns a chunk, the third about the steps: each keeps    *)
(* Inv and does to the content what a byte queue does.                     *)
(***************************************************************************)
EXTENDS DocketBuffer, StreamProofs

-----------------------------------------------------------------------------
(* The content of lists of chunks, when `ch` says what the chunks hold.    *)

Byte == 0..MaxBytes
GoodChunk == {r \in ChunkType : r.pos + r.len <= ChunkSize}
Memory == [Chunks -> GoodChunk]

BytesIn(ch, c) == SubSeq(ch[c].data, ch[c].pos + 1, ch[c].pos + ch[c].len)
Parts(ch, s) == [i \in 1..Len(s) |-> BytesIn(ch, s[i])]
ContentIn(ch, s) == FlattenSeq(Parts(ch, s))

LEMMA BytesInType ==
  ASSUME NEW ch \in Memory, NEW c \in Chunks
  PROVE  /\ BytesIn(ch, c) \in Seq(Byte)
         /\ ch[c].len \in Nat /\ ch[c].pos \in Nat /\ ch[c].pos + ch[c].len <= ChunkSize
         /\ ch[c].data \in [1..ChunkSize -> Byte]
         /\ Len(BytesIn(ch, c)) = ch[c].len
         /\ \A i \in 1..ch[c].len : BytesIn(ch, c)[i] = ch[c].data[ch[c].pos + i]
<1> DEFINE d == ch[c].data
           p == ch[c].pos
           n == ch[c].len
<1>1. ChunkSize \in Nat /\ MaxBytes \in Nat
  BY BufferAssumption
<1>2. p \in Nat /\ n \in Nat /\ p + n <= ChunkSize /\ d \in [1..ChunkSize -> Byte]
  BY <1>1 DEF Memory, GoodChunk, ChunkType, Byte
<1> HIDE DEF d, p, n
<1>3. d \in Seq(Byte) /\ Len(d) = ChunkSize
  BY <1>1, <1>2
<1>4. \A i \in p + 1..p + n : d[i] \in Byte
  BY <1>1, <1>2
<1>5. /\ SubSeq(d, p + 1, p + n) \in Seq(Byte)
      /\ Len(SubSeq(d, p + 1, p + n)) = n
      /\ \A i \in 1..n : SubSeq(d, p + 1, p + n)[i] = d[p + i]
  <2>1. /\ SubSeq(d, p + 1, p + n) \in Seq(Byte)
        /\ Len(SubSeq(d, p + 1, p + n)) = IF p + 1 <= p + n THEN (p + n) - (p + 1) + 1 ELSE 0
        /\ \A i \in 1..((p + n) - (p + 1) + 1) :
             SubSeq(d, p + 1, p + n)[i] = d[(p + 1) + i - 1]
    BY <1>2, <1>3, <1>4, SubSeqProperties
  <2> QED
    BY <1>2, <2>1
<1> QED
  BY <1>2, <1>5 DEF BytesIn, d, p, n

LEMMA PartsType ==
  ASSUME NEW ch \in Memory, NEW s \in Seq(Chunks)
  PROVE  /\ Parts(ch, s) \in Seq(Seq(Byte)) /\ Len(Parts(ch, s)) = Len(s)
         /\ \A i \in 1..Len(s) : Parts(ch, s)[i] = BytesIn(ch, s[i])
         /\ ContentIn(ch, s) \in Seq(Byte)
<1>1. \A i \in 1..Len(s) : BytesIn(ch, s[i]) \in Seq(Byte)
  BY BytesInType, ElementOfSeq
<1>2. Len(s) \in Nat
  BY LenProperties
<1>3. /\ Parts(ch, s) \in Seq(Seq(Byte)) /\ Len(Parts(ch, s)) = Len(s)
      /\ \A i \in 1..Len(s) : Parts(ch, s)[i] = BytesIn(ch, s[i])
  BY <1>1, <1>2 DEF Parts
<1> QED
  <2>1. << >> \in Seq(Byte)
    BY EmptySeq
  <2> QED
    BY <1>3, <2>1, FlattenAppend DEF ContentIn

LEMMA ContentConcat ==
  ASSUME NEW ch \in Memory, NEW s \in Seq(Chunks), NEW t \in Seq(Chunks)
  PROVE  ContentIn(ch, s \o t) = ContentIn(ch, s) \o ContentIn(ch, t)
<1>1. /\ s \o t \in Seq(Chunks) /\ Len(s) \in Nat /\ Len(t) \in Nat
      /\ Len(s \o t) = Len(s) + Len(t)
      /\ \A i \in 1..Len(s) + Len(t) : (s \o t)[i] = IF i <= Len(s) THEN s[i] ELSE t[i - Len(s)]
  BY ConcatProperties, LenProperties
<1> DEFINE ps == Parts(ch, s)
           pt == Parts(ch, t)
           pst == Parts(ch, s \o t)
<1>2. /\ ps \in Seq(Seq(Byte)) /\ Len(ps) = Len(s)
      /\ \A i \in 1..Len(s) : ps[i] = BytesIn(ch, s[i])
  BY PartsType
<1>3. /\ pt \in Seq(Seq(Byte)) /\ Len(pt) = Len(t)
      /\ \A i \in 1..Len(t) : pt[i] = BytesIn(ch, t[i])
  BY PartsType
<1>4. /\ pst \in Seq(Seq(Byte)) /\ Len(pst) = Len(s) + Len(t)
      /\ \A i \in 1..Len(s) + Len(t) : pst[i] = BytesIn(ch, (s \o t)[i])
  BY <1>1, PartsType
<1> HIDE DEF ps, pt, pst
<1>5. /\ ps \o pt \in Seq(Seq(Byte)) /\ Len(ps \o pt) = Len(s) + Len(t)
      /\ \A i \in 1..Len(s) + Len(t) :
           (ps \o pt)[i] = IF i <= Len(s) THEN ps[i] ELSE pt[i - Len(s)]
  <2>1. /\ ps \o pt \in Seq(Seq(Byte)) /\ Len(ps \o pt) = Len(ps) + Len(pt)
        /\ \A i \in 1..Len(ps) + Len(pt) :
             (ps \o pt)[i] = IF i <= Len(ps) THEN ps[i] ELSE pt[i - Len(ps)]
    <3>1. ps \in Seq(Seq(Byte)) /\ pt \in Seq(Seq(Byte))
      BY <1>2, <1>3
    <3> QED
      BY <3>1, ConcatProperties, Zenon
  <2>2. Len(ps) = Len(s) /\ Len(pt) = Len(t)
    BY <1>2, <1>3
  <2> QED
    BY <2>1, <2>2, Zenon
<1>6. ASSUME NEW i \in 1..Len(s) + Len(t) PROVE pst[i] = (ps \o pt)[i]
  <2>1. CASE i <= Len(s)
    <3>1. i \in 1..Len(s)
      BY <1>1, <2>1
    <3> QED
      BY <1>1, <1>2, <1>4, <1>5, <2>1, <3>1
  <2>2. CASE ~(i <= Len(s))
    <3>1. i - Len(s) \in 1..Len(t)
      BY <1>1, <2>2
    <3> QED
      BY <1>1, <1>3, <1>4, <1>5, <2>2, <3>1
  <2> QED
    BY <2>1, <2>2
<1>7. pst = ps \o pt
  BY <1>4, <1>5, <1>6, SeqEqual
<1>8. FlattenSeq(ps \o pt) = FlattenSeq(ps) \o FlattenSeq(pt)
  BY <1>2, <1>3, FlattenConcat
<1> QED
  BY <1>7, <1>8 DEF ContentIn, ps, pt, pst

LEMMA ContentOne ==
  ASSUME NEW ch \in Memory, NEW c \in Chunks
  PROVE  ContentIn(ch, <<c>>) = BytesIn(ch, c) /\ ContentIn(ch, << >>) = << >>
<1>1. BytesIn(ch, c) \in Seq(Byte)
  BY BytesInType
<1>2. Parts(ch, << >>) = << >>
  BY EmptySeq DEF Parts
<1>3. Parts(ch, <<c>>) = Append(<< >>, BytesIn(ch, c))
  BY EmptySeq DEF Parts
<1>4. << >> \in Seq(Seq(Byte)) /\ << >> \o BytesIn(ch, c) = BytesIn(ch, c)
  BY <1>1, EmptySeq, ConcatEmptySeq
<1>5. FlattenSeq(Append(<< >>, BytesIn(ch, c))) = FlattenSeq(<< >>) \o BytesIn(ch, c)
  BY <1>1, <1>4, FlattenAppend
<1> QED
  BY <1>2, <1>3, <1>4, <1>5, FlattenEmpty DEF ContentIn

\* Lists of chunks that hold the same.
LEMMA ContentSame ==
  ASSUME NEW ch, NEW dh, NEW s \in Seq(Chunks),
         \A i \in 1..Len(s) : BytesIn(ch, s[i]) = BytesIn(dh, s[i])
  PROVE  ContentIn(ch, s) = ContentIn(dh, s)
<1>1. Parts(ch, s) = Parts(dh, s)
  BY DEF Parts
<1> QED
  BY <1>1 DEF ContentIn

\* One chunk more, from the front or to the back.
LEMMA ContentNext ==
  ASSUME NEW ch \in Memory, NEW s \in Seq(Chunks), NEW k \in Nat, k < Len(s)
  PROVE  /\ s[k + 1] \in Chunks
         /\ SubSeq(s, 1, k) \in Seq(Chunks) /\ SubSeq(s, 1, k + 1) \in Seq(Chunks)
         /\ Rest(s, k) \in Seq(Chunks) /\ Rest(s, k + 1) \in Seq(Chunks)
         /\ ContentIn(ch, SubSeq(s, 1, k + 1)) = ContentIn(ch, SubSeq(s, 1, k)) \o BytesIn(ch, s[k + 1])
         /\ ContentIn(ch, Rest(s, k)) = BytesIn(ch, s[k + 1]) \o ContentIn(ch, Rest(s, k + 1))
<1>1. Len(s) \in Nat /\ k + 1 \in Nat /\ k <= Len(s) /\ k + 1 <= Len(s)
  BY LenProperties
<1> DEFINE c == s[k + 1]
<1>2. c \in Chunks
  BY <1>1, ElementOfSeq
<1>3. /\ SubSeq(s, 1, k) \in Seq(Chunks) /\ Len(SubSeq(s, 1, k)) = k
      /\ \A i \in 1..k : SubSeq(s, 1, k)[i] = s[i]
  BY <1>1, FirstProperties
<1>4. /\ SubSeq(s, 1, k + 1) \in Seq(Chunks) /\ Len(SubSeq(s, 1, k + 1)) = k + 1
      /\ \A i \in 1..k + 1 : SubSeq(s, 1, k + 1)[i] = s[i]
  BY <1>1, FirstProperties
<1>5. /\ Rest(s, k) \in Seq(Chunks) /\ Len(Rest(s, k)) = Len(s) - k
      /\ \A i \in 1..Len(s) - k : Rest(s, k)[i] = s[k + i]
  BY <1>1, RestProperties
<1>6. /\ Rest(s, k + 1) \in Seq(Chunks) /\ Len(Rest(s, k + 1)) = Len(s) - (k + 1)
      /\ \A i \in 1..Len(s) - (k + 1) : Rest(s, k + 1)[i] = s[(k + 1) + i]
  BY <1>1, RestProperties
<1>7. <<c>> \in Seq(Chunks) /\ Len(<<c>>) = 1 /\ <<c>>[1] = c
  BY <1>2
<1>8. SubSeq(s, 1, k + 1) = SubSeq(s, 1, k) \o <<c>>
  <2> DEFINE a == SubSeq(s, 1, k)
             b == SubSeq(s, 1, k + 1)
  <2>1. /\ a \in Seq(Chunks) /\ Len(a) = k /\ \A i \in 1..k : a[i] = s[i]
        /\ b \in Seq(Chunks) /\ Len(b) = k + 1 /\ \A i \in 1..k + 1 : b[i] = s[i]
    BY <1>3, <1>4
  <2> HIDE DEF a, b
  <2>2. /\ a \o <<c>> \in Seq(Chunks) /\ Len(a \o <<c>>) = k + 1
        /\ \A i \in 1..k + 1 : (a \o <<c>>)[i] = IF i <= k THEN a[i] ELSE <<c>>[i - k]
    BY <1>7, <2>1, ConcatProperties
  <2>3. ASSUME NEW i \in 1..k + 1 PROVE b[i] = (a \o <<c>>)[i]
    <3>1. CASE i <= k
      <4>1. i \in 1..k
        BY <3>1
      <4> QED
        BY <2>1, <2>2, <3>1, <4>1
    <3>2. CASE i = k + 1
      <4>1. ~(i <= k) /\ i - k = 1
        BY <3>2
      <4> QED
        BY <1>7, <2>1, <2>2, <3>2, <4>1
    <3>3. i <= k \/ i = k + 1
      OBVIOUS
    <3> QED
      BY <3>1, <3>2, <3>3, Zenon
  <2>4. b = a \o <<c>>
    BY <2>1, <2>2, <2>3, SeqEqual
  <2> QED
    BY <2>4 DEF a, b
<1>9. Rest(s, k) = <<c>> \o Rest(s, k + 1)
  <2> DEFINE a == Rest(s, k + 1)
             b == Rest(s, k)
             m == Len(s) - k
  <2>1. /\ a \in Seq(Chunks) /\ Len(a) = m - 1 /\ \A i \in 1..m - 1 : a[i] = s[k + 1 + i]
        /\ b \in Seq(Chunks) /\ Len(b) = m /\ \A i \in 1..m : b[i] = s[k + i]
        /\ m \in Nat /\ m >= 1
    BY <1>1, <1>5, <1>6
  <2> HIDE DEF a, b, m
  <2>2. /\ <<c>> \o a \in Seq(Chunks) /\ Len(<<c>> \o a) = m
        /\ \A i \in 1..m : (<<c>> \o a)[i] = IF i <= 1 THEN <<c>>[i] ELSE a[i - 1]
    BY <1>7, <2>1, ConcatProperties
  <2>3. ASSUME NEW i \in 1..m PROVE b[i] = (<<c>> \o a)[i]
    <3>1. CASE i = 1
      BY <1>7, <2>1, <2>2, <3>1
    <3>2. CASE i # 1
      <4>1. ~(i <= 1) /\ i - 1 \in 1..m - 1 /\ k + 1 + (i - 1) = k + i
        BY <2>1, <3>2
      <4> QED
        BY <2>1, <2>2, <4>1
    <3> QED
      BY <3>1, <3>2
  <2>4. b = <<c>> \o a
    BY <2>1, <2>2, <2>3, SeqEqual
  <2> QED
    BY <2>4 DEF a, b
<1>10. ContentIn(ch, <<c>>) = BytesIn(ch, c)
  BY <1>2, ContentOne
<1> HIDE DEF c
<1>11. ContentIn(ch, SubSeq(s, 1, k) \o <<c>>) = ContentIn(ch, SubSeq(s, 1, k)) \o ContentIn(ch, <<c>>)
  BY <1>3, <1>7, ContentConcat
<1>12. ContentIn(ch, <<c>> \o Rest(s, k + 1)) = ContentIn(ch, <<c>>) \o ContentIn(ch, Rest(s, k + 1))
  BY <1>6, <1>7, ContentConcat
<1> QED
  BY <1>2, <1>3, <1>4, <1>5, <1>6, <1>8, <1>9, <1>10, <1>11, <1>12 DEF c

LEMMA ContentSplit ==
  ASSUME NEW ch \in Memory, NEW s \in Seq(Chunks), NEW k \in Nat, k <= Len(s)
  PROVE  /\ SubSeq(s, 1, k) \in Seq(Chunks) /\ Rest(s, k) \in Seq(Chunks)
         /\ ContentIn(ch, s) = ContentIn(ch, SubSeq(s, 1, k)) \o ContentIn(ch, Rest(s, k))
<1>1. SubSeq(s, 1, k) \in Seq(Chunks) /\ Rest(s, k) \in Seq(Chunks)
  BY FirstProperties, RestProperties
<1>2. SubSeq(s, 1, k) \o Rest(s, k) = s
  BY SplitAt
<1>3. ContentIn(ch, SubSeq(s, 1, k) \o Rest(s, k)) = ContentIn(ch, SubSeq(s, 1, k)) \o ContentIn(ch, Rest(s, k))
  BY <1>1, ContentConcat
<1> QED
  BY <1>1, <1>2, <1>3

-----------------------------------------------------------------------------
(* Who owns a chunk, when the lists are `l` and the pool is `p`.           *)

Owned(l, p) ==
  /\ l \in [Buffers -> Seq(Chunks)] /\ p \in Seq(Chunks)
  /\ \A b, d \in Buffers : \A i \in 1..Len(l[b]), j \in 1..Len(l[d]) :
       l[b][i] = l[d][j] => b = d /\ i = j
  /\ \A i, j \in 1..Len(p) : p[i] = p[j] => i = j
  /\ \A b \in Buffers : \A i \in 1..Len(l[b]), j \in 1..Len(p) : l[b][i] # p[j]

\* The first chunks of a list are taken off, and the first of these join the pool.
LEMMA OwnedTaken ==
  ASSUME NEW l, NEW p, Owned(l, p), NEW b \in Buffers,
         NEW k \in 0..Len(l[b]), NEW m \in 0..k
  PROVE  Owned([l EXCEPT ![b] = Rest(l[b], k)], p \o SubSeq(l[b], 1, m))
<1> DEFINE s == l[b]
           r == Rest(s, k)
           f == SubSeq(s, 1, m)
           q == p \o f
           h == [l EXCEPT ![b] = r]
<1>1. /\ s \in Seq(Chunks) /\ p \in Seq(Chunks) /\ Len(s) \in Nat /\ Len(p) \in Nat
      /\ k \in Nat /\ m \in Nat /\ k <= Len(s) /\ m <= k /\ m <= Len(s)
  BY LenProperties DEF Owned
<1>2. r \in Seq(Chunks) /\ Len(r) = Len(s) - k /\ \A i \in 1..Len(s) - k : r[i] = s[k + i]
  BY <1>1, RestProperties
<1>3. f \in Seq(Chunks) /\ Len(f) = m /\ \A i \in 1..m : f[i] = s[i]
  BY <1>1, FirstProperties
<1>4. l \in [Buffers -> Seq(Chunks)]
  BY DEF Owned
<1>5. \A c, d \in Buffers : \A i \in 1..Len(l[c]), j \in 1..Len(l[d]) :
        l[c][i] = l[d][j] => c = d /\ i = j
  BY DEF Owned
<1>6. \A i, j \in 1..Len(p) : p[i] = p[j] => i = j
  BY DEF Owned
<1>7. \A d \in Buffers : \A i \in 1..Len(l[d]), j \in 1..Len(p) : l[d][i] # p[j]
  BY DEF Owned
<1>8. \A d \in Buffers : \A i \in 1..Len(s), j \in 1..Len(l[d]) : s[i] = l[d][j] => b = d /\ i = j
  BY ONLY <1>5, b \in Buffers
<1>9. /\ \A i \in 1..Len(s), j \in 1..Len(p) : s[i] # p[j]
      /\ \A x, y \in 1..Len(s) : s[x] = s[y] => x = y
  BY <1>7, <1>8
<1> HIDE DEF f, r
<1>10. /\ q \in Seq(Chunks) /\ Len(q) = Len(p) + m
      /\ \A i \in 1..Len(p) + m : q[i] = IF i <= Len(p) THEN p[i] ELSE s[i - Len(p)]
  <2>1. /\ p \o f \in Seq(Chunks) /\ Len(p \o f) = Len(p) + Len(f)
        /\ \A i \in 1..Len(p) + Len(f) : (p \o f)[i] = IF i <= Len(p) THEN p[i] ELSE f[i - Len(p)]
    <3>1. p \in Seq(Chunks) /\ f \in Seq(Chunks)
      BY <1>1, <1>3
    <3> QED
      BY ONLY <3>1, ConcatProperties
  <2>2. ASSUME NEW i \in 1..Len(p) + m, ~(i <= Len(p)) PROVE f[i - Len(p)] = s[i - Len(p)]
    <3>1. i - Len(p) \in 1..m
      BY <1>1, <2>2
    <3> QED
      BY <1>3, <3>1
  <2> QED
    BY <1>3, <2>1, <2>2
<1>11. /\ h \in [Buffers -> Seq(Chunks)] /\ h[b] = r
      /\ \A d \in Buffers : d # b => h[d] = l[d]
  BY <1>2, <1>4
<1> HIDE DEF s, q, h
<1>12. ASSUME NEW e \in Buffers, NEW x \in 1..Len(h[e])
       PROVE  \E y \in 1..Len(l[e]) : h[e][x] = l[e][y] /\ y = IF e = b THEN x + k ELSE x
  <2>1. CASE e = b
    <3>1. x \in 1..Len(s) - k /\ x + k \in 1..Len(s) /\ k + x = x + k
      BY <1>1, <1>2, <1>11, <2>1
    <3>2. h[e][x] = s[x + k]
      BY <1>2, <1>11, <2>1, <3>1
    <3> QED
      BY <2>1, <3>1, <3>2 DEF s
  <2>2. CASE e # b
    BY <1>11, <2>2
  <2> QED
    BY <2>1, <2>2
<1>13. ASSUME NEW c \in Buffers, NEW d \in Buffers,
             NEW i \in 1..Len(h[c]), NEW j \in 1..Len(h[d]), h[c][i] = h[d][j]
      PROVE  c = d /\ i = j
  <2>1. PICK y \in 1..Len(l[c]) : h[c][i] = l[c][y] /\ y = IF c = b THEN i + k ELSE i
    BY <1>12
  <2>2. PICK z \in 1..Len(l[d]) : h[d][j] = l[d][z] /\ z = IF d = b THEN j + k ELSE j
    BY <1>12
  <2>3. c = d /\ y = z
    <3>1. l[c][y] = l[d][z]
      BY <1>13, <2>1, <2>2
    <3> QED
      BY <1>5, <3>1
  <2>4. i \in Nat /\ j \in Nat
    OBVIOUS
  <2> QED
    BY <1>1, <2>1, <2>2, <2>3, <2>4
<1>14. ASSUME NEW j \in 1..Len(q)
      PROVE  \/ j \in 1..Len(p) /\ q[j] = p[j]
             \/ \E y \in 1..m : y \in 1..Len(s) /\ j = Len(p) + y /\ q[j] = s[y]
  <2>1. j \in 1..Len(p) + m
    BY <1>10
  <2>2. CASE j <= Len(p)
    BY <1>1, <1>10, <2>1, <2>2
  <2>3. CASE ~(j <= Len(p))
    <3>1. /\ j - Len(p) \in 1..m /\ j - Len(p) \in 1..Len(s)
          /\ j = Len(p) + (j - Len(p))
      BY <1>1, <2>1, <2>3
    <3>2. q[j] = s[j - Len(p)]
      BY <1>10, <2>1, <2>3
    <3> QED
      BY <3>1, <3>2
  <2> QED
    BY <2>2, <2>3
<1>15. ASSUME NEW i \in 1..Len(q), NEW j \in 1..Len(q), q[i] = q[j] PROVE i = j
  <2>1. CASE i \in 1..Len(p) /\ q[i] = p[i]
    <3>1. CASE j \in 1..Len(p) /\ q[j] = p[j]
      BY <1>6, <1>15, <2>1, <3>1, Zenon
    <3>2. ASSUME NEW y \in 1..m, y \in 1..Len(s), q[j] = s[y] PROVE FALSE
      BY <1>9, <1>15, <2>1, <3>2, Zenon
    <3> QED
      BY <1>14, <3>1, <3>2, Zenon
  <2>2. ASSUME NEW x \in 1..m, x \in 1..Len(s), i = Len(p) + x, q[i] = s[x] PROVE i = j
    <3>1. ~(j \in 1..Len(p) /\ q[j] = p[j])
      BY <1>9, <1>15, <2>2, Zenon
    <3>2. ASSUME NEW y \in 1..m, y \in 1..Len(s), j = Len(p) + y, q[j] = s[y] PROVE i = j
      <4>1. x = y
        <5>1. s[x] = s[y]
          BY <1>15, <2>2, <3>2
        <5>2. x \in 1..Len(s) /\ y \in 1..Len(s)
          BY <2>2, <3>2
        <5> QED
          BY ONLY <1>9, <5>1, <5>2
      <4> QED
        BY <2>2, <3>2, <4>1, Zenon
    <3> QED
      BY <1>14, <3>1, <3>2, Zenon
  <2> QED
    BY <1>14, <2>1, <2>2, Zenon
<1>16. ASSUME NEW d \in Buffers, NEW i \in 1..Len(h[d]), NEW j \in 1..Len(q), h[d][i] = q[j]
       PROVE  FALSE
  <2>1. PICK x \in 1..Len(l[d]) : h[d][i] = l[d][x] /\ x = IF d = b THEN i + k ELSE i
    BY <1>12
  <2>2. ~(j \in 1..Len(p) /\ q[j] = p[j])
    BY <1>7, <1>16, <2>1, Zenon
  <2>3. ASSUME NEW y \in 1..m, y \in 1..Len(s), q[j] = s[y] PROVE FALSE
    <3>1. b = d /\ y = x
      <4>1. s[y] = l[d][x]
        BY <1>16, <2>1, <2>3
      <4> QED
        BY <1>8, <2>3, <4>1, Zenon
    <3> QED
      BY <1>1, <2>1, <3>1
  <2> QED
    BY <1>14, <2>2, <2>3, Zenon
<1>17. Owned(h, q)
  BY <1>10, <1>11, <1>13, <1>15, <1>16 DEF Owned
<1> QED
  BY <1>17 DEF h, q, s, r, f

\* Chunks that nothing holds, or that were in front of the pool, join a list.
LEMMA OwnedGiven ==
  ASSUME NEW l, NEW p, Owned(l, p), NEW b \in Buffers, NEW k \in Nat,
         NEW f \in [1..k -> Chunks],
         \A i, j \in 1..k : f[i] = f[j] => i = j,
         \A d \in Buffers : \A i \in 1..k, j \in 1..Len(l[d]) : f[i] # l[d][j],
         \A i \in 1..k, j \in 1..Len(p) : f[i] = p[j] => j <= k
  PROVE  Owned([l EXCEPT ![b] = l[b] \o f], Rest(p, k))
<1> DEFINE s == l[b]
           q == Rest(p, k)
           t == s \o f
           h == [l EXCEPT ![b] = t]
<1>1. /\ s \in Seq(Chunks) /\ p \in Seq(Chunks) /\ Len(s) \in Nat /\ Len(p) \in Nat
      /\ l \in [Buffers -> Seq(Chunks)]
  BY LenProperties DEF Owned
<1>2. f \in Seq(Chunks) /\ Len(f) = k
  OBVIOUS
<1>0. /\ t \in Seq(Chunks) /\ Len(t) = Len(s) + Len(f)
      /\ \A i \in 1..Len(s) + Len(f) : t[i] = IF i <= Len(s) THEN s[i] ELSE f[i - Len(s)]
  <2>1. s \in Seq(Chunks) /\ f \in Seq(Chunks)
    BY <1>1, <1>2
  <2> HIDE DEF s
  <2> QED
    BY <2>1, ConcatProperties
<1>3. /\ t \in Seq(Chunks) /\ Len(t) = Len(s) + k
      /\ \A i \in 1..Len(s) + k : t[i] = IF i <= Len(s) THEN s[i] ELSE f[i - Len(s)]
  BY <1>0, <1>2
<1>4. /\ q \in Seq(Chunks)
      /\ k <= Len(p) => Len(q) = Len(p) - k /\ \A i \in 1..Len(p) - k : q[i] = p[k + i]
      /\ k >= Len(p) => q = << >>
  BY <1>1, RestProperties
<1>5. /\ \A c, d \in Buffers : \A i \in 1..Len(l[c]), j \in 1..Len(l[d]) :
           l[c][i] = l[d][j] => c = d /\ i = j
      /\ \A i, j \in 1..Len(p) : p[i] = p[j] => i = j
      /\ \A d \in Buffers : \A i \in 1..Len(l[d]), j \in 1..Len(p) : l[d][i] # p[j]
  BY DEF Owned
<1> HIDE DEF q, t
<1>6. ASSUME NEW i \in 1..Len(q) PROVE \E x \in 1..Len(p) : q[i] = p[x] /\ x = k + i /\ x > k
  <2>1. CASE k <= Len(p)
    <3>1. i \in 1..Len(p) - k /\ k + i \in 1..Len(p) /\ k + i > k
      BY <1>1, <1>4, <2>1
    <3>2. q[i] = p[k + i]
      BY <1>4, <2>1, <3>1
    <3> QED
      BY <3>1, <3>2
  <2>2. CASE ~(k <= Len(p))
    BY <1>1, <1>4, <2>2, EmptySeq
  <2> QED
    BY <2>1, <2>2
<1>7. /\ h \in [Buffers -> Seq(Chunks)] /\ h[b] = t
      /\ \A d \in Buffers : d # b => h[d] = l[d]
  BY <1>1, <1>3
<1> HIDE DEF h
<1>8. ASSUME NEW d \in Buffers, NEW i \in 1..Len(h[d])
      PROVE  \/ i \in 1..Len(l[d]) /\ h[d][i] = l[d][i]
             \/ d = b /\ \E x \in 1..k : i = Len(l[d]) + x /\ h[d][i] = f[x]
  <2>1. CASE d # b
    BY <1>7, <2>1
  <2>2. CASE d = b
    <3>1. i \in 1..Len(s) + k
      BY <1>3, <1>7, <2>2
    <3>2. CASE i <= Len(s)
      BY <1>1, <1>3, <1>7, <2>2, <3>1, <3>2
    <3>3. CASE ~(i <= Len(s))
      <4>1. i - Len(s) \in 1..k /\ i = Len(s) + (i - Len(s))
        BY <1>1, <3>1, <3>3
      <4>2. h[d][i] = f[i - Len(s)]
        BY <1>3, <1>7, <2>2, <3>1, <3>3
      <4> QED
        BY <2>2, <4>1, <4>2
    <3> QED
      BY <3>2, <3>3
  <2> QED
    BY <2>1, <2>2
<1>9. ASSUME NEW c \in Buffers, NEW d \in Buffers,
             NEW i \in 1..Len(h[c]), NEW j \in 1..Len(h[d]), h[c][i] = h[d][j]
      PROVE  c = d /\ i = j
  <2>1. CASE i \in 1..Len(l[c]) /\ h[c][i] = l[c][i]
    <3>1. CASE j \in 1..Len(l[d]) /\ h[d][j] = l[d][j]
      <4>1. l[c][i] = l[d][j]
        BY <1>9, <2>1, <3>1
      <4> QED
        BY <1>5, <2>1, <3>1, <4>1
    <3>2. ASSUME NEW y \in 1..k, h[d][j] = f[y] PROVE FALSE
      <4>1. f[y] = l[c][i]
        BY <1>9, <2>1, <3>2
      <4> QED
        BY <2>1, <4>1
    <3> QED
      BY <1>8, <3>1, <3>2, Zenon
  <2>2. ASSUME NEW x \in 1..k, c = b, i = Len(l[c]) + x, h[c][i] = f[x]
        PROVE  c = d /\ i = j
    <3>1. ~(j \in 1..Len(l[d]) /\ h[d][j] = l[d][j])
      <4>1. SUFFICES ASSUME j \in 1..Len(l[d]), h[d][j] = l[d][j] PROVE FALSE
        OBVIOUS
      <4>2. f[x] = l[d][j]
        BY <1>9, <2>2, <4>1
      <4> QED
        BY <4>1, <4>2
    <3>2. ASSUME NEW y \in 1..k, d = b, j = Len(l[d]) + y, h[d][j] = f[y] PROVE c = d /\ i = j
      <4>1. f[x] = f[y]
        BY <1>9, <2>2, <3>2
      <4>2. x = y
        BY <4>1
      <4> QED
        BY <2>2, <3>2, <4>2
    <3> QED
      BY <1>8, <3>1, <3>2, Zenon
  <2> QED
    BY <1>8, <2>1, <2>2, Zenon
<1>10. ASSUME NEW i \in 1..Len(q), NEW j \in 1..Len(q), q[i] = q[j] PROVE i = j
  <2>1. PICK x \in 1..Len(p) : q[i] = p[x] /\ x = k + i
    BY <1>6
  <2>2. PICK y \in 1..Len(p) : q[j] = p[y] /\ y = k + j
    BY <1>6
  <2>3. p[x] = p[y]
    BY <1>10, <2>1, <2>2
  <2>4. x = y
    BY <1>5, <2>3, Zenon
  <2>5. i \in Int /\ j \in Int
    OBVIOUS
  <2> QED
    BY <2>1, <2>2, <2>4, <2>5
<1>11. ASSUME NEW d \in Buffers, NEW i \in 1..Len(h[d]), NEW j \in 1..Len(q), h[d][i] = q[j]
       PROVE  FALSE
  <2>1. PICK y \in 1..Len(p) : q[j] = p[y] /\ y > k
    BY <1>6
  <2>2. ~(i \in 1..Len(l[d]) /\ h[d][i] = l[d][i])
    <3>1. SUFFICES ASSUME i \in 1..Len(l[d]), h[d][i] = l[d][i] PROVE FALSE
      OBVIOUS
    <3>2. l[d][i] = p[y]
      BY <1>11, <2>1, <3>1
    <3> QED
      BY <1>5, <3>1, <3>2, Zenon
  <2>3. ASSUME NEW x \in 1..k, h[d][i] = f[x] PROVE FALSE
    <3>1. f[x] = p[y]
      BY <1>11, <2>1, <2>3
    <3>2. y <= k
      BY <3>1
    <3>3. y \in Int
      OBVIOUS
    <3> QED
      BY <2>1, <3>2, <3>3
  <2> QED
    BY <1>8, <2>2, <2>3, Zenon
<1>12. Owned(h, q)
  BY <1>4, <1>7, <1>9, <1>10, <1>11 DEF Owned
<1> QED
  BY <1>12 DEF h, q, t

\* One list joins another.
LEMMA OwnedMoved ==
  ASSUME NEW l, NEW p, Owned(l, p), NEW a \in Buffers, NEW b \in Buffers, a # b
  PROVE  Owned([l EXCEPT ![b] = << >>, ![a] = l[a] \o l[b]], p)
<1> DEFINE s == l[a]
           r == l[b]
           t == s \o r
           h == [l EXCEPT ![b] = << >>, ![a] = t]
<1>1. /\ s \in Seq(Chunks) /\ r \in Seq(Chunks) /\ Len(s) \in Nat /\ Len(r) \in Nat
      /\ l \in [Buffers -> Seq(Chunks)] /\ p \in Seq(Chunks)
  BY LenProperties DEF Owned
<1>2. /\ t \in Seq(Chunks) /\ Len(t) = Len(s) + Len(r)
      /\ \A i \in 1..Len(s) + Len(r) : t[i] = IF i <= Len(s) THEN s[i] ELSE r[i - Len(s)]
  BY <1>1, ConcatProperties
<1>3. /\ \A c, d \in Buffers : \A i \in 1..Len(l[c]), j \in 1..Len(l[d]) :
           l[c][i] = l[d][j] => c = d /\ i = j
      /\ \A i, j \in 1..Len(p) : p[i] = p[j] => i = j
      /\ \A d \in Buffers : \A i \in 1..Len(l[d]), j \in 1..Len(p) : l[d][i] # p[j]
  BY DEF Owned
<1> HIDE DEF t
<1>4. << >> \in Seq(Chunks) /\ Len(<< >>) = 0
  BY EmptySeq
<1>5. /\ h \in [Buffers -> Seq(Chunks)] /\ h[a] = t /\ h[b] = << >>
      /\ \A d \in Buffers : d # a /\ d # b => h[d] = l[d]
  BY <1>1, <1>2, <1>4
<1> HIDE DEF h, s, r
<1>6. ASSUME NEW d \in Buffers, NEW i \in 1..Len(h[d])
      PROVE  \/ i \in 1..Len(l[d]) /\ h[d][i] = l[d][i] /\ d # b
             \/ d = a /\ \E x \in 1..Len(l[b]) : i = Len(l[a]) + x /\ h[d][i] = l[b][x]
  <2>1. CASE d = b
    BY <1>4, <1>5, <2>1
  <2>2. CASE d # a /\ d # b
    BY <1>5, <2>2
  <2>3. CASE d = a
    <3>1. i \in 1..Len(s) + Len(r)
      BY <1>2, <1>5, <2>3
    <3>2. CASE i <= Len(s)
      <4>1. i \in 1..Len(s) /\ t[i] = s[i]
        BY <1>1, <1>2, <3>1, <3>2
      <4> QED
        BY <1>5, <2>3, <4>1 DEF s
    <3>3. CASE ~(i <= Len(s))
      <4>1. i - Len(s) \in 1..Len(r) /\ i = Len(s) + (i - Len(s))
        BY <1>1, <3>1, <3>3
      <4>2. h[d][i] = r[i - Len(s)]
        BY <1>2, <1>5, <2>3, <3>1, <3>3
      <4> QED
        BY <2>3, <4>1, <4>2 DEF s, r
    <3> QED
      BY <3>2, <3>3
  <2> QED
    BY <2>1, <2>2, <2>3
<1>7. ASSUME NEW c \in Buffers, NEW d \in Buffers,
             NEW i \in 1..Len(h[c]), NEW j \in 1..Len(h[d]), h[c][i] = h[d][j]
      PROVE  c = d /\ i = j
  <2>1. CASE i \in 1..Len(l[c]) /\ h[c][i] = l[c][i] /\ c # b
    <3>1. CASE j \in 1..Len(l[d]) /\ h[d][j] = l[d][j] /\ d # b
      <4>1. l[c][i] = l[d][j]
        BY <1>7, <2>1, <3>1
      <4> QED
        BY <1>3, <2>1, <3>1, <4>1
    <3>2. ASSUME NEW y \in 1..Len(l[b]), h[d][j] = l[b][y] PROVE FALSE
      <4>1. l[c][i] = l[b][y]
        BY <1>7, <2>1, <3>2
      <4> QED
        BY <1>3, <2>1, <4>1, Zenon
    <3> QED
      BY <1>6, <3>1, <3>2, Zenon
  <2>2. ASSUME NEW x \in 1..Len(l[b]), c = a, i = Len(l[a]) + x, h[c][i] = l[b][x]
        PROVE  c = d /\ i = j
    <3>1. ~(j \in 1..Len(l[d]) /\ h[d][j] = l[d][j] /\ d # b)
      <4>1. SUFFICES ASSUME j \in 1..Len(l[d]), h[d][j] = l[d][j], d # b PROVE FALSE
        OBVIOUS
      <4>2. l[b][x] = l[d][j]
        BY <1>7, <2>2, <4>1
      <4> QED
        BY <1>3, <4>1, <4>2, Zenon
    <3>2. ASSUME NEW y \in 1..Len(l[b]), d = a, j = Len(l[a]) + y, h[d][j] = l[b][y]
          PROVE  c = d /\ i = j
      <4>1. l[b][x] = l[b][y]
        BY <1>7, <2>2, <3>2
      <4>2. x = y
        BY <1>3, <4>1
      <4> QED
        BY <2>2, <3>2, <4>2
    <3> QED
      BY <1>6, <3>1, <3>2, Zenon
  <2> QED
    BY <1>6, <2>1, <2>2, Zenon
<1>8. ASSUME NEW d \in Buffers, NEW i \in 1..Len(h[d]), NEW j \in 1..Len(p), h[d][i] = p[j]
      PROVE  FALSE
  <2>1. PICK e \in Buffers : \E x \in 1..Len(l[e]) : h[d][i] = l[e][x]
    <3>1. CASE i \in 1..Len(l[d]) /\ h[d][i] = l[d][i] /\ d # b
      BY <3>1
    <3>2. CASE \E x \in 1..Len(l[b]) : i = Len(l[a]) + x /\ h[d][i] = l[b][x]
      BY <3>2
    <3> QED
      BY <1>6, <3>1, <3>2, Zenon
  <2>2. PICK x \in 1..Len(l[e]) : l[e][x] = p[j]
    BY <1>8, <2>1
  <2> QED
    BY <1>3, <2>2
<1>9. Owned(h, p)
  BY <1>1, <1>3, <1>5, <1>7, <1>8 DEF Owned
<1> QED
  BY <1>9 DEF h, t, s, r

\* buffer_release keeps the first of the chunks it is given.
LEMMA ReleaseIs ==
  ASSUME NEW p \in Seq(Chunks), NEW cs \in Seq(Chunks)
  PROVE  \E m \in 0..Len(cs) : Release(p, cs) = p \o SubSeq(cs, 1, m)
<1> DEFINE room == IF Len(p) <= PoolSize THEN PoolSize + 1 - Len(p) ELSE 0
           m == Least(room, Len(cs))
<1>1. Len(p) \in Nat /\ Len(cs) \in Nat /\ PoolSize \in Nat
  BY LenProperties, BufferAssumption
<1>2. room \in Nat
  BY <1>1
<1> HIDE DEF room
<1>3. m \in 0..Len(cs)
  BY <1>1, <1>2 DEF Least
<1>4. Release(p, cs) = p \o SubSeq(cs, 1, m)
  BY DEF Release, room
<1> QED
  BY <1>3, <1>4

\* A part of the first part of a list is a part of the list.
LEMMA FirstOfFirst ==
  ASSUME NEW S, NEW s \in Seq(S), NEW k \in 0..Len(s), NEW m \in 0..k
  PROVE  SubSeq(SubSeq(s, 1, k), 1, m) = SubSeq(s, 1, m)
<1> DEFINE a == SubSeq(s, 1, k)
           b == SubSeq(a, 1, m)
           c == SubSeq(s, 1, m)
<1>1. Len(s) \in Nat /\ k \in Nat /\ m \in Nat /\ k <= Len(s) /\ m <= k /\ m <= Len(s)
  BY LenProperties
<1>2. a \in Seq(S) /\ Len(a) = k /\ \A i \in 1..k : a[i] = s[i]
  BY <1>1, FirstProperties
<1>3. c \in Seq(S) /\ Len(c) = m /\ \A i \in 1..m : c[i] = s[i]
  BY <1>1, FirstProperties
<1> HIDE DEF a, c
<1>4. b \in Seq(S) /\ Len(b) = m /\ \A i \in 1..m : b[i] = a[i]
  BY <1>1, <1>2, FirstProperties
<1> HIDE DEF b
<1>5. \A i \in 1..m : b[i] = c[i]
  BY <1>1, <1>2, <1>3, <1>4
<1>6. b = c
  BY <1>3, <1>4, <1>5, SeqEqual
<1> QED
  BY <1>6 DEF a, b, c

-----------------------------------------------------------------------------
(* What is read from the front of a list.                                  *)

LenIn(ch, s, k) == Len(ContentIn(ch, SubSeq(s, 1, k)))

LEMMA LenInSteps ==
  ASSUME NEW ch \in Memory, NEW s \in Seq(Chunks)
  PROVE  /\ LenIn(ch, s, 0) = 0
         /\ LenIn(ch, s, Len(s)) = Len(ContentIn(ch, s))
         /\ \A k \in 0..Len(s) : LenIn(ch, s, k) \in Nat /\ LenIn(ch, s, k) <= Len(ContentIn(ch, s))
         /\ \A k \in 0..Len(s) - 1 : LenIn(ch, s, k + 1) = LenIn(ch, s, k) + ch[s[k + 1]].len
<1>1. Len(s) \in Nat
  BY LenProperties
<1>2. LenIn(ch, s, 0) = 0
  <2>1. SubSeq(s, 1, 0) = << >>
    BY SubSeqEmpty
  <2>2. Parts(ch, << >>) = << >>
    BY EmptySeq DEF Parts
  <2>3. ContentIn(ch, << >>) = << >>
    BY <2>2, FlattenEmpty DEF ContentIn
  <2> QED
    BY <2>1, <2>3, EmptySeq DEF LenIn
<1>3. LenIn(ch, s, Len(s)) = Len(ContentIn(ch, s))
  BY SubSeqFull DEF LenIn
<1>4. ASSUME NEW k \in 0..Len(s)
      PROVE  LenIn(ch, s, k) \in Nat /\ LenIn(ch, s, k) <= Len(ContentIn(ch, s))
  <2>1. k \in Nat /\ k <= Len(s)
    BY <1>1
  <2>2. /\ SubSeq(s, 1, k) \in Seq(Chunks) /\ Rest(s, k) \in Seq(Chunks)
        /\ ContentIn(ch, s) = ContentIn(ch, SubSeq(s, 1, k)) \o ContentIn(ch, Rest(s, k))
    BY <2>1, ContentSplit
  <2> DEFINE a == ContentIn(ch, SubSeq(s, 1, k))
             b == ContentIn(ch, Rest(s, k))
  <2>3. a \in Seq(Byte) /\ b \in Seq(Byte)
    BY <2>2, PartsType
  <2> HIDE DEF a, b
  <2>4. Len(a \o b) = Len(a) + Len(b) /\ Len(a) \in Nat /\ Len(b) \in Nat
    BY <2>3, ConcatProperties, LenProperties
  <2> QED
    BY <2>2, <2>4 DEF LenIn, a, b
<1>5. ASSUME NEW k \in 0..Len(s) - 1
      PROVE  LenIn(ch, s, k + 1) = LenIn(ch, s, k) + ch[s[k + 1]].len
  <2>1. k \in Nat /\ k < Len(s)
    BY <1>1
  <2>2. /\ s[k + 1] \in Chunks /\ SubSeq(s, 1, k) \in Seq(Chunks)
        /\ ContentIn(ch, SubSeq(s, 1, k + 1)) = ContentIn(ch, SubSeq(s, 1, k)) \o BytesIn(ch, s[k + 1])
    BY <2>1, ContentNext
  <2> DEFINE a == ContentIn(ch, SubSeq(s, 1, k))
             b == BytesIn(ch, s[k + 1])
  <2>3. a \in Seq(Byte)
    BY <2>2, PartsType
  <2>4. b \in Seq(Byte) /\ Len(b) = ch[s[k + 1]].len
    BY <2>2, BytesInType
  <2> HIDE DEF a, b
  <2>5. Len(a \o b) = Len(a) + Len(b)
    BY <2>3, <2>4, ConcatProperties
  <2> QED
    BY <2>2, <2>4, <2>5 DEF LenIn, a, b
<1> QED
  BY <1>2, <1>3, <1>4, <1>5

\* How far n bytes reach: k whole chunks, and then all or less than the next.
LEMMA Reaches ==
  ASSUME NEW ch \in Memory, NEW s \in Seq(Chunks), NEW n \in Nat
  PROVE  \E k \in 0..Len(s) : /\ LenIn(ch, s, k) <= n
                              /\ k = Len(s) \/ LenIn(ch, s, k + 1) > n
<1>1. Len(s) \in Nat /\ LenIn(ch, s, 0) = 0 /\ \A k \in 0..Len(s) : LenIn(ch, s, k) \in Nat
  BY LenInSteps, LenProperties
<1> DEFINE Reached(k) == LenIn(ch, s, k) <= n /\ (k = Len(s) \/ LenIn(ch, s, k + 1) > n)
           G == {j \in Nat : j <= Len(s) =>
                   LenIn(ch, s, j) <= n \/ \E k \in 0..Len(s) : Reached(k)}
<1>2. 0 \in G
  BY <1>1
<1>3. ASSUME NEW j \in Nat, j \in G PROVE j + 1 \in G
  <2>1. SUFFICES ASSUME j + 1 <= Len(s), ~(LenIn(ch, s, j + 1) <= n)
                 PROVE  \E k \in 0..Len(s) : Reached(k)
    OBVIOUS
  <2>2. j <= Len(s) /\ j \in 0..Len(s) /\ j + 1 \in 0..Len(s)
    BY <1>1, <2>1
  <2>3. LenIn(ch, s, j) <= n => Reached(j)
    BY <1>1, <2>1, <2>2
  <2> HIDE DEF Reached
  <2> QED
    BY <1>3, <2>2, <2>3
<1>4. Nat \subseteq G
  BY <1>2, <1>3, Induction
<1>5. Len(s) \in G /\ Len(s) <= Len(s) /\ Len(s) \in 0..Len(s)
  BY <1>1, <1>4
<1> QED
  BY <1>5

\* The part of a concatenation that is behind the first of the two, and the part
\* that reaches into the second.
FirstBeyond(a, b, n, x) == SubSeq(a \o b, 1, n) = a \o SubSeq(b, 1, x)

LEMMA RestBeyond ==
  ASSUME NEW a \in Seq(Byte), NEW b \in Seq(Byte), NEW m \in Nat, m <= Len(a), m >= Len(a), NEW x \in 0..Len(b),
         NEW n \in Nat, n <= m + x, n >= m + x
  PROVE  Rest(a \o b, n) = Rest(b, x) /\ FirstBeyond(a, b, n, x)
<1> DEFINE q == a \o b
           t == Rest(q, m + x)
           r == Rest(b, x)
           u == SubSeq(q, 1, m + x)
           w == SubSeq(b, 1, x)
           v == a \o w
<1>1. m = Len(a) /\ n = m + x /\ Len(b) \in Nat /\ x \in Nat /\ x <= Len(b)
  BY LenProperties
<1>0. m \in Nat
  OBVIOUS
<1>2. /\ q \in Seq(Byte) /\ Len(q) = m + Len(b)
      /\ \A i \in 1..m + Len(b) : q[i] = IF i <= m THEN a[i] ELSE b[i - m]
  BY <1>1, ConcatProperties
<1>3. m + x \in Nat /\ m + x <= Len(q)
  BY <1>1, <1>2
<1> HIDE DEF q
<1>4. t \in Seq(Byte) /\ Len(t) = Len(q) - (m + x) /\ \A i \in 1..Len(q) - (m + x) : t[i] = q[(m + x) + i]
  <2>1. q \in Seq(Byte) /\ m + x \in Nat /\ m + x <= Len(q)
    BY <1>2, <1>3
  <2> QED
    BY ONLY <2>1, RestProperties
<1>5. r \in Seq(Byte) /\ Len(r) = Len(b) - x /\ \A i \in 1..Len(b) - x : r[i] = b[x + i]
  BY <1>1, RestProperties
<1>6. u \in Seq(Byte) /\ Len(u) = m + x /\ \A i \in 1..m + x : u[i] = q[i]
  BY <1>2, <1>3, FirstProperties
<1>7. w \in Seq(Byte) /\ Len(w) = x /\ \A i \in 1..x : w[i] = b[i]
  BY <1>1, FirstProperties
<1> HIDE DEF t, r, u, w
<1>8. v \in Seq(Byte) /\ Len(v) = m + x /\ \A i \in 1..m + x : v[i] = IF i <= m THEN a[i] ELSE w[i - m]
  BY <1>1, <1>7, ConcatProperties
<1> HIDE DEF v
<1>9. Len(q) - (m + x) = Len(b) - x
  BY <1>1, <1>2
<1>10. ASSUME NEW i \in 1..Len(b) - x PROVE t[i] = r[i]
  <2>1. /\ (m + x) + i \in 1..m + Len(b) /\ ~((m + x) + i <= m) /\ ((m + x) + i) - m = x + i
    BY <1>1
  <2> QED
    BY <1>2, <1>4, <1>5, <1>9, <2>1
<1>11. t = r
  BY <1>4, <1>5, <1>9, <1>10, SeqEqual
<1>12. ASSUME NEW i \in 1..m + x PROVE u[i] = v[i]
  <2>1. i \in 1..m + Len(b)
    BY <1>1
  <2>2. CASE i <= m
    BY <1>2, <1>6, <1>8, <2>1, <2>2
  <2>3. CASE ~(i <= m)
    <3>1. i - m \in 1..x
      BY <1>1, <2>3
    <3> QED
      BY <1>2, <1>6, <1>7, <1>8, <2>1, <2>3, <3>1
  <2> QED
    BY <2>2, <2>3
<1>13. u = v
  BY <1>1, <1>6, <1>8, <1>12, SeqEqual
<1> QED
  BY <1>1, <1>11, <1>13 DEF t, r, u, v, q, w, FirstBeyond

\* x bytes of a chunk are taken.
Lighter(ch, c, x) == [ch EXCEPT ![c].pos = @ + x, ![c].len = @ - x]

LEMMA Lightened ==
  ASSUME NEW ch \in Memory, NEW c \in Chunks, NEW x \in 0..ch[c].len
  PROVE  /\ Lighter(ch, c, x) \in Memory
         /\ BytesIn(Lighter(ch, c, x), c) = Rest(BytesIn(ch, c), x)
         /\ Lighter(ch, c, x)[c].len = ch[c].len - x
         /\ \A e \in Chunks : e # c => /\ Lighter(ch, c, x)[e] = ch[e]
                                      /\ BytesIn(Lighter(ch, c, x), e) = BytesIn(ch, e)
<1> DEFINE dh == Lighter(ch, c, x)
<1> DEFINE p == ch[c].pos
           n == ch[c].len
           d == ch[c].data
<1>1. /\ n \in Nat /\ p \in Nat /\ p + n <= ChunkSize /\ d \in [1..ChunkSize -> Byte]
      /\ BytesIn(ch, c) \in Seq(Byte) /\ Len(BytesIn(ch, c)) = n
      /\ \A i \in 1..n : BytesIn(ch, c)[i] = d[p + i]
  BY BytesInType
<1>2. ChunkSize \in Nat /\ MaxBytes \in Nat
  BY BufferAssumption
<1>3. /\ ch \in [Chunks -> GoodChunk]
      /\ ch[c] = [pos |-> p, len |-> n, data |-> d]
  BY DEF Memory, GoodChunk, ChunkType
<1> DEFINE r == [pos |-> p + x, len |-> n - x, data |-> d]
<1>4. dh[c] = r /\ \A e \in Chunks : e # c => dh[e] = ch[e]
  BY <1>3 DEF Lighter
<1>5. dh = [ch EXCEPT ![c] = dh[c]]
  BY <1>3 DEF Lighter
<1> HIDE DEF dh
<1>6. r \in GoodChunk
  <2>1. x \in Nat /\ x <= n /\ p + x \in 0..ChunkSize /\ n - x \in 0..ChunkSize
    BY <1>1, <1>2
  <2> HIDE DEF p, n, d
  <2>2. p + x + (n - x) <= ChunkSize
    BY <1>1, <1>2, <2>1
  <2> QED
    BY <1>1, <2>1, <2>2 DEF GoodChunk, ChunkType, Byte
<1>7. dh \in Memory
  <2> HIDE DEF r
  <2> QED
    BY <1>3, <1>4, <1>5, <1>6 DEF Memory
<1>8. /\ dh[c].len = n - x /\ dh[c].pos = p + x /\ dh[c].data = d
  BY <1>4
<1>9. \A e \in Chunks : e # c => BytesIn(dh, e) = BytesIn(ch, e)
  BY <1>4 DEF BytesIn
<1>10. BytesIn(dh, c) = Rest(BytesIn(ch, c), x)
  <2> DEFINE a == BytesIn(dh, c)
             b == BytesIn(ch, c)
             t == Rest(b, x)
  <2>1. /\ a \in Seq(Byte) /\ Len(a) = dh[c].len
        /\ \A i \in 1..dh[c].len : a[i] = dh[c].data[dh[c].pos + i]
    BY <1>7, BytesInType
  <2>2. a \in Seq(Byte) /\ Len(a) = n - x /\ \A i \in 1..n - x : a[i] = d[p + x + i]
    BY <1>8, <2>1
  <2>3. b \in Seq(Byte) /\ Len(b) = n /\ \A i \in 1..n : b[i] = d[p + i]
    BY <1>1
  <2>4. x \in Nat /\ x <= n /\ n \in Nat /\ p \in Nat
    BY <1>1
  <2> HIDE DEF a, b, n, p, d
  <2>5. t \in Seq(Byte) /\ Len(t) = n - x /\ \A i \in 1..n - x : t[i] = b[x + i]
    <3>1. b \in Seq(Byte) /\ x \in Nat /\ x <= Len(b)
      BY <2>3, <2>4
    <3>2. Rest(b, x) \in Seq(Byte) /\ Len(Rest(b, x)) = Len(b) - x
          /\ \A i \in 1..Len(b) - x : Rest(b, x)[i] = b[x + i]
      BY ONLY <3>1, RestProperties
    <3> QED
      BY <2>3, <3>2
  <2> HIDE DEF t
  <2>6. ASSUME NEW i \in 1..n - x PROVE a[i] = t[i]
    <3>1. x + i \in 1..n /\ p + x + i = p + (x + i)
      BY <2>4
    <3> QED
      BY <2>2, <2>3, <2>5, <3>1
  <2>7. a = t
    BY <2>2, <2>4, <2>5, <2>6, SeqEqual
  <2> QED
    BY <2>7 DEF a, b, t
<1> QED
  BY <1>4, <1>7, <1>8, <1>9, <1>10 DEF dh

\* A list of chunks around the chunk behind the first k.
LEMMA Around ==
  ASSUME NEW ch \in Memory, NEW s \in Seq(Chunks), NEW k \in 0..Len(s) - 1,
         NEW c, c = s[k + 1]
  PROVE  /\ c \in Chunks
         /\ SubSeq(s, 1, k) \in Seq(Chunks) /\ Rest(s, k + 1) \in Seq(Chunks)
         /\ ContentIn(ch, SubSeq(s, 1, k)) \in Seq(Byte)
         /\ BytesIn(ch, c) \in Seq(Byte)
         /\ ContentIn(ch, Rest(s, k + 1)) \in Seq(Byte)
         /\ ContentIn(ch, s) = ContentIn(ch, SubSeq(s, 1, k))
                                 \o (BytesIn(ch, c) \o ContentIn(ch, Rest(s, k + 1)))
         /\ ContentIn(ch, Rest(s, k)) = BytesIn(ch, c) \o ContentIn(ch, Rest(s, k + 1))
<1>1. k \in Nat /\ k < Len(s) /\ k <= Len(s)
  BY LenProperties
<1>2. /\ c \in Chunks /\ SubSeq(s, 1, k) \in Seq(Chunks) /\ Rest(s, k + 1) \in Seq(Chunks)
      /\ ContentIn(ch, Rest(s, k)) = BytesIn(ch, c) \o ContentIn(ch, Rest(s, k + 1))
  BY <1>1, ContentNext
<1>3. ContentIn(ch, s) = ContentIn(ch, SubSeq(s, 1, k)) \o ContentIn(ch, Rest(s, k))
  BY <1>1, ContentSplit
<1>4. BytesIn(ch, c) \in Seq(Byte)
  BY <1>2, BytesInType
<1> QED
  BY <1>2, <1>3, <1>4, PartsType

\* x bytes of the chunk behind the first k are taken, and the first k.
LEMMA PartTaken ==
  ASSUME NEW ch \in Memory, NEW s \in Seq(Chunks), NEW k \in 0..Len(s) - 1,
         NEW c, c = s[k + 1], NEW x \in 0..ch[c].len,
         NEW n \in Nat, n = LenIn(ch, s, k) + x,
         \A i, j \in 1..Len(s) : s[i] = s[j] => i = j,
         NEW dh \in Memory, BytesIn(dh, c) = Rest(BytesIn(ch, c), x),
         \A e \in Chunks : e # c => BytesIn(dh, e) = BytesIn(ch, e)
  PROVE  ContentIn(dh, Rest(s, k)) = Rest(ContentIn(ch, s), n)
<1> DEFINE a == ContentIn(ch, SubSeq(s, 1, k))
           y == BytesIn(ch, c)
           z == ContentIn(ch, Rest(s, k + 1))
           m == LenIn(ch, s, k)
<1>1. /\ c \in Chunks /\ Rest(s, k + 1) \in Seq(Chunks)
      /\ a \in Seq(Byte) /\ y \in Seq(Byte) /\ z \in Seq(Byte)
      /\ ContentIn(ch, s) = a \o (y \o z)
  BY Around
<1>2. ContentIn(dh, Rest(s, k)) = BytesIn(dh, c) \o ContentIn(dh, Rest(s, k + 1))
  BY Around
<1>3. ContentIn(dh, Rest(s, k + 1)) = z
  <2>1. k + 1 \in Nat /\ k + 1 <= Len(s) /\ Len(s) \in Nat /\ k + 1 \in 1..Len(s)
    BY LenProperties
  <2> DEFINE r == Rest(s, k + 1)
  <2>2. /\ r \in Seq(Chunks) /\ Len(r) = Len(s) - (k + 1)
        /\ \A i \in 1..Len(s) - (k + 1) : r[i] = s[(k + 1) + i]
    BY <2>1, RestProperties
  <2> HIDE DEF r
  <2>3. ASSUME NEW i \in 1..Len(r) PROVE BytesIn(dh, r[i]) = BytesIn(ch, r[i])
    <3>1. /\ i \in 1..Len(s) - (k + 1) /\ (k + 1) + i \in 1..Len(s) /\ (k + 1) + i # k + 1
      BY <2>1, <2>2
    <3>2. r[i] = s[(k + 1) + i] /\ s[(k + 1) + i] # c /\ s[(k + 1) + i] \in Chunks
      BY <2>1, <2>2, <3>1, ElementOfSeq
    <3> QED
      BY <3>2
  <2>4. ContentIn(dh, r) = ContentIn(ch, r)
    BY <2>2, <2>3, ContentSame
  <2> QED
    BY <2>4 DEF r
<1>4. x \in 0..Len(y)
  BY <1>1, BytesInType
<1>5. m = Len(a) /\ n = m + x /\ m \in Nat /\ n \in Nat
  BY <1>1, LenProperties DEF LenIn
<1> HIDE DEF a, y, z, m
<1>6. Rest(a \o (y \o z), n) = Rest(y \o z, x)
  <2> DEFINE b == y \o z
  <2>1. b \in Seq(Byte) /\ Len(b) = Len(y) + Len(z) /\ Len(z) \in Nat /\ Len(y) \in Nat
    BY <1>1, ConcatProperties, LenProperties
  <2> HIDE DEF b
  <2>2. /\ a \in Seq(Byte) /\ b \in Seq(Byte) /\ m <= Len(a) /\ m >= Len(a) /\ x \in 0..Len(b)
        /\ n <= m + x /\ n >= m + x /\ m \in Nat /\ n \in Nat
    BY <1>1, <1>4, <1>5, <2>1
  <2>3. Rest(a \o b, n) = Rest(b, x)
    BY ONLY <2>2, RestBeyond
  <2> QED
    BY <2>3 DEF b
<1>7. Rest(y \o z, x) = Rest(y, x) \o z
  <2>1. y \in Seq(Byte) /\ z \in Seq(Byte) /\ x \in Nat /\ x <= Len(y)
    BY <1>1, <1>4
  <2> QED
    BY ONLY <2>1, RestOfConcat
<1> QED
  BY <1>1, <1>2, <1>3, <1>6, <1>7 DEF y, m

-----------------------------------------------------------------------------
(* The state of the buffers: what every operation keeps.                   *)

\* No listed chunk is empty.
Loaded(ch, l) == \A b \in Buffers : \A i \in 1..Len(l[b]) : ch[l[b][i]].len > 0

\* A count that agrees with the bytes that are held.
Counted(ch, l, len) ==
  /\ len \in [Buffers -> Nat]
  /\ \A b \in Buffers : len[b] = Len(ContentIn(ch, l[b]))

Store(ch, l, p, len) ==
  Owned(l, p) /\ ch \in Memory /\ Loaded(ch, l) /\ Counted(ch, l, len)

\* The bytes of every buffer.
View(ch, l) == [b \in Buffers |-> ContentIn(ch, l[b])]

\* A list of loaded chunks holds bytes unless it is empty.
LEMMA HoldsBytes ==
  ASSUME NEW ch \in Memory, NEW s \in Seq(Chunks), \A i \in 1..Len(s) : ch[s[i]].len > 0
  PROVE  Len(ContentIn(ch, s)) = 0 <=> s = << >>
<1>1. ASSUME s = << >> PROVE Len(ContentIn(ch, s)) = 0
  <2>1. LenIn(ch, s, 0) = 0 /\ LenIn(ch, s, Len(s)) = Len(ContentIn(ch, s))
    BY LenInSteps
  <2>2. Len(s) = 0
    BY <1>1, EmptySeq
  <2> QED
    BY <2>1, <2>2
<1>2. ASSUME s # << >> PROVE Len(ContentIn(ch, s)) > 0
  <2>1. Len(s) \in Nat /\ Len(s) # 0
    BY <1>2, LenProperties, EmptySeq
  <2>2. 0 \in 0..Len(s) - 1 /\ 1 \in 0..Len(s) /\ 0 + 1 = 1 /\ 1 \in 1..Len(s)
    BY <2>1
  <2>3. LenIn(ch, s, 0 + 1) = LenIn(ch, s, 0) + ch[s[0 + 1]].len /\ LenIn(ch, s, 0) = 0
    BY <2>2, LenInSteps
  <2>4. LenIn(ch, s, 1) \in Nat /\ LenIn(ch, s, 1) <= Len(ContentIn(ch, s))
    BY <2>2, LenInSteps
  <2>5. ch[s[1]].len > 0 /\ ch[s[1]].len \in Nat
    BY <2>2, ElementOfSeq, BytesInType
  <2>6. LenIn(ch, s, 1) = ch[s[1]].len
    BY <2>2, <2>3, <2>5
  <2>7. Len(ContentIn(ch, s)) \in Nat
    BY PartsType, LenProperties
  <2> QED
    BY <2>4, <2>5, <2>6, <2>7
<1> QED
  BY <1>1, <1>2

\* What a list holds does not change with chunks that are not on it.
LEMMA Untouched ==
  ASSUME NEW ch, NEW dh, NEW s \in Seq(Chunks), \A i \in 1..Len(s) : dh[s[i]] = ch[s[i]]
  PROVE  ContentIn(dh, s) = ContentIn(ch, s)
<1>1. \A i \in 1..Len(s) : BytesIn(dh, s[i]) = BytesIn(ch, s[i])
  BY DEF BytesIn
<1> QED
  BY <1>1, ContentSame

Kept == Store(chunk, list, pool, length)

\* What happens to the chunks when r bytes, k whole chunks and perhaps a part of
\* the next, are taken off the front of list s.
Leaves(ch, dh, s, k, r) ==
  /\ dh \in Memory
  /\ r \in 0..Len(ContentIn(ch, s))
  /\ ContentIn(dh, Rest(s, k)) = Rest(ContentIn(ch, s), r)
  /\ \A e \in Chunks : ch[e].len > 0 => dh[e].len > 0 \/ \E i \in 1..k : e = s[i]
  /\ \A e \in Chunks : (\A i \in 1..Len(s) : e # s[i]) => dh[e] = ch[e]

TakenOff(b, k, m, r) ==
  /\ list' = [list EXCEPT ![b] = Rest(list[b], k)]
  /\ pool' = pool \o SubSeq(list[b], 1, m)
  /\ length' = [length EXCEPT ![b] = length[b] - r]

Shorter(b, r) == View(chunk', list') = [View(chunk, list) EXCEPT ![b] = Rest(@, r)]

\* k chunks and r bytes are taken off one list, and m of the chunks join the pool.
LEMMA StoreTaken ==
  ASSUME Kept, NEW b \in Buffers, NEW k \in 0..Len(list[b]), NEW m \in 0..k, NEW r,
         Leaves(chunk, chunk', list[b], k, r), TakenOff(b, k, m, r)
  PROVE  Kept' /\ Shorter(b, r)
<1> USE DEF TakenOff, Shorter
<1>1. /\ Owned(list, pool) /\ chunk \in Memory /\ Loaded(chunk, list) /\ length \in [Buffers -> Nat]
      /\ \A d \in Buffers : length[d] = Len(ContentIn(chunk, list[d]))
  BY DEF Kept, Store, Counted
<1>0. /\ chunk' \in Memory /\ r \in 0..Len(ContentIn(chunk, list[b]))
      /\ ContentIn(chunk', Rest(list[b], k)) = Rest(ContentIn(chunk, list[b]), r)
      /\ \A e \in Chunks : chunk[e].len > 0 => \/ chunk'[e].len > 0
                                               \/ \E i \in 1..k : e = list[b][i]
      /\ \A e \in Chunks : (\A i \in 1..Len(list[b]) : e # list[b][i]) => chunk'[e] = chunk[e]
  BY DEF Leaves
<1>2. Owned(list', pool')
  <2>1. Owned(list, pool) /\ b \in Buffers /\ k \in 0..Len(list[b]) /\ m \in 0..k
    BY <1>1
  <2>2. Owned([list EXCEPT ![b] = Rest(list[b], k)], pool \o SubSeq(list[b], 1, m))
    BY <2>1, OwnedTaken, Zenon
  <2> QED
    BY <2>2
<1>3. /\ list \in [Buffers -> Seq(Chunks)]
      /\ \A c, d \in Buffers : \A i \in 1..Len(list[c]), j \in 1..Len(list[d]) :
           list[c][i] = list[d][j] => c = d /\ i = j
  BY <1>1 DEF Owned
<1>4. /\ k \in Nat /\ k <= Len(list[b]) /\ Len(list[b]) \in Nat /\ list[b] \in Seq(Chunks)
      /\ Rest(list[b], k) \in Seq(Chunks) /\ Len(Rest(list[b], k)) = Len(list[b]) - k
      /\ \A i \in 1..Len(list[b]) - k : Rest(list[b], k)[i] = list[b][k + i]
  <2>1. list[b] \in Seq(Chunks) /\ Len(list[b]) \in Nat
    BY <1>3, LenProperties
  <2>2. k \in Nat /\ k <= Len(list[b])
    BY <2>1
  <2> QED
    BY ONLY <2>1, <2>2, RestProperties
<1>5. list'[b] = Rest(list[b], k) /\ \A d \in Buffers : d # b => list'[d] = list[d]
  BY <1>3
<1>6. ASSUME NEW d \in Buffers, d # b
      PROVE  /\ \A i \in 1..Len(list[d]) : chunk'[list[d][i]] = chunk[list[d][i]]
             /\ ContentIn(chunk', list[d]) = ContentIn(chunk, list[d])
  <2>1. list[d] \in Seq(Chunks)
    BY <1>3
  <2>2. \A i \in 1..Len(list[d]) : chunk'[list[d][i]] = chunk[list[d][i]]
    <3>1. TAKE i \in 1..Len(list[d])
    <3>2. list[d][i] \in Chunks
      BY <2>1, ElementOfSeq
    <3>3. \A j \in 1..Len(list[b]) : list[d][i] # list[b][j]
      BY <1>3, <1>6
    <3> QED
      BY <1>0, <3>2, <3>3
  <2>3. ContentIn(chunk', list[d]) = ContentIn(chunk, list[d])
    BY <2>1, <2>2, Untouched
  <2> QED
    BY <2>2, <2>3
<1>7. Loaded(chunk', list')
  <2> SUFFICES ASSUME NEW d \in Buffers, NEW i \in 1..Len(list'[d])
               PROVE  chunk'[list'[d][i]].len > 0
    BY DEF Loaded
  <2>1. CASE d # b
    <3>1. i \in 1..Len(list[d]) /\ chunk[list[d][i]].len > 0
      BY <1>1, <1>5, <2>1 DEF Loaded
    <3> QED
      BY <1>5, <1>6, <2>1, <3>1
  <2>2. CASE d = b
    <3>1. i \in 1..Len(list[b]) - k /\ list'[b][i] = Rest(list[b], k)[i]
      BY <1>4, <1>5, <2>2
    <3>0. k + i \in 1..Len(list[b]) /\ list'[b][i] = list[b][k + i]
      <4>1. list'[b][i] = list[b][k + i]
        BY <1>4, <3>1
      <4>2. k + i \in 1..Len(list[b])
        BY <1>4, <3>1
      <4> QED
        BY <4>1, <4>2
    <3>2. list[b][k + i] \in Chunks /\ chunk[list[b][k + i]].len > 0
      BY <1>1, <1>4, <3>1, ElementOfSeq, <3>0 DEF Loaded
    <3>3. \A j \in 1..k : list[b][k + i] # list[b][j]
      <4>1. \A j \in 1..k : j \in 1..Len(list[b]) /\ k + i # j
        BY <1>4, <3>1
      <4> QED
        BY <1>3, <3>0, <4>1
    <3> QED
      BY <1>0, <2>2, <3>0, <3>2, <3>3
  <2> QED
    BY <2>1, <2>2
<1> DEFINE q == ContentIn(chunk, list[b])
<1>8. /\ q \in Seq(Byte) /\ Len(q) \in Nat /\ r \in Nat /\ r <= Len(q)
      /\ Len(Rest(q, r)) = Len(q) - r
  <2>1. q \in Seq(Byte) /\ Len(q) \in Nat
    BY <1>1, <1>4, PartsType, LenProperties
  <2>2. r \in Nat /\ r <= Len(q)
    BY <1>0, <2>1
  <2> QED
    BY <2>1, <2>2, RestProperties
<1>9. \A d \in Buffers : ContentIn(chunk', list'[d]) = IF d = b THEN Rest(q, r) ELSE ContentIn(chunk, list[d])
  BY <1>0, <1>5, <1>6
<1>10. Counted(chunk', list', length')
  <2>1. length[b] = Len(q) /\ length[b] - r \in Nat
    BY <1>1, <1>8
  <2>2. length' \in [Buffers -> Nat]
    BY <1>1, <2>1
  <2> HIDE DEF q
  <2>3. length'[b] = length[b] - r /\ \A d \in Buffers : d # b => length'[d] = length[d]
    BY <1>1
  <2> SUFFICES ASSUME NEW d \in Buffers PROVE length'[d] = Len(ContentIn(chunk', list'[d]))
    BY <2>2 DEF Counted
  <2>4. CASE d = b
    BY <1>8, <1>9, <2>1, <2>3, <2>4
  <2>5. CASE d # b
    BY <1>1, <1>9, <2>3, <2>5
  <2> QED
    BY <2>4, <2>5
<1>11. View(chunk', list') = [View(chunk, list) EXCEPT ![b] = Rest(@, r)]
  BY <1>9 DEF View
<1> QED
  BY <1>0, <1>2, <1>7, <1>10, <1>11 DEF Kept, Store

-----------------------------------------------------------------------------
(* Reading.                                                                *)

\* n bytes reach to the end of k chunks, and not to the end of the next.
Reached(ch, s, n, k) ==
  /\ k \in 0..Len(s)
  /\ LenIn(ch, s, k) <= n
  /\ k = Len(s) \/ LenIn(ch, s, k + 1) > n

\* All of the list is read.
LEMMA AllRead ==
  ASSUME NEW ch \in Memory, NEW s \in Seq(Chunks), NEW n \in Nat, NEW k,
         Reached(ch, s, n, k), k = Len(s)
  PROVE  /\ LenIn(ch, s, k) = Len(ContentIn(ch, s)) /\ LenIn(ch, s, k) <= n
         /\ ContentIn(ch, Rest(s, k)) = Rest(ContentIn(ch, s), LenIn(ch, s, k))
<1> DEFINE q == ContentIn(ch, s)
<1>1. LenIn(ch, s, k) = Len(q)
  BY LenInSteps
<1>2. Len(s) \in Nat /\ q \in Seq(Byte) /\ Len(q) \in Nat
  BY LenProperties, PartsType
<1>3. Rest(s, k) = << >>
  BY <1>2, RestProperties
<1>4. Rest(q, Len(q)) = << >>
  <2> HIDE DEF q
  <2> QED
    BY <1>2, RestProperties
<1>5. ContentIn(ch, << >>) = << >>
  <2>1. Parts(ch, << >>) = << >>
    BY EmptySeq DEF Parts
  <2> QED
    BY <2>1, FlattenEmpty DEF ContentIn
<1>6. LenIn(ch, s, k) <= n
  BY DEF Reached
<1> QED
  BY <1>1, <1>3, <1>4, <1>5, <1>6

\* The last chunk that is reached is read in part.
LEMMA PartRead ==
  ASSUME NEW ch \in Memory, NEW s \in Seq(Chunks), NEW n \in Nat, NEW k,
         Reached(ch, s, n, k), k # Len(s), NEW c, c = s[k + 1]
  PROVE  /\ k \in 0..Len(s) - 1 /\ c \in Chunks /\ ch[c].len \in Nat
         /\ LenIn(ch, s, k) \in Nat
         /\ n - LenIn(ch, s, k) \in 0..ch[c].len /\ n - LenIn(ch, s, k) < ch[c].len
         /\ n < Len(ContentIn(ch, s))
<1>1. Len(s) \in Nat
  BY LenProperties
<1>2. k \in 0..Len(s) /\ LenIn(ch, s, k) <= n /\ LenIn(ch, s, k + 1) > n
  BY DEF Reached
<1>3. k \in 0..Len(s) - 1 /\ k + 1 \in 1..Len(s) /\ k + 1 \in 0..Len(s)
  BY <1>1, <1>2
<1>4. c \in Chunks /\ ch[c].len \in Nat
  <2>1. c \in Chunks
    BY <1>3, ElementOfSeq
  <2> QED
    BY <2>1, BytesInType
<1>5. /\ LenIn(ch, s, k + 1) = LenIn(ch, s, k) + ch[c].len /\ LenIn(ch, s, k) \in Nat
      /\ LenIn(ch, s, k + 1) <= Len(ContentIn(ch, s))
  BY <1>2, <1>3, LenInSteps
<1>6. Len(ContentIn(ch, s)) \in Nat
  BY PartsType, LenProperties
<1> DEFINE m == LenIn(ch, s, k)
           w == LenIn(ch, s, k + 1)
           y == ch[c].len
           z == Len(ContentIn(ch, s))
<1>7. m \in Nat /\ y \in Nat /\ z \in Nat /\ w = m + y /\ w <= z /\ m <= n /\ w > n
  BY <1>2, <1>4, <1>5, <1>6
<1> HIDE DEF m, y, z, w
<1>8. n - m \in 0..y /\ n - m < y /\ n < z
  BY <1>7
<1> QED
  BY <1>3, <1>4, <1>5, <1>8 DEF m, y, z

\* The chunks of list s when n bytes are taken, k chunks as a whole; how many bytes that is.
Taken(ch, s, n, k) ==
  IF k < Len(s) THEN [ch EXCEPT ![s[k + 1]].pos = @ + (n - LenIn(ch, s, k)),
                                ![s[k + 1]].len = @ - (n - LenIn(ch, s, k))]
  ELSE ch
Removed(ch, s, n, k) == LenIn(ch, s, k) + IF k < Len(s) THEN n - LenIn(ch, s, k) ELSE 0

LEMMA ReadLeaves ==
  ASSUME NEW ch \in Memory, NEW s \in Seq(Chunks), NEW n \in Nat, NEW k, Reached(ch, s, n, k),
         \A i, j \in 1..Len(s) : s[i] = s[j] => i = j
  PROVE  /\ Leaves(ch, Taken(ch, s, n, k), s, k, Removed(ch, s, n, k))
         /\ Removed(ch, s, n, k) = Least(n, Len(ContentIn(ch, s)))
<1> DEFINE q == ContentIn(ch, s)
           x == LenIn(ch, s, k)
           dh == Taken(ch, s, n, k)
           r == Removed(ch, s, n, k)
<1>1. k \in 0..Len(s) /\ Len(s) \in Nat /\ k \in Nat /\ k <= Len(s)
  BY LenProperties DEF Reached
<1>2. q \in Seq(Byte) /\ Len(q) \in Nat
  BY PartsType, LenProperties
<1>3. CASE k = Len(s)
  <2>1. x = Len(q) /\ x <= n /\ ContentIn(ch, Rest(s, k)) = Rest(q, x)
    BY <1>3, AllRead
  <2>2. dh = ch
    BY <1>1, <1>3 DEF Taken
  <2>3. r = x + 0
    BY <1>1, <1>3 DEF Removed
  <2> HIDE DEF q, x, dh, r
  <2>4. r = Len(q) /\ r = x /\ r \in 0..Len(q)
    BY <1>2, <2>1, <2>3
  <2>5. r = Least(n, Len(q))
    BY <1>2, <2>1, <2>4 DEF Least
  <2>6. Leaves(ch, dh, s, k, r)
    BY <2>1, <2>2, <2>4 DEF Leaves, q
  <2> QED
    BY <2>5, <2>6 DEF q, dh, r
<1>4. CASE k # Len(s)
  <2> DEFINE c == s[k + 1]
             y == n - x
  <2>1. /\ k \in 0..Len(s) - 1 /\ c \in Chunks /\ ch[c].len \in Nat
        /\ x \in Nat /\ y \in 0..ch[c].len /\ y < ch[c].len /\ n < Len(q)
    BY <1>4, PartRead
  <2>2. k < Len(s)
    BY <1>1, <1>4
  <2>3. r = x + y
    BY <2>2 DEF Removed
  <2>4. dh = Lighter(ch, c, y)
    BY <2>2 DEF Taken, Lighter
  <2>5. x + y = n
    <3>1. y = n - x
      OBVIOUS
    <3> HIDE DEF x, y
    <3> QED
      BY <2>1, <3>1
  <2> HIDE DEF q, x, dh, r, y, c
  <2>6. r = n /\ n \in 0..Len(q) /\ r = Least(n, Len(q))
    BY <1>2, <2>1, <2>3, <2>5 DEF Least
  <2>7. /\ dh \in Memory /\ BytesIn(dh, c) = Rest(BytesIn(ch, c), y)
        /\ dh[c].len = ch[c].len - y
        /\ \A e \in Chunks : e # c => dh[e] = ch[e] /\ BytesIn(dh, e) = BytesIn(ch, e)
    BY <2>1, <2>4, Lightened
  <2>8. ContentIn(dh, Rest(s, k)) = Rest(q, n)
    <3>1. /\ k \in 0..Len(s) - 1 /\ c = s[k + 1] /\ y \in 0..ch[c].len /\ n = LenIn(ch, s, k) + y
          /\ dh \in Memory /\ BytesIn(dh, c) = Rest(BytesIn(ch, c), y)
          /\ \A e \in Chunks : e # c => BytesIn(dh, e) = BytesIn(ch, e)
          /\ \A i, j \in 1..Len(s) : s[i] = s[j] => i = j
      BY <2>1, <2>5, <2>7 DEF x, c
    <3>2. ContentIn(dh, Rest(s, k)) = Rest(ContentIn(ch, s), n)
      BY <3>1, PartTaken
    <3> QED
      BY <3>2 DEF q
  <2>9. \A e \in Chunks : ch[e].len > 0 => dh[e].len > 0
    <3>1. dh[c].len > 0
      BY <2>1, <2>7
    <3> QED
      BY <2>7, <3>1
  <2>10. \A e \in Chunks : (\A i \in 1..Len(s) : e # s[i]) => dh[e] = ch[e]
    <3>1. k + 1 \in 1..Len(s)
      BY <1>1, <2>1
    <3> QED
      BY <2>7, <3>1 DEF c
  <2>11. Leaves(ch, dh, s, k, r)
    BY <2>6, <2>7, <2>8, <2>9, <2>10 DEF Leaves, q
  <2> QED
    BY <2>6, <2>11 DEF q, dh, r
<1> QED
  BY <1>3, <1>4

-----------------------------------------------------------------------------
(* What the operations do to the store.                                    *)

LEMMA Named ==
  /\ \A c : Bytes(c) = BytesIn(chunk, c)
  /\ \A s : Content(s) = ContentIn(chunk, s)
  /\ \A s, k : LenOf(s, k) = LenIn(chunk, s, k)
<1>1. \A c : Bytes(c) = BytesIn(chunk, c)
  BY DEF Bytes, BytesIn
<1>2. \A s : Content(s) = ContentIn(chunk, s)
  BY <1>1 DEF Content, ContentIn, Parts
<1>3. \A s, k : LenOf(s, k) = LenIn(chunk, s, k)
  BY <1>2 DEF LenOf, LenIn
<1> QED
  BY <1>1, <1>2, <1>3

\* What a list of the store is.
LEMMA KeptList ==
  ASSUME Kept, NEW b \in Buffers
  PROVE  /\ chunk \in Memory /\ list[b] \in Seq(Chunks) /\ pool \in Seq(Chunks)
         /\ list \in [Buffers -> Seq(Chunks)]
         /\ Len(list[b]) \in Nat
         /\ \A i, j \in 1..Len(list[b]) : list[b][i] = list[b][j] => i = j
         /\ ContentIn(chunk, list[b]) \in Seq(Byte)
         /\ length[b] = Len(ContentIn(chunk, list[b])) /\ length[b] \in Nat
         /\ View(chunk, list)[b] = ContentIn(chunk, list[b])
<1>1. /\ Owned(list, pool) /\ chunk \in Memory /\ Counted(chunk, list, length)
  BY DEF Kept, Store
<1>2. list \in [Buffers -> Seq(Chunks)] /\ list[b] \in Seq(Chunks) /\ pool \in Seq(Chunks)
  BY <1>1 DEF Owned
<1>3. \A i, j \in 1..Len(list[b]) : list[b][i] = list[b][j] => i = j
  BY <1>1 DEF Owned
<1>4. ContentIn(chunk, list[b]) \in Seq(Byte) /\ Len(list[b]) \in Nat
  BY <1>1, <1>2, PartsType, LenProperties
<1>5. length[b] = Len(ContentIn(chunk, list[b])) /\ length[b] \in Nat
  BY <1>1 DEF Counted
<1>6. View(chunk, list)[b] = ContentIn(chunk, list[b])
  BY DEF View
<1> QED
  BY <1>1, <1>2, <1>3, <1>4, <1>5, <1>6

LEMMA ReadKeeps ==
  ASSUME Kept, NEW op, NEW b \in Buffers, NEW n \in Nat, n # 0, ReadInternal(op, b, n),
         NEW q, q = View(chunk, list)[b], NEW r, r = Least(n, Len(q))
  PROVE  /\ Kept' /\ written' = written
         /\ Shorter(b, r)
         /\ ret' = [op |-> op, bytes |-> SubSeq(q, 1, r), code |-> r]
<1> DEFINE s == list[b]
           k == CHOOSE j \in 0..Len(s) :
                  /\ LenOf(s, j) <= n
                  /\ j = Len(s) \/ LenOf(s, j + 1) > n
           x == LenOf(s, k)
           z == x + IF k < Len(s) THEN n - x ELSE 0
<1>1. /\ chunk \in Memory /\ s \in Seq(Chunks) /\ pool \in Seq(Chunks) /\ Len(s) \in Nat
      /\ \A i, j \in 1..Len(s) : s[i] = s[j] => i = j
      /\ q = ContentIn(chunk, s)
  BY KeptList
<1>2. /\ list' = [list EXCEPT ![b] = SubSeq(list[b], k + 1, Len(list[b]))]
      /\ pool' = Release(pool, SubSeq(s, 1, k))
      /\ chunk' = IF k < Len(s)
                  THEN [chunk EXCEPT ![s[k + 1]].pos = @ + (n - x),
                                     ![s[k + 1]].len = @ - (n - x)]
                  ELSE chunk
      /\ length' = [length EXCEPT ![b] = length[b] - z]
      /\ ret' = [op |-> op, bytes |-> SubSeq(Content(s), 1, z), code |-> z]
      /\ written' = written
  BY DEF ReadInternal, Returns
<1>3. k \in 0..Len(s) /\ LenOf(s, k) <= n /\ (k = Len(s) \/ LenOf(s, k + 1) > n)
  <2>1. \E j \in 0..Len(s) : LenIn(chunk, s, j) <= n /\ (j = Len(s) \/ LenIn(chunk, s, j + 1) > n)
    BY <1>1, Reaches
  <2>2. \E j \in 0..Len(s) : LenOf(s, j) <= n /\ (j = Len(s) \/ LenOf(s, j + 1) > n)
    BY <2>1, Named
  <2> QED
    BY <2>2
<1>4. Reached(chunk, s, n, k)
  BY <1>3, Named DEF Reached
<1>5. list' = [list EXCEPT ![b] = Rest(list[b], k)]
  BY <1>2 DEF Rest
<1>6. chunk' = Taken(chunk, s, n, k) /\ z = Removed(chunk, s, n, k)
  <2>1. x = LenIn(chunk, s, k)
    BY Named
  <2> HIDE DEF k
  <2> QED
    BY <1>2, <2>1 DEF Taken, Removed
<1> HIDE DEF k, z, x
<1>7. Leaves(chunk, chunk', s, k, z) /\ z = r
  <2>1. /\ Leaves(chunk, Taken(chunk, s, n, k), s, k, Removed(chunk, s, n, k))
        /\ Removed(chunk, s, n, k) = Least(n, Len(ContentIn(chunk, s)))
    BY <1>1, <1>4, ReadLeaves
  <2> QED
    BY <1>1, <1>6, <2>1
<1>8. PICK m \in 0..k : pool' = pool \o SubSeq(s, 1, m)
  <2>0. k \in Nat /\ k <= Len(s)
    BY <1>1, <1>3
  <2>1. SubSeq(s, 1, k) \in Seq(Chunks) /\ Len(SubSeq(s, 1, k)) = k
    BY <1>1, <2>0, FirstProperties
  <2>2. PICK m \in 0..k : pool' = pool \o SubSeq(SubSeq(s, 1, k), 1, m)
    BY <1>1, <1>2, <2>1, ReleaseIs
  <2>3. SubSeq(SubSeq(s, 1, k), 1, m) = SubSeq(s, 1, m)
    BY <1>1, <1>3, FirstOfFirst
  <2> QED
    BY <2>2, <2>3
<1>9. TakenOff(b, k, m, r)
  BY <1>2, <1>5, <1>7, <1>8 DEF TakenOff
<1>10. k \in 0..Len(list[b]) /\ m \in 0..k /\ Leaves(chunk, chunk', list[b], k, r)
  BY <1>3, <1>7
<1>11. Kept' /\ Shorter(b, r)
  BY ONLY Kept, b \in Buffers, <1>9, <1>10, StoreTaken
<1>12. Content(s) = q
  BY <1>1, Named
<1> QED
  BY <1>2, <1>7, <1>11, <1>12

\* The beginning of a concatenation, within its first part.
LEMMA FirstOfConcat ==
  ASSUME NEW y \in Seq(Byte), NEW z \in Seq(Byte), NEW x \in 0..Len(y)
  PROVE  SubSeq(y \o z, 1, x) = SubSeq(y, 1, x)
<1> DEFINE b == y \o z
           u == SubSeq(b, 1, x)
           v == SubSeq(y, 1, x)
<1>1. /\ b \in Seq(Byte) /\ Len(b) = Len(y) + Len(z) /\ Len(y) \in Nat /\ Len(z) \in Nat
      /\ \A i \in 1..Len(y) + Len(z) : b[i] = IF i <= Len(y) THEN y[i] ELSE z[i - Len(y)]
  BY ConcatProperties, LenProperties
<1> HIDE DEF b
<1>2. x \in Nat /\ x <= Len(y) /\ x <= Len(b)
  BY <1>1
<1>3. u \in Seq(Byte) /\ Len(u) = x /\ \A i \in 1..x : u[i] = b[i]
  BY <1>1, <1>2, FirstProperties
<1>4. v \in Seq(Byte) /\ Len(v) = x /\ \A i \in 1..x : v[i] = y[i]
  BY <1>1, <1>2, FirstProperties
<1> HIDE DEF u, v
<1>5. ASSUME NEW i \in 1..x PROVE u[i] = v[i]
  <2>1. i \in 1..Len(y) + Len(z) /\ i <= Len(y)
    BY <1>1, <1>2
  <2> QED
    BY <1>1, <1>3, <1>4, <2>1
<1>6. u = v
  BY <1>2, <1>3, <1>4, <1>5, SeqEqual
<1> QED
  BY <1>6 DEF u, v, b

LEMMA AllOfIt ==
  ASSUME NEW S, NEW y \in Seq(S)
  PROVE  SubSeq(y, 1, Len(y)) = y /\ y \o << >> = y
<1> DEFINE u == SubSeq(y, 1, Len(y))
<1>1. Len(y) \in Nat /\ Len(y) <= Len(y)
  BY LenProperties
<1>2. u \in Seq(S) /\ Len(u) = Len(y) /\ \A i \in 1..Len(y) : u[i] = y[i]
  BY <1>1, FirstProperties
<1> HIDE DEF u
<1>3. u = y
  BY <1>1, <1>2, SeqEqual
<1>4. y \o << >> = y
  OBVIOUS
<1> QED
  BY <1>3, <1>4 DEF u

\* What is copied of the next chunk when n bytes are looked at, k chunks as a whole.
Part(ch, s, n, k) ==
  IF k < Len(s) THEN SubSeq(BytesIn(ch, s[k + 1]), 1, n - LenIn(ch, s, k)) ELSE << >>

\* The bytes that are looked at are the first n.
LEMMA PeekGives ==
  ASSUME NEW ch \in Memory, NEW s \in Seq(Chunks), NEW n \in Nat, NEW k \in 0..Len(s),
         LenIn(ch, s, k) < n, k = Len(s) \/ LenIn(ch, s, k + 1) >= n
  PROVE  ContentIn(ch, SubSeq(s, 1, k)) \o Part(ch, s, n, k)
           = SubSeq(ContentIn(ch, s), 1, Least(n, Len(ContentIn(ch, s))))
<1> DEFINE q == ContentIn(ch, s)
           a == ContentIn(ch, SubSeq(s, 1, k))
           b == ContentIn(ch, Rest(s, k))
           m == LenIn(ch, s, k)
<1>1. Len(s) \in Nat /\ k \in Nat /\ k <= Len(s)
  BY LenProperties
<1>2. q \in Seq(Byte) /\ Len(q) \in Nat
  BY PartsType, LenProperties
<1>3. /\ SubSeq(s, 1, k) \in Seq(Chunks) /\ Rest(s, k) \in Seq(Chunks) /\ q = a \o b
  BY <1>1, ContentSplit
<1>4. a \in Seq(Byte) /\ b \in Seq(Byte) /\ m = Len(a) /\ m \in Nat
  BY <1>3, PartsType, LenProperties DEF LenIn
<1>5. CASE k = Len(s)
  <2>1. Rest(s, k) = << >>
    BY <1>1, <1>5, RestProperties
  <2>2. ContentIn(ch, << >>) = << >>
    <3>1. Parts(ch, << >>) = << >>
      BY EmptySeq DEF Parts
    <3> QED
      BY <3>1, FlattenEmpty DEF ContentIn
  <2>3. Part(ch, s, n, k) = << >>
    BY <1>1, <1>5 DEF Part
  <2>4. Len(q) = m /\ Least(n, Len(q)) = Len(q)
    <3>1. Len(q) = m
      BY <1>5, LenInSteps
    <3> HIDE DEF q, m
    <3> QED
      BY <1>2, <3>1 DEF Least, m
  <2>5. b = << >>
    BY <2>1, <2>2
  <2> HIDE DEF q, a, b
  <2>6. SubSeq(q, 1, Len(q)) = q
    BY <1>2, AllOfIt
  <2> QED
    BY <1>3, <2>3, <2>4, <2>5, <2>6 DEF q, a
<1>6. CASE k # Len(s)
  <2> DEFINE c == s[k + 1]
             y == BytesIn(ch, c)
             z == ContentIn(ch, Rest(s, k + 1))
             x == n - m
             w == LenIn(ch, s, k + 1)
  <2>1. k \in 0..Len(s) - 1 /\ k + 1 \in 0..Len(s) /\ k < Len(s)
    BY <1>1, <1>6
  <2>2. /\ c \in Chunks /\ y \in Seq(Byte) /\ z \in Seq(Byte) /\ b = y \o z
    BY <2>1, Around
  <2>3. Len(y) = ch[c].len /\ Len(y) \in Nat
    BY <2>2, BytesInType
  <2>4. w = m + Len(y) /\ w <= Len(q)
    BY <2>1, <2>3, LenInSteps
  <2>5. w >= n /\ m < n
    BY <1>6
  <2>6. Part(ch, s, n, k) = SubSeq(y, 1, x)
    BY <2>1 DEF Part
  <2>7. Len(b) = Len(y) + Len(z) /\ Len(z) \in Nat
    BY <2>2, ConcatProperties, LenProperties
  <2>8. x = n - m
    OBVIOUS
  <2> HIDE DEF q, a, b, m, c, y, z, x, w
  <2>9. /\ x \in 0..Len(y) /\ x \in 0..Len(b) /\ n <= m + x /\ n >= m + x /\ n <= Len(q)
    <3> DEFINE ly == Len(y)
               lz == Len(z)
               lb == Len(b)
               lq == Len(q)
    <3>1. /\ lq \in Nat /\ m \in Nat /\ ly \in Nat /\ lz \in Nat /\ lb = ly + lz
          /\ w = m + ly /\ w <= lq /\ w >= n /\ m < n /\ x = n - m
      BY <1>2, <1>4, <2>3, <2>4, <2>5, <2>7, <2>8
    <3> HIDE DEF ly, lz, lb, lq
    <3>2. x \in 0..ly /\ x \in 0..lb /\ n <= m + x /\ n >= m + x /\ n <= lq
      BY <3>1
    <3> QED
      BY <3>2 DEF ly, lb, lq
  <2>10. Least(n, Len(q)) = n
    BY <1>2, <2>9 DEF Least
  <2>11. SubSeq(a \o b, 1, n) = a \o SubSeq(b, 1, x)
    <3>1. /\ a \in Seq(Byte) /\ b \in Seq(Byte) /\ m <= Len(a) /\ m >= Len(a) /\ x \in 0..Len(b)
          /\ n <= m + x /\ n >= m + x /\ m \in Nat /\ n \in Nat
      BY <1>4, <2>9
    <3> QED
      <4>1. FirstBeyond(a, b, n, x)
        BY ONLY <3>1, RestBeyond
      <4> QED
        BY <4>1 DEF FirstBeyond
  <2>12. SubSeq(y \o z, 1, x) = SubSeq(y, 1, x)
    BY <2>2, <2>9, FirstOfConcat
  <2>13. a \o SubSeq(y, 1, x) = SubSeq(q, 1, Least(n, Len(q)))
    BY <1>3, <2>2, <2>10, <2>11, <2>12
  <2> QED
    BY <2>6, <2>13 DEF q, a
<1> QED
  BY <1>5, <1>6

LEMMA PeekKeeps ==
  ASSUME Kept, NEW op, NEW b \in Buffers, NEW n \in Nat, n # 0, PeekInternal(op, b, n),
         NEW q, q = View(chunk, list)[b], NEW r, r = Least(n, Len(q))
  PROVE  /\ UNCHANGED <<chunk, list, length, pool, written>>
         /\ ret' = [op |-> op, bytes |-> SubSeq(q, 1, r), code |-> r]
<1> DEFINE s == list[b]
           k == CHOOSE j \in 0..Len(s) :
                  /\ LenOf(s, j) < n
                  /\ j = Len(s) \/ LenOf(s, j + 1) >= n
           part == IF k < Len(s) THEN SubSeq(Bytes(s[k + 1]), 1, n - LenOf(s, k)) ELSE << >>
           bytes == Content(SubSeq(s, 1, k)) \o part
<1>1. /\ chunk \in Memory /\ s \in Seq(Chunks) /\ Len(s) \in Nat
      /\ q = ContentIn(chunk, s) /\ q \in Seq(Byte)
  BY KeptList
<1>2. /\ UNCHANGED <<chunk, list, length, pool, written>>
      /\ ret' = [op |-> op, bytes |-> bytes, code |-> Len(bytes)]
  BY DEF PeekInternal, Returns
<1>3. k \in 0..Len(s) /\ LenOf(s, k) < n /\ (k = Len(s) \/ LenOf(s, k + 1) >= n)
  <2>1. n - 1 \in Nat
    OBVIOUS
  <2>2. PICK j \in 0..Len(s) : LenIn(chunk, s, j) <= n - 1 /\ (j = Len(s) \/ LenIn(chunk, s, j + 1) > n - 1)
    BY <1>1, <2>1, Reaches
  <2>3. LenIn(chunk, s, j) \in Nat /\ (j = Len(s) \/ LenIn(chunk, s, j + 1) \in Nat)
    <3>1. j # Len(s) => j + 1 \in 0..Len(s)
      BY <1>1
    <3> QED
      BY <1>1, <3>1, LenInSteps
  <2>4. LenIn(chunk, s, j) < n /\ (j = Len(s) \/ LenIn(chunk, s, j + 1) >= n)
    BY <2>2, <2>3
  <2>5. LenOf(s, j) < n /\ (j = Len(s) \/ LenOf(s, j + 1) >= n)
    BY <2>4, Named
  <2> QED
    BY <2>5
<1>4. part = Part(chunk, s, n, k)
  <2> HIDE DEF k
  <2> QED
    BY Named DEF Part
<1>5. Content(SubSeq(s, 1, k)) = ContentIn(chunk, SubSeq(s, 1, k))
  BY Named
<1> HIDE DEF k, part
<1>6. bytes = SubSeq(q, 1, r)
  <2>1. LenIn(chunk, s, k) < n /\ (k = Len(s) \/ LenIn(chunk, s, k + 1) >= n)
    BY <1>3, Named
  <2>2. ContentIn(chunk, SubSeq(s, 1, k)) \o Part(chunk, s, n, k)
          = SubSeq(ContentIn(chunk, s), 1, Least(n, Len(ContentIn(chunk, s))))
    BY <1>1, <1>3, <2>1, PeekGives
  <2> QED
    BY <1>1, <1>4, <1>5, <2>2
<1> HIDE DEF bytes
<1>7. Len(bytes) = r
  <2>1. Len(q) \in Nat
    BY <1>1, LenProperties
  <2>2. r \in Nat /\ r <= Len(q)
    BY <2>1 DEF Least
  <2> QED
    <3>1. q \in Seq(Byte) /\ r \in Nat /\ r <= Len(q)
      BY <1>1, <2>2
    <3>2. Len(SubSeq(q, 1, r)) = r
      BY ONLY <3>1, FirstProperties
    <3> QED
      BY <1>6, <3>2
<1> QED
  BY <1>2, <1>6, <1>7

\* Behind all of it is nothing.
LEMMA NothingLeft ==
  ASSUME NEW S, NEW s \in Seq(S)
  PROVE  Rest(s, Len(s)) = << >>
<1>1. Len(s) \in Nat /\ Len(s) >= Len(s)
  BY LenProperties
<1> QED
  BY <1>1, RestProperties

\* The chunk that is sent is dropped.
LEMMA SendKeeps ==
  ASSUME Kept, NEW b \in Buffers, Send(b), NEW q, q = View(chunk, list)[b]
  PROVE  /\ written' = written
         /\ \/ /\ UNCHANGED <<chunk, list, length, pool>>
               /\ ret' = [op |-> "send", bytes |-> << >>, code |-> -1]
            \/ \E r \in 1..Len(q) : \E wr \in 1..r :
                 /\ Kept' /\ Shorter(b, r)
                 /\ ShortSend \/ wr = r
                 /\ ret' = [op |-> "send", bytes |-> SubSeq(q, 1, wr), code |-> wr]
<1> DEFINE s == list[b]
           c == s[1]
           y == BytesIn(chunk, c)
           z == ContentIn(chunk, Rest(s, 1))
           r == chunk[c].len
<1>1. /\ chunk \in Memory /\ s \in Seq(Chunks) /\ Len(s) \in Nat /\ pool \in Seq(Chunks)
      /\ q = ContentIn(chunk, s) /\ q \in Seq(Byte)
  BY KeptList
<1>2. /\ s # << >> /\ Head(s) = c
      /\ \/ Fails("send", -1)
         \/ \E wr \in 1..r :
              /\ ShortSend \/ wr = r
              /\ list' = [list EXCEPT ![b] = Tail(s)]
              /\ length' = [length EXCEPT ![b] = length[b] - r]
              /\ pool' = Release(pool, <<c>>)
              /\ Returns("send", SubSeq(Bytes(c), 1, wr), wr)
              /\ UNCHANGED <<chunk, written>>
  <2>1. s # << >>
    BY DEF Send
  <2>2. Head(s) = c
    BY <1>1, <2>1
  <2> QED
    BY <2>1, <2>2 DEF Send
<1>3. CASE Fails("send", -1)
  BY <1>3 DEF Fails, Returns
<1>4. ASSUME NEW wr \in 1..r, ShortSend \/ wr = r,
             list' = [list EXCEPT ![b] = Tail(s)],
             length' = [length EXCEPT ![b] = length[b] - r],
             pool' = Release(pool, <<c>>),
             Returns("send", SubSeq(Bytes(c), 1, wr), wr),
             UNCHANGED <<chunk, written>>
      PROVE  /\ written' = written
             /\ \E x \in 1..Len(q) : \E v \in 1..x :
                  /\ Kept' /\ Shorter(b, x)
                  /\ ShortSend \/ v = x
                  /\ ret' = [op |-> "send", bytes |-> SubSeq(q, 1, v), code |-> v]
  <2>1. Len(s) >= 1 /\ 0 \in 0..Len(s) - 1 /\ 0 \in Nat /\ 1 \in Nat /\ 1 <= Len(s) /\ 0 + 1 = 1
    <3>1. Len(s) # 0
      BY <1>1, <1>2, EmptySeq
    <3> QED
      BY <1>1, <3>1
  <2>2. /\ c \in Chunks /\ y \in Seq(Byte) /\ z \in Seq(Byte) /\ q = y \o z
    <3>1. c = s[0 + 1]
      BY <2>1
    <3>2. /\ c \in Chunks /\ y \in Seq(Byte) /\ ContentIn(chunk, Rest(s, 0 + 1)) \in Seq(Byte)
          /\ ContentIn(chunk, Rest(s, 0)) = y \o ContentIn(chunk, Rest(s, 0 + 1))
      BY <1>1, <2>1, <3>1, Around
    <3>3. Rest(s, 0) = s
      BY <1>1, <2>1, RestProperties
    <3> QED
      BY <1>1, <2>1, <3>2, <3>3
  <2>3. Len(y) = r /\ r \in Nat
    BY <1>1, <2>2, BytesInType
  <2>4. Rest(s, 1) = Tail(s) /\ Rest(s, 1) \in Seq(Chunks)
    <3>1. Rest(s, 1) \in Seq(Chunks) /\ Len(Rest(s, 1)) = Len(s) - 1 /\ \A i \in 1..Len(s) - 1 : Rest(s, 1)[i] = s[1 + i]
      BY <1>1, <2>1, RestProperties
    <3>2. Tail(s) \in Seq(Chunks) /\ Len(Tail(s)) = Len(s) - 1 /\ \A i \in 1..Len(s) - 1 : Tail(s)[i] = s[i + 1]
      BY <1>1, <1>2, HeadTailProperties
    <3>3. \A i \in 1..Len(s) - 1 : Rest(s, 1)[i] = Tail(s)[i]
      BY <1>1, <3>1, <3>2
    <3> QED
      BY <3>1, <3>2, <3>3, SeqEqual
  <2>5. PICK m \in 0..1 : pool' = pool \o SubSeq(s, 1, m)
    <3> DEFINE u == <<c>>
    <3>1. u \in Seq(Chunks) /\ Len(u) = 1 /\ u[1] = c
      BY <2>2
    <3>2. SubSeq(s, 1, 1) = u
      <4>1. SubSeq(s, 1, 1) \in Seq(Chunks) /\ Len(SubSeq(s, 1, 1)) = 1 /\ \A i \in 1..1 : SubSeq(s, 1, 1)[i] = s[i]
        BY <1>1, <2>1, FirstProperties
      <4>2. \A i \in 1..1 : SubSeq(s, 1, 1)[i] = u[i]
        BY <3>1, <4>1
      <4> HIDE DEF u
      <4> QED
        BY <3>1, <4>1, <4>2, SeqEqual
    <3> HIDE DEF u
    <3>3. PICK m \in 0..1 : Release(pool, u) = pool \o SubSeq(u, 1, m)
      BY <1>1, <3>1, ReleaseIs
    <3>4. 1 \in 0..Len(s)
      BY <1>1, <2>1
    <3>5. SubSeq(SubSeq(s, 1, 1), 1, m) = SubSeq(s, 1, m)
      BY <1>1, <3>4, FirstOfFirst
    <3> QED
      BY <1>4, <3>2, <3>3, <3>5 DEF u
  <2> HIDE DEF y, z
  <2>6. Rest(q, r) = z /\ SubSeq(q, 1, r) = y
    <3>1. r <= Len(y) /\ r \in 0..Len(y)
      BY <2>3
    <3>2. Rest(y \o z, r) = Rest(y, r) \o z
      BY <2>2, <2>3, <3>1, RestOfConcat
    <3>3. Rest(y, r) = << >>
      <4>1. Rest(y, Len(y)) = << >>
        BY <2>2, NothingLeft
      <4> QED
        BY <2>3, <4>1
    <3>4. << >> \o z = z
      BY <2>2
    <3>5. SubSeq(y \o z, 1, r) = SubSeq(y, 1, r)
      BY <2>2, <3>1, FirstOfConcat
    <3>6. SubSeq(y, 1, r) = y
      BY <2>2, <2>3, AllOfIt
    <3> QED
      BY <2>2, <3>2, <3>3, <3>4, <3>5, <3>6
  <2>7. r \in 1..Len(q)
    <3>1. Len(q) = Len(y) + Len(z) /\ Len(z) \in Nat
      BY <2>2, ConcatProperties, LenProperties
    <3>2. r >= 1
      <4> HIDE DEF r
      <4> QED
        BY <2>3
    <3> HIDE DEF r
    <3> QED
      BY <2>3, <3>1, <3>2
  <2>8. Leaves(chunk, chunk', s, 1, r)
    <3>1. chunk' = chunk /\ r \in 0..Len(q)
      BY <1>4, <2>7
    <3> HIDE DEF r, s
    <3> QED
      BY <1>1, <2>6, <3>1 DEF Leaves, z
  <2>9. TakenOff(b, 1, m, r)
    BY <1>4, <2>4, <2>5 DEF TakenOff
  <2>10. 1 \in 0..Len(list[b]) /\ m \in 0..1
    BY <1>1, <2>1
  <2>11. Kept' /\ Shorter(b, r)
    BY ONLY Kept, b \in Buffers, <2>8, <2>9, <2>10, StoreTaken
  <2>12. ret' = [op |-> "send", bytes |-> SubSeq(q, 1, wr), code |-> wr]
    <3>1. Bytes(c) = y
      BY Named DEF y
    <3>2. wr \in 0..Len(y)
      <4> HIDE DEF r
      <4> QED
        BY <2>3
    <3>3. SubSeq(y \o z, 1, wr) = SubSeq(y, 1, wr)
      BY <2>2, <3>2, FirstOfConcat
    <3> QED
      BY <1>4, <2>2, <3>1, <3>3 DEF Returns
  <2> QED
    BY <1>4, <2>7, <2>11, <2>12
<1> HIDE DEF s, r, c
<1> QED
  BY <1>2, <1>3, <1>4

\* Every chunk goes back.
LEMMA FreeKeeps ==
  ASSUME Kept, NEW b \in Buffers, Free(b)
  PROVE  /\ Kept' /\ written' = written
         /\ View(chunk', list') = [View(chunk, list) EXCEPT ![b] = << >>]
         /\ ret' = [op |-> "free", bytes |-> << >>, code |-> 0]
<1> DEFINE s == list[b]
           q == ContentIn(chunk, s)
           n == Len(q)
           k == Len(s)
<1>1. /\ chunk \in Memory /\ s \in Seq(Chunks) /\ k \in Nat /\ pool \in Seq(Chunks)
      /\ q \in Seq(Byte) /\ n \in Nat /\ length[b] = n
  BY KeptList, LenProperties
<1>2. /\ pool' = pool \o s /\ list' = [list EXCEPT ![b] = << >>]
      /\ length' = [length EXCEPT ![b] = 0]
      /\ ret' = [op |-> "free", bytes |-> << >>, code |-> 0]
      /\ chunk' = chunk /\ written' = written
  BY DEF Free, Emptied, Zeroed, Returns
<1>3. Reached(chunk, s, n, k)
  <2>1. LenIn(chunk, s, k) = n
    BY <1>1, LenInSteps
  <2> HIDE DEF n
  <2> QED
    BY <1>1, <2>1 DEF Reached
<1>4. LenIn(chunk, s, k) = n /\ ContentIn(chunk, Rest(s, k)) = Rest(q, LenIn(chunk, s, k))
  BY <1>1, <1>3, AllRead
<1>5. Rest(s, k) = << >> /\ SubSeq(s, 1, k) = s /\ Rest(q, n) = << >>
  <2>1. Rest(s, k) = << >> /\ SubSeq(s, 1, k) = s
    <3>1. Rest(s, Len(s)) = << >>
      BY <1>1, NothingLeft
    <3>2. SubSeq(s, 1, Len(s)) = s
      BY <1>1, AllOfIt
    <3> QED
      BY <3>1, <3>2
  <2> HIDE DEF q
  <2>2. Rest(q, n) = << >>
    BY <1>1, RestProperties
  <2> QED
    BY <2>1, <2>2
<1>6. n \in 0..Len(q) /\ k \in 0..Len(s) /\ k \in 0..k /\ n - n = 0
  BY <1>1
<1>7. Leaves(chunk, chunk', s, k, n)
  <2> HIDE DEF k, n
  <2> QED
    BY <1>1, <1>2, <1>4, <1>6 DEF Leaves
<1>8. TakenOff(b, k, k, n)
  BY <1>1, <1>2, <1>5, <1>6 DEF TakenOff
<1>9. Kept' /\ Shorter(b, n)
  <2>1. k \in 0..Len(list[b]) /\ Leaves(chunk, chunk', list[b], k, n)
    BY <1>6, <1>7
  <2> HIDE DEF k, n
  <2> QED
    BY ONLY Kept, b \in Buffers, <1>6, <1>8, <2>1, StoreTaken
<1>10. View(chunk, list)[b] = q
  BY KeptList
<1>11. View(chunk', list') = [View(chunk, list) EXCEPT ![b] = << >>]
  BY <1>5, <1>9, <1>10 DEF Shorter
<1> QED
  BY <1>2, <1>9, <1>11

\* Two lists of loaded chunks make one.
LEMMA JoinedLoaded ==
  ASSUME NEW ch, NEW s \in Seq(Chunks), NEW t \in Seq(Chunks),
         \A i \in 1..Len(s) : ch[s[i]].len > 0, \A i \in 1..Len(t) : ch[t[i]].len > 0
  PROVE  \A i \in 1..Len(s \o t) : ch[(s \o t)[i]].len > 0
<1> DEFINE u == s \o t
           m == Len(s)
           n == Len(t)
<1>1. /\ m \in Nat /\ n \in Nat /\ Len(u) = m + n
      /\ \A i \in 1..m + n : u[i] = IF i <= m THEN s[i] ELSE t[i - m]
  BY ConcatProperties, LenProperties
<1>2. /\ \A i \in 1..m : ch[s[i]].len > 0
      /\ \A i \in 1..n : ch[t[i]].len > 0
  OBVIOUS
<1> HIDE DEF u, m, n
<1>3. ASSUME NEW i \in 1..m + n PROVE ch[u[i]].len > 0
  <2>1. CASE i <= m
    <3>1. i \in 1..m /\ u[i] = s[i]
      BY <1>1, <2>1
    <3> QED
      BY <1>2, <3>1
  <2>2. CASE ~(i <= m)
    <3>1. i - m \in 1..n
      BY <1>1, <2>2
    <3>2. u[i] = t[i - m]
      BY <1>1, <2>2
    <3> QED
      BY <1>2, <3>1, <3>2
  <2> QED
    BY <2>1, <2>2
<1> QED
  BY <1>1, <1>3 DEF u

\* One list joins another, with all it holds.
LEMMA MoveKeeps ==
  ASSUME Kept, NEW dest \in Buffers, NEW from \in Buffers, MoveTo(dest, from)
  PROVE  /\ Kept' /\ written' = written
         /\ View(chunk', list') =
              IF dest = from THEN View(chunk, list)
              ELSE [View(chunk, list) EXCEPT ![dest] = @ \o View(chunk, list)[from],
                                             ![from] = << >>]
         /\ ret' = [op |-> "moveto", bytes |-> << >>, code |-> Len(View(chunk, list)[from])]
<1>1. /\ Owned(list, pool) /\ chunk \in Memory /\ Loaded(chunk, list)
      /\ length \in [Buffers -> Nat]
      /\ \A d \in Buffers : length[d] = Len(ContentIn(chunk, list[d]))
  BY DEF Kept, Store, Counted
<1>2. list \in [Buffers -> Seq(Chunks)]
  BY <1>1 DEF Owned
<1>3. /\ list' = [[list EXCEPT ![from] = << >>] EXCEPT ![dest] = @ \o list[from]]
      /\ length' = [[length EXCEPT ![from] = 0] EXCEPT ![dest] = @ + length[from]]
      /\ ret' = [op |-> "moveto", bytes |-> << >>, code |-> length[from]]
      /\ chunk' = chunk /\ pool' = pool /\ written' = written
  BY DEF MoveTo, Emptied, Zeroed, Joined, Returns
<1>4. length[from] = Len(View(chunk, list)[from])
  BY <1>1 DEF View
<1>5. CASE dest = from
  <2>1. << >> \o list[from] = list[from] /\ 0 + length[from] = length[from]
    <3>1. list[from] \in Seq(Chunks) /\ length[from] \in Nat
      BY <1>1, <1>2
    <3> QED
      BY <3>1
  <2>2. list' = list /\ length' = length
    <3>1. list' = [list EXCEPT ![from] = << >> \o list[from]]
      BY <1>2, <1>3, <1>5
    <3>2. length' = [length EXCEPT ![from] = 0 + length[from]]
      BY <1>1, <1>3, <1>5
    <3> QED
      BY <1>1, <1>2, <2>1, <3>1, <3>2
  <2>3. Kept'
    BY <1>3, <2>2 DEF Kept, Store
  <2> QED
    BY <1>3, <1>4, <1>5, <2>2, <2>3
<1>6. CASE dest # from
  <2> DEFINE s == list[dest]
             t == list[from]
             u == s \o t
  <2>1. /\ s \in Seq(Chunks) /\ t \in Seq(Chunks) /\ u \in Seq(Chunks)
        /\ Len(s) \in Nat /\ Len(t) \in Nat /\ Len(u) = Len(s) + Len(t)
        /\ \A i \in 1..Len(s) + Len(t) : u[i] = IF i <= Len(s) THEN s[i] ELSE t[i - Len(s)]
    <3>1. s \in Seq(Chunks) /\ t \in Seq(Chunks)
      BY <1>2
    <3> QED
      BY <3>1, ConcatProperties, LenProperties
  <2>2. /\ list' = [list EXCEPT ![from] = << >>, ![dest] = u]
        /\ length' = [length EXCEPT ![from] = 0, ![dest] = length[dest] + length[from]]
    BY <1>1, <1>2, <1>3, <1>6
  <2>3. Owned(list', pool')
    <3>1. Owned([list EXCEPT ![from] = << >>, ![dest] = list[dest] \o list[from]], pool)
      BY <1>1, <1>6, OwnedMoved
    <3> QED
      BY <1>3, <2>2, <3>1
  <2>4. /\ list'[dest] = u /\ list'[from] = << >>
        /\ \A d \in Buffers : d # dest /\ d # from => list'[d] = list[d]
        /\ length'[dest] = length[dest] + length[from] /\ length'[from] = 0
        /\ \A d \in Buffers : d # dest /\ d # from => length'[d] = length[d]
        /\ length' \in [Buffers -> Nat]
    <3>1. length[dest] \in Nat /\ length[from] \in Nat /\ length[dest] + length[from] \in Nat
      BY <1>1
    <3> QED
      BY <1>1, <1>2, <1>6, <2>2, <3>1
  <2>5. /\ ContentIn(chunk, u) = ContentIn(chunk, s) \o ContentIn(chunk, t)
        /\ ContentIn(chunk, s) \in Seq(Byte) /\ ContentIn(chunk, t) \in Seq(Byte)
    BY <1>1, <2>1, ContentConcat, PartsType
  <2>6. ContentIn(chunk, << >>) = << >> /\ Len(<< >>) = 0
    <3>1. Parts(chunk, << >>) = << >>
      BY EmptySeq DEF Parts
    <3> QED
      BY <3>1, FlattenEmpty, EmptySeq DEF ContentIn
  <2>7. Loaded(chunk, list')
    <3> SUFFICES ASSUME NEW d \in Buffers, NEW i \in 1..Len(list'[d])
                 PROVE  chunk[list'[d][i]].len > 0
      BY DEF Loaded
    <3>1. CASE d = dest
      <4>1. \A j \in 1..Len(s) : chunk[s[j]].len > 0
        BY <1>1 DEF Loaded
      <4>2. \A j \in 1..Len(t) : chunk[t[j]].len > 0
        BY <1>1 DEF Loaded
      <4>3. \A j \in 1..Len(u) : chunk[u[j]].len > 0
        BY <2>1, <4>1, <4>2, JoinedLoaded
      <4> QED
        BY <2>4, <3>1, <4>3
    <3>2. CASE d = from
      <4>1. Len(list'[d]) = 0
        BY <2>4, <2>6, <3>2
      <4> QED
        BY <4>1
    <3>3. CASE d # dest /\ d # from
      BY <1>1, <2>4, <3>3 DEF Loaded
    <3> QED
      BY <3>1, <3>2, <3>3
  <2>8. Counted(chunk, list', length')
    <3> SUFFICES ASSUME NEW d \in Buffers PROVE length'[d] = Len(ContentIn(chunk, list'[d]))
      BY <2>4 DEF Counted
    <3>1. CASE d = dest
      <4> DEFINE a == ContentIn(chunk, s)
                 e == ContentIn(chunk, t)
      <4>1. length[dest] = Len(a) /\ length[from] = Len(e)
        BY <1>1
      <4>2. a \in Seq(Byte) /\ e \in Seq(Byte) /\ ContentIn(chunk, list'[d]) = a \o e
        BY <2>4, <2>5, <3>1
      <4> HIDE DEF a, e
      <4>3. Len(a \o e) = Len(a) + Len(e)
        BY <4>2, ConcatProperties
      <4> QED
        BY <2>4, <3>1, <4>1, <4>2, <4>3
    <3>2. CASE d = from
      BY <2>4, <2>6, <3>2
    <3>3. CASE d # dest /\ d # from
      BY <1>1, <2>4, <3>3
    <3> QED
      BY <3>1, <3>2, <3>3
  <2>9. Kept'
    BY <1>1, <1>3, <2>3, <2>7, <2>8 DEF Kept, Store
  <2>10. \A d \in Buffers : ContentIn(chunk', list'[d]) =
           IF d = from THEN << >>
           ELSE IF d = dest THEN ContentIn(chunk, list[dest]) \o ContentIn(chunk, list[from])
           ELSE ContentIn(chunk, list[d])
    <3> TAKE d \in Buffers
    <3>1. CASE d = from
      BY <1>3, <1>6, <2>4, <2>6, <3>1
    <3>2. CASE d = dest
      BY <1>3, <1>6, <2>4, <2>5, <3>2
    <3>3. CASE d # dest /\ d # from
      <4>1. list'[d] = list[d] /\ chunk' = chunk
        BY <1>3, <2>4, <3>3
      <4> QED
        BY <3>3, <4>1
    <3> QED
      BY <3>1, <3>2, <3>3
  <2>11. View(chunk', list') = [View(chunk, list) EXCEPT ![dest] = @ \o View(chunk, list)[from],
                                                         ![from] = << >>]
    BY <1>6, <2>10 DEF View
  <2> QED
    BY <1>3, <1>4, <1>6, <2>9, <2>11
<1> QED
  BY <1>5, <1>6

\* Chunks join a list, with what is in them; the first k of the pool are among them.
NewChunks(f, k) ==
  /\ f \in [1..k -> Chunks]
  /\ \A i, j \in 1..k : f[i] = f[j] => i = j
  /\ \A d \in Buffers : \A i \in 1..k, j \in 1..Len(list[d]) : f[i] # list[d][j]
  /\ \A i \in 1..k, j \in 1..Len(pool) : f[i] = pool[j] => j <= k

LEMMA ObtainedAreNew ==
  ASSUME Kept, NEW k \in Nat, NEW f \in Obtained(k)
  PROVE  NewChunks(f, k)
<1> DEFINE m == Least(k, Len(pool))
<1>1. /\ f \in [1..k -> Chunks]
      /\ \A i \in 1..m : f[i] = pool[i]
      /\ \A i \in m + 1..k : f[i] \notin InUse
      /\ \A i, j \in m + 1..k : f[i] = f[j] => i = j
  BY DEF Obtained
<1>2. /\ list \in [Buffers -> Seq(Chunks)] /\ pool \in Seq(Chunks)
      /\ \A i, j \in 1..Len(pool) : pool[i] = pool[j] => i = j
      /\ \A d \in Buffers : \A i \in 1..Len(list[d]), j \in 1..Len(pool) : list[d][i] # pool[j]
  BY DEF Kept, Store, Owned
<1>3. Len(pool) \in Nat
  BY <1>2, LenProperties
<1>4. m \in Nat /\ m <= k /\ m <= Len(pool)
  BY <1>3 DEF Least
<1>5. \A j \in 1..Len(pool) : pool[j] \in InUse
  <2>1. \A j \in 1..Len(pool) : pool[j] \in Range(pool)
    BY <1>2, <1>3 DEF Range
  <2> QED
    BY <2>1 DEF InUse
<1>6. \A d \in Buffers : \A j \in 1..Len(list[d]) : list[d][j] \in InUse
  <2>1. ASSUME NEW d \in Buffers, NEW j \in 1..Len(list[d]) PROVE list[d][j] \in Range(list[d])
    <3>1. list[d] \in Seq(Chunks)
      BY <1>2
    <3> QED
      BY <3>1, LenProperties DEF Range
  <2> QED
    BY <2>1 DEF InUse
<1> HIDE DEF m
<1>7. \A i \in 1..k : \/ i \in 1..m /\ i \in 1..Len(pool) /\ f[i] = pool[i]
                      \/ i \in m + 1..k /\ f[i] \notin InUse
  <2> TAKE i \in 1..k
  <2>1. (i \in 1..m /\ i \in 1..Len(pool)) \/ i \in m + 1..k
    BY <1>3, <1>4
  <2> QED
    BY <1>1, <2>1
<1>8. ASSUME NEW i \in 1..k, NEW j \in 1..k, f[i] = f[j] PROVE i = j
  <2>1. CASE i \in 1..m /\ i \in 1..Len(pool) /\ f[i] = pool[i]
    BY <1>2, <1>5, <1>7, <1>8, <2>1
  <2>2. CASE i \in m + 1..k /\ f[i] \notin InUse
    BY <1>1, <1>5, <1>7, <1>8, <2>2
  <2> QED
    BY <1>7, <2>1, <2>2
<1>9. ASSUME NEW d \in Buffers, NEW i \in 1..k, NEW j \in 1..Len(list[d])
      PROVE  f[i] # list[d][j]
  BY <1>2, <1>6, <1>7
<1>10. ASSUME NEW i \in 1..k, NEW j \in 1..Len(pool), f[i] = pool[j] PROVE j <= k
  <2>1. i = j
    BY <1>2, <1>5, <1>7, <1>10
  <2> QED
    BY <2>1
<1> QED
  BY <1>1, <1>8, <1>9, <1>10 DEF NewChunks

\* Only the new chunks change, and none of them is empty.
Poured(f, k) ==
  /\ chunk' \in Memory
  /\ \A i \in 1..k : chunk'[f[i]].len > 0
  /\ \A c \in Chunks : (\A i \in 1..k : c # f[i]) => chunk'[c] = chunk[c]

PutBehind(b, f, k, w) ==
  /\ list' = [list EXCEPT ![b] = @ \o f]
  /\ pool' = Rest(pool, k)
  /\ length' = [length EXCEPT ![b] = @ + Len(w)]

Extended(b, w) == View(chunk', list') = [View(chunk, list) EXCEPT ![b] = @ \o w]

LEMMA StoreWritten ==
  ASSUME Kept, NEW b \in Buffers, NEW k \in Nat, NEW f \in Seq(Chunks), Len(f) = k,
         NewChunks(f, k), Poured(f, k),
         NEW w \in Seq(Byte), w = ContentIn(chunk', f), PutBehind(b, f, k, w)
  PROVE  Kept' /\ Extended(b, w)
<1> USE DEF Poured, PutBehind, Extended
<1>1. /\ Owned(list, pool) /\ chunk \in Memory /\ Loaded(chunk, list)
      /\ length \in [Buffers -> Nat]
      /\ \A d \in Buffers : length[d] = Len(ContentIn(chunk, list[d]))
  BY DEF Kept, Store, Counted
<1>2. list \in [Buffers -> Seq(Chunks)]
  BY <1>1 DEF Owned
<1>3. Owned(list', pool')
  <2>1. /\ Owned(list, pool) /\ b \in Buffers /\ k \in Nat /\ f \in [1..k -> Chunks]
        /\ \A i, j \in 1..k : f[i] = f[j] => i = j
        /\ \A d \in Buffers : \A i \in 1..k, j \in 1..Len(list[d]) : f[i] # list[d][j]
        /\ \A i \in 1..k, j \in 1..Len(pool) : f[i] = pool[j] => j <= k
    BY <1>1 DEF NewChunks
  <2>2. Owned([list EXCEPT ![b] = list[b] \o f], Rest(pool, k))
    BY <2>1, OwnedGiven, Zenon
  <2> QED
    BY <2>2
<1>4. \A d \in Buffers : list[d] \in Seq(Chunks) /\ ContentIn(chunk', list[d]) = ContentIn(chunk, list[d])
                         /\ \A i \in 1..Len(list[d]) : chunk'[list[d][i]] = chunk[list[d][i]]
  <2> TAKE d \in Buffers
  <2>1. list[d] \in Seq(Chunks)
    BY <1>2
  <2>2. ASSUME NEW i \in 1..Len(list[d]) PROVE chunk'[list[d][i]] = chunk[list[d][i]]
    <3>1. list[d][i] \in Chunks
      BY <2>1, ElementOfSeq
    <3>2. \A j \in 1..k : list[d][i] # f[j]
      BY DEF NewChunks
    <3> QED
      BY <3>1, <3>2
  <2>3. ContentIn(chunk', list[d]) = ContentIn(chunk, list[d])
    BY <2>1, <2>2, Untouched
  <2> QED
    BY <2>1, <2>2, <2>3
<1> DEFINE s == list[b]
           q == ContentIn(chunk, s)
           u == s \o f
<1>5. /\ ContentIn(chunk', u) = q \o w /\ q \in Seq(Byte)
  <2>1. s \in Seq(Chunks) /\ ContentIn(chunk', s) = q
    BY <1>4
  <2>2. ContentIn(chunk', s \o f) = ContentIn(chunk', s) \o ContentIn(chunk', f)
    BY <2>1, ContentConcat
  <2>3. q \in Seq(Byte)
    BY <1>1, <2>1, PartsType
  <2> QED
    BY <2>1, <2>2, <2>3
<1>6. list'[b] = u /\ \A d \in Buffers : d # b => list'[d] = list[d]
  BY <1>2
<1>7. Loaded(chunk', list')
  <2> SUFFICES ASSUME NEW d \in Buffers, NEW i \in 1..Len(list'[d])
               PROVE  chunk'[list'[d][i]].len > 0
    BY DEF Loaded
  <2>1. CASE d = b
    <3>1. \A j \in 1..Len(s) : chunk'[s[j]].len > 0
      BY <1>1, <1>4 DEF Loaded
    <3>2. s \in Seq(Chunks) /\ \A j \in 1..Len(f) : chunk'[f[j]].len > 0
      BY <1>2
    <3>3. \A j \in 1..Len(u) : chunk'[u[j]].len > 0
      BY <3>1, <3>2, JoinedLoaded
    <3> QED
      BY <1>6, <2>1, <3>3
  <2>2. CASE d # b
    <3>1. i \in 1..Len(list[d]) /\ list'[d] = list[d]
      BY <1>6, <2>2
    <3>2. chunk[list[d][i]].len > 0 /\ chunk'[list[d][i]] = chunk[list[d][i]]
      BY <1>1, <1>4, <3>1 DEF Loaded
    <3> QED
      BY <3>1, <3>2
  <2> QED
    BY <2>1, <2>2
<1>8. Counted(chunk', list', length')
  <2>1. Len(q) \in Nat /\ Len(w) \in Nat /\ Len(q \o w) = Len(q) + Len(w)
    BY <1>5, ConcatProperties, LenProperties
  <2>2. length[b] = Len(q)
    BY <1>1
  <2> HIDE DEF q, u
  <2>3. length[b] + Len(w) \in Nat
    BY <2>1, <2>2
  <2>4. /\ length' \in [Buffers -> Nat] /\ length'[b] = Len(q) + Len(w)
        /\ \A d \in Buffers : d # b => length'[d] = length[d]
    BY <1>1, <2>2, <2>3
  <2> SUFFICES ASSUME NEW d \in Buffers PROVE length'[d] = Len(ContentIn(chunk', list'[d]))
    BY <2>4 DEF Counted
  <2>5. CASE d = b
    BY <1>5, <1>6, <2>1, <2>4, <2>5
  <2>6. CASE d # b
    BY <1>1, <1>4, <1>6, <2>4, <2>6
  <2> QED
    BY <2>5, <2>6
<1>9. Kept'
  BY <1>3, <1>7, <1>8 DEF Kept, Store
<1>10. \A d \in Buffers : ContentIn(chunk', list'[d]) = IF d = b THEN q \o w ELSE ContentIn(chunk, list[d])
  <2> TAKE d \in Buffers
  <2>1. CASE d = b
    BY <1>5, <1>6, <2>1
  <2>2. CASE d # b
    BY <1>4, <1>6, <2>2
  <2> QED
    BY <2>1, <2>2
<1>11. View(chunk', list') = [View(chunk, list) EXCEPT ![b] = @ \o w]
  BY <1>10 DEF View
<1> QED
  BY <1>9, <1>11

\* What of a sequence is behind the first i and among the first j.
Slice(s, i, j) == SubSeq(s, i + 1, j)

LEMMA SliceProperties ==
  ASSUME NEW S, NEW s \in Seq(S), NEW i \in Nat, NEW j \in Nat, i <= j, j <= Len(s)
  PROVE  /\ Slice(s, i, j) \in Seq(S) /\ Len(Slice(s, i, j)) = j - i
         /\ \A x \in 1..j - i : Slice(s, i, j)[x] = s[i + x]
<1>1. Len(s) \in Nat /\ \A x \in 1..Len(s) : s[x] \in S
  BY LenProperties, ElementOfSeq
<1>2. \A x \in i + 1..j : s[x] \in S
  BY <1>1
<1>3. /\ SubSeq(s, i + 1, j) \in Seq(S)
      /\ Len(SubSeq(s, i + 1, j)) = IF i + 1 <= j THEN j - (i + 1) + 1 ELSE 0
      /\ \A x \in 1..j - (i + 1) + 1 : SubSeq(s, i + 1, j)[x] = s[i + 1 + x - 1]
  BY <1>1, <1>2, SubSeqProperties
<1> QED
  BY <1>3 DEF Slice

\* A beginning and the slice behind it make a longer beginning.
LEMMA JoinSlice ==
  ASSUME NEW S, NEW s \in Seq(S), NEW i \in Nat, NEW j \in Nat, i <= j, j <= Len(s)
  PROVE  SubSeq(s, 1, i) \o Slice(s, i, j) = SubSeq(s, 1, j)
<1> DEFINE a == SubSeq(s, 1, i)
           b == Slice(s, i, j)
           c == SubSeq(s, 1, j)
           d == a \o b
<1>1. Len(s) \in Nat /\ i <= Len(s)
  BY LenProperties
<1>2. a \in Seq(S) /\ Len(a) = i /\ \A x \in 1..i : a[x] = s[x]
  BY <1>1, FirstProperties
<1>3. c \in Seq(S) /\ Len(c) = j /\ \A x \in 1..j : c[x] = s[x]
  BY <1>1, FirstProperties
<1>4. b \in Seq(S) /\ Len(b) = j - i /\ \A x \in 1..j - i : b[x] = s[i + x]
  BY SliceProperties
<1> HIDE DEF a, b, c
<1>5. /\ d \in Seq(S) /\ Len(d) = i + (j - i)
      /\ \A x \in 1..i + (j - i) : d[x] = IF x <= i THEN a[x] ELSE b[x - i]
  BY <1>2, <1>4, ConcatProperties
<1>6. i + (j - i) = j
  OBVIOUS
<1> HIDE DEF d
<1>7. ASSUME NEW x \in 1..j PROVE d[x] = c[x]
  <2>1. CASE x <= i
    <3>1. x \in 1..i
      BY <2>1
    <3> QED
      BY <1>2, <1>3, <1>5, <1>6, <2>1, <3>1
  <2>2. CASE ~(x <= i)
    <3>1. x - i \in 1..j - i /\ i + (x - i) = x
      BY <2>2
    <3>2. d[x] = b[x - i] /\ b[x - i] = s[i + (x - i)]
      BY <1>4, <1>5, <1>6, <2>2, <3>1
    <3> QED
      BY <1>3, <3>1, <3>2
  <2> QED
    BY <2>1, <2>2
<1>8. d = c
  BY <1>3, <1>5, <1>6, <1>7, SeqEqual
<1> QED
  BY <1>8 DEF a, b, c, d

\* Chunks that are filled with one slice after the other hold the whole.
LEMMA FilledInTurn ==
  ASSUME NEW ch \in Memory, NEW f \in Seq(Chunks), NEW k \in Nat, Len(f) = k,
         NEW w \in Seq(Byte), NEW e \in [0..k -> Nat], e[0] = 0, e[k] = Len(w),
         \A j \in 0..k - 1 : e[j] <= e[j + 1] /\ e[j + 1] <= Len(w),
         \A j \in 0..k - 1 : BytesIn(ch, f[j + 1]) = Slice(w, e[j], e[j + 1])
  PROVE  ContentIn(ch, f) = w
<1> DEFINE G == {j \in Nat : j <= k => ContentIn(ch, SubSeq(f, 1, j)) = SubSeq(w, 1, e[j])}
<1>1. 0 \in G
  <2>1. SubSeq(f, 1, 0) = << >> /\ SubSeq(w, 1, 0) = << >>
    BY SubSeqEmpty
  <2>2. ContentIn(ch, << >>) = << >>
    <3>1. Parts(ch, << >>) = << >>
      BY EmptySeq DEF Parts
    <3> QED
      BY <3>1, FlattenEmpty DEF ContentIn
  <2> QED
    BY <2>1, <2>2
<1>2. ASSUME NEW j \in Nat, j \in G PROVE j + 1 \in G
  <2> SUFFICES ASSUME j + 1 <= k
               PROVE  ContentIn(ch, SubSeq(f, 1, j + 1)) = SubSeq(w, 1, e[j + 1])
    OBVIOUS
  <2>1. j < Len(f) /\ j \in 0..k - 1 /\ j <= k /\ j \in 0..k /\ j + 1 \in 0..k
    OBVIOUS
  <2>2. ContentIn(ch, SubSeq(f, 1, j)) = SubSeq(w, 1, e[j])
    BY <1>2, <2>1
  <2>3. ContentIn(ch, SubSeq(f, 1, j + 1)) = ContentIn(ch, SubSeq(f, 1, j)) \o BytesIn(ch, f[j + 1])
    BY <2>1, ContentNext
  <2>4. BytesIn(ch, f[j + 1]) = Slice(w, e[j], e[j + 1])
    BY <2>1
  <2>5. e[j] \in Nat /\ e[j + 1] \in Nat /\ e[j] <= e[j + 1] /\ e[j + 1] <= Len(w)
    BY <2>1
  <2>6. SubSeq(w, 1, e[j]) \o Slice(w, e[j], e[j + 1]) = SubSeq(w, 1, e[j + 1])
    <3> DEFINE x == e[j]
               y == e[j + 1]
    <3>1. x \in Nat /\ y \in Nat /\ x <= y /\ y <= Len(w)
      BY <2>5
    <3> HIDE DEF x, y
    <3>2. SubSeq(w, 1, x) \o Slice(w, x, y) = SubSeq(w, 1, y)
      BY <3>1, JoinSlice
    <3> QED
      BY <3>2 DEF x, y
  <2> QED
    BY <2>2, <2>3, <2>4, <2>6
<1>3. k \in G
  <2>1. \A j \in Nat : j \in G => j + 1 \in G
    BY <1>2
  <2> HIDE DEF G
  <2> QED
    BY <1>1, <2>1, Induction
<1>4. ContentIn(ch, SubSeq(f, 1, k)) = SubSeq(w, 1, e[k])
  BY <1>3
<1>5. SubSeq(f, 1, Len(f)) = f /\ SubSeq(w, 1, Len(w)) = w
  BY AllOfIt
<1> QED
  BY <1>4, <1>5

ClearOf(r) == [r EXCEPT !.pos = 0, !.len = 0]

LEMMA Cleared ==
  ASSUME NEW r, r = [pos |-> r.pos, len |-> r.len, data |-> r.data]
  PROVE  ClearOf(r) = [pos |-> 0, len |-> 0, data |-> r.data]
<1> DEFINE z == [r EXCEPT !.pos = 0, !.len = 0]
<1>1. DOMAIN z = {"pos", "len", "data"} /\ z = [x \in {"pos", "len", "data"} |-> z[x]]
  OBVIOUS
<1>2. z["pos"] = 0 /\ z["len"] = 0 /\ z["data"] = r.data
  OBVIOUS
<1>4. ClearOf(r) = z
  BY DEF ClearOf
<1> HIDE DEF z
<1>3. z = [pos |-> 0, len |-> 0, data |-> r.data]
  BY <1>1, <1>2
<1> QED
  BY <1>3, <1>4

\* A chunk that is taken into use and filled.
Refilled(r, w) == Filled(ClearOf(r), w)

LEMMA RefilledIs ==
  ASSUME NEW r \in GoodChunk, NEW w \in Seq(Byte), Len(w) <= ChunkSize
  PROVE  /\ Refilled(r, w) \in GoodChunk
         /\ Refilled(r, w).pos = 0 /\ Refilled(r, w).len = Len(w)
         /\ \A i \in 1..Len(w) : Refilled(r, w).data[i] = w[i]
<1>1. ChunkSize \in Nat /\ Len(w) \in Nat
  BY BufferAssumption, LenProperties
<1>2. r.data \in [1..ChunkSize -> Byte] /\ r \in [pos : 0..ChunkSize, len : 0..ChunkSize, data : [1..ChunkSize -> 0..MaxBytes]]
  BY DEF GoodChunk, ChunkType, Byte
<1> DEFINE d == [i \in 1..ChunkSize |-> IF i \in 1..Len(w) THEN w[i] ELSE r.data[i]]
           g == [pos |-> 0, len |-> Len(w), data |-> d]
<1>3. d \in [1..ChunkSize -> Byte]
  <2>1. \A i \in 1..ChunkSize : (IF i \in 1..Len(w) THEN w[i] ELSE r.data[i]) \in Byte
    BY <1>2, ElementOfSeq
  <2> QED
    BY <2>1
<1>4. Refilled(r, w) = g
  <2> DEFINE z == ClearOf(r)
  <2>1. z = [pos |-> 0, len |-> 0, data |-> r.data]
    <3>1. r = [pos |-> r.pos, len |-> r.len, data |-> r.data]
      BY <1>2
    <3> QED
      BY ONLY <3>1, Cleared
  <2> HIDE DEF z
  <2>2. z.pos = 0 /\ z.len = 0 /\ z.data = r.data
    BY <2>1
  <2>3. \A i \in 1..ChunkSize :
          (IF i \in z.pos + z.len + 1 .. z.pos + z.len + Len(w)
           THEN w[i - z.pos - z.len] ELSE z.data[i]) = d[i]
    BY <1>1, <2>2
  <2>4. Refilled(r, w) = [z EXCEPT !.len = z.len + Len(w), !.data = d]
    BY <2>3 DEF Refilled, Filled, z
  <2>5. z.len + Len(w) = Len(w)
    BY <1>1, <2>2
  <2> HIDE DEF d
  <2> QED
    BY <2>1, <2>4, <2>5
<1>5. \A i \in 1..Len(w) : d[i] = w[i]
  BY <1>1
<1> HIDE DEF d
<1>6. g \in GoodChunk
  BY <1>1, <1>3 DEF GoodChunk, ChunkType, Byte
<1> QED
  BY <1>4, <1>5, <1>6

\* As many chunks as n bytes need, and how far each of them reaches.
Pages(n) == (n + ChunkSize - 1) \div ChunkSize
Ends(n) == [j \in 0..Pages(n) |-> IF j = Pages(n) THEN n ELSE j * ChunkSize]

LEMMA PagesBound ==
  ASSUME NEW c \in Nat, c # 0, NEW n \in Nat, n # 0, NEW k, k = (n + c - 1) \div c
  PROVE  k \in Nat /\ k >= 1 /\ (k - 1) * c < n /\ n <= k * c
<1> SUFFICES k \in Nat /\ k >= 1 /\ (k - 1) * c < n /\ n <= k * c
  OBVIOUS
<1> QED
  OBVIOUS

LEMMA Multiples ==
  ASSUME NEW c \in Nat, NEW j \in Nat, NEW k \in Nat, j <= k
  PROVE  j * c \in Nat /\ j * c <= k * c /\ (j + 1) * c = j * c + c
<1>1. k = j + (k - j) /\ k - j \in Nat
  OBVIOUS
<1>2. \A x \in Nat : x * c \in Nat
  OBVIOUS
<1>3. k * c = j * c + (k - j) * c
  OBVIOUS
<1>4. (j + 1) * c = j * c + c
  OBVIOUS
<1>5. (k - j) * c \in Nat /\ j * c \in Nat
  BY <1>1, <1>2
<1> QED
  BY <1>3, <1>4, <1>5

LEMMA EndsAre ==
  ASSUME NEW n \in Nat, n # 0
  PROVE  /\ Pages(n) \in Nat /\ Pages(n) >= 1
         /\ Ends(n) \in [0..Pages(n) -> Nat] /\ Ends(n)[0] = 0 /\ Ends(n)[Pages(n)] = n
         /\ \A j \in 0..Pages(n) - 1 :
              /\ Ends(n)[j] = j * ChunkSize
              /\ Ends(n)[j] < Ends(n)[j + 1] /\ Ends(n)[j + 1] <= n
              /\ Ends(n)[j + 1] - Ends(n)[j] <= ChunkSize
<1> DEFINE k == Pages(n)
           c == ChunkSize
           e == Ends(n)
<1>1. c \in Nat /\ c # 0
  BY BufferAssumption
<1>2. k \in Nat /\ k >= 1 /\ (k - 1) * c < n /\ n <= k * c
  BY <1>1, PagesBound DEF Pages
<1>3. e = [j \in 0..k |-> IF j = k THEN n ELSE j * c]
  BY DEF Ends
<1> HIDE DEF k, c, e
<1>4. \A j \in 0..k : j * c \in Nat
  BY <1>1, <1>2, Multiples
<1>5. e \in [0..k -> Nat]
  BY <1>3, <1>4
<1>6. e[0] = 0 /\ e[k] = n
  <2>1. 0 \in 0..k /\ k \in 0..k /\ 0 # k
    BY <1>2
  <2>2. 0 * c = 0
    BY <1>1
  <2> QED
    BY <1>3, <2>1, <2>2
<1>7. ASSUME NEW j \in 0..k - 1
      PROVE  e[j] = j * c /\ e[j] < e[j + 1] /\ e[j + 1] <= n /\ e[j + 1] - e[j] <= c
  <2>1. j \in Nat /\ j \in 0..k /\ j + 1 \in 0..k /\ j # k /\ k - 1 \in Nat /\ j <= k - 1
    BY <1>2
  <2>2. e[j] = j * c
    BY <1>3, <2>1
  <2>3. j * c \in Nat /\ j * c <= (k - 1) * c /\ (j + 1) * c = j * c + c
    BY <1>1, <2>1, Multiples
  <2>4. (k - 1) * c \in Nat
    BY <1>1, <2>1, Multiples
  <2> DEFINE x == j * c
             y == (k - 1) * c
  <2>5. CASE j + 1 = k
    <3>1. e[j + 1] = n
      BY <1>6, <2>5
    <3>2. k * c = (j + 1) * c
      BY <2>5
    <3>3. n <= x + c /\ x <= y /\ y < n /\ x \in Nat /\ y \in Nat
      BY <1>2, <2>3, <2>4, <3>2
    <3> HIDE DEF x, y
    <3>4. x < n /\ n - x <= c
      BY <1>1, <3>3
    <3> QED
      BY <2>2, <3>1, <3>4 DEF x
  <2>6. CASE j + 1 # k
    <3>1. e[j + 1] = (j + 1) * c
      BY <1>3, <2>1, <2>6
    <3>2. j + 1 <= k - 1 /\ j + 1 \in Nat
      BY <1>2, <2>1, <2>6
    <3>3. (j + 1) * c <= y
      BY <1>1, <2>1, <3>2, Multiples
    <3>4. x \in Nat /\ y \in Nat /\ x + c <= y /\ y < n /\ e[j + 1] = x + c
      BY <1>2, <2>3, <2>4, <3>1, <3>3
    <3> HIDE DEF x, y
    <3>5. x < x + c /\ x + c <= n /\ (x + c) - x <= c
      BY <1>1, <3>4
    <3> QED
      BY <2>2, <3>4, <3>5 DEF x
  <2> QED
    BY <2>5, <2>6
<1> QED
  BY <1>2, <1>5, <1>6, <1>7 DEF k, c, e

\* Bytes are put into chunks, page by page.
LEMMA PagesFilled ==
  ASSUME NEW ch \in Memory, NEW n \in Nat, n # 0, NEW f \in Seq(Chunks), Len(f) = Pages(n),
         NEW w \in Seq(Byte), Len(w) = n,
         NEW dh, dh = [c \in Chunks |-> dh[c]],
         \A j \in 0..Pages(n) - 1 :
           dh[f[j + 1]] = Refilled(ch[f[j + 1]], Slice(w, Ends(n)[j], Ends(n)[j + 1])),
         \A c \in Chunks : (\A i \in 1..Pages(n) : c # f[i]) => dh[c] = ch[c]
  PROVE  /\ dh \in Memory /\ ContentIn(dh, f) = w
         /\ \A i \in 1..Pages(n) : dh[f[i]].len > 0
<1> DEFINE k == Pages(n)
           e == Ends(n)
           p(j) == Slice(w, e[j], e[j + 1])
<1>1. /\ k \in Nat /\ k >= 1 /\ e \in [0..k -> Nat] /\ e[0] = 0 /\ e[k] = n
      /\ \A j \in 0..k - 1 : e[j] < e[j + 1] /\ e[j + 1] <= n /\ e[j + 1] - e[j] <= ChunkSize
  BY EndsAre
<1>2. \A j \in 0..k - 1 : dh[f[j + 1]] = Refilled(ch[f[j + 1]], p(j))
  OBVIOUS
<1>0. \A c \in Chunks : (\A i \in 1..k : c # f[i]) => dh[c] = ch[c]
  OBVIOUS
<1>9. Len(f) = k
  OBVIOUS
<1> HIDE DEF k, e
<1>3. ASSUME NEW j \in 0..k - 1
      PROVE  /\ f[j + 1] \in Chunks /\ ch[f[j + 1]] \in GoodChunk /\ j + 1 \in 1..k
             /\ p(j) \in Seq(Byte) /\ Len(p(j)) > 0 /\ Len(p(j)) <= ChunkSize
  <2>1. j \in 0..k /\ j + 1 \in 0..k /\ j + 1 \in 1..k
    BY <1>1
  <2>2. f[j + 1] \in Chunks
    BY <1>9, <2>1, ElementOfSeq
  <2>3. ch[f[j + 1]] \in GoodChunk
    BY <2>2 DEF Memory
  <2> DEFINE x == e[j]
             y == e[j + 1]
  <2>4. x \in Nat /\ y \in Nat /\ x < y /\ y <= n /\ y - x <= ChunkSize
    BY <1>1, <2>1
  <2> HIDE DEF x, y
  <2>5. x <= y /\ y <= Len(w)
    BY <2>4
  <2>6. Slice(w, x, y) \in Seq(Byte) /\ Len(Slice(w, x, y)) = y - x
    BY <2>4, <2>5, SliceProperties
  <2>7. y - x > 0
    BY <2>4
  <2>8. Slice(w, x, y) \in Seq(Byte) /\ Len(Slice(w, x, y)) > 0 /\ Len(Slice(w, x, y)) <= ChunkSize
    BY <2>4, <2>6, <2>7
  <2>9. p(j) = Slice(w, x, y)
    BY DEF x, y
  <2> QED
    BY <2>1, <2>2, <2>3, <2>8, <2>9
<1> HIDE DEF p
<1>4. ASSUME NEW j \in 0..k - 1
      PROVE  /\ dh[f[j + 1]] \in GoodChunk
             /\ dh[f[j + 1]].pos = 0 /\ dh[f[j + 1]].len = Len(p(j))
             /\ \A i \in 1..Len(p(j)) : dh[f[j + 1]].data[i] = p(j)[i]
  <2> DEFINE r == ch[f[j + 1]]
             v == p(j)
  <2>1. r \in GoodChunk /\ v \in Seq(Byte) /\ Len(v) <= ChunkSize
    BY <1>3
  <2>2. dh[f[j + 1]] = Refilled(r, v)
    BY <1>2
  <2> HIDE DEF r, v
  <2>3. /\ Refilled(r, v) \in GoodChunk /\ Refilled(r, v).pos = 0 /\ Refilled(r, v).len = Len(v)
        /\ \A i \in 1..Len(v) : Refilled(r, v).data[i] = v[i]
    BY <2>1, RefilledIs
  <2>4. /\ dh[f[j + 1]] \in GoodChunk
        /\ dh[f[j + 1]].pos = 0 /\ dh[f[j + 1]].len = Len(v)
        /\ \A i \in 1..Len(v) : dh[f[j + 1]].data[i] = v[i]
    BY <2>2, <2>3
  <2> QED
    BY <2>4 DEF v
<1>5. dh \in Memory
  <2>1. ASSUME NEW c \in Chunks PROVE dh[c] \in GoodChunk
    <3>1. CASE \A i \in 1..k : c # f[i]
      BY <1>0, <3>1 DEF Memory
    <3>2. CASE \E i \in 1..k : c = f[i]
      <4>1. PICK i \in 1..k : c = f[i]
        BY <3>2
      <4>2. i - 1 \in 0..k - 1 /\ (i - 1) + 1 = i
        BY <1>1
      <4> QED
        BY <1>4, <4>1, <4>2
    <3> QED
      BY <3>1, <3>2
  <2>2. dh = [c \in Chunks |-> dh[c]]
    OBVIOUS
  <2> QED
    BY ONLY <2>1, <2>2 DEF Memory
<1>6. ASSUME NEW i \in 1..k PROVE dh[f[i]].len > 0
  <2>1. i - 1 \in 0..k - 1 /\ (i - 1) + 1 = i
    BY <1>1
  <2>2. dh[f[(i - 1) + 1]].len = Len(p(i - 1)) /\ Len(p(i - 1)) > 0
    BY <1>3, <1>4, <2>1
  <2> QED
    BY <2>1, <2>2
<1>7. ASSUME NEW j \in 0..k - 1 PROVE BytesIn(dh, f[j + 1]) = p(j)
  <2> DEFINE c == f[j + 1]
             v == p(j)
             a == BytesIn(dh, c)
  <2>1. c \in Chunks /\ v \in Seq(Byte) /\ Len(v) \in Nat
    BY <1>3, LenProperties
  <2>2. dh[c].pos = 0 /\ dh[c].len = Len(v) /\ \A i \in 1..Len(v) : dh[c].data[i] = v[i]
    BY <1>4
  <2>3. /\ a \in Seq(Byte) /\ Len(a) = dh[c].len
        /\ \A i \in 1..dh[c].len : a[i] = dh[c].data[dh[c].pos + i]
    BY <1>5, <2>1, BytesInType
  <2> HIDE DEF c, v, a
  <2>4. ASSUME NEW i \in 1..Len(v) PROVE a[i] = v[i]
    <3>1. 0 + i = i
      BY <2>1
    <3> QED
      BY <2>2, <2>3, <3>1
  <2>5. a = v
    BY <2>1, <2>2, <2>3, <2>4, SeqEqual
  <2> QED
    BY <2>5 DEF a, c, v
<1>8. ContentIn(dh, f) = w
  <2>1. \A j \in 0..k - 1 : e[j] <= e[j + 1] /\ e[j + 1] <= Len(w)
    <3> TAKE j \in 0..k - 1
    <3>1. e[j] \in Nat /\ e[j + 1] \in Nat
      <4>1. j \in 0..k /\ j + 1 \in 0..k
        BY <1>1
      <4> QED
        BY <1>1, <4>1
    <3> QED
      BY <1>1, <3>1
  <2>2. \A j \in 0..k - 1 : BytesIn(dh, f[j + 1]) = Slice(w, e[j], e[j + 1])
    BY <1>7 DEF p
  <2>3. dh \in Memory /\ k \in Nat /\ Len(f) = k /\ e \in [0..k -> Nat] /\ e[0] = 0 /\ e[k] = Len(w)
    BY <1>1, <1>5, <1>9
  <2> QED
    BY <2>1, <2>2, <2>3, FilledInTurn
<1> QED
  BY <1>5, <1>6, <1>8 DEF k

\* What is written is behind what the buffer holds.
LEMMA WriteKeeps ==
  ASSUME Kept, written \in 0..MaxBytes, NEW b \in Buffers, NEW n \in Nat, n # 0, Write(b, n)
  PROVE  /\ Kept' /\ written' \in 0..MaxBytes
         /\ \E w \in Seq(Byte) :
              /\ ret' = [op |-> "write", bytes |-> w, code |-> Len(w)]
              /\ View(chunk', list') = [View(chunk, list) EXCEPT ![b] = @ \o w]
<1> DEFINE k == Pages(n)
           e == Ends(n)
           w == [i \in 1..n |-> written + i]
           slice(i) == SubSeq(w, (i - 1) * ChunkSize + 1, IF i = k THEN n ELSE i * ChunkSize)
<1>1. /\ written + n <= MaxBytes
      /\ \E f \in Obtained(k) :
           /\ chunk' = [c \in Chunks |->
                          IF c \in Range(f)
                          THEN Filled(Reset(c), slice(CHOOSE i \in 1..k : f[i] = c))
                          ELSE chunk[c]]
           /\ list' = [list EXCEPT ![b] = list[b] \o f]
      /\ length' = [length EXCEPT ![b] = length[b] + n]
      /\ pool' = SubSeq(pool, k + 1, Len(pool))
      /\ written' = written + n
      /\ ret' = [op |-> "write", bytes |-> w, code |-> n]
  BY DEF Write, Returns, Pages
<1>2. PICK f \in Obtained(k) :
        /\ chunk' = [c \in Chunks |->
                       IF c \in Range(f)
                       THEN Filled(Reset(c), slice(CHOOSE i \in 1..k : f[i] = c))
                       ELSE chunk[c]]
        /\ list' = [list EXCEPT ![b] = list[b] \o f]
  BY <1>1
<1>3. MaxBytes \in Nat /\ ChunkSize \in Nat /\ written \in Nat
  BY BufferAssumption
<1>4. w \in Seq(Byte) /\ Len(w) = n
  <2>1. \A i \in 1..n : written + i \in Byte
    BY <1>1, <1>3 DEF Byte
  <2>2. w \in [1..n -> Byte]
    BY <2>1
  <2> HIDE DEF w
  <2> QED
    BY <2>2
<1>5. /\ k \in Nat /\ k >= 1 /\ e \in [0..k -> Nat] /\ e[k] = n
      /\ \A j \in 0..k - 1 : e[j] = j * ChunkSize
  BY EndsAre
<1>6. \A j \in 0..k - 1 : slice(j + 1) = Slice(w, e[j], e[j + 1])
  <2> TAKE j \in 0..k - 1
  <2>1. (j + 1) - 1 = j /\ e[j] = j * ChunkSize
    BY <1>5
  <2>2. e[j + 1] = IF j + 1 = k THEN n ELSE (j + 1) * ChunkSize
    <3>1. j + 1 \in 0..k
      BY <1>5
    <3> QED
      BY <3>1 DEF Ends
  <2> HIDE DEF k, e, w
  <2> QED
    BY <2>1, <2>2 DEF Slice
<1> HIDE DEF w, slice, k, e
<1>7. NewChunks(f, k)
  BY <1>5, ObtainedAreNew
<1>8. f \in [1..k -> Chunks] /\ f \in Seq(Chunks) /\ Len(f) = k
  <2>1. f \in [1..k -> Chunks]
    BY <1>7 DEF NewChunks
  <2> QED
    BY <1>5, <2>1
<1>9. chunk \in Memory
  BY KeptList
<1>10. \A j \in 0..k - 1 : chunk'[f[j + 1]] = Refilled(chunk[f[j + 1]], Slice(w, e[j], e[j + 1]))
  <2> TAKE j \in 0..k - 1
  <2>1. j + 1 \in 1..k
    BY <1>5
  <2>2. f[j + 1] \in Chunks /\ f[j + 1] \in Range(f)
    BY <1>8, <2>1 DEF Range
  <2>3. (CHOOSE i \in 1..k : f[i] = f[j + 1]) = j + 1
    <3> DEFINE x == CHOOSE i \in 1..k : f[i] = f[j + 1]
    <3>1. x \in 1..k /\ f[x] = f[j + 1]
      BY <2>1
    <3> HIDE DEF x
    <3>2. x = j + 1
      BY <1>7, <2>1, <3>1 DEF NewChunks
    <3> QED
      BY <3>2 DEF x
  <2>4. chunk'[f[j + 1]] = Filled(Reset(f[j + 1]), slice(j + 1))
    BY <1>2, <2>2, <2>3
  <2>5. Reset(f[j + 1]) = ClearOf(chunk[f[j + 1]])
    BY DEF Reset, ClearOf
  <2> QED
    BY <1>6, <2>4, <2>5 DEF Refilled
<1>11. \A c \in Chunks : (\A i \in 1..k : c # f[i]) => chunk'[c] = chunk[c]
  <2> TAKE c \in Chunks
  <2>1. HAVE \A i \in 1..k : c # f[i]
  <2>2. c \notin Range(f)
    BY <1>8, <2>1 DEF Range
  <2> QED
    BY <1>2, <2>2
<1>12. chunk' = [c \in Chunks |-> chunk'[c]]
  <2> DEFINE h(c) == IF c \in Range(f)
                     THEN Filled(Reset(c), slice(CHOOSE i \in 1..k : f[i] = c))
                     ELSE chunk[c]
  <2>1. chunk' = [c \in Chunks |-> h(c)]
    BY <1>2
  <2> HIDE DEF h
  <2> QED
    BY <2>1
<1>13. /\ chunk' \in Memory /\ ContentIn(chunk', f) = w
       /\ \A i \in 1..k : chunk'[f[i]].len > 0
  <2>1. /\ Len(f) = Pages(n) /\ Len(w) = n /\ w \in Seq(Byte) /\ f \in Seq(Chunks)
        /\ \A j \in 0..Pages(n) - 1 :
             chunk'[f[j + 1]] = Refilled(chunk[f[j + 1]], Slice(w, Ends(n)[j], Ends(n)[j + 1]))
        /\ \A c \in Chunks : (\A i \in 1..Pages(n) : c # f[i]) => chunk'[c] = chunk[c]
    BY <1>4, <1>8, <1>10, <1>11 DEF k, e
  <2>2. /\ chunk' \in Memory /\ ContentIn(chunk', f) = w
        /\ \A i \in 1..Pages(n) : chunk'[f[i]].len > 0
    BY <1>9, <1>12, <2>1, PagesFilled
  <2> QED
    BY <2>2 DEF k
<1>14. PutBehind(b, f, k, w)
  BY <1>1, <1>2, <1>4 DEF Rest, PutBehind
<1>17. Poured(f, k)
  BY <1>11, <1>13 DEF Poured
<1>15. Kept' /\ Extended(b, w)
  BY <1>4, <1>5, <1>7, <1>8, <1>13, <1>14, <1>17, StoreWritten
<1>16. written' \in 0..MaxBytes
  BY <1>1, <1>3
<1> QED
  BY <1>1, <1>4, <1>15, <1>16 DEF Extended

-----------------------------------------------------------------------------
(* The invariant, and the byte queue.                                      *)

Inv == Kept /\ written \in 0..MaxBytes

LEMMA InitInv == Init => Inv /\ View(chunk, list) = [b \in Buffers |-> << >>]
<1> SUFFICES ASSUME Init PROVE Inv /\ View(chunk, list) = [b \in Buffers |-> << >>]
  OBVIOUS
<1>1. /\ chunk = [c \in Chunks |-> Blank] /\ list = [b \in Buffers |-> << >>]
      /\ length = [b \in Buffers |-> 0] /\ pool = << >> /\ written = 0
  BY DEF Init
<1>2. ChunkSize \in Nat /\ MaxBytes \in Nat
  BY BufferAssumption
<1>3. chunk \in Memory
  <2>1. [i \in 1..ChunkSize |-> 0] \in [1..ChunkSize -> 0..MaxBytes]
    BY <1>2
  <2>2. Blank \in ChunkType /\ Blank.pos = 0 /\ Blank.len = 0
    BY <1>2, <2>1 DEF Blank, ChunkType
  <2>3. Blank \in GoodChunk
    BY <1>2, <2>2 DEF GoodChunk
  <2> QED
    BY <1>1, <2>3 DEF Memory
<1>4. << >> \in Seq(Chunks) /\ Len(<< >>) = 0
  BY EmptySeq
<1>5. Owned(list, pool)
  BY <1>1, <1>4 DEF Owned
<1>6. Loaded(chunk, list)
  BY <1>1, <1>4 DEF Loaded
<1>7. ContentIn(chunk, << >>) = << >>
  <2>1. Parts(chunk, << >>) = << >>
    BY EmptySeq DEF Parts
  <2> QED
    BY <2>1, FlattenEmpty DEF ContentIn
<1>8. Counted(chunk, list, length)
  BY <1>1, <1>4, <1>7 DEF Counted
<1>9. View(chunk, list) = [b \in Buffers |-> << >>]
  BY <1>1, <1>7 DEF View
<1>10. written \in 0..MaxBytes
  BY <1>1, <1>2
<1> QED
  BY <1>3, <1>5, <1>6, <1>8, <1>9, <1>10 DEF Inv, Kept, Store

\* The queues of the abstract specification.
Queues == [b \in Buffers |-> Content(list[b])]

LEMMA QueuesAre == Queues = View(chunk, list) /\ Queues' = View(chunk', list')
<1>1. Queues = View(chunk, list)
  BY Named DEF Queues, View
<1>2. Queues' = View(chunk', list')
  BY DEF Queues, View, Content, ContentIn, Parts, Bytes, BytesIn
<1> QED
  BY <1>1, <1>2

LEMMA Stays ==
  ASSUME Inv, UNCHANGED <<chunk, list, length, pool, written>>
  PROVE  Inv' /\ Queues' = Queues
<1>1. Inv'
  BY DEF Inv, Kept
<1>2. Queues' = Queues
  BY QueuesAre
<1> QED
  BY <1>1, <1>2

\* What is in the queue of a buffer.
LEMMA QueueOf ==
  ASSUME Inv, NEW b \in Buffers
  PROVE  /\ Queues[b] = View(chunk, list)[b] /\ Queues[b] \in Seq(Byte)
         /\ Len(Queues[b]) \in Nat /\ length[b] = Len(Queues[b])
<1>1. Kept
  BY DEF Inv
<1>2. /\ View(chunk, list)[b] = ContentIn(chunk, list[b]) /\ ContentIn(chunk, list[b]) \in Seq(Byte)
      /\ length[b] = Len(ContentIn(chunk, list[b])) /\ length[b] \in Nat
  BY <1>1, KeptList
<1>3. Queues[b] = View(chunk, list)[b]
  BY QueuesAre
<1> QED
  BY <1>2, <1>3

LEMMA TakeMaps ==
  ASSUME Inv, NEW op, NEW b \in Buffers, NEW n \in Nat, ReadInternal(op, b, n)
  PROVE  Inv' /\ Queue!Take(op, b, n)
<1>1. CASE n = 0
  <2>1. Fails(op, -1)
    BY <1>1 DEF ReadInternal
  <2>2. Inv' /\ Queues' = Queues
    BY <2>1, Stays DEF Fails
  <2> QED
    BY <1>1, <2>1, <2>2 DEF Fails, Returns, Queues, Queue!Take, Queue!Returns
<1>2. CASE n # 0
  <2> DEFINE q == Queues[b]
             r == Least(n, Len(q))
  <2>1. Kept /\ q = View(chunk, list)[b]
    BY QueueOf DEF Inv
  <2>2. /\ Kept' /\ written' = written
        /\ Shorter(b, r)
        /\ ret' = [op |-> op, bytes |-> SubSeq(q, 1, r), code |-> r]
    BY <1>2, <2>1, ReadKeeps
  <2>3. Inv'
    BY <2>2 DEF Inv
  <2>4. Queues' = [Queues EXCEPT ![b] = SubSeq(Queues[b], r + 1, Len(Queues[b]))]
    BY <2>2, QueuesAre DEF Shorter, Rest
  <2>5. r = Queue!Least(n, Len(Queues[b]))
    BY DEF Least, Queue!Least
  <2> QED
    BY <1>2, <2>2, <2>3, <2>4, <2>5 DEF Queues, Queue!Take, Queue!Returns, Queue!Prefix, Queue!Drop
<1> QED
  BY <1>1, <1>2

LEMMA LookMaps ==
  ASSUME Inv, NEW op, NEW b \in Buffers, NEW n \in Nat, PeekInternal(op, b, n)
  PROVE  Inv' /\ Queue!Look(op, b, n)
<1>1. CASE n = 0
  <2>1. Fails(op, -1)
    BY <1>1 DEF PeekInternal
  <2>2. Inv' /\ Queues' = Queues
    BY <2>1, Stays DEF Fails
  <2> QED
    BY <1>1, <2>1, <2>2 DEF Fails, Returns, Queues, Queue!Look, Queue!Returns
<1>2. CASE n # 0
  <2> DEFINE q == Queues[b]
             r == Least(n, Len(q))
  <2>1. Kept /\ q = View(chunk, list)[b]
    BY QueueOf DEF Inv
  <2>2. /\ UNCHANGED <<chunk, list, length, pool, written>>
        /\ ret' = [op |-> op, bytes |-> SubSeq(q, 1, r), code |-> r]
    BY <1>2, <2>1, PeekKeeps
  <2>3. Inv' /\ Queues' = Queues
    BY <2>2, Stays
  <2>5. r = Queue!Least(n, Len(Queues[b]))
    BY DEF Least, Queue!Least
  <2> QED
    BY <1>2, <2>2, <2>3, <2>5 DEF Queues, Queue!Look, Queue!Returns, Queue!Prefix
<1> QED
  BY <1>1, <1>2

LEMMA RefuseMaps ==
  ASSUME Inv, NEW op, Fails(op, -1)
  PROVE  Inv' /\ Queue!Refuse(op)
<1>1. Inv' /\ Queues' = Queues
  BY Stays DEF Fails
<1> QED
  BY <1>1 DEF Fails, Returns, Queues, Queue!Refuse, Queue!Returns

LEMMA FullMaps ==
  ASSUME Inv, NEW b \in Buffers, NEW n \in Nat
  PROVE  /\ ReadFull(b, n) => Inv' /\ Queue!ReadFull(b, n)
         /\ PeekFull(b, n) => Inv' /\ Queue!PeekFull(b, n)
<1>1. length[b] = Len(Queues[b])
  BY QueueOf
<1>2. ASSUME ReadFull(b, n) PROVE Inv' /\ Queue!ReadFull(b, n)
  <2>1. CASE n > length[b]
    <3>1. Fails("read_full", -1)
      BY <1>2, <2>1 DEF ReadFull
    <3> QED
      BY <1>1, <2>1, <3>1, RefuseMaps DEF Queues, Queue!ReadFull
  <2>2. CASE ~(n > length[b])
    <3>1. ReadInternal("read_full", b, n)
      BY <1>2, <2>2 DEF ReadFull
    <3> QED
      BY <1>1, <2>2, <3>1, TakeMaps DEF Queues, Queue!ReadFull
  <2> QED
    BY <2>1, <2>2
<1>3. ASSUME PeekFull(b, n) PROVE Inv' /\ Queue!PeekFull(b, n)
  <2>1. CASE n > length[b]
    <3>1. Fails("peek_full", -1)
      BY <1>3, <2>1 DEF PeekFull
    <3> QED
      BY <1>1, <2>1, <3>1, RefuseMaps DEF Queues, Queue!PeekFull
  <2>2. CASE ~(n > length[b])
    <3>1. PeekInternal("peek_full", b, n)
      BY <1>3, <2>2 DEF PeekFull
    <3> QED
      BY <1>1, <2>2, <3>1, LookMaps DEF Queues, Queue!PeekFull
  <2> QED
    BY <2>1, <2>2
<1> QED
  BY <1>2, <1>3

LEMMA WriteMaps ==
  ASSUME Inv, NEW b \in Buffers, NEW n \in Nat, Write(b, n)
  PROVE  Inv' /\ Queue!Write(b)
<1>1. CASE n = 0
  <2>1. Fails("write", 0)
    BY <1>1 DEF Write
  <2>2. Inv' /\ Queues' = Queues
    BY <2>1, Stays DEF Fails
  <2>3. ret' = [op |-> "write", bytes |-> << >>, code |-> 0] /\ ret'.bytes = << >> /\ Len(<< >>) = 0
    BY <2>1, EmptySeq DEF Fails, Returns
  <2>4. Queues = [Queues EXCEPT ![b] = @ \o << >>]
    <3>1. Queues[b] \o << >> = Queues[b]
      BY QueueOf, AllOfIt
    <3>2. Queues = [d \in Buffers |-> Queues[d]]
      BY DEF Queues
    <3> HIDE DEF Queues
    <3> QED
      BY <3>1, <3>2
  <2> QED
    BY <2>2, <2>3, <2>4 DEF Queues, Queue!Write, Queue!Returns
<1>2. CASE n # 0
  <2>1. /\ Kept' /\ written' \in 0..MaxBytes
        /\ \E w \in Seq(Byte) :
             /\ ret' = [op |-> "write", bytes |-> w, code |-> Len(w)]
             /\ View(chunk', list') = [View(chunk, list) EXCEPT ![b] = @ \o w]
    BY <1>2, WriteKeeps DEF Inv
  <2>2. PICK w \in Seq(Byte) :
          /\ ret' = [op |-> "write", bytes |-> w, code |-> Len(w)]
          /\ View(chunk', list') = [View(chunk, list) EXCEPT ![b] = @ \o w]
    BY <2>1
  <2>3. Queues' = [Queues EXCEPT ![b] = Queues[b] \o ret'.bytes]
    BY <2>2, QueuesAre
  <2>4. ret' = [op |-> "write", bytes |-> ret'.bytes, code |-> Len(ret'.bytes)]
    BY <2>2
  <2> QED
    BY <2>1, <2>3, <2>4 DEF Inv, Queues, Queue!Write, Queue!Returns
<1> QED
  BY <1>1, <1>2

LEMMA SendMaps ==
  ASSUME Inv, NEW b \in Buffers, Send(b)
  PROVE  Inv' /\ (ShortSend \/ Queue!Send(b))
<1> DEFINE q == Queues[b]
<1>1. Kept /\ q = View(chunk, list)[b]
  BY QueueOf DEF Inv
<1>2. /\ written' = written
      /\ \/ /\ UNCHANGED <<chunk, list, length, pool>>
            /\ ret' = [op |-> "send", bytes |-> << >>, code |-> -1]
         \/ \E r \in 1..Len(q) : \E wr \in 1..r :
              /\ Kept' /\ Shorter(b, r)
              /\ ShortSend \/ wr = r
              /\ ret' = [op |-> "send", bytes |-> SubSeq(q, 1, wr), code |-> wr]
  BY <1>1, SendKeeps
<1>3. CASE UNCHANGED <<chunk, list, length, pool>> /\ ret' = [op |-> "send", bytes |-> << >>, code |-> -1]
  <2>1. Fails("send", -1)
    BY <1>2, <1>3 DEF Fails, Returns
  <2> QED
    BY <2>1, RefuseMaps DEF Queue!Send
<1>4. ASSUME NEW r \in 1..Len(q), NEW wr \in 1..r, Kept', Shorter(b, r), ShortSend \/ wr = r,
             ret' = [op |-> "send", bytes |-> SubSeq(q, 1, wr), code |-> wr]
      PROVE  Inv' /\ (ShortSend \/ Queue!Send(b))
  <2>1. Inv'
    BY <1>2, <1>4 DEF Inv
  <2>2. Queues' = [Queues EXCEPT ![b] = SubSeq(Queues[b], r + 1, Len(Queues[b]))]
    BY <1>4, QueuesAre DEF Shorter, Rest
  <2>3. ASSUME wr = r PROVE Queue!Send(b)
    <3>1. r \in 1..Len(Queues[b]) /\ ret' = [op |-> "send", bytes |-> SubSeq(Queues[b], 1, r), code |-> r]
      BY <1>4, <2>3
    <3> QED
      BY <2>2, <3>1 DEF Queues, Queue!Send, Queue!Returns, Queue!Prefix, Queue!Drop
  <2> QED
    BY <1>4, <2>1, <2>3
<1> HIDE DEF q
<1> QED
  BY <1>2, <1>3, <1>4

LEMMA MoveMaps ==
  ASSUME Inv, NEW dest \in Buffers, NEW from \in Buffers, MoveTo(dest, from)
  PROVE  Inv' /\ Queue!MoveTo(dest, from)
<1>1. /\ Kept' /\ written' = written
      /\ View(chunk', list') =
           IF dest = from THEN View(chunk, list)
           ELSE [View(chunk, list) EXCEPT ![dest] = @ \o View(chunk, list)[from],
                                          ![from] = << >>]
      /\ ret' = [op |-> "moveto", bytes |-> << >>, code |-> Len(View(chunk, list)[from])]
  BY MoveKeeps DEF Inv
<1>2. Inv'
  BY <1>1 DEF Inv
<1>3. /\ Queues' = IF dest = from THEN Queues
                   ELSE [Queues EXCEPT ![dest] = Queues[dest] \o Queues[from], ![from] = << >>]
      /\ ret' = [op |-> "moveto", bytes |-> << >>, code |-> Len(Queues[from])]
  BY <1>1, QueuesAre
<1> QED
  BY <1>2, <1>3 DEF Queues, Queue!MoveTo, Queue!Returns

LEMMA FreeMaps ==
  ASSUME Inv, NEW b \in Buffers, Free(b)
  PROVE  Inv' /\ Queue!Free(b)
<1>1. /\ Kept' /\ written' = written
      /\ View(chunk', list') = [View(chunk, list) EXCEPT ![b] = << >>]
      /\ ret' = [op |-> "free", bytes |-> << >>, code |-> 0]
  BY FreeKeeps DEF Inv
<1>2. Inv'
  BY <1>1 DEF Inv
<1>3. Queues' = [Queues EXCEPT ![b] = << >>]
  BY <1>1, QueuesAre
<1> QED
  BY <1>1, <1>2, <1>3 DEF Queues, Queue!Free, Queue!Returns

\* Every step keeps the invariant and is a step of the byte queue, one of send()
\* excepted that takes a part of what it is offered.
LEMMA StepMaps ==
  ASSUME Inv, Next
  PROVE  Inv' /\ (ShortSend \/ Queue!Next)
<1>0. Sizes \subseteq Nat
  BY BufferAssumption
<1>1. PICK b \in Buffers :
        \/ Send(b)
        \/ Free(b)
        \/ \E n \in Sizes : \/ Write(b, n)
                            \/ Read(b, n)
                            \/ ReadFull(b, n)
                            \/ Peek(b, n)
                            \/ PeekFull(b, n)
        \/ \E from \in Buffers : MoveTo(b, from)
  BY DEF Next
<1>2. CASE Send(b)
  <2>1. Inv' /\ (ShortSend \/ Queue!Send(b))
    BY <1>2, SendMaps
  <2> QED
    BY <2>1 DEF Queue!Next
<1>3. CASE Free(b)
  <2>1. Inv' /\ Queue!Free(b)
    BY <1>3, FreeMaps
  <2> QED
    BY <2>1 DEF Queue!Next
<1>4. ASSUME NEW n \in Sizes, Write(b, n) PROVE Inv' /\ Queue!Next
  <2>1. Inv' /\ Queue!Write(b)
    BY <1>0, <1>4, WriteMaps
  <2> QED
    BY <2>1 DEF Queue!Next
<1>5. ASSUME NEW n \in Sizes, Read(b, n) PROVE Inv' /\ Queue!Next
  <2>1. Inv' /\ Queue!Read(b, n)
    BY <1>0, <1>5, TakeMaps DEF Read, Queue!Read
  <2> QED
    BY <2>1 DEF Queue!Next
<1>6. ASSUME NEW n \in Sizes, ReadFull(b, n) PROVE Inv' /\ Queue!Next
  <2>1. Inv' /\ Queue!ReadFull(b, n)
    BY <1>0, <1>6, FullMaps
  <2> QED
    BY <2>1 DEF Queue!Next
<1>7. ASSUME NEW n \in Sizes, Peek(b, n) PROVE Inv' /\ Queue!Next
  <2>1. Inv' /\ Queue!Peek(b, n)
    BY <1>0, <1>7, LookMaps DEF Peek, Queue!Peek
  <2> QED
    BY <2>1 DEF Queue!Next
<1>8. ASSUME NEW n \in Sizes, PeekFull(b, n) PROVE Inv' /\ Queue!Next
  <2>1. Inv' /\ Queue!PeekFull(b, n)
    BY <1>0, <1>8, FullMaps
  <2> QED
    BY <2>1 DEF Queue!Next
<1>9. ASSUME NEW from \in Buffers, MoveTo(b, from) PROVE Inv' /\ Queue!Next
  <2>1. Inv' /\ Queue!MoveTo(b, from)
    BY <1>9, MoveMaps
  <2> QED
    BY <2>1 DEF Queue!Next
<1> QED
  BY <1>1, <1>2, <1>3, <1>4, <1>5, <1>6, <1>7, <1>8, <1>9

LEMMA SpecInv == Spec => []Inv
<1>1. Init => Inv
  BY InitInv
<1>2. Inv /\ [Next]_vars => Inv'
  <2>1. ASSUME Inv, UNCHANGED vars PROVE Inv'
    BY <2>1, Stays DEF vars
  <2> QED
    BY <2>1, StepMaps
<1> QED
  BY <1>1, <1>2, PTL DEF Spec

-----------------------------------------------------------------------------
\* A chunk is in one place of one list, or of the pool, and nowhere else.
THEOREM ChunksOwnedOnce == Spec => []ChunkOwnedOnce
<1>1. Inv => ChunkOwnedOnce
  <2> SUFFICES ASSUME Inv PROVE ChunkOwnedOnce
    OBVIOUS
  <2>1. /\ list \in [Buffers -> Seq(Chunks)] /\ pool \in Seq(Chunks)
        /\ \A b, d \in Buffers : \A i \in 1..Len(list[b]), j \in 1..Len(list[d]) :
             list[b][i] = list[d][j] => b = d /\ i = j
        /\ \A i, j \in 1..Len(pool) : pool[i] = pool[j] => i = j
        /\ \A b \in Buffers : \A i \in 1..Len(list[b]), j \in 1..Len(pool) : list[b][i] # pool[j]
    BY DEF Inv, Kept, Store, Owned
  <2>2. ASSUME NEW b \in Buffers PROVE Range(list[b]) \cap Range(pool) = {}
    <3>1. list[b] \in Seq(Chunks)
      BY <2>1
    <3>2. \A x \in Range(list[b]) : \E i \in 1..Len(list[b]) : x = list[b][i]
      BY <3>1, LenProperties DEF Range
    <3>3. \A x \in Range(pool) : \E j \in 1..Len(pool) : x = pool[j]
      BY <2>1, LenProperties DEF Range
    <3> QED
      BY <2>1, <3>2, <3>3
  <2> QED
    BY <2>1, <2>2 DEF ChunkOwnedOnce
<1> QED
  BY <1>1, SpecInv, PTL

\* Every variable has its type; buffer->length is the number of bytes the chunks
\* hold, and a list with no bytes has no chunk.
THEOREM LengthsAgree == Spec => []LengthAgrees
<1>1. Inv => LengthAgrees
  <2> SUFFICES ASSUME Inv PROVE LengthAgrees
    OBVIOUS
  <2>1. /\ Owned(list, pool) /\ chunk \in Memory /\ Loaded(chunk, list)
        /\ length \in [Buffers -> Nat] /\ written \in 0..MaxBytes
    BY DEF Inv, Kept, Store, Counted
  <2>2. list \in [Buffers -> Seq(Chunks)] /\ pool \in Seq(Chunks)
    BY <2>1 DEF Owned
  <2>3. chunk \in [Chunks -> ChunkType]
    BY <2>1 DEF Memory, GoodChunk
  <2>4. ASSUME NEW b \in Buffers
        PROVE  length[b] = Len(Content(list[b])) /\ (length[b] = 0 <=> list[b] = << >>)
    <3>1. length[b] = Len(ContentIn(chunk, list[b])) /\ list[b] \in Seq(Chunks)
      BY KeptList DEF Inv
    <3>2. \A i \in 1..Len(list[b]) : chunk[list[b][i]].len > 0
      BY <2>1 DEF Loaded
    <3>3. Len(ContentIn(chunk, list[b])) = 0 <=> list[b] = << >>
      BY <2>1, <3>1, <3>2, HoldsBytes
    <3>4. Content(list[b]) = ContentIn(chunk, list[b])
      BY Named
    <3> QED
      BY <3>1, <3>3, <3>4
  <2> QED
    BY <2>1, <2>2, <2>3, <2>4 DEF LengthAgrees, TypeOK
<1> QED
  BY <1>1, SpecInv, PTL

\* Lists of chunks with offsets implement queues of bytes, where a send takes all
\* it is offered.
THEOREM BuffersAreQueues == ASSUME ~ShortSend PROVE Spec => ImplementsByteQueue
<1>1. Init => Queue!Init
  BY InitInv, QueuesAre DEF Init, Queues, Queue!Init
<1>2. Inv /\ [Next]_vars => [Queue!Next]_<<Queues, ret>>
  <2>1. ASSUME Inv, UNCHANGED vars PROVE UNCHANGED <<Queues, ret>>
    BY <2>1, Stays DEF vars
  <2>2. ASSUME Inv, Next PROVE Queue!Next
    BY <2>2, StepMaps
  <2> QED
    BY <2>1, <2>2
<1> QED
  BY <1>1, <1>2, SpecInv, PTL DEF Spec, ImplementsByteQueue, Queue!Spec, Queues

-----------------------------------------------------------------------------
(* What becomes of a byte, over sockets that take whole chunks.            *)

Told(x, s) == \E i \in 1..Len(s) : s[i] = x

LEMMA ToldEither ==
  ASSUME NEW S, NEW s \in Seq(S), NEW k \in Nat, k <= Len(s), NEW x, Told(x, s)
  PROVE  Told(x, SubSeq(s, 1, k)) \/ Told(x, Rest(s, k))
<1> DEFINE f == SubSeq(s, 1, k)
           r == Rest(s, k)
<1>1. Len(f) = k /\ \A i \in 1..k : f[i] = s[i]
  BY FirstProperties
<1>2. Len(r) = Len(s) - k /\ \A i \in 1..Len(s) - k : r[i] = s[k + i]
  BY RestProperties
<1>3. Len(s) \in Nat
  BY LenProperties
<1> HIDE DEF f, r
<1>4. PICK i \in 1..Len(s) : s[i] = x
  BY DEF Told
<1>5. ASSUME i <= k PROVE Told(x, f)
  BY <1>1, <1>4, <1>5 DEF Told
<1>6. ASSUME ~(i <= k) PROVE Told(x, r)
  <2>1. i - k \in 1..Len(s) - k /\ k + (i - k) = i
    BY <1>3, <1>6
  <2>2. r[i - k] = x
    BY <1>2, <1>4, <2>1
  <2> QED
    BY <1>2, <2>1, <2>2 DEF Told
<1> QED
  BY <1>5, <1>6 DEF f, r

LEMMA ToldBoth ==
  ASSUME NEW S, NEW a \in Seq(S), NEW b \in Seq(S), NEW x, Told(x, a) \/ Told(x, b)
  PROVE  Told(x, a \o b)
<1> DEFINE q == a \o b
<1>1. /\ Len(q) = Len(a) + Len(b)
      /\ \A i \in 1..Len(a) + Len(b) : q[i] = IF i <= Len(a) THEN a[i] ELSE b[i - Len(a)]
  BY ConcatProperties
<1>2. Len(a) \in Nat /\ Len(b) \in Nat
  BY LenProperties
<1> HIDE DEF q
<1>3. ASSUME NEW i \in 1..Len(a), a[i] = x PROVE Told(x, q)
  <2>1. i \in 1..Len(a) + Len(b) /\ i <= Len(a)
    BY <1>2
  <2> QED
    BY <1>1, <1>3, <2>1 DEF Told
<1>4. ASSUME NEW i \in 1..Len(b), b[i] = x PROVE Told(x, q)
  <2>1. /\ Len(a) + i \in 1..Len(a) + Len(b) /\ ~(Len(a) + i <= Len(a))
        /\ (Len(a) + i) - Len(a) = i
    BY <1>2
  <2>2. q[Len(a) + i] = x
    BY <1>1, <1>4, <2>1
  <2> QED
    BY <1>1, <2>1, <2>2 DEF Told
<1>5. Told(x, q)
  BY <1>3, <1>4 DEF Told
<1> QED
  BY <1>5 DEF q

\* What a call does to the queues q, which are h after it.
Added(q, h) ==
  \E b \in Buffers, w \in Seq(Byte) : h = [q EXCEPT ![b] = q[b] \o w]
HandedOver(q, h, bytes) ==
  \E b \in Buffers, k \in Nat :
    /\ k <= Len(q[b])
    /\ h = [q EXCEPT ![b] = Rest(q[b], k)]
    /\ bytes = SubSeq(q[b], 1, k)
Moved(q, h) ==
  \E b, e \in Buffers :
    b # e /\ h = [q EXCEPT ![b] = q[b] \o q[e], ![e] = << >>]

LEMMA StaysOrHandedOver ==
  ASSUME NEW q \in [Buffers -> Seq(Byte)], NEW h, NEW bytes,
         h = q \/ Added(q, h) \/ HandedOver(q, h, bytes) \/ Moved(q, h),
         NEW a \in Buffers, NEW x, Told(x, q[a])
  PROVE  (\E d \in Buffers : Told(x, h[d])) \/ Told(x, bytes)
<1>0. \A b \in Buffers : q[b] \in Seq(Byte)
  OBVIOUS
<1>1. CASE h = q
  BY <1>1
<1>2. CASE Added(q, h)
  <2>1. PICK b \in Buffers, w \in Seq(Byte) : h = [q EXCEPT ![b] = q[b] \o w]
    BY <1>2 DEF Added
  <2>2. CASE a = b
    <3>1. q[b] \in Seq(Byte) /\ w \in Seq(Byte) /\ (Told(x, q[b]) \/ Told(x, w))
      BY <1>0, <2>2
    <3>2. Told(x, q[b] \o w)
      BY ONLY <3>1, ToldBoth
    <3>3. h[b] = q[b] \o w
      BY <2>1
    <3> QED
      BY <3>2, <3>3
  <2>3. CASE a # b
    <3>1. h[a] = q[a]
      BY <2>1, <2>3
    <3> QED
      BY <3>1
  <2> QED
    BY <2>2, <2>3
<1>3. CASE HandedOver(q, h, bytes)
  <2>1. PICK b \in Buffers, k \in Nat :
          /\ k <= Len(q[b])
          /\ h = [q EXCEPT ![b] = Rest(q[b], k)]
          /\ bytes = SubSeq(q[b], 1, k)
    BY <1>3 DEF HandedOver
  <2>2. CASE a = b
    <3>1. q[b] \in Seq(Byte) /\ k \in Nat /\ k <= Len(q[b]) /\ Told(x, q[b])
      BY <1>0, <2>1, <2>2
    <3>2. Told(x, SubSeq(q[b], 1, k)) \/ Told(x, Rest(q[b], k))
      BY ONLY <3>1, ToldEither
    <3>3. h[b] = Rest(q[b], k)
      BY <2>1
    <3> QED
      BY <2>1, <3>2, <3>3, Zenon
  <2>3. CASE a # b
    <3>1. h[a] = q[a]
      BY <2>1, <2>3
    <3> QED
      BY <3>1
  <2> QED
    BY <2>2, <2>3
<1>4. CASE Moved(q, h)
  <2>1. PICK b \in Buffers, e \in Buffers :
          b # e /\ h = [q EXCEPT ![b] = q[b] \o q[e], ![e] = << >>]
    BY <1>4 DEF Moved
  <2>2. h[b] = q[b] \o q[e] /\ \A d \in Buffers : d # b /\ d # e => h[d] = q[d]
    BY <2>1
  <2>3. CASE a = b \/ a = e
    <3>1. q[b] \in Seq(Byte) /\ q[e] \in Seq(Byte) /\ (Told(x, q[b]) \/ Told(x, q[e]))
      BY <1>0, <2>3
    <3>2. Told(x, q[b] \o q[e])
      BY ONLY <3>1, ToldBoth
    <3> QED
      BY <2>2, <3>2
  <2>4. CASE a # b /\ a # e
    <3>1. h[a] = q[a]
      BY <2>2, <2>4
    <3> QED
      BY <3>1
  <2> QED
    BY <2>3, <2>4
<1> QED
  BY <1>1, <1>2, <1>3, <1>4

Handed(q, h, bytes) == h = q \/ Added(q, h) \/ HandedOver(q, h, bytes) \/ Moved(q, h)

LEMMA TakeHands ==
  ASSUME Inv, NEW op, NEW b \in Buffers, NEW n \in Nat, Queue!Take(op, b, n)
  PROVE  Handed(Queues, Queues', ret'.bytes)
<1>1. CASE n = 0
  <2>1. Queues' = Queues
    BY <1>1 DEF Queue!Take, Queues
  <2> QED
    BY <2>1 DEF Handed
<1>2. CASE n # 0
  <2> DEFINE k == Queue!Least(n, Len(Queues[b]))
  <2>1. /\ ret' = [op |-> op, bytes |-> SubSeq(Queues[b], 1, k), code |-> k]
        /\ Queues' = [Queues EXCEPT ![b] = Rest(Queues[b], k)]
    BY <1>2 DEF Queue!Take, Queue!Returns, Queue!Prefix, Queue!Drop, Queues, Rest
  <2>2. k \in Nat /\ k <= Len(Queues[b])
    BY QueueOf DEF Queue!Least
  <2> HIDE DEF k
  <2>3. ret'.bytes = SubSeq(Queues[b], 1, k)
    BY <2>1
  <2>4. HandedOver(Queues, Queues', ret'.bytes)
    BY <2>1, <2>2, <2>3, Zenon DEF HandedOver
  <2> QED
    BY <2>4 DEF Handed
<1> QED
  BY <1>1, <1>2

LEMMA WriteHands ==
  ASSUME Inv, NEW b \in Buffers, NEW n \in Nat, Write(b, n)
  PROVE  Handed(Queues, Queues', ret'.bytes)
<1>1. CASE n = 0
  <2>1. Fails("write", 0)
    BY <1>1 DEF Write
  <2>2. Queues' = Queues
    BY <2>1, Stays DEF Fails
  <2> QED
    BY <2>2 DEF Handed
<1>2. CASE n # 0
  <2>1. \E w \in Seq(Byte) : View(chunk', list') = [View(chunk, list) EXCEPT ![b] = @ \o w]
    BY <1>2, WriteKeeps DEF Inv
  <2>2. PICK w \in Seq(Byte) : Queues' = [Queues EXCEPT ![b] = Queues[b] \o w]
    BY <2>1, QueuesAre
  <2>3. Added(Queues, Queues')
    BY <2>2, Zenon DEF Added
  <2> QED
    BY <2>3 DEF Handed
<1> QED
  BY <1>1, <1>2

LEMMA SendHands ==
  ASSUME Inv, NEW b \in Buffers, Queue!Send(b)
  PROVE  Handed(Queues, Queues', ret'.bytes)
<1>1. CASE Queue!Refuse("send")
  <2>1. Queues' = Queues
    BY <1>1 DEF Queue!Refuse, Queues
  <2> QED
    BY <2>1 DEF Handed
<1>2. CASE ~Queue!Refuse("send")
  <2>1. PICK k \in 1..Len(Queues[b]) :
          /\ ret' = [op |-> "send", bytes |-> SubSeq(Queues[b], 1, k), code |-> k]
          /\ Queues' = [Queues EXCEPT ![b] = Rest(Queues[b], k)]
    BY <1>2 DEF Queue!Send, Queue!Returns, Queue!Prefix, Queue!Drop, Queues, Rest
  <2>2. k \in Nat /\ k <= Len(Queues[b])
    BY QueueOf
  <2>3. ret'.bytes = SubSeq(Queues[b], 1, k)
    BY <2>1
  <2>4. HandedOver(Queues, Queues', ret'.bytes)
    BY <2>1, <2>2, <2>3, Zenon DEF HandedOver
  <2> QED
    BY <2>4 DEF Handed
<1> QED
  BY <1>1, <1>2

LEMMA MoveHands ==
  ASSUME Inv, NEW dest \in Buffers, NEW from \in Buffers, Queue!MoveTo(dest, from)
  PROVE  Handed(Queues, Queues', ret'.bytes)
<1>1. CASE dest = from
  BY <1>1 DEF Queue!MoveTo, Queues, Handed
<1>2. CASE dest # from
  <2>1. Queues' = [Queues EXCEPT ![dest] = Queues[dest] \o Queues[from], ![from] = << >>]
    BY <1>2 DEF Queue!MoveTo, Queues
  <2>2. Moved(Queues, Queues')
    BY <1>2, <2>1, Zenon DEF Moved
  <2> QED
    BY <2>2 DEF Handed
<1> QED
  BY <1>1, <1>2

LEMMA StepHands ==
  ASSUME ~ShortSend, Inv, Next, ret'.op # "free"
  PROVE  Handed(Queues, Queues', ret'.bytes)
<1>0. Sizes \subseteq Nat
  BY BufferAssumption
<1>1. PICK b \in Buffers :
        \/ Send(b)
        \/ Free(b)
        \/ \E n \in Sizes : \/ Write(b, n)
                            \/ Read(b, n)
                            \/ ReadFull(b, n)
                            \/ Peek(b, n)
                            \/ PeekFull(b, n)
        \/ \E from \in Buffers : MoveTo(b, from)
  BY DEF Next
<1>2. ASSUME Send(b) PROVE Handed(Queues, Queues', ret'.bytes)
  BY <1>2, SendMaps, SendHands
<1>3. ~Free(b)
  BY DEF Free, Returns
<1>4. ASSUME NEW n \in Sizes, Write(b, n) PROVE Handed(Queues, Queues', ret'.bytes)
  BY <1>0, <1>4, WriteHands
<1>5. ASSUME NEW n \in Sizes, Read(b, n) PROVE Handed(Queues, Queues', ret'.bytes)
  <2>1. Queue!Take("read", b, n)
    BY <1>0, <1>5, TakeMaps DEF Read
  <2> QED
    BY <1>0, <2>1, TakeHands
<1>6. ASSUME NEW n \in Sizes, ReadFull(b, n) PROVE Handed(Queues, Queues', ret'.bytes)
  <2>1. CASE n > length[b]
    <3>1. Fails("read_full", -1)
      BY <1>6, <2>1 DEF ReadFull
    <3>2. Queues' = Queues
      BY <3>1, Stays DEF Fails
    <3> QED
      BY <3>2 DEF Handed
  <2>2. CASE ~(n > length[b])
    <3>1. Queue!Take("read_full", b, n)
      BY <1>0, <1>6, <2>2, TakeMaps DEF ReadFull
    <3> QED
      BY <1>0, <3>1, TakeHands
  <2> QED
    BY <2>1, <2>2
<1>7. ASSUME NEW n \in Sizes, Peek(b, n) \/ PeekFull(b, n)
      PROVE  Handed(Queues, Queues', ret'.bytes)
  <2>1. UNCHANGED <<chunk, list, length, pool, written>>
    BY <1>7 DEF Peek, PeekFull, PeekInternal, Fails
  <2>2. Queues' = Queues
    BY <2>1, Stays
  <2> QED
    BY <2>2 DEF Handed
<1>8. ASSUME NEW from \in Buffers, MoveTo(b, from) PROVE Handed(Queues, Queues', ret'.bytes)
  <2>1. Queue!MoveTo(b, from)
    BY <1>8, MoveMaps
  <2> QED
    BY <2>1, MoveHands
<1> QED
  BY <1>1, <1>2, <1>3, <1>4, <1>5, <1>6, <1>7, <1>8

\* Where a send takes all it is offered, a byte leaves the buffers only into the
\* hands of a reader or of the socket: the short send alone loses bytes.
THEOREM WholeSendsLoseNothing == ASSUME ~ShortSend PROVE Spec => NoByteLost
<1>1. ASSUME Inv, Next, ret'.op # "free" PROVE Held \ Held' \subseteq Range(ret'.bytes)
  <2> SUFFICES ASSUME NEW x \in Held, x \notin Held' PROVE x \in Range(ret'.bytes)
    OBVIOUS
  <2>1. Inv'
    BY <1>1, StepMaps
  <2>2. Handed(Queues, Queues', ret'.bytes)
    BY <1>1, StepHands
  <2>3. Queues = [b \in Buffers |-> Content(list[b])] /\ Queues' = [b \in Buffers |-> Content(list[b])']
    BY DEF Queues
  <2>4. /\ \A b \in Buffers : Queues[b] = Content(list[b]) /\ Queues'[b] = Content(list[b])'
        /\ Queues \in [Buffers -> Seq(Byte)]
    <3>1. \A b \in Buffers : Queues[b] \in Seq(Byte)
      BY <1>1, QueueOf
    <3> QED
      BY <2>3, <3>1
  <2>5. \A b \in Buffers : Queues'[b] \in Seq(Byte)
    <3>1. chunk' \in Memory /\ list' \in [Buffers -> Seq(Chunks)]
      BY <2>1 DEF Inv, Kept, Store, Owned
    <3>2. \A b \in Buffers : ContentIn(chunk', list'[b]) \in Seq(Byte)
      BY <3>1, PartsType
    <3> QED
      BY <3>2, QueuesAre DEF View
  <2>6. PICK a \in Buffers : x \in Range(Content(list[a]))
    BY DEF Held
  <2>7. Told(x, Queues[a])
    <3>1. Queues[a] \in Seq(Byte) /\ x \in Range(Queues[a])
      BY <2>4, <2>6
    <3> QED
      BY <3>1, LenProperties DEF Range, Told
  <2>8. (\E d \in Buffers : Told(x, Queues'[d])) \/ Told(x, ret'.bytes)
    BY <2>2, <2>4, <2>7, StaysOrHandedOver DEF Handed
  <2>9. ~\E d \in Buffers : Told(x, Queues'[d])
    <3>1. ASSUME NEW d \in Buffers, Told(x, Queues'[d]) PROVE x \in Held'
      <4>1. x \in Range(Queues'[d])
        BY <2>5, <3>1, LenProperties DEF Range, Told
      <4> QED
        BY <2>4, <4>1 DEF Held
    <3> QED
      BY <3>1
  <2>10. Told(x, ret'.bytes)
    BY <2>8, <2>9
  <2> QED
    BY <2>10 DEF Told, Range
<1>2. ASSUME Inv, [Next]_vars
      PROVE  [ret'.op # "free" => Held \ Held' \subseteq Range(ret'.bytes)]_vars
  BY <1>1, <1>2
<1> QED
  BY <1>2, SpecInv, PTL DEF Spec, NoByteLost
=============================================================================

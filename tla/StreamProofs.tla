---------------------------- MODULE StreamProofs ----------------------------
(***************************************************************************)
(* Streams that arrive in pieces, and buffers that are emptied from the    *)
(* front, and sequences that are put together from others: facts that the  *)
(* proofs of the handshakes, the relay, the buffers and the hash map share.*)
(***************************************************************************)
EXTENDS Integers, Sequences, SequencesExt, SequenceTheorems, WellFoundedInduction, TLAPS

\* What is left when the first k are taken.
Rest(s, k) == SubSeq(s, k + 1, Len(s))

\* Induction, over a set.
LEMMA Induction ==
  ASSUME NEW G, 0 \in G, \A n \in Nat : n \in G => n + 1 \in G
  PROVE  Nat \subseteq G
<1> DEFINE T == Nat \ G
           R == OpToRel(<, Nat)
<1>1. SUFFICES ASSUME T # {} PROVE FALSE
  OBVIOUS
<1>2. IsWellFoundedOn(R, Nat)
  BY NatLessThanWellFounded
<1>3. \A k, n \in Nat : k < n => <<k, n>> \in R
  BY DEF OpToRel
<1> HIDE DEF R
<1>4. PICK m \in T : \A y \in T : ~(<<y, m>> \in R)
  BY <1>1, <1>2, WFMin
<1>5. m \in Nat /\ m # 0 /\ m - 1 \in Nat
  BY <1>4
<1>6. m - 1 \in T
  BY <1>5
<1>7. <<m - 1, m>> \in R
  BY <1>3, <1>5
<1> QED
  BY <1>4, <1>6, <1>7

LEMMA Associates == \A s, t, u \in Seq(Int) : (s \o t) \o u = s \o (t \o u)
  OBVIOUS

\* A prefix, element by element.
LEMMA PrefixByElement ==
  ASSUME NEW S, NEW s \in Seq(S), NEW t \in Seq(S)
  PROVE  IsPrefix(s, t) <=> Len(s) <= Len(t) /\ \A i \in 1..Len(s) : s[i] = t[i]
<1>1. Len(s) \in Nat /\ Len(t) \in Nat
  BY LenProperties
<1>2. SubSeq(s, 1, Len(s)) = s
  BY SubSeqFull
<1>3. CASE Len(s) <= Len(t)
  <2>1. \A i \in 1..Len(s) : t[i] \in S
    BY <1>1, <1>3, ElementOfSeq
  <2>2. /\ SubSeq(t, 1, Len(s)) \in Seq(S)
        /\ Len(SubSeq(t, 1, Len(s))) = Len(s)
        /\ \A i \in 1..Len(s) : SubSeq(t, 1, Len(s))[i] = t[i]
    BY <1>1, <2>1, SubSeqProperties
  <2>3. SubSeq(t, 1, Len(s)) = s <=> \A i \in 1..Len(s) : s[i] = t[i]
    BY <2>2, SeqEqual
  <2> QED
    BY <1>2, <1>3, <2>3 DEF IsPrefix
<1> QED
  BY <1>1, <1>3 DEF IsPrefix

\* What is the first part of a sequence is the first part of a longer one, and
\* the first part of that is one, too.
LEMMA PrefixOfLonger ==
  ASSUME NEW S, NEW s \in Seq(S), NEW t \in Seq(S), NEW u \in Seq(S)
  PROVE  /\ IsPrefix(s, t) => IsPrefix(s, t \o u)
         /\ IsPrefix(s \o u, t) => IsPrefix(s, t)
         /\ IsPrefix(s, s \o u)
         /\ IsPrefix(s, s) /\ IsPrefix(<< >>, s)
<1>0. \A x, y \in Seq(S) :
        IsPrefix(x, y) <=> Len(x) <= Len(y) /\ \A i \in 1..Len(x) : x[i] = y[i]
  BY PrefixByElement
<1>1. Len(s) \in Nat /\ Len(t) \in Nat /\ Len(u) \in Nat
  BY LenProperties
<1>2. /\ t \o u \in Seq(S) /\ Len(t \o u) = Len(t) + Len(u)
      /\ \A i \in 1..Len(t) : (t \o u)[i] = t[i]
  BY <1>1, ConcatProperties
<1>3. /\ s \o u \in Seq(S) /\ Len(s \o u) = Len(s) + Len(u)
      /\ \A i \in 1..Len(s) : (s \o u)[i] = s[i]
  BY <1>1, ConcatProperties
<1>4. IsPrefix(s, t) => IsPrefix(s, t \o u)
  <2>1. IsPrefix(s, t) <=> Len(s) <= Len(t) /\ \A i \in 1..Len(s) : s[i] = t[i]
    BY <1>0, Zenon
  <2>2. IsPrefix(s, t \o u) <=>
          Len(s) <= Len(t \o u) /\ \A i \in 1..Len(s) : s[i] = (t \o u)[i]
    BY <1>2, <1>0, Zenon
  <2> QED
    BY <1>1, <1>2, <2>1, <2>2
<1>5. IsPrefix(s \o u, t) => IsPrefix(s, t)
  <2>1. IsPrefix(s, t) <=> Len(s) <= Len(t) /\ \A i \in 1..Len(s) : s[i] = t[i]
    BY <1>0, Zenon
  <2>2. IsPrefix(s \o u, t) <=>
          Len(s \o u) <= Len(t) /\ \A i \in 1..Len(s \o u) : (s \o u)[i] = t[i]
    BY <1>3, <1>0, Zenon
  <2>3. ASSUME IsPrefix(s \o u, t)
        PROVE  Len(s) <= Len(t) /\ \A i \in 1..Len(s) : s[i] = t[i]
    <3>1. Len(s) + Len(u) <= Len(t)
      BY <1>3, <2>2, <2>3
    <3>2. ASSUME NEW i \in 1..Len(s) PROVE s[i] = t[i]
      <4>1. i \in 1..Len(s \o u)
        BY <1>1, <1>3
      <4> QED
        BY <1>3, <2>2, <2>3, <4>1
    <3> QED
      BY <1>1, <3>1, <3>2
  <2> QED
    BY <2>1, <2>3
<1>6. IsPrefix(s, s \o u)
  <2>1. IsPrefix(s, s \o u) <=>
          Len(s) <= Len(s \o u) /\ \A i \in 1..Len(s) : s[i] = (s \o u)[i]
    BY <1>3, <1>0, Zenon
  <2> QED
    BY <1>1, <1>3, <2>1
<1>7. IsPrefix(s, s)
  <2>1. IsPrefix(s, s) <=> Len(s) <= Len(s) /\ \A i \in 1..Len(s) : s[i] = s[i]
    BY <1>0, Zenon
  <2> QED
    BY <1>1, <2>1
<1>8. IsPrefix(<< >>, s)
  <2>1. << >> \in Seq(S) /\ Len(<< >>) = 0
    BY EmptySeq
  <2>2. IsPrefix(<< >>, s) <=>
          Len(<< >>) <= Len(s) /\ \A i \in 1..Len(<< >>) : << >>[i] = s[i]
    BY <2>1, <1>0, Zenon
  <2> QED
    BY <1>1, <2>1, <2>2
<1> QED
  BY <1>4, <1>5, <1>6, <1>7, <1>8

-----------------------------------------------------------------------------
(* Pieces.                                                                 *)

LEMMA RestProperties ==
  ASSUME NEW S, NEW s \in Seq(S), NEW k \in Nat
  PROVE  /\ Rest(s, k) \in Seq(S)
         /\ k <= Len(s) =>
              /\ Len(Rest(s, k)) = Len(s) - k
              /\ \A i \in 1..Len(s) - k : Rest(s, k)[i] = s[k + i]
         /\ k >= Len(s) => Rest(s, k) = << >>
         /\ Rest(s, 0) = s
<1>1. Len(s) \in Nat /\ \A i \in 1..Len(s) : s[i] \in S
  BY LenProperties, ElementOfSeq
<1>2. \A i \in k + 1..Len(s) : s[i] \in S
  BY <1>1
<1>3. /\ SubSeq(s, k + 1, Len(s)) \in Seq(S)
      /\ Len(SubSeq(s, k + 1, Len(s))) = IF k + 1 <= Len(s) THEN Len(s) - (k + 1) + 1 ELSE 0
      /\ \A i \in 1..Len(s) - (k + 1) + 1 : SubSeq(s, k + 1, Len(s))[i] = s[k + 1 + i - 1]
  BY <1>1, <1>2, SubSeqProperties
<1>4. ASSUME k <= Len(s)
      PROVE  /\ Len(Rest(s, k)) = Len(s) - k
             /\ \A i \in 1..Len(s) - k : Rest(s, k)[i] = s[k + i]
  BY <1>1, <1>3, <1>4 DEF Rest
<1>5. k >= Len(s) => Rest(s, k) = << >>
  BY <1>1, SubSeqEmpty DEF Rest
<1>6. Rest(s, 0) = s
  BY SubSeqFull DEF Rest
<1> QED
  BY <1>3, <1>4, <1>5, <1>6 DEF Rest

LEMMA FirstProperties ==
  ASSUME NEW S, NEW s \in Seq(S), NEW n \in Nat, n <= Len(s)
  PROVE  /\ SubSeq(s, 1, n) \in Seq(S) /\ Len(SubSeq(s, 1, n)) = n
         /\ \A i \in 1..n : SubSeq(s, 1, n)[i] = s[i]
<1>1. \A i \in 1..n : s[i] \in S
  BY LenProperties, ElementOfSeq
<1> QED
  BY <1>1, SubSeqProperties

\* A piece and what follows it.
LEMMA SplitAt ==
  ASSUME NEW S, NEW s \in Seq(S), NEW n \in Nat, n <= Len(s)
  PROVE  SubSeq(s, 1, n) \o Rest(s, n) = s
<1>1. 1 \in 1..Len(s) + 1 /\ n \in 1 - 1..Len(s) /\ Len(s) \in n..Len(s)
  BY LenProperties
<1>2. SubSeq(s, 1, n) \o SubSeq(s, n + 1, Len(s)) = SubSeq(s, 1, Len(s))
  BY <1>1, ConcatAdjacentSubSeq
<1> QED
  BY <1>2, SubSeqFull DEF Rest

\* Taking from the front of a buffer takes from the front of the stream.
LEMMA RestOfConcat ==
  ASSUME NEW S, NEW s \in Seq(S), NEW t \in Seq(S), NEW k \in Nat, k <= Len(s)
  PROVE  Rest(s \o t, k) = Rest(s, k) \o t
<1>1. Len(s) \in Nat /\ Len(t) \in Nat
  BY LenProperties
<1>2. /\ s \o t \in Seq(S) /\ Len(s \o t) = Len(s) + Len(t)
      /\ \A i \in 1..Len(s) + Len(t) : (s \o t)[i] = IF i <= Len(s) THEN s[i] ELSE t[i - Len(s)]
  BY ConcatProperties
<1>3. /\ Rest(s, k) \in Seq(S) /\ Len(Rest(s, k)) = Len(s) - k
      /\ \A i \in 1..Len(s) - k : Rest(s, k)[i] = s[k + i]
  BY RestProperties
<1> DEFINE r == Rest(s, k)
<1> HIDE DEF r
<1>4. /\ r \o t \in Seq(S) /\ Len(r \o t) = (Len(s) - k) + Len(t)
      /\ \A i \in 1..(Len(s) - k) + Len(t) :
           (r \o t)[i] = IF i <= Len(s) - k THEN r[i] ELSE t[i - (Len(s) - k)]
  <2>1. r \in Seq(S) /\ Len(r) = Len(s) - k
    BY <1>3 DEF r
  <2>2. /\ r \o t \in Seq(S) /\ Len(r \o t) = Len(r) + Len(t)
        /\ \A i \in 1..Len(r) + Len(t) : (r \o t)[i] = IF i <= Len(r) THEN r[i] ELSE t[i - Len(r)]
    BY <2>1, ConcatProperties
  <2> QED
    BY <2>1, <2>2, Zenon
<1> DEFINE u == s \o t
<1> HIDE DEF u
<1>5. u \in Seq(S) /\ Len(u) = Len(s) + Len(t) /\ k <= Len(u)
  BY <1>1, <1>2 DEF u
<1>6. /\ Rest(u, k) \in Seq(S) /\ Len(Rest(u, k)) = Len(u) - k
      /\ \A i \in 1..Len(u) - k : Rest(u, k)[i] = u[k + i]
  BY <1>5, RestProperties
<1>7. \A i \in 1..(Len(s) - k) + Len(t) : Rest(u, k)[i] = (r \o t)[i]
  <2>1. SUFFICES ASSUME NEW i \in 1..(Len(s) - k) + Len(t)
                 PROVE  Rest(u, k)[i] = (r \o t)[i]
    OBVIOUS
  <2>2. k + i \in 1..Len(s) + Len(t) /\ i \in 1..Len(u) - k
    BY <1>1, <1>5
  <2>3. Rest(u, k)[i] = IF k + i <= Len(s) THEN s[k + i] ELSE t[k + i - Len(s)]
    BY <1>2, <1>6, <2>2 DEF u
  <2>4. CASE k + i <= Len(s)
    <3>1. i \in 1..Len(s) - k
      BY <1>1, <2>4
    <3> QED
      BY <1>1, <1>3, <1>4, <2>3, <2>4, <3>1 DEF r
  <2>5. CASE ~(k + i <= Len(s))
    <3>1. ~(i <= Len(s) - k) /\ i - (Len(s) - k) = k + i - Len(s)
      BY <1>1, <2>5
    <3> QED
      BY <1>4, <2>3, <2>5, <3>1
  <2> QED
    BY <2>4, <2>5
<1>8. Len(Rest(u, k)) = Len(r \o t)
  BY <1>1, <1>4, <1>5, <1>6
<1>9. Rest(u, k) = r \o t
  BY <1>1, <1>4, <1>6, <1>7, <1>8, SeqEqual
<1> QED
  BY <1>9 DEF u, r

\* Taking twice.
LEMMA RestOfRest ==
  ASSUME NEW S, NEW s \in Seq(S), NEW j \in Nat, NEW k \in Nat, j + k <= Len(s)
  PROVE  Rest(Rest(s, j), k) = Rest(s, j + k)
<1> DEFINE r == Rest(s, j)
<1>1. Len(s) \in Nat /\ j <= Len(s) /\ j + k \in Nat
  BY LenProperties
<1>2. /\ r \in Seq(S) /\ Len(r) = Len(s) - j
      /\ \A i \in 1..Len(s) - j : r[i] = s[j + i]
  BY <1>1, RestProperties
<1> HIDE DEF r
<1>3. k <= Len(r)
  BY <1>1, <1>2
<1>4. /\ Rest(r, k) \in Seq(S) /\ Len(Rest(r, k)) = Len(r) - k
      /\ \A i \in 1..Len(r) - k : Rest(r, k)[i] = r[k + i]
  <2>1. r \in Seq(S) /\ k \in Nat /\ k <= Len(r)
    BY <1>2, <1>3
  <2> QED
    BY <2>1, RestProperties
<1>5. /\ Rest(s, j + k) \in Seq(S) /\ Len(Rest(s, j + k)) = Len(s) - (j + k)
      /\ \A i \in 1..Len(s) - (j + k) : Rest(s, j + k)[i] = s[(j + k) + i]
  BY <1>1, RestProperties
<1>6. Len(Rest(r, k)) = Len(Rest(s, j + k))
  <2>1. Len(s) - j - k = Len(s) - (j + k)
    BY <1>1
  <2> QED
    BY <1>2, <1>4, <1>5, <2>1, Zenon
<1>7. \A i \in 1..Len(Rest(r, k)) : Rest(r, k)[i] = Rest(s, j + k)[i]
  <2>1. SUFFICES ASSUME NEW i \in 1..Len(Rest(r, k))
                 PROVE  Rest(r, k)[i] = Rest(s, j + k)[i]
    OBVIOUS
  <2>2. /\ i \in 1..Len(r) - k /\ i \in 1..Len(s) - (j + k) /\ k + i \in 1..Len(s) - j
        /\ j + (k + i) = (j + k) + i
    BY <1>1, <1>2, <1>4
  <2> QED
    BY <1>2, <1>4, <1>5, <2>2
<1> QED
  BY <1>4, <1>5, <1>6, <1>7, SeqEqual DEF r

\* The beginning of a stream is in the buffer.
LEMMA SameBeginning ==
  ASSUME NEW S, NEW s \in Seq(S), NEW t \in Seq(S)
  PROVE  Len(s) <= Len(s \o t) /\ \A i \in 1..Len(s) : (s \o t)[i] = s[i]
  BY ConcatProperties, LenProperties

\* What is said one word after the other.
LEMMA Pair ==
  ASSUME NEW S, NEW a \in S, NEW b \in S
  PROVE  <<a>> \o <<b>> = <<a, b>>
<1>1. /\ <<a>> \in Seq(S) /\ <<b>> \in Seq(S) /\ <<a, b>> \in Seq(S)
      /\ Len(<<a>>) = 1 /\ Len(<<b>>) = 1 /\ Len(<<a, b>>) = 2
      /\ <<a, b>>[1] = a /\ <<a, b>>[2] = b /\ <<a>>[1] = a /\ <<b>>[1] = b
  OBVIOUS
<1> DEFINE s == <<a>> \o <<b>>
           t == <<a, b>>
<1>2. s \in Seq(S) /\ Len(s) = 2 /\ s[1] = a /\ s[2] = b
  BY <1>1, ConcatProperties
<1>3. t \in Seq(S) /\ Len(t) = 2 /\ t[1] = a /\ t[2] = b
  BY <1>1
<1> HIDE DEF s, t
<1>4. \A i \in 1..2 : s[i] = t[i]
  BY <1>2, <1>3
<1>5. s = t
  BY <1>2, <1>3, <1>4, SeqEqual
<1> QED
  BY <1>5 DEF s, t

LEMMA Triple ==
  ASSUME NEW S, NEW a \in S, NEW b \in S, NEW c \in S
  PROVE  <<a, b>> \o <<c>> = <<a, b, c>>
<1>1. /\ <<a, b>> \in Seq(S) /\ <<c>> \in Seq(S) /\ <<a, b, c>> \in Seq(S)
      /\ Len(<<a, b>>) = 2 /\ Len(<<c>>) = 1 /\ Len(<<a, b, c>>) = 3
      /\ <<a, b>>[1] = a /\ <<a, b>>[2] = b /\ <<c>>[1] = c
      /\ <<a, b, c>>[1] = a /\ <<a, b, c>>[2] = b /\ <<a, b, c>>[3] = c
  OBVIOUS
<1> DEFINE s == <<a, b>> \o <<c>>
           t == <<a, b, c>>
<1>2. s \in Seq(S) /\ Len(s) = 3 /\ s[1] = a /\ s[2] = b /\ s[3] = c
  BY <1>1, ConcatProperties
<1>3. t \in Seq(S) /\ Len(t) = 3 /\ t[1] = a /\ t[2] = b /\ t[3] = c
  BY <1>1
<1> HIDE DEF s, t
<1>4. \A i \in 1..3 : s[i] = t[i]
  BY <1>2, <1>3
<1>5. s = t
  BY <1>2, <1>3, <1>4, SeqEqual
<1> QED
  BY <1>5 DEF s, t
-----------------------------------------------------------------------------
(* Concatenations.                                                         *)

\* Running concatenations, as FlattenSeq computes them.
Running(t, g) == \A i \in DOMAIN g : g[i] = IF i = 1 THEN t[i] ELSE g[i - 1] \o t[i]
SoFar(f, n) == IF n = 0 THEN << >> ELSE f[n]
Longer(f, v, n) == [i \in 1..(n + 1) |-> IF i <= n THEN f[i] ELSE SoFar(f, n) \o v[n + 1]]

LEMMA RunningLonger ==
  ASSUME NEW S, NEW v \in Seq(Seq(S)), NEW n \in Nat, n + 1 <= Len(v),
         NEW f \in [1..n -> Seq(S)], Running(v, f)
  PROVE  /\ Longer(f, v, n) \in [1..(n + 1) -> Seq(S)]
         /\ Running(v, Longer(f, v, n))
         /\ Longer(f, v, n)[n + 1] = SoFar(f, n) \o v[n + 1]
<1>1. v[n + 1] \in Seq(S)
  BY LenProperties, ElementOfSeq
<1> DEFINE next == SoFar(f, n) \o v[n + 1]
           g == [i \in 1..(n + 1) |-> IF i <= n THEN f[i] ELSE next]
<1>0. g = Longer(f, v, n)
  BY DEF Longer
<1>2. SoFar(f, n) \in Seq(S) /\ (n = 0 => SoFar(f, n) = << >>) /\ (n # 0 => SoFar(f, n) = f[n])
  <2>1. n # 0 => n \in 1..n
    OBVIOUS
  <2> QED
    BY <2>1, EmptySeq DEF SoFar
<1>3. next \in Seq(S) /\ (n = 0 => next = v[n + 1])
  <2>1. next \in Seq(S)
    BY <1>1, <1>2, ConcatProperties
  <2>2. n = 0 => next = v[n + 1]
    BY <1>1, <1>2, ConcatEmptySeq
  <2> QED
    BY <2>1, <2>2
<1>4. n # 0 => next = f[n] \o v[n + 1]
  BY <1>2
<1>5. next = SoFar(f, n) \o v[n + 1]
  OBVIOUS
<1> HIDE DEF next
<1>6. g \in [1..(n + 1) -> Seq(S)]
  BY <1>3
<1>7. /\ g[n + 1] = next
      /\ \A i \in 1..n : g[i] = f[i]
  OBVIOUS
<1> HIDE DEF g
<1>8. \A i \in 1..n : f[i] = IF i = 1 THEN v[i] ELSE f[i - 1] \o v[i]
  BY DEF Running
<1>9. ASSUME NEW i \in 1..(n + 1)
      PROVE  g[i] = IF i = 1 THEN v[i] ELSE g[i - 1] \o v[i]
  <2>1. CASE i <= n
    <3>1. g[i] = f[i] /\ i \in 1..n
      BY <1>7, <2>1
    <3>2. i # 1 => g[i - 1] = f[i - 1]
      BY <1>7, <2>1
    <3> QED
      BY <1>8, <3>1, <3>2, Zenon
  <2>2. CASE i = n + 1
    <3>1. i - 1 = n /\ (i = 1 <=> n = 0) /\ (n # 0 => n \in 1..n)
      BY <2>2
    <3>2. n # 0 => g[i - 1] = f[n]
      BY <1>7, <3>1
    <3> QED
      BY <1>3, <1>4, <1>7, <2>2, <3>1, <3>2
  <2> QED
    BY <2>1, <2>2
<1>10. Running(v, g)
  BY <1>6, <1>9 DEF Running
<1> QED
  BY <1>0, <1>5, <1>6, <1>7, <1>10

LEMMA RunningExists ==
  ASSUME NEW S, NEW t \in Seq(Seq(S))
  PROVE  \E g \in [1..Len(t) -> Seq(S)] : Running(t, g)
<1> DEFINE G == {k \in Nat : k <= Len(t) => \E g \in [1..k -> Seq(S)] : Running(t, g)}
<1>1. 0 \in G
  <2>1. PICK g : g = [i \in 1..0 |-> << >>]
    OBVIOUS
  <2>2. g \in [1..0 -> Seq(S)]
    BY <2>1, EmptySeq
  <2>3. Running(t, g)
    BY <2>1 DEF Running
  <2> QED
    BY <2>2, <2>3
<1>2. ASSUME NEW k \in Nat, k \in G PROVE k + 1 \in G
  <2>1. SUFFICES ASSUME k + 1 <= Len(t)
                 PROVE  \E g \in [1..(k + 1) -> Seq(S)] : Running(t, g)
    OBVIOUS
  <2>2. k <= Len(t)
    BY <2>1, LenProperties
  <2>3. PICK f \in [1..k -> Seq(S)] : Running(t, f)
    BY <1>2, <2>2
  <2> QED
    BY <2>1, <2>3, RunningLonger
<1>3. Nat \subseteq G
  BY <1>1, <1>2, Induction
<1> HIDE DEF G
<1>4. Len(t) \in G /\ Len(t) <= Len(t)
  BY <1>3, LenProperties
<1> QED
  BY <1>4 DEF G

LEMMA FlattenIs ==
  ASSUME NEW S, NEW t \in Seq(Seq(S)), NEW f \in [1..Len(t) -> Seq(S)], Running(t, f)
  PROVE  FlattenSeq(t) = IF Len(t) = 0 THEN << >> ELSE f[Len(t)]
<1>1. Len(t) \in Nat /\ (Len(t) = 0 => t = << >>)
  BY LenProperties, EmptySeq
<1>2. CASE Len(t) = 0
  BY <1>1, <1>2 DEF FlattenSeq
<1>3. CASE Len(t) # 0
  <2> DEFINE g == CHOOSE h : h = [i \in 1..Len(t) |-> IF i = 1 THEN t[i] ELSE h[i - 1] \o t[i]]
  <2>1. \A i \in 1..Len(t) : f[i] = IF i = 1 THEN t[i] ELSE f[i - 1] \o t[i]
    BY DEF Running
  <2>2. f = [i \in 1..Len(t) |-> IF i = 1 THEN t[i] ELSE f[i - 1] \o t[i]]
    BY <2>1
  <2>3. g = [i \in 1..Len(t) |-> IF i = 1 THEN t[i] ELSE g[i - 1] \o t[i]]
    BY <2>2
  <2>4. FlattenSeq(t) = g[Len(t)]
    BY <1>3 DEF FlattenSeq
  <2> HIDE DEF g
  <2>5. \A i \in 1..Len(t) : g[i] = IF i = 1 THEN t[i] ELSE g[i - 1] \o t[i]
    BY <2>3
  <2> DEFINE G == {k \in Nat : 1 <= k /\ k <= Len(t) => f[k] = g[k]}
  <2>6. 0 \in G
    OBVIOUS
  <2>7. ASSUME NEW k \in Nat, k \in G PROVE k + 1 \in G
    <3>1. SUFFICES ASSUME k + 1 <= Len(t) PROVE f[k + 1] = g[k + 1]
      OBVIOUS
    <3>2. k + 1 \in 1..Len(t) /\ (k + 1) - 1 = k
      BY <1>1, <3>1
    <3>3. k + 1 # 1 => f[k] = g[k]
      BY <1>1, <2>7, <3>1
    <3>4. f[k + 1] = IF k + 1 = 1 THEN t[k + 1] ELSE f[k] \o t[k + 1]
      BY <2>1, <3>2
    <3>5. g[k + 1] = IF k + 1 = 1 THEN t[k + 1] ELSE g[k] \o t[k + 1]
      BY <2>5, <3>2
    <3> QED
      BY <3>3, <3>4, <3>5, Zenon
  <2>8. Nat \subseteq G
    BY <2>6, <2>7, Induction
  <2>9. f[Len(t)] = g[Len(t)]
    BY <1>1, <1>3, <2>8
  <2> QED
    BY <1>3, <2>4, <2>9
<1> QED
  BY <1>2, <1>3

LEMMA FlattenEmpty == FlattenSeq(<< >>) = << >>
  BY EmptySeq DEF FlattenSeq

\* One more sequence at the end.
LEMMA FlattenLonger ==
  ASSUME NEW S, NEW t \in Seq(Seq(S)), NEW v \in Seq(Seq(S)), NEW n \in Nat,
         Len(t) = n, Len(v) = n + 1, \A i \in 1..n : v[i] = t[i]
  PROVE  FlattenSeq(t) \in Seq(S) /\ FlattenSeq(v) = FlattenSeq(t) \o v[n + 1]
<1>1. PICK f \in [1..n -> Seq(S)] : Running(t, f)
  BY RunningExists
<1>2. Running(v, f)
  BY <1>1 DEF Running
<1> DEFINE g == Longer(f, v, n)
<1>3. g \in [1..(n + 1) -> Seq(S)] /\ Running(v, g) /\ g[n + 1] = SoFar(f, n) \o v[n + 1]
  BY <1>1, <1>2, RunningLonger
<1> HIDE DEF g
<1>4. FlattenSeq(v) = g[n + 1]
  <2>1. g \in [1..Len(v) -> Seq(S)] /\ Len(v) # 0
    BY <1>3
  <2>2. FlattenSeq(v) = IF Len(v) = 0 THEN << >> ELSE g[Len(v)]
    BY <1>3, <2>1, FlattenIs
  <2> QED
    BY <2>1, <2>2
<1>5. FlattenSeq(t) = IF n = 0 THEN << >> ELSE f[n]
  BY <1>1, FlattenIs
<1>6. FlattenSeq(t) \in Seq(S) /\ FlattenSeq(t) = SoFar(f, n)
  <2>1. n # 0 => n \in 1..n
    OBVIOUS
  <2> QED
    BY <1>5, <2>1, EmptySeq DEF SoFar
<1> QED
  BY <1>3, <1>4, <1>5, <1>6

LEMMA FlattenAppend ==
  ASSUME NEW S, NEW t \in Seq(Seq(S)), NEW u \in Seq(S)
  PROVE  FlattenSeq(t) \in Seq(S) /\ FlattenSeq(Append(t, u)) = FlattenSeq(t) \o u
<1>1. /\ Append(t, u) \in Seq(Seq(S)) /\ Len(t) \in Nat /\ Len(Append(t, u)) = Len(t) + 1
      /\ \A i \in 1..Len(t) : Append(t, u)[i] = t[i]
      /\ Append(t, u)[Len(t) + 1] = u
  BY AppendProperties, LenProperties
<1> QED
  BY <1>1, FlattenLonger

Associate(a, b, c) == (a \o b) \o c = a \o (b \o c)

LEMMA JoinsUp ==
  ASSUME NEW S, NEW a \in Seq(S), NEW b \in Seq(S), NEW c \in Seq(S)
  PROVE  Associate(a, b, c)
  BY DEF Associate

AppendsLast(t, v, x) == t \o Append(v, x) = Append(t \o v, x)

LEMMA ConcatAppend ==
  ASSUME NEW S, NEW t \in Seq(S), NEW v \in Seq(S), NEW x \in S
  PROVE  t \o v \in Seq(S) /\ AppendsLast(t, v, x)
  BY DEF AppendsLast

LEMMA FlattenConcat ==
  ASSUME NEW S, NEW t \in Seq(Seq(S)), NEW u \in Seq(Seq(S))
  PROVE  FlattenSeq(t \o u) = FlattenSeq(t) \o FlattenSeq(u)
<1> DEFINE G == {n \in Nat : \A w \in Seq(Seq(S)) :
                   Len(w) = n => FlattenSeq(t \o w) = FlattenSeq(t) \o FlattenSeq(w)}
<1>1. 0 \in G
  <2>1. SUFFICES ASSUME NEW w \in Seq(Seq(S)), Len(w) = 0
                 PROVE  FlattenSeq(t \o w) = FlattenSeq(t) \o FlattenSeq(w)
    OBVIOUS
  <2>2. w = << >> /\ FlattenSeq(t) \in Seq(S)
    BY <2>1, EmptySeq, FlattenAppend
  <2>3. t \o << >> = t /\ FlattenSeq(t) \o << >> = FlattenSeq(t)
    BY <2>2, ConcatEmptySeq
  <2> QED
    BY <2>2, <2>3, FlattenEmpty
<1>2. ASSUME NEW n \in Nat, n \in G PROVE n + 1 \in G
  <2>1. SUFFICES ASSUME NEW w \in Seq(Seq(S)), Len(w) = n + 1
                 PROVE  FlattenSeq(t \o w) = FlattenSeq(t) \o FlattenSeq(w)
    OBVIOUS
  <2>2. PICK v \in Seq(Seq(S)), x \in Seq(S) : w = Append(v, x) /\ Len(v) = n
    <3> DEFINE v == SubSeq(w, 1, n)
    <3>1. \A i \in 1..(n + 1) : w[i] \in Seq(S)
      BY <2>1, ElementOfSeq
    <3>2. v \in Seq(Seq(S)) /\ Len(v) = n /\ \A i \in 1..n : v[i] = w[i]
      BY <2>1, <3>1, SubSeqProperties
    <3>3. w[n + 1] \in Seq(S)
      BY <3>1
    <3>4. /\ Append(v, w[n + 1]) \in Seq(Seq(S)) /\ Len(Append(v, w[n + 1])) = n + 1
          /\ \A i \in 1..n : Append(v, w[n + 1])[i] = v[i]
          /\ Append(v, w[n + 1])[n + 1] = w[n + 1]
      BY <3>2, <3>3, AppendProperties
    <3> HIDE DEF v
    <3>5. \A i \in 1..Len(w) : w[i] = Append(v, w[n + 1])[i]
      <4>1. \A i \in 1..Len(w) : i \in 1..n \/ i = n + 1
        BY <2>1
      <4> QED
        BY <3>2, <3>4, <4>1, Zenon
    <3>6. w = Append(v, w[n + 1])
      BY <2>1, <3>4, <3>5, SeqEqual
    <3> QED
      BY <3>2, <3>3, <3>6
  <2>3. FlattenSeq(t \o v) = FlattenSeq(t) \o FlattenSeq(v)
    BY <1>2, <2>2
  <2>4. t \o v \in Seq(Seq(S)) /\ t \o w = Append(t \o v, x)
    <3>1. t \in Seq(Seq(S)) /\ v \in Seq(Seq(S)) /\ x \in Seq(S)
      BY <2>2
    <3>2. t \o v \in Seq(Seq(S)) /\ AppendsLast(t, v, x)
      BY ONLY <3>1, ConcatAppend
    <3>3. t \o Append(v, x) = Append(t \o v, x)
      BY <3>2 DEF AppendsLast
    <3> QED
      BY <2>2, <3>2, <3>3, Zenon
  <2>5. /\ FlattenSeq(t) \in Seq(S) /\ FlattenSeq(v) \in Seq(S)
        /\ FlattenSeq(w) = FlattenSeq(v) \o x
        /\ FlattenSeq(t \o w) = FlattenSeq(t \o v) \o x
    BY <2>2, <2>4, FlattenAppend
  <2>6. (FlattenSeq(t) \o FlattenSeq(v)) \o x = FlattenSeq(t) \o (FlattenSeq(v) \o x)
    <3> DEFINE first == FlattenSeq(t)
               middle == FlattenSeq(v)
    <3>1. first \in Seq(S) /\ middle \in Seq(S) /\ x \in Seq(S)
      BY <2>2, <2>5
    <3>2. (first \o middle) \o x = first \o (middle \o x)
      <4> HIDE DEF first, middle
      <4> QED
        <5>1. Associate(first, middle, x)
          BY ONLY <3>1, JoinsUp
        <5> QED
          BY <5>1 DEF Associate
    <3> QED
      BY <3>2
  <2> QED
    BY <2>3, <2>5, <2>6
<1>3. Nat \subseteq G
  BY <1>1, <1>2, Induction
<1> QED
  BY <1>3, LenProperties

\* Where each element of a concatenation q of the sequences t comes from: element
\* i is at place b[i] of sequence a[i], and each comes to one place only.
Traced(q, t, a, b) ==
  /\ a \in [1..Len(q) -> Nat] /\ b \in [1..Len(q) -> Nat]
  /\ \A i \in 1..Len(q) : a[i] \in 1..Len(t) /\ b[i] \in 1..Len(t[a[i]]) /\ q[i] = t[a[i]][b[i]]
  /\ \A i, j \in 1..Len(q) : a[i] = a[j] /\ b[i] = b[j] => i = j
  /\ \A n \in 1..Len(t) : \A m \in 1..Len(t[n]) : \E i \in 1..Len(q) : a[i] = n /\ b[i] = m

LEMMA TracedLonger ==
  ASSUME NEW S, NEW q \in Seq(S), NEW x \in Seq(S), NEW n \in Nat,
         NEW v \in Seq(Seq(S)), Len(v) = n,
         NEW w \in Seq(Seq(S)), Len(w) = n + 1,
         \A i \in 1..n : w[i] = v[i], w[n + 1] = x,
         NEW a, NEW b, Traced(q, v, a, b)
  PROVE  \E c, d : Traced(q \o x, w, c, d)
<1> DEFINE r == q \o x
           k == Len(q)
           l == Len(x)
           c == [i \in 1..k + l |-> IF i <= k THEN a[i] ELSE n + 1]
           d == [i \in 1..k + l |-> IF i <= k THEN b[i] ELSE i - k]
<1>1. /\ Len(r) = k + l /\ k \in Nat /\ l \in Nat
      /\ \A i \in 1..k + l : r[i] = IF i <= k THEN q[i] ELSE x[i - k]
  BY ConcatProperties, LenProperties
<1>2. /\ a \in [1..k -> Nat] /\ b \in [1..k -> Nat]
      /\ \A i \in 1..k : a[i] \in 1..n /\ b[i] \in 1..Len(v[a[i]]) /\ q[i] = v[a[i]][b[i]]
      /\ \A i, j \in 1..k : a[i] = a[j] /\ b[i] = b[j] => i = j
      /\ \A e \in 1..n : \A m \in 1..Len(v[e]) : \E i \in 1..k : a[i] = e /\ b[i] = m
  BY DEF Traced
<1> HIDE DEF r, k, l
<1>3. c \in [1..k + l -> Nat] /\ d \in [1..k + l -> Nat]
  <2>1. ASSUME NEW i \in 1..k + l
        PROVE  (IF i <= k THEN a[i] ELSE n + 1) \in Nat /\ (IF i <= k THEN b[i] ELSE i - k) \in Nat
    BY <1>1, <1>2
  <2> QED
    BY <2>1
<1>4. \A i \in 1..k + l : /\ i <= k => i \in 1..k /\ c[i] = a[i] /\ d[i] = b[i]
                          /\ ~(i <= k) => i - k \in 1..l /\ c[i] = n + 1 /\ d[i] = i - k
  BY <1>1
<1> HIDE DEF c, d
<1>5. ASSUME NEW i \in 1..k + l
      PROVE  c[i] \in 1..Len(w) /\ d[i] \in 1..Len(w[c[i]]) /\ r[i] = w[c[i]][d[i]]
  <2>1. CASE i <= k
    <3>1. i \in 1..k /\ c[i] = a[i] /\ d[i] = b[i] /\ r[i] = q[i]
      BY <1>1, <1>4, <2>1
    <3>2. a[i] \in 1..n /\ b[i] \in 1..Len(v[a[i]]) /\ q[i] = v[a[i]][b[i]]
      BY <1>2, <3>1
    <3>3. w[a[i]] = v[a[i]] /\ a[i] \in 1..Len(w)
      BY <3>2
    <3> QED
      BY <3>1, <3>2, <3>3
  <2>2. CASE ~(i <= k)
    BY <1>1, <1>4, <2>2 DEF l
  <2> QED
    BY <2>1, <2>2
<1>6. ASSUME NEW i \in 1..k + l, NEW j \in 1..k + l, c[i] = c[j], d[i] = d[j] PROVE i = j
  <2>1. CASE i <= k /\ j <= k
    BY <1>2, <1>4, <1>6, <2>1
  <2>2. CASE ~(i <= k) /\ ~(j <= k)
    BY <1>1, <1>4, <1>6, <2>2
  <2>3. ASSUME NEW y \in 1..k + l, NEW z \in 1..k + l, y <= k, ~(z <= k) PROVE c[y] # c[z]
    <3>1. c[y] \in 1..n /\ c[z] = n + 1
      BY <1>2, <1>4, <2>3
    <3> QED
      BY <3>1
  <2> QED
    BY <1>6, <2>1, <2>2, <2>3
<1>7. ASSUME NEW e \in 1..Len(w), NEW m \in 1..Len(w[e])
      PROVE  \E i \in 1..k + l : c[i] = e /\ d[i] = m
  <2>1. CASE e \in 1..n
    <3>1. PICK i \in 1..k : a[i] = e /\ b[i] = m
      BY <1>2, <1>7, <2>1
    <3>2. i \in 1..k + l /\ i <= k
      BY <1>1
    <3> QED
      BY <1>4, <3>1, <3>2
  <2>2. CASE e = n + 1
    <3>1. m \in 1..l
      BY <1>7, <2>2 DEF l
    <3>2. k + m \in 1..k + l /\ ~(k + m <= k) /\ (k + m) - k = m
      BY <1>1, <3>1
    <3>3. c[k + m] = n + 1 /\ d[k + m] = m
      BY <1>4, <3>2
    <3> QED
      BY <2>2, <3>2, <3>3
  <2> QED
    BY <2>1, <2>2
<1>8. Traced(r, w, c, d)
  BY <1>1, <1>3, <1>5, <1>6, <1>7 DEF Traced
<1> QED
  BY <1>8 DEF r

LEMMA FlattenTraced ==
  ASSUME NEW S, NEW t \in Seq(Seq(S))
  PROVE  FlattenSeq(t) \in Seq(S) /\ \E a, b : Traced(FlattenSeq(t), t, a, b)
<1> DEFINE G == {n \in Nat : \A w \in Seq(Seq(S)) :
                   Len(w) = n => \E a, b : Traced(FlattenSeq(w), w, a, b)}
<1>1. 0 \in G
  <2>1. SUFFICES ASSUME NEW w \in Seq(Seq(S)), Len(w) = 0
                 PROVE  \E a, b : Traced(FlattenSeq(w), w, a, b)
    OBVIOUS
  <2>2. w = << >> /\ FlattenSeq(w) = << >> /\ Len(<< >>) = 0
    BY <2>1, EmptySeq, FlattenEmpty
  <2> DEFINE a == [i \in 1..0 |-> 0]
  <2>3. Traced(<< >>, << >>, a, a)
    BY <2>2 DEF Traced
  <2> HIDE DEF a
  <2> QED
    BY <2>2, <2>3
<1>2. ASSUME NEW n \in Nat, n \in G PROVE n + 1 \in G
  <2>1. SUFFICES ASSUME NEW w \in Seq(Seq(S)), Len(w) = n + 1
                 PROVE  \E a, b : Traced(FlattenSeq(w), w, a, b)
    OBVIOUS
  <2> DEFINE v == SubSeq(w, 1, n)
             x == w[n + 1]
  <2>2. /\ v \in Seq(Seq(S)) /\ Len(v) = n /\ \A i \in 1..n : v[i] = w[i]
    BY <2>1, FirstProperties
  <2>3. x \in Seq(S)
    BY <2>1, LenProperties, ElementOfSeq
  <2> HIDE DEF v
  <2>4. FlattenSeq(v) \in Seq(S) /\ FlattenSeq(w) = FlattenSeq(v) \o x
    BY <2>1, <2>2, FlattenLonger
  <2>5. PICK a, b : Traced(FlattenSeq(v), v, a, b)
    BY <1>2, <2>2
  <2>6. \E c, d : Traced(FlattenSeq(v) \o x, w, c, d)
    <3> DEFINE q == FlattenSeq(v)
    <3>1. q \in Seq(S) /\ x \in Seq(S) /\ v \in Seq(Seq(S)) /\ Len(v) = n /\ Len(w) = n + 1
          /\ w[n + 1] = x /\ Traced(q, v, a, b) /\ n \in Nat /\ w \in Seq(Seq(S))
          /\ \A i \in 1..n : w[i] = v[i]
      BY <2>1, <2>2, <2>3, <2>4, <2>5
    <3> HIDE DEF q, x
    <3>2. \E c, d : Traced(q \o x, w, c, d)
      BY ONLY <3>1, TracedLonger
    <3> QED
      BY <3>2 DEF q
  <2> QED
    BY <2>4, <2>6
<1>3. Nat \subseteq G
  BY <1>1, <1>2, Induction
<1> HIDE DEF G
<1>4. Len(t) \in G
  BY <1>3, LenProperties
<1>5. FlattenSeq(t) \in Seq(S)
  <2>1. << >> \in Seq(S)
    BY EmptySeq
  <2> QED
    BY <2>1, FlattenAppend
<1> QED
  BY <1>4, <1>5 DEF G
=============================================================================

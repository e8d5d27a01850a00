----------------------------- MODULE HashMapProofs -----------------------------
(***************************************************************************)
(* For any keys, hashes, values and initial capacity: the table of a hash  *)
(* map never fills up to three quarters; for every key that the slip of    *)
(* c_hash_map_resize does not lead astray it is a map; keys go astray only *)
(* by that slip; what it frees has left it; and a walk shows every node.   *)
(*                                                                         *)
(* A table is looked at as the set of its places, and what a call does to  *)
(* it as a function that says where each node was before (Copied), so that *)
(* growing and removing are one kind of step.                              *)
(***************************************************************************)
EXTENDS HashMap, StreamProofs, FiniteSetTheorems

\* The load, and what makes it inductive: a table of two places has room for a
\* first entry without growing.
LoadInv == /\ cap \in Nat /\ cap >= 2
           /\ count \in Int
           /\ LoadBounded

LEMMA LoadInit == Init => LoadInv
  BY HashMapAssumption DEF Init, LoadInv, LoadBounded

\* c_hash_map_resize is called before the entry is counted: what it does not
\* double has room for one more, and doubling makes room.
LEMMA PutLoad ==
  ASSUME LoadInv, NEW k \in Key, NEW v \in Value, Put(k, v)
  PROVE  LoadInv'
<1>1. cap' = Resized.cap /\ count' = count + 1
  BY DEF Put
<1>2. CASE Grows(count + 1)
  <2>1. cap' = 2 * cap
    BY <1>1, <1>2 DEF Resized
  <2> QED
    BY <1>1, <2>1 DEF LoadInv, LoadBounded
<1>3. CASE ~Grows(count + 1)
  <2>1. cap' = cap
    BY <1>1, <1>3 DEF Resized
  <2>2. 4 * (count + 1) < 3 * cap
    <3>1. CASE count = 0
      BY <3>1 DEF LoadInv
    <3>2. CASE count # 0
      BY <1>3, <3>2 DEF Grows, LoadInv
    <3> QED
      BY <3>1, <3>2
  <2> QED
    BY <1>1, <2>1, <2>2 DEF LoadInv, LoadBounded
<1> QED
  BY <1>2, <1>3

LEMMA RemoveLoad ==
  ASSUME LoadInv, NEW k \in Key, NEW b \in BOOLEAN, RemoveKey(k, b)
  PROVE  LoadInv'
<1>1. cap' = cap /\ (count' = count - 1 \/ count' = count)
  BY DEF RemoveKey
<1> QED
  BY <1>1 DEF LoadInv, LoadBounded

\* c_hash_map_init goes back to the first capacity.
LEMMA ClearLoad == LoadInv /\ Clear => LoadInv'
  BY HashMapAssumption DEF Clear, LoadInv, LoadBounded

\* Other calls leave the table as it is.
LEMMA SameLoad == LoadInv /\ UNCHANGED table => LoadInv'
  BY DEF LoadInv, LoadBounded, table

\* The table is never three quarters full (c_hash_map.c:124, 128, 193).
THEOREM LoadAlwaysBounded == Spec => []LoadBounded
<1>1. LoadInv /\ [Next]_vars => LoadInv'
  <2> SUFFICES ASSUME LoadInv, [Next]_vars PROVE LoadInv'
    OBVIOUS
  <2>1. CASE Clear
    BY <2>1, ClearLoad
  <2>2. ASSUME NEW k \in Key, NEW b \in BOOLEAN, RemoveKey(k, b) PROVE LoadInv'
    BY <2>2, RemoveLoad
  <2>3. ASSUME NEW k \in Key, NEW v \in Value, Put(k, v) PROVE LoadInv'
    BY <2>3, PutLoad
  <2>4. ASSUME NEW k \in Key, Get(k) PROVE LoadInv'
    BY <2>4, SameLoad DEF Get
  <2>5. CASE SetFreeCb
    BY <2>5, SameLoad DEF SetFreeCb
  <2>6. CASE GetFirst
    BY <2>6, SameLoad DEF GetFirst, Shows
  <2>7. CASE GetNext
    BY <2>7, SameLoad DEF GetNext, Shows
  <2>8. CASE UNCHANGED vars
    BY <2>8, SameLoad DEF vars, table
  <2> QED
    BY <2>1, <2>2, <2>3, <2>4, <2>5, <2>6, <2>7, <2>8 DEF Next
<1>2. LoadInv => LoadBounded
  BY DEF LoadInv
<1> QED
  BY <1>1, <1>2, LoadInit, PTL DEF Spec

-----------------------------------------------------------------------------
(* Tables: n are the chains, c is the number of places.                    *)

PlacesIn(n, c) == UNION {{<<i, p>> : p \in 1..Len(n[i])} : i \in 0..(c - 1)}
InPlace(n, x) == n[x[1]][x[2]]
Table(n, c) == c \in Nat /\ c >= 2 /\ n \in [0..(c - 1) -> Seq(Node)]

LEMMA PlaceIs ==
  ASSUME NEW n, NEW c
  PROVE  /\ \A x \in PlacesIn(n, c) : /\ x[1] \in 0..(c - 1) /\ x[2] \in 1..Len(n[x[1]])
                                      /\ x = <<x[1], x[2]>>
         /\ \A i \in 0..(c - 1) : \A p \in 1..Len(n[i]) :
              <<i, p>> \in PlacesIn(n, c) /\ <<i, p>>[1] = i /\ <<i, p>>[2] = p
<1>1. ASSUME NEW x \in PlacesIn(n, c)
      PROVE  x[1] \in 0..(c - 1) /\ x[2] \in 1..Len(n[x[1]]) /\ x = <<x[1], x[2]>>
  <2>1. PICK i \in 0..(c - 1) : x \in {<<i, p>> : p \in 1..Len(n[i])}
    BY DEF PlacesIn
  <2>2. PICK p \in 1..Len(n[i]) : x = <<i, p>>
    BY <2>1
  <2> QED
    BY <2>2
<1>2. ASSUME NEW i \in 0..(c - 1), NEW p \in 1..Len(n[i]) PROVE <<i, p>> \in PlacesIn(n, c)
  BY DEF PlacesIn
<1> QED
  BY <1>1, <1>2

LEMMA PlaceType ==
  ASSUME NEW n, NEW c, Table(n, c), NEW x \in PlacesIn(n, c)
  PROVE  /\ n[x[1]] \in Seq(Node) /\ Len(n[x[1]]) \in Nat /\ x[1] \in Nat /\ x[2] \in Nat
         /\ InPlace(n, x) \in Node
<1>1. x[1] \in 0..(c - 1) /\ x[2] \in 1..Len(n[x[1]]) /\ c \in Nat
  BY PlaceIs DEF Table
<1>2. n[x[1]] \in Seq(Node)
  BY <1>1 DEF Table
<1>3. Len(n[x[1]]) \in Nat
  BY <1>2, LenProperties
<1> QED
  BY <1>1, <1>2, <1>3, ElementOfSeq DEF InPlace

LEMMA Here == Places = PlacesIn(nodes, cap) /\ \A x : NodeAt(x) = InPlace(nodes, x)
  BY DEF Places, PlacesIn, NodeAt, InPlace

\* A set of numbers has a least one.
LEMMA LeastOf ==
  ASSUME NEW S \in SUBSET Nat, S # {}
  PROVE  \E m \in S : \A y \in S : m <= y
<1> DEFINE R == OpToRel(<, Nat)
<1>1. IsWellFoundedOn(R, Nat)
  BY NatLessThanWellFounded
<1>2. \A k, n \in Nat : k < n => <<k, n>> \in R
  BY DEF OpToRel
<1> HIDE DEF R
<1>3. PICK m \in S : \A y \in S : ~(<<y, m>> \in R)
  BY <1>1, WFMin
<1>4. ASSUME NEW y \in S PROVE m <= y
  <2>1. y \in Nat /\ m \in Nat /\ ~(y < m)
    BY <1>2, <1>3
  <2> QED
    BY <2>1
<1> QED
  BY <1>4

\* The first node of a chain that has the key.
LEMMA FindIs ==
  ASSUME NEW chain \in Seq(Node), NEW k
  PROVE  /\ Find(chain, k) \in Nat
         /\ Find(chain, k) = 0 => \A i \in 1..Len(chain) : chain[i].key # k
         /\ Find(chain, k) > 0 =>
              /\ Find(chain, k) \in 1..Len(chain) /\ chain[Find(chain, k)].key = k
              /\ \A i \in 1..Len(chain) : chain[i].key = k => Find(chain, k) <= i
<1> DEFINE I == {i \in 1..Len(chain) : chain[i].key = k}
<1>1. Find(chain, k) = IF I # {} THEN CHOOSE m \in I : \A y \in I : m <= y ELSE 0
  BY DEF Find, SelectInSeq, Min
<1>2. I \subseteq Nat
  OBVIOUS
<1>3. CASE I = {}
  BY <1>1, <1>3
<1>4. CASE I # {}
  <2> DEFINE f == CHOOSE m \in I : \A y \in I : m <= y
  <2>1. f \in I /\ \A y \in I : f <= y
    <3> HIDE DEF I
    <3>1. \E m \in I : \A y \in I : m <= y
      BY <1>2, <1>4, LeastOf
    <3> QED
      BY <3>1
  <2>2. Find(chain, k) = f
    BY <1>1, <1>4
  <2> HIDE DEF f
  <2> QED
    BY <2>1, <2>2
<1> QED
  BY <1>3, <1>4

\* A key that every search finds: one node has it, in the place it belongs in.
Straight(n, c, k) ==
  \A x \in PlacesIn(n, c) : InPlace(n, x).key = k =>
    x[1] = Index(k, c) /\ \A y \in PlacesIn(n, c) : InPlace(n, y).key = k => y = x

LEMMA StraightIs ==
  ASSUME NEW n, NEW c, Table(n, c), NEW k
  PROVE  Straight(n, c, k) <=>
           \A x \in PlacesIn(n, c) : InPlace(n, x).key = k =>
             x[1] = Index(k, c) /\ x[2] = Find(n[x[1]], k)
<1>1. ASSUME Straight(n, c, k), NEW x \in PlacesIn(n, c), InPlace(n, x).key = k
      PROVE  x[1] = Index(k, c) /\ x[2] = Find(n[x[1]], k)
  <2>1. x[1] \in 0..(c - 1) /\ x[2] \in 1..Len(n[x[1]]) /\ n[x[1]] \in Seq(Node)
    BY PlaceIs, PlaceType
  <2> DEFINE f == Find(n[x[1]], k)
  <2>2. f \in 1..Len(n[x[1]]) /\ n[x[1]][f].key = k
    BY <1>1, <2>1, FindIs DEF InPlace
  <2> HIDE DEF f
  <2>3. <<x[1], f>> \in PlacesIn(n, c) /\ <<x[1], f>>[1] = x[1] /\ <<x[1], f>>[2] = f
    BY <2>1, <2>2, PlaceIs
  <2>4. InPlace(n, <<x[1], f>>).key = k
    BY <2>2, <2>3 DEF InPlace
  <2>5. <<x[1], f>> = x
    BY <1>1, <2>3, <2>4 DEF Straight
  <2> QED
    BY <1>1, <2>3, <2>5 DEF Straight, f
<1>2. ASSUME \A x \in PlacesIn(n, c) : InPlace(n, x).key = k =>
               x[1] = Index(k, c) /\ x[2] = Find(n[x[1]], k),
             NEW x \in PlacesIn(n, c), InPlace(n, x).key = k,
             NEW y \in PlacesIn(n, c), InPlace(n, y).key = k
      PROVE  x[1] = Index(k, c) /\ y = x
  <2>1. x[1] = y[1] /\ x[2] = y[2]
    BY <1>2
  <2>2. x = <<x[1], x[2]>> /\ y = <<y[1], y[2]>>
    BY PlaceIs
  <2> QED
    BY <1>2, <2>1, <2>2
<1> QED
  BY <1>1, <1>2 DEF Straight

AstrayIn(n, c) == {k \in Key : ~Straight(n, c, k)}

LEMMA AstrayHere == Table(nodes, cap) => Astray = AstrayIn(nodes, cap)
<1> SUFFICES ASSUME Table(nodes, cap) PROVE Astray = AstrayIn(nodes, cap)
  OBVIOUS
<1>1. ASSUME NEW k \in Key PROVE k \in Astray <=> ~Straight(nodes, cap, k)
  BY StraightIs, Here DEF Astray, InPlace
<1> QED
  BY <1>1 DEF AstrayIn, Astray

-----------------------------------------------------------------------------
(* A table whose nodes are those at the places X of another.               *)

Copied(n, X, m, d, org) ==
  /\ org \in [PlacesIn(m, d) -> X]
  /\ \A y \in PlacesIn(m, d) : InPlace(m, y) = InPlace(n, org[y])
  /\ \A y, z \in PlacesIn(m, d) : org[y] = org[z] => y = z
  /\ \A x \in X : \E y \in PlacesIn(m, d) : org[y] = x

EntriesAt(n, X) == {InPlace(n, x) : x \in X}
HeldAt(n, X) == {InPlace(n, x).value : x \in X}
ValuesOnce(n, X) == \A x, y \in X : InPlace(n, x).value = InPlace(n, y).value => x = y
Alone(n, X, k) == \A x, y \in X : InPlace(n, x).key = k /\ InPlace(n, y).key = k => x = y

LEMMA CopiedKeeps ==
  ASSUME NEW n, NEW X, NEW m, NEW d, NEW org, Copied(n, X, m, d, org)
  PROVE  /\ EntriesAt(m, PlacesIn(m, d)) = EntriesAt(n, X)
         /\ HeldAt(m, PlacesIn(m, d)) = HeldAt(n, X)
         /\ ValuesOnce(n, X) => ValuesOnce(m, PlacesIn(m, d))
         /\ \A k : Alone(n, X, k) => Alone(m, PlacesIn(m, d), k)
<1> DEFINE Y == PlacesIn(m, d)
<1>1. /\ org \in [Y -> X]
      /\ \A y \in Y : InPlace(m, y) = InPlace(n, org[y])
      /\ \A y, z \in Y : org[y] = org[z] => y = z
      /\ \A x \in X : \E y \in Y : org[y] = x
  BY DEF Copied
<1> HIDE DEF Y
<1>2. EntriesAt(m, Y) = EntriesAt(n, X)
  BY <1>1 DEF EntriesAt
<1>3. HeldAt(m, Y) = HeldAt(n, X)
  BY <1>1 DEF HeldAt
<1>4. ASSUME ValuesOnce(n, X), NEW y \in Y, NEW z \in Y, InPlace(m, y).value = InPlace(m, z).value
      PROVE  y = z
  <2>1. org[y] \in X /\ org[z] \in X /\ InPlace(n, org[y]).value = InPlace(n, org[z]).value
    BY <1>1, <1>4
  <2> QED
    BY <1>1, <1>4, <2>1 DEF ValuesOnce
<1>5. ASSUME NEW k, Alone(n, X, k), NEW y \in Y, NEW z \in Y,
             InPlace(m, y).key = k, InPlace(m, z).key = k
      PROVE  y = z
  <2>1. org[y] \in X /\ org[z] \in X /\ InPlace(n, org[y]).key = k /\ InPlace(n, org[z]).key = k
    BY <1>1, <1>5
  <2> QED
    BY <1>1, <1>5, <2>1 DEF Alone
<1>6. (ValuesOnce(n, X) => ValuesOnce(m, Y)) /\ \A k : Alone(n, X, k) => Alone(m, Y, k)
  BY <1>4, <1>5 DEF ValuesOnce, Alone
<1> QED
  BY <1>2, <1>3, <1>6 DEF Y

LEMMA CopiedCount ==
  ASSUME NEW n, NEW X, IsFiniteSet(X), NEW m, NEW d, NEW org, Copied(n, X, m, d, org)
  PROVE  /\ IsFiniteSet(PlacesIn(m, d))
         /\ Cardinality(PlacesIn(m, d)) <= Cardinality(X)
<1>1. org \in Injection(PlacesIn(m, d), X)
  BY DEF Copied, Injection, IsInjective
<1> QED
  BY <1>1, FS_Injection

-----------------------------------------------------------------------------
(* The table that has grown.                                               *)

LEMMA IndexType ==
  ASSUME NEW k \in Key, NEW c \in Nat, c > 0
  PROVE  Index(k, c) \in 0..(c - 1)
<1>1. Hash[k] \in Int
  BY HashMapAssumption
<1> QED
  BY <1>1 DEF Index

LEMMA NewIndexType ==
  ASSUME Table(nodes, cap), NEW k \in Key, NEW i \in 0..(cap - 1)
  PROVE  NewIndex(k, i) \in 0..(2 * cap - 1)
<1>1. cap \in Nat /\ cap >= 2 /\ 2 * cap \in Nat
  BY DEF Table
<1>2. Index(k, 2 * cap) \in 0..(2 * cap - 1)
  BY <1>1, IndexType
<1>3. i \in 0..(2 * cap - 1)
  BY <1>1
<1> QED
  BY <1>2, <1>3 DEF NewIndex

\* Where the nodes that leave place i for place j were in its chain.
LeavesFrom(a, i, j) ==
  /\ a \in [1..Len(Leaving(i, j)) -> Nat]
  /\ \A m \in 1..Len(Leaving(i, j)) :
       /\ a[m] \in 1..Len(nodes[i]) /\ Leaving(i, j)[m] = nodes[i][a[m]]
       /\ NewIndex(nodes[i][a[m]].key, i) = j
  /\ \A l, m \in 1..Len(Leaving(i, j)) : a[l] = a[m] => l = m
  /\ \A p \in 1..Len(nodes[i]) :
       NewIndex(nodes[i][p].key, i) = j => \E m \in 1..Len(Leaving(i, j)) : a[m] = p

LEMMA LeavingTraced ==
  ASSUME Table(nodes, cap), NEW i \in 0..(cap - 1), NEW j
  PROVE  Leaving(i, j) \in Seq(Node) /\ \E a : LeavesFrom(a, i, j)
<1> DEFINE chain == nodes[i]
           t == [p \in 1..Len(chain) |-> Chosen(chain[p], i, j)]
           q == Leaving(i, j)
<1>1. chain \in Seq(Node) /\ Len(chain) \in Nat
  BY LenProperties DEF Table
<1>2. \A p \in 1..Len(chain) : chain[p] \in Node
  BY <1>1, ElementOfSeq
<1>3. ASSUME NEW e \in Node
      PROVE  /\ Chosen(e, i, j) \in Seq(Node)
             /\ NewIndex(e.key, i) = j =>
                  Len(Chosen(e, i, j)) = 1 /\ Chosen(e, i, j)[1] = e
             /\ NewIndex(e.key, i) # j => Len(Chosen(e, i, j)) = 0
  BY <1>3 DEF Chosen
<1>4. t \in Seq(Seq(Node)) /\ Len(t) = Len(chain)
      /\ \A p \in 1..Len(chain) : t[p] = Chosen(chain[p], i, j)
  <2> DEFINE f(p) == Chosen(chain[p], i, j)
  <2>1. \A p \in 1..Len(chain) : f(p) \in Seq(Node)
    BY <1>2, <1>3
  <2>2. t = [p \in 1..Len(chain) |-> f(p)]
    OBVIOUS
  <2> HIDE DEF f, t
  <2>3. t \in Seq(Seq(Node)) /\ Len(t) = Len(chain) /\ \A p \in 1..Len(chain) : t[p] = f(p)
    BY <1>1, <2>1, <2>2
  <2> QED
    BY <2>3 DEF f
<1>5. q = FlattenSeq(t)
  BY DEF Leaving
<1> HIDE DEF t, q
<1>6. q \in Seq(Node) /\ \E a, b : Traced(q, t, a, b)
  BY <1>4, <1>5, FlattenTraced
<1>7. PICK a, b : Traced(q, t, a, b)
  BY <1>6
<1>8. /\ a \in [1..Len(q) -> Nat] /\ b \in [1..Len(q) -> Nat]
      /\ \A m \in 1..Len(q) : a[m] \in 1..Len(t) /\ b[m] \in 1..Len(t[a[m]]) /\ q[m] = t[a[m]][b[m]]
      /\ \A l, m \in 1..Len(q) : a[l] = a[m] /\ b[l] = b[m] => l = m
      /\ \A p \in 1..Len(t) : \A m \in 1..Len(t[p]) : \E l \in 1..Len(q) : a[l] = p /\ b[l] = m
  BY <1>7 DEF Traced
<1>9. ASSUME NEW m \in 1..Len(q)
      PROVE  /\ a[m] \in 1..Len(chain) /\ b[m] = 1 /\ q[m] = chain[a[m]]
             /\ NewIndex(chain[a[m]].key, i) = j
  <2>1. a[m] \in 1..Len(chain) /\ b[m] \in 1..Len(t[a[m]]) /\ q[m] = t[a[m]][b[m]]
    BY <1>4, <1>8
  <2>2. chain[a[m]] \in Node /\ t[a[m]] = Chosen(chain[a[m]], i, j)
    BY <1>2, <1>4, <2>1
  <2>3. NewIndex(chain[a[m]].key, i) = j
    BY <1>3, <2>1, <2>2
  <2>4. Len(t[a[m]]) = 1 /\ t[a[m]][1] = chain[a[m]]
    BY <1>3, <2>2, <2>3
  <2> QED
    BY <2>1, <2>3, <2>4
<1>10. ASSUME NEW p \in 1..Len(chain), NewIndex(chain[p].key, i) = j
       PROVE  \E m \in 1..Len(q) : a[m] = p
  <2>1. chain[p] \in Node /\ p \in 1..Len(t) /\ t[p] = Chosen(chain[p], i, j)
    BY <1>2, <1>4
  <2>2. 1 \in 1..Len(t[p])
    BY <1>3, <1>10, <2>1
  <2> QED
    BY <1>8, <2>1, <2>2
<1>11. \A l, m \in 1..Len(q) : a[l] = a[m] => l = m
  BY <1>8, <1>9
<1>12. LeavesFrom(a, i, j)
  BY <1>8, <1>9, <1>10, <1>11 DEF LeavesFrom, q
<1> QED
  BY <1>6, <1>12 DEF q

\* Where the nodes of the new chain at j were in the table.
CameFrom(e, f, j) ==
  /\ \A m \in 1..Len(Relocated[j]) :
       /\ e[m] \in 0..(cap - 1) /\ f[m] \in 1..Len(nodes[e[m]])
       /\ Relocated[j][m] = nodes[e[m]][f[m]]
       /\ NewIndex(nodes[e[m]][f[m]].key, e[m]) = j
  /\ \A l, m \in 1..Len(Relocated[j]) : e[l] = e[m] /\ f[l] = f[m] => l = m
  /\ \A i \in 0..(cap - 1) : \A p \in 1..Len(nodes[i]) :
       NewIndex(nodes[i][p].key, i) = j => \E m \in 1..Len(Relocated[j]) : e[m] = i /\ f[m] = p

LEMMA RelocatedTraced ==
  ASSUME Table(nodes, cap), NEW j \in 0..(2 * cap - 1)
  PROVE  Relocated[j] \in Seq(Node) /\ \E e, f : CameFrom(e, f, j)
<1> DEFINE t == [n \in 1..cap |-> Leaving(n - 1, j)]
           q == Relocated[j]
           from(i) == CHOOSE a : LeavesFrom(a, i, j)
<1>1. cap \in Nat /\ \A n \in 1..cap : n - 1 \in 0..(cap - 1)
  BY DEF Table
<1>2. ASSUME NEW i \in 0..(cap - 1)
      PROVE  Leaving(i, j) \in Seq(Node) /\ LeavesFrom(from(i), i, j)
  <2>1. Leaving(i, j) \in Seq(Node) /\ \E a : LeavesFrom(a, i, j)
    BY LeavingTraced
  <2> QED
    BY <2>1
<1> HIDE DEF from
<1>3. t \in Seq(Seq(Node)) /\ Len(t) = cap /\ \A n \in 1..cap : t[n] = Leaving(n - 1, j)
  <2> DEFINE g(n) == Leaving(n - 1, j)
  <2>1. \A n \in 1..cap : g(n) \in Seq(Node)
    BY <1>1, <1>2
  <2>2. t = [n \in 1..cap |-> g(n)]
    OBVIOUS
  <2> HIDE DEF g, t
  <2>3. t \in Seq(Seq(Node)) /\ Len(t) = cap /\ \A n \in 1..cap : t[n] = g(n)
    BY <1>1, <2>1, <2>2
  <2> QED
    BY <2>3 DEF g
<1>4. q = FlattenSeq(t)
  BY DEF Relocated
<1> HIDE DEF t, q
<1>5. q \in Seq(Node) /\ \E a, b : Traced(q, t, a, b)
  BY <1>3, <1>4, FlattenTraced
<1>6. PICK a, b : Traced(q, t, a, b)
  BY <1>5
<1>7. /\ \A m \in 1..Len(q) : a[m] \in 1..Len(t) /\ b[m] \in 1..Len(t[a[m]]) /\ q[m] = t[a[m]][b[m]]
      /\ \A l, m \in 1..Len(q) : a[l] = a[m] /\ b[l] = b[m] => l = m
      /\ \A n \in 1..Len(t) : \A m \in 1..Len(t[n]) : \E l \in 1..Len(q) : a[l] = n /\ b[l] = m
  BY <1>6 DEF Traced
<1> DEFINE e == [m \in 1..Len(q) |-> a[m] - 1]
           f == [m \in 1..Len(q) |-> from(a[m] - 1)[b[m]]]
<1>8. ASSUME NEW m \in 1..Len(q)
      PROVE  /\ a[m] \in Nat /\ e[m] = a[m] - 1 /\ e[m] \in 0..(cap - 1)
             /\ b[m] \in 1..Len(Leaving(e[m], j)) /\ f[m] = from(e[m])[b[m]]
             /\ q[m] = Leaving(e[m], j)[b[m]]
  <2>1. a[m] \in 1..cap /\ b[m] \in 1..Len(t[a[m]]) /\ q[m] = t[a[m]][b[m]]
    BY <1>3, <1>7
  <2>2. a[m] \in Nat /\ a[m] - 1 \in 0..(cap - 1)
    BY <1>1, <2>1
  <2>3. t[a[m]] = Leaving(a[m] - 1, j)
    BY <1>3, <2>1
  <2>4. e[m] = a[m] - 1 /\ f[m] = from(a[m] - 1)[b[m]]
    OBVIOUS
  <2> HIDE DEF e, f
  <2> QED
    BY <2>1, <2>2, <2>3, <2>4
<1> HIDE DEF e, f
<1>9. ASSUME NEW i \in 0..(cap - 1)
      PROVE  /\ \A m \in 1..Len(Leaving(i, j)) :
                  /\ from(i)[m] \in 1..Len(nodes[i]) /\ Leaving(i, j)[m] = nodes[i][from(i)[m]]
                  /\ NewIndex(nodes[i][from(i)[m]].key, i) = j
             /\ \A l, m \in 1..Len(Leaving(i, j)) : from(i)[l] = from(i)[m] => l = m
             /\ \A p \in 1..Len(nodes[i]) :
                  NewIndex(nodes[i][p].key, i) = j => \E m \in 1..Len(Leaving(i, j)) : from(i)[m] = p
  BY <1>2 DEF LeavesFrom
<1>10. ASSUME NEW m \in 1..Len(q)
       PROVE  /\ e[m] \in 0..(cap - 1) /\ f[m] \in 1..Len(nodes[e[m]])
              /\ q[m] = nodes[e[m]][f[m]]
              /\ NewIndex(nodes[e[m]][f[m]].key, e[m]) = j
  <2>1. /\ e[m] \in 0..(cap - 1) /\ b[m] \in 1..Len(Leaving(e[m], j))
        /\ f[m] = from(e[m])[b[m]] /\ q[m] = Leaving(e[m], j)[b[m]]
    BY <1>8
  <2>2. /\ from(e[m])[b[m]] \in 1..Len(nodes[e[m]])
        /\ Leaving(e[m], j)[b[m]] = nodes[e[m]][from(e[m])[b[m]]]
        /\ NewIndex(nodes[e[m]][from(e[m])[b[m]]].key, e[m]) = j
    BY <1>9, <2>1
  <2> QED
    BY <2>1, <2>2
<1>11. ASSUME NEW l \in 1..Len(q), NEW m \in 1..Len(q), e[l] = e[m], f[l] = f[m]
       PROVE  l = m
  <2>1. a[l] = a[m]
    BY <1>8, <1>11
  <2>2. b[l] = b[m]
    <3>1. /\ e[m] \in 0..(cap - 1) /\ b[l] \in 1..Len(Leaving(e[m], j))
          /\ b[m] \in 1..Len(Leaving(e[m], j)) /\ from(e[m])[b[l]] = from(e[m])[b[m]]
      BY <1>8, <1>11
    <3>2. \A g, h \in 1..Len(Leaving(e[m], j)) : from(e[m])[g] = from(e[m])[h] => g = h
      BY <1>9, <3>1
    <3> QED
      BY <3>1, <3>2
  <2> QED
    BY <1>7, <2>1, <2>2
<1>12. ASSUME NEW i \in 0..(cap - 1), NEW p \in 1..Len(nodes[i]), NewIndex(nodes[i][p].key, i) = j
       PROVE  \E m \in 1..Len(q) : e[m] = i /\ f[m] = p
  <2>1. PICK l \in 1..Len(Leaving(i, j)) : from(i)[l] = p
    BY <1>9, <1>12
  <2>2. i + 1 \in 1..Len(t) /\ (i + 1) - 1 = i /\ t[i + 1] = Leaving(i, j)
    BY <1>1, <1>3
  <2>3. PICK m \in 1..Len(q) : a[m] = i + 1 /\ b[m] = l
    BY <1>7, <2>1, <2>2
  <2>4. e[m] = i
    BY <1>8, <2>2, <2>3
  <2> QED
    BY <1>8, <2>1, <2>3, <2>4
<1>13. CameFrom(e, f, j)
  BY <1>10, <1>11, <1>12 DEF CameFrom, q
<1> QED
  BY <1>5, <1>13 DEF q

\* The table that has grown holds the nodes it held, each where
\* c_hash_map_resize puts it.
LEMMA RelocatedCopied ==
  ASSUME Table(nodes, cap)
  PROVE  /\ Table(Relocated, 2 * cap)
         /\ \E org : /\ Copied(nodes, PlacesIn(nodes, cap), Relocated, 2 * cap, org)
                     /\ \A y \in PlacesIn(Relocated, 2 * cap) :
                          y[1] = NewIndex(InPlace(Relocated, y).key, org[y][1])
<1> DEFINE d == 2 * cap
           J == 0..(d - 1)
           X == PlacesIn(nodes, cap)
           m == Relocated
           Y == PlacesIn(m, d)
           E(j) == CHOOSE e : \E f : CameFrom(e, f, j)
           F(j) == CHOOSE f : CameFrom(E(j), f, j)
           org == [y \in Y |-> <<E(y[1])[y[2]], F(y[1])[y[2]]>>]
<1>1. d \in Nat /\ d >= 2
  BY DEF Table
<1>2. ASSUME NEW j \in J PROVE m[j] \in Seq(Node) /\ CameFrom(E(j), F(j), j)
  <2>1. m[j] \in Seq(Node) /\ \E e, f : CameFrom(e, f, j)
    BY RelocatedTraced
  <2>2. \E f : CameFrom(E(j), f, j)
    BY <2>1
  <2> QED
    BY <2>1, <2>2
<1>3. m = [j \in J |-> m[j]]
  BY DEF Relocated
<1>4. Table(m, d)
  <2> HIDE DEF m, d
  <2> QED
    BY <1>1, <1>2, <1>3 DEF Table
<1> HIDE DEF E, F
<1>5. ASSUME NEW j \in J
      PROVE  /\ \A l \in 1..Len(m[j]) :
                  /\ E(j)[l] \in 0..(cap - 1) /\ F(j)[l] \in 1..Len(nodes[E(j)[l]])
                  /\ m[j][l] = nodes[E(j)[l]][F(j)[l]]
                  /\ NewIndex(nodes[E(j)[l]][F(j)[l]].key, E(j)[l]) = j
             /\ \A l, h \in 1..Len(m[j]) : E(j)[l] = E(j)[h] /\ F(j)[l] = F(j)[h] => l = h
             /\ \A i \in 0..(cap - 1) : \A p \in 1..Len(nodes[i]) :
                  NewIndex(nodes[i][p].key, i) = j => \E l \in 1..Len(m[j]) : E(j)[l] = i /\ F(j)[l] = p
  BY <1>2 DEF CameFrom
<1>6. ASSUME NEW y \in Y
      PROVE  /\ y[1] \in J /\ y[2] \in 1..Len(m[y[1]]) /\ y = <<y[1], y[2]>>
             /\ InPlace(m, y) = m[y[1]][y[2]]
             /\ org[y] = <<E(y[1])[y[2]], F(y[1])[y[2]]>>
  BY PlaceIs DEF InPlace
<1> HIDE DEF org, m, Y
<1>7. ASSUME NEW y \in Y
      PROVE  /\ org[y] \in X /\ InPlace(m, y) = InPlace(nodes, org[y])
             /\ y[1] = NewIndex(InPlace(m, y).key, org[y][1])
  <2> DEFINE i == E(y[1])[y[2]]
             p == F(y[1])[y[2]]
  <2>1. /\ i \in 0..(cap - 1) /\ p \in 1..Len(nodes[i])
        /\ m[y[1]][y[2]] = nodes[i][p] /\ NewIndex(nodes[i][p].key, i) = y[1]
    <3>1. y[1] \in J /\ y[2] \in 1..Len(m[y[1]])
      BY <1>6
    <3> HIDE DEF J
    <3> QED
      BY <1>5, <3>1
  <2>2. org[y] = <<i, p>> /\ InPlace(m, y) = m[y[1]][y[2]]
    BY <1>6
  <2> HIDE DEF i, p
  <2>3. <<i, p>> \in X /\ <<i, p>>[1] = i /\ <<i, p>>[2] = p
    BY <2>1, PlaceIs
  <2>4. InPlace(nodes, <<i, p>>) = nodes[i][p]
    BY <2>3 DEF InPlace
  <2> QED
    BY <2>1, <2>2, <2>3, <2>4
<1>8. ASSUME NEW y \in Y, NEW z \in Y, org[y] = org[z] PROVE y = z
  <2>1. y[1] = z[1]
    <3>1. InPlace(m, y) = InPlace(m, z)
      BY <1>7, <1>8
    <3> QED
      BY <1>7, <1>8, <3>1
  <2>2. /\ E(y[1])[y[2]] = E(y[1])[z[2]] /\ F(y[1])[y[2]] = F(y[1])[z[2]]
        /\ y[1] \in J /\ y[2] \in 1..Len(m[y[1]]) /\ z[2] \in 1..Len(m[y[1]])
    BY <1>6, <1>8, <2>1
  <2>3. y[2] = z[2]
    BY <1>5, <2>2
  <2> QED
    BY <1>6, <2>1, <2>3
<1>9. ASSUME NEW x \in X PROVE \E y \in Y : org[y] = x
  <2>1. /\ x[1] \in 0..(cap - 1) /\ x[2] \in 1..Len(nodes[x[1]]) /\ x = <<x[1], x[2]>>
        /\ nodes[x[1]][x[2]] \in Node
    BY PlaceIs, PlaceType DEF InPlace
  <2> DEFINE j == NewIndex(nodes[x[1]][x[2]].key, x[1])
  <2>2. j \in J
    BY <2>1, NewIndexType DEF Node
  <2>3. PICK l \in 1..Len(m[j]) : E(j)[l] = x[1] /\ F(j)[l] = x[2]
    BY <1>5, <2>1, <2>2
  <2> HIDE DEF j
  <2>4. <<j, l>> \in Y /\ <<j, l>>[1] = j /\ <<j, l>>[2] = l
    BY <2>2, <2>3, PlaceIs DEF Y
  <2>5. org[<<j, l>>] = x
    BY <1>6, <2>1, <2>3, <2>4
  <2> QED
    BY <2>4, <2>5
<1>10. org \in [Y -> X]
  <2>1. org = [y \in Y |-> org[y]]
    BY DEF org
  <2> QED
    BY <1>7, <2>1
<1>11. Copied(nodes, X, m, d, org)
  BY <1>7, <1>8, <1>9, <1>10 DEF Copied, Y
<1> QED
  BY <1>4, <1>7, <1>11 DEF m, Y

-----------------------------------------------------------------------------
(* The bit that decides.                                                   *)

\* There is one way to divide.
LEMMA OneQuotient ==
  ASSUME NEW c \in Nat, c > 0, NEW p \in Int, NEW q \in Int,
         NEW r \in 0..(c - 1), NEW s \in 0..(c - 1), c * p + r = c * q + s
  PROVE  r = s
<1>1. CASE p = q
  BY <1>1
<1>2. ASSUME p < q PROVE FALSE
  <2>1. q - p \in Nat /\ q - p >= 1 /\ q = p + (q - p)
    BY <1>2
  <2>2. c * (q - p) >= c
    BY <2>1
  <2>3. c * q = c * p + c * (q - p)
    BY <2>1
  <2> QED
    BY <2>2, <2>3
<1>3. ASSUME q < p PROVE FALSE
  <2>1. p - q \in Nat /\ p - q >= 1 /\ p = q + (p - q)
    BY <1>3
  <2>2. c * (p - q) >= c
    BY <2>1
  <2>3. c * p = c * q + c * (p - q)
    BY <2>1
  <2> QED
    BY <2>2, <2>3
<1> QED
  BY <1>1, <1>2, <1>3

LEMMA Divided ==
  ASSUME NEW h \in Int, NEW c \in Nat, c > 0
  PROVE  h \div c \in Int /\ h % c \in 0..(c - 1) /\ h = c * (h \div c) + (h % c)
  OBVIOUS

LEMMA SameIndex ==
  ASSUME NEW k \in Key, NEW c \in Nat, c > 0, ~HasBit(k, c)
  PROVE  Index(k, 2 * c) = Index(k, c)
<1> DEFINE h == Hash[k]
           q == h \div c
           r == h % c
           d == 2 * c
           p == h \div d
           s == h % d
<1>1. h \in Int /\ d \in Nat /\ d > 0
  BY HashMapAssumption
<1>2. q \in Int /\ r \in 0..(c - 1) /\ h = c * q + r
  BY <1>1, Divided
<1>3. p \in Int /\ s \in 0..(d - 1) /\ h = d * p + s
  BY <1>1, Divided
<1>4. q % 2 # 1
  BY DEF HasBit
<1>5. s = Index(k, 2 * c) /\ r = Index(k, c)
  BY DEF Index
<1> HIDE DEF h, q, r, p, s
<1>6. q % 2 \in 0..1 /\ q = 2 * (q \div 2) + (q % 2) /\ q \div 2 \in Int
  BY <1>2
<1>7. q = 2 * (q \div 2)
  BY <1>2, <1>4, <1>6
<1> DEFINE g == q \div 2
<1>8. g \in Int /\ q = 2 * g
  BY <1>6, <1>7
<1> HIDE DEF g
<1>9. c * q = d * g
  BY <1>8
<1>10. r \in 0..(d - 1) /\ d * g + r = d * p + s
  BY <1>2, <1>3, <1>9
<1> HIDE DEF d
<1>11. r = s
  BY <1>1, <1>3, <1>8, <1>10, OneQuotient
<1> QED
  BY <1>5, <1>11

-----------------------------------------------------------------------------
(* What c_hash_map_put and c_hash_map_remove do to a table.                *)

Altered(n, i, chain) == [n EXCEPT ![i] = chain]

LEMMA AlteredPlaces ==
  ASSUME NEW n, NEW c, Table(n, c), NEW i \in 0..(c - 1), NEW chain \in Seq(Node)
  PROVE  /\ Table(Altered(n, i, chain), c)
         /\ Altered(n, i, chain)[i] = chain
         /\ \A l \in 0..(c - 1) : l # i => Altered(n, i, chain)[l] = n[l]
  BY DEF Table, Altered

LEMMA PutInIs ==
  ASSUME NEW chain \in Seq(Node), NEW e \in Node
  PROVE  LET f == Find(chain, e.key)
             p == IF f > 0 THEN f ELSE Len(chain) + 1
             q == PutIn(chain, e)
         IN  /\ q \in Seq(Node)
             /\ 1..Len(q) = (1..Len(chain)) \cup {p}
             /\ q[p] = e
             /\ \A m \in 1..Len(chain) : m # p => q[m] = chain[m]
<1> DEFINE f == Find(chain, e.key)
           p == IF f > 0 THEN f ELSE Len(chain) + 1
           q == PutIn(chain, e)
<1>1. Len(chain) \in Nat /\ f \in Nat /\ (f > 0 => f \in 1..Len(chain))
  BY FindIs, LenProperties
<1>2. CASE f > 0
  <2>1. q = ReplaceAt(chain, f, e) /\ p = f
    BY <1>2 DEF PutIn
  <2>2. q = [chain EXCEPT ![f] = e]
    BY <2>1 DEF ReplaceAt
  <2> HIDE DEF f, q, p
  <2>3. q \in Seq(Node) /\ Len(q) = Len(chain) /\ q[f] = e /\ \A m \in 1..Len(chain) : m # f => q[m] = chain[m]
    BY <1>1, <1>2, <2>2
  <2>4. 1..Len(q) = (1..Len(chain)) \cup {p}
    BY <1>1, <1>2, <2>1, <2>3
  <2> QED
    BY <2>1, <2>3, <2>4 DEF f, q, p
<1>3. CASE ~(f > 0)
  <2>1. q = Append(chain, e) /\ p = Len(chain) + 1
    BY <1>3 DEF PutIn
  <2> HIDE DEF f, q, p
  <2>2. q \in Seq(Node) /\ Len(q) = Len(chain) + 1 /\ q[p] = e /\ \A m \in 1..Len(chain) : q[m] = chain[m]
    BY <1>1, <2>1, AppendProperties
  <2>3. 1..Len(q) = (1..Len(chain)) \cup {p}
    BY <1>1, <2>1, <2>2
  <2> QED
    BY <2>2, <2>3 DEF f, q, p
<1> QED
  BY <1>2, <1>3

\* m is n with e put in: at place x.
PutAt(n, c, m, x, e) ==
  /\ x[1] = Index(e.key, c)
  /\ PlacesIn(m, c) = PlacesIn(n, c) \cup {x} /\ InPlace(m, x) = e
  /\ \A y \in PlacesIn(n, c) : y # x => InPlace(m, y) = InPlace(n, y)
  /\ LET f == Find(n[Index(e.key, c)], e.key)
     IN  /\ f > 0 => x = <<x[1], f>> /\ x \in PlacesIn(n, c) /\ InPlace(n, x).key = e.key
         /\ f = 0 => /\ x \notin PlacesIn(n, c)
                     /\ \A y \in PlacesIn(n, c) : y[1] = Index(e.key, c) => InPlace(n, y).key # e.key

PutTo(n, c, e) == [n EXCEPT ![Index(e.key, c)] = PutIn(@, e)]

LEMMA PutPlaces ==
  ASSUME NEW n, NEW c, Table(n, c), NEW e \in Node
  PROVE  LET m == PutTo(n, c, e)
         IN  Table(m, c) /\ \E x : PutAt(n, c, m, x, e)
<1> DEFINE i == Index(e.key, c)
           chain == n[i]
           q == PutIn(chain, e)
           f == Find(chain, e.key)
           p == IF f > 0 THEN f ELSE Len(chain) + 1
           m == PutTo(n, c, e)
           x == <<i, p>>
<1>1. i \in 0..(c - 1)
  BY IndexType DEF Table, Node
<1>2. chain \in Seq(Node) /\ Len(chain) \in Nat
  BY <1>1, LenProperties DEF Table
<1>3. /\ q \in Seq(Node) /\ 1..Len(q) = (1..Len(chain)) \cup {p} /\ q[p] = e
      /\ \A l \in 1..Len(chain) : l # p => q[l] = chain[l]
  BY <1>2, PutInIs
<1>4. /\ f \in Nat
      /\ f = 0 => \A l \in 1..Len(chain) : chain[l].key # e.key
      /\ f > 0 => f \in 1..Len(chain) /\ chain[f].key = e.key
  BY <1>2, FindIs
<1>5. m = Altered(n, i, q)
  BY DEF Altered, PutTo
<1>6. p \in Nat /\ (f > 0 => p = f) /\ (f = 0 => p = Len(chain) + 1)
  BY <1>2, <1>4
<1>7. x[1] = i /\ x[2] = p
  OBVIOUS
<1>10. i = Index(e.key, c) /\ chain = n[i] /\ f = Find(chain, e.key)
  OBVIOUS
<1> HIDE DEF q, m, f, p, x, i, chain
<1>8. Table(m, c) /\ m[i] = q /\ \A l \in 0..(c - 1) : l # i => m[l] = n[l]
  BY <1>1, <1>3, <1>5, AlteredPlaces
<1>9. \A y \in PlacesIn(n, c) : /\ y[1] \in 0..(c - 1) /\ y[2] \in 1..Len(n[y[1]])
                                /\ y = <<y[1], y[2]>>
  BY PlaceIs
<1>11. \A y \in PlacesIn(m, c) : /\ y[1] \in 0..(c - 1) /\ y[2] \in 1..Len(m[y[1]])
                                 /\ y = <<y[1], y[2]>>
  BY PlaceIs
<1>12. x \in PlacesIn(m, c)
  <2>1. p \in 1..Len(m[i])
    BY <1>3, <1>8
  <2>2. <<i, p>> \in PlacesIn(m, c)
    BY <1>1, <2>1, PlaceIs
  <2> QED
    BY <2>2 DEF x
<1>13. ASSUME NEW y \in PlacesIn(n, c)
       PROVE  y \in PlacesIn(m, c) /\ (y # x => InPlace(m, y) = InPlace(n, y))
  <2>1. CASE y[1] = i
    <3>1. y[2] \in 1..Len(chain) /\ y = <<i, y[2]>>
      BY <1>9, <1>10, <2>1
    <3>2. y[2] \in 1..Len(m[i])
      BY <1>3, <1>8, <3>1
    <3>3. y \in PlacesIn(m, c)
      BY <1>1, <3>1, <3>2, PlaceIs
    <3>4. y # x => q[y[2]] = chain[y[2]]
      BY <1>3, <3>1 DEF x
    <3> QED
      BY <1>8, <1>10, <2>1, <3>3, <3>4 DEF InPlace
  <2>2. CASE y[1] # i
    <3>1. m[y[1]] = n[y[1]] /\ y[2] \in 1..Len(m[y[1]]) /\ y[1] \in 0..(c - 1)
      BY <1>8, <1>9, <2>2
    <3>2. y \in PlacesIn(m, c)
      BY <1>9, <3>1, PlaceIs
    <3> QED
      BY <3>1, <3>2 DEF InPlace
  <2> QED
    BY <2>1, <2>2
<1>14. ASSUME NEW y \in PlacesIn(m, c), y # x PROVE y \in PlacesIn(n, c)
  <2>1. CASE y[1] = i
    <3>1. y[2] \in 1..Len(q) /\ y = <<i, y[2]>>
      BY <1>8, <1>11, <2>1
    <3>2. y[2] # p
      BY <1>14, <3>1 DEF x
    <3>3. y[2] \in 1..Len(n[i])
      BY <1>3, <1>10, <3>1, <3>2
    <3> QED
      BY <1>1, <3>1, <3>3, PlaceIs
  <2>2. CASE y[1] # i
    <3>1. m[y[1]] = n[y[1]] /\ y[2] \in 1..Len(n[y[1]]) /\ y[1] \in 0..(c - 1)
      BY <1>8, <1>11, <2>2
    <3> QED
      BY <1>11, <3>1, PlaceIs
  <2> QED
    BY <2>1, <2>2
<1>15. PlacesIn(m, c) = PlacesIn(n, c) \cup {x}
  BY <1>12, <1>13, <1>14
<1>16. InPlace(m, x) = e
  BY <1>3, <1>7, <1>8 DEF InPlace
<1>17. ASSUME f > 0 PROVE x = <<x[1], f>> /\ x \in PlacesIn(n, c) /\ InPlace(n, x).key = e.key
  <2>1. p = f /\ f \in 1..Len(n[i]) /\ n[i][f].key = e.key
    BY <1>4, <1>6, <1>10, <1>17
  <2>2. <<i, f>> \in PlacesIn(n, c)
    BY <1>1, <2>1, PlaceIs
  <2> QED
    BY <1>7, <2>1, <2>2 DEF x, InPlace
<1>18. ASSUME f = 0
       PROVE  /\ x \notin PlacesIn(n, c)
              /\ \A y \in PlacesIn(n, c) : y[1] = i => InPlace(n, y).key # e.key
  <2>1. p \notin 1..Len(n[i])
    BY <1>2, <1>6, <1>10, <1>18
  <2>2. x \notin PlacesIn(n, c)
    BY <1>7, <1>9, <2>1
  <2>3. ASSUME NEW y \in PlacesIn(n, c), y[1] = i PROVE InPlace(n, y).key # e.key
    <3>1. y[2] \in 1..Len(chain)
      BY <1>9, <1>10, <2>3
    <3> QED
      BY <1>4, <1>10, <1>18, <2>3, <3>1 DEF InPlace
  <2> QED
    BY <2>2, <2>3
<1>19. PutAt(n, c, m, x, e)
  BY <1>7, <1>10, <1>13, <1>15, <1>16, <1>17, <1>18 DEF PutAt
<1> QED
  BY <1>8, <1>19 DEF m, i

LEMMA RemoveAtIs ==
  ASSUME NEW chain \in Seq(Node), NEW p \in 1..Len(chain)
  PROVE  LET q == RemoveAt(chain, p)
         IN  /\ q \in Seq(Node) /\ Len(q) = Len(chain) - 1
             /\ \A l \in 1..Len(q) : q[l] = IF l < p THEN chain[l] ELSE chain[l + 1]
<1>1. Len(chain) \in Nat /\ p \in Nat
  BY LenProperties
<1> DEFINE k == Len(chain)
           s == SubSeq(chain, 1, p - 1)
           t == SubSeq(chain, p + 1, k)
           q == RemoveAt(chain, p)
<1>2. \A l \in 1..k : chain[l] \in Node
  BY ElementOfSeq
<1>3. s \in Seq(Node) /\ Len(s) = p - 1 /\ \A l \in 1..(p - 1) : s[l] = chain[l]
  BY <1>1, <1>2, SubSeqProperties
<1>4. t \in Seq(Node) /\ Len(t) = k - p /\ \A l \in 1..(k - p) : t[l] = chain[p + l]
  BY <1>1, <1>2, SubSeqProperties
<1>5. q = s \o t
  BY DEF RemoveAt
<1> HIDE DEF s, t, q
<1>6. /\ q \in Seq(Node) /\ Len(q) = (p - 1) + (k - p)
      /\ \A l \in 1..Len(q) : q[l] = IF l <= p - 1 THEN s[l] ELSE t[l - (p - 1)]
  <2>1. /\ q \in Seq(Node) /\ Len(q) = Len(s) + Len(t)
        /\ \A l \in 1..Len(s) + Len(t) : q[l] = IF l <= Len(s) THEN s[l] ELSE t[l - Len(s)]
    BY <1>3, <1>4, <1>5, ConcatProperties
  <2> QED
    BY <1>3, <1>4, <2>1
<1>7. Len(q) = k - 1
  BY <1>1, <1>6
<1>8. ASSUME NEW l \in 1..Len(q) PROVE q[l] = IF l < p THEN chain[l] ELSE chain[l + 1]
  <2>1. CASE l < p
    BY <1>1, <1>3, <1>6, <2>1
  <2>2. CASE ~(l < p)
    <3>1. ~(l <= p - 1) /\ l - (p - 1) \in 1..(k - p) /\ p + (l - (p - 1)) = l + 1
      BY <1>1, <1>7, <2>2
    <3> QED
      BY <1>4, <1>6, <2>2, <3>1
  <2> QED
    BY <2>1, <2>2
<1> QED
  BY <1>6, <1>7, <1>8 DEF q

Removed(n, x) == [n EXCEPT ![x[1]] = RemoveAt(@, x[2])]

LEMMA RemovedCopied ==
  ASSUME NEW n, NEW c, Table(n, c), NEW x \in PlacesIn(n, c)
  PROVE  LET m == Removed(n, x)
         IN  /\ Table(m, c)
             /\ \E org : /\ Copied(n, PlacesIn(n, c) \ {x}, m, c, org)
                         /\ \A y \in PlacesIn(m, c) : org[y][1] = y[1]
<1> DEFINE i == x[1]
           p == x[2]
           k == Len(n[i])
           q == RemoveAt(n[i], p)
           m == Removed(n, x)
           X == PlacesIn(n, c)
           Y == PlacesIn(m, c)
           to(y) == IF y[1] = i /\ ~(y[2] < p) THEN <<y[1], y[2] + 1>> ELSE y
           org == [y \in Y |-> to(y)]
<1>1. i \in 0..(c - 1) /\ p \in 1..k /\ x = <<i, p>> /\ k \in Nat /\ p \in Nat
      /\ n[i] \in Seq(Node)
  BY PlaceIs, PlaceType
<1>2. /\ q \in Seq(Node) /\ Len(q) = k - 1
      /\ \A l \in 1..(k - 1) : q[l] = IF l < p THEN n[i][l] ELSE n[i][l + 1]
  BY <1>1, RemoveAtIs
<1>3. m = Altered(n, i, q)
  BY DEF Altered, Removed
<1>4. x[1] = i /\ x[2] = p /\ k = Len(n[i])
  OBVIOUS
<1> HIDE DEF q, m, i, p, k
<1>5. Table(m, c) /\ m[i] = q /\ \A l \in 0..(c - 1) : l # i => m[l] = n[l]
  BY <1>1, <1>2, <1>3, AlteredPlaces
<1>6. \A y \in X : y[1] \in 0..(c - 1) /\ y[2] \in 1..Len(n[y[1]]) /\ y = <<y[1], y[2]>>
  BY PlaceIs
<1>7. \A y \in Y : y[1] \in 0..(c - 1) /\ y[2] \in 1..Len(m[y[1]]) /\ y = <<y[1], y[2]>>
  BY PlaceIs
<1>8. \A y \in Y : org[y] = to(y)
  OBVIOUS
<1>9. org = [y \in Y |-> org[y]]
  OBVIOUS
<1> HIDE DEF X, Y, org
<1>10. ASSUME NEW y \in Y
       PROVE  /\ to(y) \in X \ {x} /\ to(y)[1] = y[1] /\ InPlace(m, y) = InPlace(n, to(y))
              /\ y[2] \in Nat
              /\ to(y)[2] = IF y[1] = i /\ ~(y[2] < p) THEN y[2] + 1 ELSE y[2]
  <2>1. CASE y[1] # i
    <3>1. to(y) = y /\ m[y[1]] = n[y[1]] /\ y[2] \in 1..Len(n[y[1]]) /\ y[1] \in 0..(c - 1)
      BY <1>5, <1>7, <2>1
    <3>2. y \in X
      BY <1>7, <3>1, PlaceIs DEF X
    <3>3. y # x
      BY <1>4, <2>1
    <3> HIDE DEF to
    <3> QED
      BY <2>1, <3>1, <3>2, <3>3 DEF InPlace
  <2>2. CASE y[1] = i
    <3>1. y[2] \in 1..(k - 1) /\ y = <<i, y[2]>>
      BY <1>2, <1>5, <1>7, <2>2
    <3>2. InPlace(m, y) = q[y[2]]
      BY <1>5, <2>2 DEF InPlace
    <3>3. ASSUME NEW l \in 1..k, l # p
          PROVE  /\ <<i, l>> \in X \ {x} /\ <<i, l>>[1] = i /\ <<i, l>>[2] = l
                 /\ InPlace(n, <<i, l>>) = n[i][l]
      <4>1. <<i, l>> \in X /\ <<i, l>>[1] = i /\ <<i, l>>[2] = l
        BY <1>1, <1>4, PlaceIs DEF X
      <4>2. <<i, l>> # x
        BY <1>4, <3>3, <4>1
      <4> QED
        BY <4>1, <4>2 DEF InPlace
    <3>4. CASE y[2] < p
      <4>1. to(y) = <<i, y[2]>> /\ y[2] \in 1..k /\ y[2] # p
        BY <1>1, <3>1, <3>4
      <4>2. q[y[2]] = n[i][y[2]]
        BY <1>2, <3>1, <3>4
      <4> HIDE DEF to
      <4> QED
        BY <2>2, <3>1, <3>2, <3>3, <3>4, <4>1, <4>2
    <3>5. CASE ~(y[2] < p)
      <4>1. to(y) = <<i, y[2] + 1>> /\ y[2] + 1 \in 1..k /\ y[2] + 1 # p /\ y[2] \in Nat
        BY <1>1, <2>2, <3>1, <3>5
      <4>2. q[y[2]] = n[i][y[2] + 1]
        BY <1>2, <3>1, <3>5
      <4> HIDE DEF to
      <4> QED
        BY <2>2, <3>2, <3>3, <3>5, <4>1, <4>2
    <3> QED
      BY <3>4, <3>5
  <2> QED
    BY <2>1, <2>2
<1> HIDE DEF to
<1>11. ASSUME NEW y \in Y, NEW z \in Y, to(y) = to(z) PROVE y = z
  <2>1. y[1] = z[1] /\ y[2] \in Nat /\ z[2] \in Nat
    BY <1>10, <1>11
  <2>2. to(y)[2] = to(z)[2]
    BY <1>11
  <2>3. /\ to(y)[2] = IF y[1] = i /\ ~(y[2] < p) THEN y[2] + 1 ELSE y[2]
        /\ to(z)[2] = IF z[1] = i /\ ~(z[2] < p) THEN z[2] + 1 ELSE z[2]
    BY <1>10
  <2>4. y[2] = z[2]
    <3>1. CASE y[1] # i
      BY <2>1, <2>2, <2>3, <3>1
    <3>2. CASE y[1] = i
      <4>1. IF y[2] < p THEN to(y)[2] = y[2] ELSE to(y)[2] = y[2] + 1
        BY <2>3, <3>2
      <4>2. IF z[2] < p THEN to(y)[2] = z[2] ELSE to(y)[2] = z[2] + 1
        BY <2>1, <2>2, <2>3, <3>2
      <4> QED
        BY <1>1, <2>1, <4>1, <4>2
    <3> QED
      BY <3>1, <3>2
  <2> QED
    BY <1>7, <2>1, <2>4
<1>12. ASSUME NEW z \in X, z # x PROVE \E y \in Y : to(y) = z
  <2>1. z[1] \in 0..(c - 1) /\ z[2] \in 1..Len(n[z[1]]) /\ z = <<z[1], z[2]>>
    BY <1>6
  <2>2. CASE z[1] # i
    <3>1. m[z[1]] = n[z[1]]
      BY <1>5, <2>1, <2>2
    <3>2. z \in Y
      BY <2>1, <3>1, PlaceIs DEF Y
    <3>3. to(z) = z
      BY <2>2 DEF to
    <3> QED
      BY <3>2, <3>3
  <2>3. CASE z[1] = i
    <3>1. z[2] \in 1..k /\ z[2] # p
      BY <1>1, <1>4, <1>12, <2>1, <2>3
    <3>2. ASSUME NEW l \in 1..(k - 1)
          PROVE  <<i, l>> \in Y /\ <<i, l>>[1] = i /\ <<i, l>>[2] = l
      <4>1. l \in 1..Len(m[i])
        BY <1>2, <1>5
      <4> QED
        BY <1>1, <4>1, PlaceIs DEF Y
    <3>3. CASE z[2] < p
      <4>1. z[2] \in 1..(k - 1) /\ z = <<i, z[2]>>
        BY <1>1, <2>1, <2>3, <3>1, <3>3
      <4>2. to(z) = z
        BY <3>3 DEF to
      <4> QED
        BY <3>2, <4>1, <4>2
    <3>4. CASE ~(z[2] < p)
      <4> DEFINE l == z[2] - 1
      <4>1. l \in 1..(k - 1) /\ ~(l < p) /\ l + 1 = z[2]
        BY <1>1, <3>1, <3>4
      <4> HIDE DEF l
      <4>2. to(<<i, l>>) = <<i, l + 1>>
        BY <3>2, <4>1 DEF to
      <4> QED
        BY <2>1, <2>3, <3>2, <4>1, <4>2
    <3> QED
      BY <3>3, <3>4
  <2> QED
    BY <2>2, <2>3
<1>13. org \in [Y -> X \ {x}]
  BY <1>8, <1>9, <1>10
<1>14. Copied(n, X \ {x}, m, c, org)
  BY <1>8, <1>10, <1>11, <1>12, <1>13 DEF Copied, Y
<1>15. \A y \in Y : org[y][1] = y[1]
  BY <1>8, <1>10
<1> QED
  BY <1>5, <1>14, <1>15 DEF m, X, Y, i, p

\* What the growth of the table changes: where some keys are.
LEMMA ResizedKeeps ==
  ASSUME Table(nodes, cap)
  PROVE  LET n == Resized.nodes
             c == Resized.cap
             X == PlacesIn(nodes, cap)
             Y == PlacesIn(n, c)
         IN  /\ Table(n, c)
             /\ EntriesAt(n, Y) = EntriesAt(nodes, X) /\ HeldAt(n, Y) = HeldAt(nodes, X)
             /\ ValuesOnce(nodes, X) => ValuesOnce(n, Y)
             /\ IsFiniteSet(X) => IsFiniteSet(Y) /\ Cardinality(Y) <= Cardinality(X)
             /\ \A k \in Key : Straight(nodes, cap, k) =>
                  Straight(n, c, k) \/ (c = 2 * cap /\ HasBit(k, cap) /\ ~HasBit(k, 2 * cap))
<1> DEFINE X == PlacesIn(nodes, cap)
<1>1. CASE ~Grows(count + 1)
  <2>1. Resized.nodes = nodes /\ Resized.cap = cap
    BY <1>1 DEF Resized
  <2>2. IsFiniteSet(X) => Cardinality(X) <= Cardinality(X)
    <3>1. IsFiniteSet(X) => Cardinality(X) \in Nat
      BY FS_CardinalityType
    <3> QED
      BY <3>1
  <2> QED
    BY <2>1, <2>2
<1>2. CASE Grows(count + 1)
  <2> DEFINE n == Relocated
             c == 2 * cap
             Y == PlacesIn(n, c)
  <2>1. Resized.nodes = n /\ Resized.cap = c
    BY <1>2 DEF Resized
  <2>2. Table(n, c)
    BY RelocatedCopied
  <2>3. PICK org : /\ Copied(nodes, X, n, c, org)
                   /\ \A y \in Y : y[1] = NewIndex(InPlace(n, y).key, org[y][1])
    BY RelocatedCopied
  <2>4. \A y \in Y : y[1] = NewIndex(InPlace(n, y).key, org[y][1])
    BY <2>3
  <2>5. Copied(nodes, X, n, c, org)
    BY <2>3
  <2> HIDE DEF X, n, c
  <2>6. /\ EntriesAt(n, Y) = EntriesAt(nodes, X) /\ HeldAt(n, Y) = HeldAt(nodes, X)
        /\ ValuesOnce(nodes, X) => ValuesOnce(n, Y)
    BY ONLY <2>5, CopiedKeeps
  <2>7. IsFiniteSet(X) => IsFiniteSet(Y) /\ Cardinality(Y) <= Cardinality(X)
    <3>1. ASSUME IsFiniteSet(X) PROVE IsFiniteSet(Y) /\ Cardinality(Y) <= Cardinality(X)
      BY ONLY <2>5, <3>1, CopiedCount
    <3> QED
      BY <3>1
  <2>8. ASSUME NEW k \in Key, Straight(nodes, cap, k), ~(HasBit(k, cap) /\ ~HasBit(k, 2 * cap))
        PROVE  Straight(n, c, k)
    <3>1. /\ \A y \in Y : org[y] \in X /\ InPlace(n, y) = InPlace(nodes, org[y])
          /\ \A y, z \in Y : org[y] = org[z] => y = z
      BY <2>5 DEF Copied
    <3>2. \A x \in X : InPlace(nodes, x).key = k =>
            x[1] = Index(k, cap) /\ \A y \in X : InPlace(nodes, y).key = k => y = x
      BY <2>8 DEF Straight, X
    <3>3. ASSUME NEW y \in Y, InPlace(n, y).key = k PROVE y[1] = Index(k, c)
      <4>1. org[y][1] = Index(k, cap)
        BY <3>1, <3>2, <3>3
      <4>2. y[1] = NewIndex(k, Index(k, cap))
        BY <2>4, <3>3, <4>1
      <4>3. ~HasBit(k, cap) => Index(k, 2 * cap) = Index(k, cap)
        BY SameIndex DEF Table
      <4> QED
        BY <2>8, <4>2, <4>3 DEF NewIndex, c
    <3>4. ASSUME NEW y \in Y, InPlace(n, y).key = k, NEW z \in Y, InPlace(n, z).key = k
          PROVE  z = y
      BY <3>1, <3>2, <3>4
    <3> QED
      BY <3>3, <3>4 DEF Straight
  <2>9. \A k \in Key : Straight(nodes, cap, k) =>
          Straight(n, c, k) \/ (c = 2 * cap /\ HasBit(k, cap) /\ ~HasBit(k, 2 * cap))
    BY <2>8 DEF c
  <2> QED
    BY <2>1, <2>2, <2>6, <2>7, <2>9 DEF X
<1> QED
  BY <1>1, <1>2

\* What a put changes: the pointer of a node, or a node is new.
LEMMA PutAtHolds ==
  ASSUME NEW n, NEW c, NEW e \in Node, NEW m, NEW x, PutAt(n, c, m, x, e),
         Table(n, c)
  PROVE  LET X == PlacesIn(n, c)
             Y == PlacesIn(m, c)
             out == GivenUp(n[Index(e.key, c)], e)
         IN  /\ \/ x \in X /\ out = {InPlace(n, x).value} /\ InPlace(n, x).key = e.key
                \/ /\ x \notin X /\ out = {}
                   /\ \A y \in X : y[1] = Index(e.key, c) => InPlace(n, y).key # e.key
             /\ Y = X \cup {x} /\ InPlace(m, x) = e /\ x[1] = Index(e.key, c)
             /\ \A y \in X : y # x => InPlace(m, y) = InPlace(n, y)
<1> DEFINE i == Index(e.key, c)
           f == Find(n[i], e.key)
           X == PlacesIn(n, c)
           out == GivenUp(n[i], e)
<1>1. /\ x[1] = i /\ PlacesIn(m, c) = X \cup {x} /\ InPlace(m, x) = e
      /\ \A y \in X : y # x => InPlace(m, y) = InPlace(n, y)
      /\ f > 0 => x = <<x[1], f>> /\ x \in X /\ InPlace(n, x).key = e.key
      /\ f = 0 => x \notin X /\ \A y \in X : y[1] = i => InPlace(n, y).key # e.key
  BY DEF PutAt
<1>2. i \in 0..(c - 1)
  BY IndexType DEF Table, Node
<1>3. f \in Nat
  <2>1. n[i] \in Seq(Node)
    BY <1>2 DEF Table
  <2> HIDE DEF i
  <2> QED
    BY <2>1, FindIs
<1>4. f > 0 => out = {n[i][f].value}
  BY DEF GivenUp
<1>5. f = 0 => out = {}
  BY DEF GivenUp
<1> HIDE DEF i, f, X, out
<1>6. CASE f > 0
  <2>1. x = <<i, f>> /\ x \in X /\ InPlace(n, x).key = e.key
    BY <1>1, <1>6
  <2>2. InPlace(n, x) = n[i][f]
    BY <2>1 DEF InPlace
  <2>3. out = {InPlace(n, x).value}
    BY <1>4, <1>6, <2>2
  <2> QED
    BY <1>1, <2>1, <2>3 DEF X, i, out
<1>7. CASE f = 0
  <2>1. x \notin X /\ out = {} /\ \A y \in X : y[1] = i => InPlace(n, y).key # e.key
    BY <1>1, <1>5, <1>7
  <2> QED
    BY <1>1, <2>1 DEF X, i, out
<1> QED
  BY <1>3, <1>6, <1>7

LEMMA PutKeeps ==
  ASSUME NEW n, NEW c, Table(n, c), NEW e \in Node, NEW m, NEW x, PutAt(n, c, m, x, e)
  PROVE  LET X == PlacesIn(n, c)
             Y == PlacesIn(m, c)
             out == GivenUp(n[Index(e.key, c)], e)
         IN  /\ ValuesOnce(n, X) /\ e.value \notin HeldAt(n, X) =>
                  ValuesOnce(m, Y) /\ out \cap HeldAt(m, Y) = {}
             /\ HeldAt(n, X) \ HeldAt(m, Y) \subseteq out /\ out \subseteq HeldAt(n, X)
             /\ \A k : Straight(n, c, k) => Straight(m, c, k)
             /\ IsFiniteSet(X) => IsFiniteSet(Y) /\ Cardinality(Y) <= Cardinality(X) + 1
<1> DEFINE X == PlacesIn(n, c)
           Y == PlacesIn(m, c)
           out == GivenUp(n[Index(e.key, c)], e)
<1>1. /\ \/ x \in X /\ out = {InPlace(n, x).value} /\ InPlace(n, x).key = e.key
         \/ /\ x \notin X /\ out = {}
            /\ \A y \in X : y[1] = Index(e.key, c) => InPlace(n, y).key # e.key
      /\ Y = X \cup {x} /\ InPlace(m, x) = e /\ x[1] = Index(e.key, c)
      /\ \A y \in X : y # x => InPlace(m, y) = InPlace(n, y)
  BY PutAtHolds
<1> HIDE DEF X, Y, out
<1>2. \A y \in Y : y = x \/ (y \in X /\ y # x /\ InPlace(m, y) = InPlace(n, y))
  BY <1>1
<1>3. ASSUME ValuesOnce(n, X), e.value \notin HeldAt(n, X) PROVE ValuesOnce(m, Y)
  <2>1. \A y \in X : InPlace(n, y).value # e.value
    BY <1>3 DEF HeldAt
  <2>2. ASSUME NEW y \in Y, NEW z \in Y, InPlace(m, y).value = InPlace(m, z).value
        PROVE  y = z
    <3>1. CASE y = x
      BY <1>1, <1>2, <2>1, <2>2, <3>1
    <3>2. CASE z = x
      BY <1>1, <1>2, <2>1, <2>2, <3>2
    <3>3. CASE y # x /\ z # x
      BY <1>2, <1>3, <2>2, <3>3 DEF ValuesOnce
    <3> QED
      BY <3>1, <3>2, <3>3
  <2> QED
    BY <2>2 DEF ValuesOnce
<1>4. ASSUME ValuesOnce(n, X), e.value \notin HeldAt(n, X), NEW v \in out PROVE v \notin HeldAt(m, Y)
  <2>1. \A y \in X : InPlace(n, y).value # e.value
    BY <1>4 DEF HeldAt
  <2>2. x \in X /\ v = InPlace(n, x).value
    BY <1>1, <1>4
  <2>3. ASSUME NEW y \in Y PROVE InPlace(m, y).value # v
    <3>1. CASE y = x
      BY <1>1, <2>1, <2>2, <3>1
    <3>2. CASE y # x
      BY <1>2, <1>4, <2>2, <3>2 DEF ValuesOnce
    <3> QED
      BY <3>1, <3>2
  <2> QED
    BY <2>3 DEF HeldAt
<1>5. ASSUME NEW v \in HeldAt(n, X), v \notin HeldAt(m, Y) PROVE v \in out
  <2>1. PICK y \in X : v = InPlace(n, y).value
    BY DEF HeldAt
  <2>2. y \in Y /\ InPlace(m, y).value # v
    BY <1>1, <1>5 DEF HeldAt
  <2>3. y = x
    BY <1>1, <2>1, <2>2
  <2> QED
    BY <1>1, <2>1, <2>3
<1>6. out \subseteq HeldAt(n, X)
  BY <1>1 DEF HeldAt
<1>7. ASSUME NEW k, Straight(n, c, k) PROVE Straight(m, c, k)
  <2>1. \A y \in X : InPlace(n, y).key = k =>
          y[1] = Index(k, c) /\ \A z \in X : InPlace(n, z).key = k => z = y
    BY <1>7 DEF Straight, X
  <2>2. CASE k = e.key
    <3>1. ASSUME NEW y \in Y, InPlace(m, y).key = k PROVE y = x
      <4>1. CASE x \in X
        BY <1>1, <1>2, <2>1, <2>2, <3>1, <4>1
      <4>2. CASE x \notin X
        BY <1>1, <1>2, <2>1, <2>2, <3>1, <4>2
      <4> QED
        BY <4>1, <4>2
    <3> QED
      BY <1>1, <2>2, <3>1 DEF Straight, Y
  <2>3. CASE k # e.key
    <3>1. ASSUME NEW y \in Y, InPlace(m, y).key = k PROVE y \in X /\ InPlace(n, y).key = k
      BY <1>1, <1>2, <2>3, <3>1
    <3> QED
      BY <2>1, <3>1 DEF Straight, Y
  <2> QED
    BY <2>2, <2>3
<1>8. ASSUME IsFiniteSet(X) PROVE IsFiniteSet(Y) /\ Cardinality(Y) <= Cardinality(X) + 1
  <2>1. Cardinality(X) \in Nat
    BY <1>8, FS_CardinalityType
  <2>2. IsFiniteSet(X \cup {x}) /\ Cardinality(X \cup {x}) = IF x \in X THEN Cardinality(X) ELSE Cardinality(X) + 1
    BY <1>8, FS_AddElement
  <2> QED
    BY <1>1, <2>1, <2>2
<1> QED
  BY <1>3, <1>4, <1>5, <1>6, <1>7, <1>8 DEF X, Y, out

\* A key that searches find is replaced, one that is not in the map is added.
LEMMA PutIsMap ==
  ASSUME NEW n, NEW c, Table(n, c), NEW e \in Node, NEW m, NEW x, PutAt(n, c, m, x, e),
         Straight(m, c, e.key)
  PROVE  LET S == EntriesAt(n, PlacesIn(n, c))
             out == GivenUp(n[Index(e.key, c)], e)
         IN  /\ EntriesAt(m, PlacesIn(m, c)) = {f \in S : f.key # e.key} \cup {e}
             /\ out = {} => \A f \in S : f.key # e.key
             /\ \A old \in out : Entry(e.key, old) \in S
<1> DEFINE X == PlacesIn(n, c)
           Y == PlacesIn(m, c)
           S == EntriesAt(n, X)
           out == GivenUp(n[Index(e.key, c)], e)
<1>1. /\ \/ x \in X /\ out = {InPlace(n, x).value} /\ InPlace(n, x).key = e.key
         \/ /\ x \notin X /\ out = {}
            /\ \A y \in X : y[1] = Index(e.key, c) => InPlace(n, y).key # e.key
      /\ Y = X \cup {x} /\ InPlace(m, x) = e
      /\ \A y \in X : y # x => InPlace(m, y) = InPlace(n, y)
  BY PutAtHolds
<1>2. ASSUME NEW y \in X PROVE InPlace(n, y) \in Node
  BY PlaceType
<1>3. \A y \in Y : InPlace(m, y).key = e.key => y = x
  <2>1. x \in Y /\ InPlace(m, x).key = e.key
    BY <1>1
  <2> HIDE DEF Y
  <2>2. \A y \in Y : InPlace(m, y).key = e.key =>
          y[1] = Index(e.key, c) /\ \A z \in Y : InPlace(m, z).key = e.key => z = y
    BY DEF Straight, Y
  <2> QED
    BY <2>1, <2>2
<1> HIDE DEF X, Y, S, out
<1>4. \A y \in X : y # x => InPlace(n, y).key # e.key
  BY <1>1, <1>3
<1>5. EntriesAt(m, Y) = {InPlace(n, y) : y \in X \ {x}} \cup {e}
  BY <1>1 DEF EntriesAt
<1>6. {f \in S : f.key # e.key} = {InPlace(n, y) : y \in X \ {x}}
  BY <1>1, <1>4 DEF S, EntriesAt
<1>7. out = {} => \A f \in S : f.key # e.key
  BY <1>1, <1>4 DEF S, EntriesAt
<1>8. ASSUME NEW old \in out PROVE Entry(e.key, old) \in S
  <2>1. x \in X /\ old = InPlace(n, x).value /\ InPlace(n, x).key = e.key
    BY <1>1, <1>8
  <2>2. InPlace(n, x) = Entry(e.key, old)
    BY <1>2, <2>1 DEF Node, Entry
  <2> QED
    BY <2>1, <2>2 DEF S, EntriesAt
<1> QED
  BY <1>5, <1>6, <1>7, <1>8 DEF X, Y, S, out

\* A node is cut out, and others of its chain move up.
LEMMA RemovedKeeps ==
  ASSUME NEW n, NEW c, Table(n, c), NEW x \in PlacesIn(n, c)
  PROVE  LET m == Removed(n, x)
             X == PlacesIn(n, c)
             Y == PlacesIn(m, c)
             k == InPlace(n, x).key
             v == InPlace(n, x).value
         IN  /\ Table(m, c)
             /\ ValuesOnce(n, X) => ValuesOnce(m, Y) /\ v \notin HeldAt(m, Y)
             /\ HeldAt(n, X) = HeldAt(m, Y) \cup {v}
             /\ \A h : Straight(n, c, h) => Straight(m, c, h)
             /\ Straight(n, c, k) =>
                  EntriesAt(m, Y) = {f \in EntriesAt(n, X) : f.key # k}
             /\ IsFiniteSet(X) => IsFiniteSet(Y) /\ Cardinality(Y) <= Cardinality(X) - 1
<1> DEFINE m == Removed(n, x)
           X == PlacesIn(n, c)
           Y == PlacesIn(m, c)
           Z == X \ {x}
           k == InPlace(n, x).key
           v == InPlace(n, x).value
<1>1. /\ Table(m, c)
      /\ \E org : Copied(n, Z, m, c, org) /\ \A y \in Y : org[y][1] = y[1]
  BY RemovedCopied
<1> HIDE DEF m
<1>2. PICK org : Copied(n, Z, m, c, org) /\ \A y \in Y : org[y][1] = y[1]
  BY <1>1
<1>3. Copied(n, Z, m, c, org)
  BY <1>2
<1>4. /\ EntriesAt(m, Y) = EntriesAt(n, Z) /\ HeldAt(m, Y) = HeldAt(n, Z)
      /\ ValuesOnce(n, Z) => ValuesOnce(m, Y)
  BY ONLY <1>3, CopiedKeeps
<1>5. x \in X /\ Z = X \ {x} /\ k = InPlace(n, x).key /\ v = InPlace(n, x).value
  OBVIOUS
<1>6. /\ \A y \in Y : /\ org[y] \in Z /\ InPlace(m, y) = InPlace(n, org[y])
                      /\ org[y][1] = y[1]
      /\ \A y, z \in Y : org[y] = org[z] => y = z
  BY <1>2 DEF Copied
<1>7. IsFiniteSet(X) => IsFiniteSet(Y) /\ Cardinality(Y) <= Cardinality(X) - 1
  <2>1. SUFFICES ASSUME IsFiniteSet(X) PROVE IsFiniteSet(Y) /\ Cardinality(Y) <= Cardinality(X) - 1
    OBVIOUS
  <2>2. IsFiniteSet(Z) /\ Cardinality(Z) = Cardinality(X) - 1
    BY <1>5, <2>1, FS_RemoveElement
  <2>3. IsFiniteSet(Y) /\ Cardinality(Y) <= Cardinality(Z)
    BY ONLY <1>3, <2>2, CopiedCount
  <2> QED
    BY <2>2, <2>3
<1> HIDE DEF X, Y, Z, k, v
<1>8. ASSUME ValuesOnce(n, X) PROVE ValuesOnce(n, Z) /\ v \notin HeldAt(n, Z)
  BY <1>5, <1>8 DEF ValuesOnce, HeldAt
<1>9. HeldAt(n, X) = HeldAt(n, Z) \cup {v}
  BY <1>5 DEF HeldAt
<1>10. ASSUME NEW h, Straight(n, c, h) PROVE Straight(m, c, h)
  <2>1. \A y \in X : InPlace(n, y).key = h =>
          y[1] = Index(h, c) /\ \A z \in X : InPlace(n, z).key = h => z = y
    BY <1>10 DEF Straight, X
  <2>2. ASSUME NEW y \in Y, InPlace(m, y).key = h PROVE y[1] = Index(h, c)
    BY <1>5, <1>6, <2>1, <2>2
  <2>3. ASSUME NEW y \in Y, NEW z \in Y, InPlace(m, y).key = h, InPlace(m, z).key = h
        PROVE  z = y
    BY <1>5, <1>6, <2>1, <2>3
  <2> QED
    BY <2>2, <2>3 DEF Straight, Y
<1>11. ASSUME Straight(n, c, k) PROVE EntriesAt(n, Z) = {f \in EntriesAt(n, X) : f.key # k}
  <2>1. \A y \in X : InPlace(n, y).key = k => y = x
    BY <1>5, <1>11 DEF Straight, X
  <2> QED
    BY <1>5, <2>1 DEF EntriesAt
<1> QED
  BY <1>1, <1>4, <1>7, <1>8, <1>9, <1>10, <1>11 DEF m, X, Y, k, v

-----------------------------------------------------------------------------
(* The state of the map.                                                   *)

\* Chains of nodes, no pointer twice.
Chains == Table(nodes, cap) /\ ValuesOnce(nodes, PlacesIn(nodes, cap))

\* A put that replaces counts, so there may be fewer nodes than are counted.
Counted == /\ count \in Nat /\ IsFiniteSet(PlacesIn(nodes, cap))
           /\ Cardinality(PlacesIn(nodes, cap)) <= count

Gone == freed \subseteq Value /\ freed \cap HeldAt(nodes, PlacesIn(nodes, cap)) = {}

LEMMA Now ==
  /\ Places = PlacesIn(nodes, cap) /\ Held = HeldAt(nodes, PlacesIn(nodes, cap))
  /\ Entries = EntriesAt(nodes, PlacesIn(nodes, cap))
  BY DEF Places, PlacesIn, Held, HeldAt, Entries, EntriesAt, NodeAt, InPlace

LEMMA Then ==
  /\ Places' = PlacesIn(nodes', cap') /\ Held' = HeldAt(nodes', PlacesIn(nodes', cap'))
  /\ Entries' = EntriesAt(nodes', PlacesIn(nodes', cap'))
  BY DEF Places, PlacesIn, Held, HeldAt, Entries, EntriesAt, NodeAt, InPlace

LEMMA AstrayThen == Table(nodes', cap') => Astray' = AstrayIn(nodes', cap')
<1> SUFFICES ASSUME Table(nodes', cap') PROVE Astray' = AstrayIn(nodes', cap')
  OBVIOUS
<1>1. Astray' = {k \in Key : \E x \in Places' :
        InPlace(nodes', x).key = k /\ (x[1] # Index(k, cap') \/ x[2] # Find(nodes'[x[1]], k))}
  BY DEF Astray, NodeAt, InPlace
<1>2. ASSUME NEW k \in Key PROVE k \in Astray' <=> ~Straight(nodes', cap', k)
  BY <1>1, StraightIs, Then
<1> QED
  BY <1>1, <1>2 DEF AstrayIn

\* What every call does right: the pointers that it frees leave the map with it
\* and none is lost, keys go astray by the bit only, and of a key that does not, the
\* map holds what a map would.
FreesRight ==
  /\ freed' \subseteq Held \ Held'
  /\ free_cb => \A v \in Held \ Held' :
       v \in freed' \/ (ret'.op = "remove" /\ ret'.value = v)
StraysRight ==
  \A k \in Astray' \ Astray : cap' = 2 * cap /\ HasBit(k, cap) /\ ~HasBit(k, 2 * cap)
MapRight == [Map!Next \/ ret'.key \in Astray \cup Astray']_<<Entries, ret>>

LEMMA PutStep ==
  ASSUME Chains, Counted, NEW k \in Key, NEW v \in Value, Put(k, v)
  PROVE  Chains' /\ Counted' /\ Gone' /\ FreesRight /\ StraysRight /\ MapRight
<1> DEFINE n == Resized.nodes
           c == Resized.cap
           X == PlacesIn(nodes, cap)
           Y == PlacesIn(n, c)
           m == nodes'
           Z == PlacesIn(m, c)
           e == Entry(k, v)
           out == GivenUp(n[Index(k, c)], e)
<1>1. /\ v \notin Held /\ cap' = c /\ count' = count + 1
      /\ freed' = IF free_cb THEN out ELSE {}
      /\ \E old \in out \cup {NULL} : (old = NULL <=> out = {}) /\ Returns("put", k, old)
      /\ nodes' = [n EXCEPT ![Index(k, c)] = PutIn(@, e)]
  BY DEF Put, Fresh, Frees
<1>2. e \in Node /\ e.key = k /\ e.value = v
  BY DEF Entry, Node
<1>3. Table(nodes, cap) /\ ValuesOnce(nodes, X)
  BY DEF Chains
<1>4. /\ Table(n, c) /\ EntriesAt(n, Y) = EntriesAt(nodes, X) /\ HeldAt(n, Y) = HeldAt(nodes, X)
      /\ ValuesOnce(n, Y)
      /\ IsFiniteSet(X) => IsFiniteSet(Y) /\ Cardinality(Y) <= Cardinality(X)
      /\ \A h \in Key : Straight(nodes, cap, h) =>
           Straight(n, c, h) \/ (c = 2 * cap /\ HasBit(h, cap) /\ ~HasBit(h, 2 * cap))
  BY <1>3, ResizedKeeps
<1> HIDE DEF n, c, X, e
<1>5. nodes' = PutTo(n, c, e) /\ out = GivenUp(n[Index(e.key, c)], e)
  BY <1>1, <1>2 DEF PutTo
<1> HIDE DEF out
<1>6. Table(PutTo(n, c, e), c) /\ \E x : PutAt(n, c, PutTo(n, c, e), x, e)
  BY <1>2, <1>4, PutPlaces
<1>7. Table(m, c)
  BY <1>5, <1>6
<1>8. PICK x : PutAt(n, c, m, x, e)
  BY <1>5, <1>6
<1> HIDE DEF m
<1>9. Table(n, c) /\ e \in Node /\ PutAt(n, c, m, x, e)
  BY <1>2, <1>4, <1>8
<1>10. LET o == GivenUp(n[Index(e.key, c)], e)
       IN  /\ ValuesOnce(n, Y) /\ e.value \notin HeldAt(n, Y) =>
                ValuesOnce(m, Z) /\ o \cap HeldAt(m, Z) = {}
           /\ HeldAt(n, Y) \ HeldAt(m, Z) \subseteq o /\ o \subseteq HeldAt(n, Y)
           /\ \A h : Straight(n, c, h) => Straight(m, c, h)
           /\ IsFiniteSet(Y) => IsFiniteSet(Z) /\ Cardinality(Z) <= Cardinality(Y) + 1
  BY ONLY <1>9, PutKeeps
<1>11. HeldAt(nodes, X) = Held /\ EntriesAt(nodes, X) = Entries
  BY Now DEF X
<1>12. HeldAt(m, Z) = Held' /\ EntriesAt(m, Z) = Entries' /\ Z = PlacesIn(nodes', cap')
  BY <1>1, Then DEF m
<1> HIDE DEF Y, Z
<1>13. ValuesOnce(m, Z) /\ out \cap Held' = {}
  BY <1>1, <1>2, <1>4, <1>5, <1>10, <1>11, <1>12
<1>14. Held \ Held' \subseteq out /\ out \subseteq Held
  BY <1>4, <1>5, <1>10, <1>11, <1>12
<1>15. Chains'
  BY <1>1, <1>7, <1>12, <1>13 DEF Chains, m
<1>16. Counted'
  <2>1. count \in Nat /\ IsFiniteSet(X) /\ Cardinality(X) <= count
    BY DEF Counted, X
  <2>2. IsFiniteSet(Y) /\ Cardinality(Y) <= Cardinality(X) /\ Cardinality(X) \in Nat
    BY <1>4, <2>1, FS_CardinalityType
  <2>3. IsFiniteSet(Z) /\ Cardinality(Z) <= Cardinality(Y) + 1
        /\ Cardinality(Y) \in Nat /\ Cardinality(Z) \in Nat
    BY <1>10, <2>2, FS_CardinalityType
  <2>4. Cardinality(Z) <= count + 1 /\ count + 1 \in Nat
    BY <2>1, <2>2, <2>3
  <2> QED
    BY <1>1, <1>12, <2>3, <2>4 DEF Counted
<1>17. Held \subseteq Value
  <2>1. \A y \in X : InPlace(nodes, y).value \in Value
    BY <1>3, PlaceType DEF X, Node
  <2> QED
    BY <1>11, <2>1 DEF HeldAt
<1>18. Gone' /\ FreesRight
  <2>1. freed' \subseteq out
    BY <1>1
  <2>2. Gone'
    BY <1>12, <1>13, <1>14, <1>17, <2>1 DEF Gone, m
  <2> QED
    BY <1>1, <1>13, <1>14, <2>1, <2>2 DEF FreesRight
<1>19. Astray = AstrayIn(nodes, cap) /\ Astray' = AstrayIn(m, c)
  BY <1>1, <1>3, <1>7, AstrayHere, AstrayThen DEF m
<1>20. StraysRight
  <2>1. ASSUME NEW h \in Astray', h \notin Astray
        PROVE  cap' = 2 * cap /\ HasBit(h, cap) /\ ~HasBit(h, 2 * cap)
    <3>1. h \in Key /\ ~Straight(m, c, h) /\ Straight(nodes, cap, h)
      BY <1>19, <2>1 DEF AstrayIn
    <3> QED
      BY <1>1, <1>4, <1>10, <3>1
  <2> QED
    BY <2>1 DEF StraysRight
<1>21. MapRight
  <2>1. SUFFICES ASSUME ret'.key \notin Astray \cup Astray' PROVE Map!Next
    BY DEF MapRight
  <2>2. PICK old \in out \cup {NULL} : (old = NULL <=> out = {}) /\ Returns("put", k, old)
    BY <1>1
  <2>3. ret' = [op |-> "put", key |-> k, value |-> old]
    BY <2>2 DEF Returns
  <2>4. Straight(m, c, e.key)
    BY <1>2, <1>19, <2>1, <2>3 DEF AstrayIn
  <2>5. Table(n, c) /\ e \in Node /\ PutAt(n, c, m, x, e) /\ Straight(m, c, e.key)
    BY <1>9, <2>4
  <2>6. LET S == EntriesAt(n, Y)
            o == GivenUp(n[Index(e.key, c)], e)
        IN  /\ EntriesAt(m, Z) = {f \in S : f.key # e.key} \cup {e}
            /\ o = {} => \A f \in S : f.key # e.key
            /\ \A r \in o : Entry(e.key, r) \in S
    BY ONLY <2>5, PutIsMap DEF Y, Z
  <2>7. /\ Entries' = {f \in Entries : f.key # k} \cup {e}
        /\ out = {} => \A f \in Entries : f.key # k
        /\ \A r \in out : Entry(k, r) \in Entries
    BY <1>2, <1>4, <1>5, <1>11, <1>12, <2>6
  <2>8. Map!Holds(k, old)
    BY <2>2, <2>7 DEF Map!Holds, Map!Entry, Entry
  <2>9. old \in Value \cup {NULL}
    BY <1>14, <1>17
  <2>10. Map!Put(k, v)
    BY <2>3, <2>7, <2>8, <2>9 DEF Map!Put, Map!Without, Map!Returns, Map!Entry, Entry, e
  <2> QED
    BY <2>10 DEF Map!Next
<1> QED
  BY <1>15, <1>16, <1>18, <1>20, <1>21

\* What leaves the table as it is.
LEMMA SameStep ==
  ASSUME Chains, Counted, Gone, UNCHANGED table, freed' = {}
  PROVE  Chains' /\ Counted' /\ Gone' /\ FreesRight /\ StraysRight /\ UNCHANGED Entries
<1>1. nodes' = nodes /\ cap' = cap /\ count' = count
  BY DEF table
<1>2. Held' = Held /\ Entries' = Entries /\ Held = HeldAt(nodes, PlacesIn(nodes, cap))
  BY <1>1, Now, Then
<1>3. Astray' = Astray
  BY <1>1, AstrayHere, AstrayThen DEF Chains
<1>4. Chains' /\ Counted'
  BY <1>1 DEF Chains, Counted
<1>5. Gone' /\ FreesRight
  BY <1>1, <1>2 DEF Gone, FreesRight
<1> QED
  BY <1>2, <1>3, <1>4, <1>5 DEF StraysRight

\* What a search of a key that is not astray finds.
LEMMA SearchFinds ==
  ASSUME Chains, NEW k \in Key
  PROVE  LET i == Index(k, cap)
             p == Find(nodes[i], k)
         IN  /\ p \in Nat
             /\ p > 0 => /\ <<i, p>> \in PlacesIn(nodes, cap)
                         /\ InPlace(nodes, <<i, p>>) = nodes[i][p]
                         /\ nodes[i][p] \in Node /\ nodes[i][p] \in Entries
                         /\ nodes[i][p].key = k /\ nodes[i][p].value \in Held \cap Value
                         /\ Entry(k, nodes[i][p].value) = nodes[i][p]
             /\ p = 0 /\ k \notin Astray => \A f \in Entries : f.key # k
<1> DEFINE i == Index(k, cap)
           p == Find(nodes[i], k)
           X == PlacesIn(nodes, cap)
<1>1. Table(nodes, cap) /\ i \in 0..(cap - 1) /\ nodes[i] \in Seq(Node)
  BY IndexType DEF Chains, Table
<1>2. i = Index(k, cap)
  OBVIOUS
<1> HIDE DEF i
<1>3. /\ p \in Nat
      /\ p = 0 => \A l \in 1..Len(nodes[i]) : nodes[i][l].key # k
      /\ p > 0 => p \in 1..Len(nodes[i]) /\ nodes[i][p].key = k
  BY <1>1, FindIs
<1> HIDE DEF p
<1>4. Entries = EntriesAt(nodes, X) /\ Held = HeldAt(nodes, X)
  BY Now
<1>5. ASSUME p > 0
      PROVE  /\ <<i, p>> \in X /\ InPlace(nodes, <<i, p>>) = nodes[i][p] /\ nodes[i][p] \in Node
             /\ nodes[i][p] \in Entries /\ nodes[i][p].value \in Held \cap Value
             /\ Entry(k, nodes[i][p].value) = nodes[i][p]
  <2>1. <<i, p>> \in X /\ <<i, p>>[1] = i /\ <<i, p>>[2] = p
    BY <1>1, <1>3, <1>5, PlaceIs
  <2>2. InPlace(nodes, <<i, p>>) = nodes[i][p]
    BY <2>1 DEF InPlace
  <2>3. nodes[i][p] \in Node
    BY <1>1, <2>1, <2>2, PlaceType
  <2> HIDE DEF X
  <2>4. nodes[i][p] \in Entries /\ nodes[i][p].value \in Held
    BY <1>4, <2>1, <2>2 DEF EntriesAt, HeldAt
  <2>5. nodes[i][p].value \in Value /\ Entry(k, nodes[i][p].value) = nodes[i][p]
    BY <1>3, <1>5, <2>3 DEF Node, Entry
  <2> QED
    BY <2>1, <2>2, <2>3, <2>4, <2>5
<1>6. ASSUME p = 0, k \notin Astray, NEW y \in X PROVE InPlace(nodes, y).key # k
  <2>1. SUFFICES ASSUME InPlace(nodes, y).key = k PROVE FALSE
    OBVIOUS
  <2>2. Straight(nodes, cap, k)
    BY <1>1, <1>6, AstrayHere DEF AstrayIn
  <2>3. y[1] = i /\ y[2] \in 1..Len(nodes[i])
    <3>1. y[1] = i
      BY <1>2, <2>1, <2>2 DEF Straight
    <3> QED
      BY <3>1, PlaceIs
  <2>4. nodes[i][y[2]].key # k
    BY <1>3, <1>6, <2>3
  <2> QED
    BY <2>1, <2>3, <2>4 DEF InPlace
<1> HIDE DEF X
<1>7. p = 0 /\ k \notin Astray => \A f \in Entries : f.key # k
  BY <1>4, <1>6 DEF EntriesAt
<1> QED
  BY <1>3, <1>5, <1>7 DEF i, p, X

LEMMA GetStep ==
  ASSUME Chains, Counted, Gone, NEW k \in Key, Get(k)
  PROVE  Chains' /\ Counted' /\ Gone' /\ FreesRight /\ StraysRight /\ MapRight
<1> DEFINE i == Index(k, cap)
           p == Find(nodes[i], k)
<1>1. Chains' /\ Counted' /\ Gone' /\ FreesRight /\ StraysRight /\ Entries' = Entries
  BY SameStep DEF Get
<1>2. ret' = [op |-> "get", key |-> k, value |-> IF p > 0 THEN nodes[i][p].value ELSE NULL]
  BY DEF Get, Returns
<1>3. /\ p \in Nat
      /\ p > 0 => /\ nodes[i][p] \in Entries /\ nodes[i][p].value \in Value
                  /\ Entry(k, nodes[i][p].value) = nodes[i][p]
      /\ p = 0 /\ k \notin Astray => \A f \in Entries : f.key # k
  BY SearchFinds
<1> DEFINE r == IF p > 0 THEN nodes[i][p].value ELSE NULL
<1>4. ASSUME k \notin Astray PROVE r \in Value \cup {NULL} /\ Map!Holds(k, r)
  <2> HIDE DEF i, p
  <2> QED
    BY <1>3, <1>4 DEF Map!Holds, Map!Entry, Entry
<1>5. ret' = [op |-> "get", key |-> k, value |-> r]
  BY <1>2
<1> HIDE DEF r
<1>6. k \notin Astray => Map!Get(k)
  BY <1>1, <1>4, <1>5 DEF Map!Get, Map!Returns
<1>7. ret'.key = k
  BY <1>5
<1>8. MapRight
  BY <1>6, <1>7 DEF MapRight, Map!Next
<1> QED
  BY <1>1, <1>8

LEMMA RemoveStep ==
  ASSUME Chains, Counted, Gone, NEW k \in Key, NEW b \in BOOLEAN, RemoveKey(k, b)
  PROVE  Chains' /\ Counted' /\ Gone' /\ FreesRight /\ StraysRight /\ MapRight
<1> DEFINE i == Index(k, cap)
           p == Find(nodes[i], k)
           X == PlacesIn(nodes, cap)
           v == nodes[i][p].value
<1>1. /\ p \in Nat
      /\ p > 0 => /\ <<i, p>> \in X /\ InPlace(nodes, <<i, p>>) = nodes[i][p]
                  /\ nodes[i][p].key = k /\ v \in Held \cap Value
                  /\ nodes[i][p] \in Entries /\ Entry(k, v) = nodes[i][p]
      /\ p = 0 /\ k \notin Astray => \A f \in Entries : f.key # k
  BY SearchFinds
<1>2. cap' = cap
  BY DEF RemoveKey
<1>3. CASE p = 0
  <2>1. /\ nodes' = nodes /\ count' = count /\ freed' = {}
        /\ ret' = [op |-> "remove", key |-> k, value |-> NULL]
    BY <1>3 DEF RemoveKey, Returns
  <2>2. Chains' /\ Counted' /\ Gone' /\ FreesRight /\ StraysRight /\ Entries' = Entries
    BY <1>2, <2>1, SameStep DEF table
  <2> HIDE DEF i, p, X
  <2>3. MapRight
    <3>1. SUFFICES ASSUME k \notin Astray PROVE Map!Next
      BY <2>1 DEF MapRight
    <3>2. \A f \in Entries : f.key # k
      BY <1>1, <1>3, <3>1
    <3>3. Map!Holds(k, NULL) /\ Entries' = Map!Without(k)
      BY <2>2, <3>2 DEF Map!Holds, Map!Without
    <3>4. Map!Remove(k)
      BY <2>1, <3>3 DEF Map!Remove, Map!Returns
    <3> QED
      BY <3>4 DEF Map!Next
  <2> QED
    BY <2>2, <2>3
<1>4. CASE p > 0
  <2> DEFINE x == <<i, p>>
             m == nodes'
             Y == PlacesIn(m, cap)
  <2>1. /\ nodes' = [nodes EXCEPT ![i] = Without(@, p)] /\ count' = count - 1
        /\ freed' = IF free_cb /\ b THEN {v} ELSE {}
        /\ ret' = [op |-> "remove", key |-> k, value |-> v]
    BY <1>4 DEF RemoveKey, Returns, Frees
  <2>2. x[1] = i /\ x[2] = p
    OBVIOUS
  <2>3. m = Removed(nodes, x)
    BY <2>1, <2>2 DEF Removed, Without
  <2>4. x \in X /\ InPlace(nodes, x) = nodes[i][p]
    BY <1>1, <1>4
  <2>5. InPlace(nodes, x).key = k /\ InPlace(nodes, x).value = v /\ v \in Held \cap Value
    BY <1>1, <1>4, <2>4
  <2>6. Entry(k, v) \in Entries
    BY <1>1, <1>4
  <2> HIDE DEF v, i, p, x, m
  <2>7. Table(nodes, cap) /\ x \in PlacesIn(nodes, cap)
    BY <2>4 DEF Chains
  <2>8. LET q == Removed(nodes, x)
            U == PlacesIn(nodes, cap)
            W == PlacesIn(q, cap)
            g == InPlace(nodes, x).key
            u == InPlace(nodes, x).value
        IN  /\ Table(q, cap)
            /\ ValuesOnce(nodes, U) => ValuesOnce(q, W) /\ u \notin HeldAt(q, W)
            /\ HeldAt(nodes, U) = HeldAt(q, W) \cup {u}
            /\ \A h : Straight(nodes, cap, h) => Straight(q, cap, h)
            /\ Straight(nodes, cap, g) =>
                 EntriesAt(q, W) = {f \in EntriesAt(nodes, U) : f.key # g}
            /\ IsFiniteSet(U) => IsFiniteSet(W) /\ Cardinality(W) <= Cardinality(U) - 1
    BY ONLY <2>7, RemovedKeeps
  <2>9. /\ Table(m, cap)
        /\ ValuesOnce(nodes, X) => ValuesOnce(m, Y) /\ v \notin HeldAt(m, Y)
        /\ HeldAt(nodes, X) = HeldAt(m, Y) \cup {v}
        /\ \A h : Straight(nodes, cap, h) => Straight(m, cap, h)
        /\ Straight(nodes, cap, k) => EntriesAt(m, Y) = {f \in EntriesAt(nodes, X) : f.key # k}
        /\ IsFiniteSet(X) => IsFiniteSet(Y) /\ Cardinality(Y) <= Cardinality(X) - 1
    BY <2>3, <2>5, <2>8
  <2>10. /\ HeldAt(nodes, X) = Held /\ EntriesAt(nodes, X) = Entries
         /\ HeldAt(m, Y) = Held' /\ EntriesAt(m, Y) = Entries' /\ Y = PlacesIn(nodes', cap')
    BY <1>2, Now, Then DEF m
  <2>11. ValuesOnce(nodes, X)
    BY DEF Chains
  <2>12. count \in Nat /\ IsFiniteSet(X) /\ Cardinality(X) <= count
    BY DEF Counted
  <2> HIDE DEF X, Y
  <2>13. Chains'
    BY <1>2, <2>9, <2>10, <2>11 DEF Chains, m
  <2>14. Counted'
    <3>1. IsFiniteSet(Y) /\ Cardinality(Y) <= Cardinality(X) - 1
          /\ Cardinality(Y) \in Nat /\ Cardinality(X) \in Nat
      BY <2>9, <2>12, FS_CardinalityType
    <3>2. count - 1 \in Nat /\ Cardinality(Y) <= count - 1
      BY <2>12, <3>1
    <3> QED
      BY <2>1, <2>10, <3>1, <3>2 DEF Counted
  <2>15. freed' \subseteq {v} /\ v \notin Held' /\ Held \ Held' \subseteq {v}
    BY <2>1, <2>9, <2>10, <2>11
  <2>16. Gone'
    BY <2>5, <2>10, <2>15 DEF Gone, m
  <2>17. ret'.op = "remove" /\ ret'.value = v /\ ret'.key = k
    BY <2>1
  <2>18. FreesRight
    BY <2>5, <2>15, <2>17 DEF FreesRight
  <2>19. Astray = AstrayIn(nodes, cap) /\ Astray' = AstrayIn(m, cap)
    BY <1>2, <2>7, <2>9, AstrayHere, AstrayThen DEF m
  <2>20. StraysRight
    BY <2>9, <2>19 DEF StraysRight, AstrayIn
  <2>21. ASSUME k \notin Astray PROVE Map!Next
    <3>1. Straight(nodes, cap, k)
      BY <2>19, <2>21 DEF AstrayIn
    <3>2. Entries' = {f \in Entries : f.key # k}
      BY <2>9, <2>10, <3>1
    <3>3. Map!Holds(k, v)
      BY <2>6 DEF Map!Holds, Map!Entry, Entry
    <3>4. Map!Remove(k)
      BY <2>1, <2>5, <3>2, <3>3 DEF Map!Remove, Map!Without, Map!Returns
    <3> QED
      BY <3>4 DEF Map!Next
  <2> QED
    BY <2>13, <2>14, <2>16, <2>17, <2>18, <2>20, <2>21 DEF MapRight
<1> QED
  BY <1>1, <1>3, <1>4

LEMMA NoNodes ==
  ASSUME NEW n, NEW c, \A i \in 0..(c - 1) : n[i] = << >>
  PROVE  PlacesIn(n, c) = {}
<1>1. ASSUME NEW x \in PlacesIn(n, c) PROVE FALSE
  BY PlaceIs
<1> QED
  BY <1>1

LEMMA EmptyTable ==
  ASSUME NEW n, NEW c, c = DefaultCap, n = [i \in 0..(DefaultCap - 1) |-> << >>]
  PROVE  Table(n, c) /\ PlacesIn(n, c) = {}
<1>1. \A i \in 0..(c - 1) : n[i] = << >>
  OBVIOUS
<1>2. PlacesIn(n, c) = {}
  BY <1>1, NoNodes
<1> QED
  BY <1>2, HashMapAssumption DEF Table

LEMMA ClearStep ==
  ASSUME Chains, Counted, Gone, Clear
  PROVE  Chains' /\ Counted' /\ Gone' /\ FreesRight /\ StraysRight /\ MapRight
<1>1. /\ Table(nodes', cap') /\ PlacesIn(nodes', cap') = {} /\ count' = 0
      /\ freed' = IF free_cb THEN Held ELSE {}
      /\ ret' = [op |-> "clear", key |-> NULL, value |-> NULL]
  BY EmptyTable DEF Clear, Frees, Returns
<1>2. Held' = {} /\ Entries' = {}
  BY <1>1, Then DEF HeldAt, EntriesAt
<1>3. Chains'
  BY <1>1 DEF Chains, ValuesOnce
<1>4. Counted'
  BY <1>1, FS_EmptySet DEF Counted
<1>5. Held \subseteq Value
  <2>1. \A y \in PlacesIn(nodes, cap) : InPlace(nodes, y).value \in Value
    BY PlaceType DEF Chains, Node
  <2> QED
    BY <2>1, Now DEF HeldAt
<1>6. Gone' /\ FreesRight
  BY <1>1, <1>2, <1>5 DEF Gone, FreesRight, HeldAt
<1>7. Astray' = {}
  <2>1. \A k \in Key : Straight(nodes', cap', k)
    BY <1>1 DEF Straight
  <2> QED
    BY <1>1, <2>1, AstrayThen DEF AstrayIn
<1>8. StraysRight
  BY <1>7 DEF StraysRight
<1>9. Map!Clear
  BY <1>1, <1>2 DEF Map!Clear, Map!Returns
<1>10. MapRight
  BY <1>9 DEF MapRight, Map!Next
<1> QED
  BY <1>3, <1>4, <1>6, <1>8, <1>10

\* A callback is set, or a walk goes on.
LEMMA IdleStep ==
  ASSUME Chains, Counted, Gone, SetFreeCb \/ GetFirst \/ GetNext
  PROVE  Chains' /\ Counted' /\ Gone' /\ FreesRight /\ StraysRight /\ MapRight
<1>1. UNCHANGED table /\ freed' = {} /\ ret' = ret
  BY DEF SetFreeCb, GetFirst, GetNext, Shows, table
<1>2. Chains' /\ Counted' /\ Gone' /\ FreesRight /\ StraysRight /\ UNCHANGED Entries
  BY <1>1, SameStep
<1> QED
  BY <1>1, <1>2 DEF MapRight

LEMMA MapStutter ==
  ASSUME Chains, Counted, Gone, UNCHANGED vars
  PROVE  Chains' /\ Counted' /\ Gone' /\ StraysRight /\ MapRight
<1>1. UNCHANGED <<nodes, cap, count, freed, ret>>
  BY DEF vars
<1>2. Entries' = Entries /\ Astray' = Astray
  BY <1>1, Now, Then, AstrayHere, AstrayThen DEF Chains
<1>3. Chains' /\ Counted' /\ Gone'
  BY <1>1 DEF Chains, Counted, Gone
<1> QED
  BY <1>1, <1>2, <1>3 DEF StraysRight, MapRight

LEMMA MapStep ==
  ASSUME Chains, Counted, Gone, [Next]_vars
  PROVE  Chains' /\ Counted' /\ Gone' /\ [FreesRight]_vars /\ StraysRight /\ MapRight
<1>1. ASSUME NEW k \in Key, NEW v \in Value, Put(k, v)
      PROVE  Chains' /\ Counted' /\ Gone' /\ FreesRight /\ StraysRight /\ MapRight
  BY <1>1, PutStep
<1>2. ASSUME NEW k \in Key, NEW b \in BOOLEAN, RemoveKey(k, b)
      PROVE  Chains' /\ Counted' /\ Gone' /\ FreesRight /\ StraysRight /\ MapRight
  BY <1>2, RemoveStep
<1>3. ASSUME NEW k \in Key, Get(k)
      PROVE  Chains' /\ Counted' /\ Gone' /\ FreesRight /\ StraysRight /\ MapRight
  BY <1>3, GetStep
<1>4. CASE Clear
  BY <1>4, ClearStep
<1>5. CASE SetFreeCb \/ GetFirst \/ GetNext
  BY <1>5, IdleStep
<1>6. CASE UNCHANGED vars
  BY <1>6, MapStutter
<1> QED
  BY <1>1, <1>2, <1>3, <1>4, <1>5, <1>6 DEF Next

LEMMA MapInit == Init => Chains /\ Counted /\ Gone
<1> SUFFICES ASSUME Init PROVE Chains /\ Counted /\ Gone
  OBVIOUS
<1>1. Table(nodes, cap) /\ PlacesIn(nodes, cap) = {} /\ count = 0 /\ freed = {}
  BY EmptyTable DEF Init
<1> QED
  BY <1>1, FS_EmptySet DEF Chains, Counted, Gone, ValuesOnce

\* A pointer that the map frees was in it, at one place only, and is so no
\* longer; while a callback is set every pointer that leaves the map is freed,
\* or returned by remove.
THEOREM FreesWhatLeft == Spec => FreedAsLeft
<1>1. Chains /\ Counted /\ Gone /\ [Next]_vars => Chains' /\ Counted' /\ Gone' /\ [FreesRight]_vars
  BY MapStep
<1>2. Chains => HeldOnce
  BY Now DEF Chains, HeldOnce, ValuesOnce, NodeAt, InPlace
<1>3. Spec => [](Chains /\ HeldOnce)
  BY <1>1, <1>2, MapInit, PTL DEF Spec
<1>4. Spec => [][FreesRight]_vars
  BY <1>1, MapInit, PTL DEF Spec
<1>5. HeldOnce /\ HeldOnce' /\ [FreesRight]_vars =>
        [/\ freed' \subseteq Held \ Held' /\ HeldOnce /\ HeldOnce'
         /\ free_cb => \A v \in Held \ Held' :
              v \in freed' \/ (ret'.op = "remove" /\ ret'.value = v)]_vars
  BY DEF FreesRight
<1>6. Spec => [][/\ freed' \subseteq Held \ Held' /\ HeldOnce /\ HeldOnce'
                 /\ free_cb => \A v \in Held \ Held' :
                      v \in freed' \/ (ret'.op = "remove" /\ ret'.value = v)]_vars
  BY <1>3, <1>4, <1>5, PTL
<1> QED
  BY <1>6 DEF FreedAsLeft

\* A key goes astray only when the table doubles, by the bit that the code does
\* not look at (c_hash_map.c:149).
THEOREM StraysByOneBit == Spec => StraysOnlyByBit
<1>1. Chains /\ Counted /\ Gone /\ [Next]_vars => Chains' /\ Counted' /\ Gone' /\ StraysRight
  BY MapStep
<1>2. Spec => [][StraysRight]_vars
  BY <1>1, MapInit, PTL DEF Spec
<1> QED
  BY <1>2 DEF StraysOnlyByBit, StraysRight

\* A call about a key that is not astray, nor goes astray in it, is a call of a map.
THEOREM HashMapIsMap == Spec => IsMap
<1>1. Init => Map!Init
  <2>1. ASSUME Init PROVE Entries = {}
    BY <2>1, EmptyTable, Now DEF Init, EntriesAt
  <2> QED
    BY <2>1 DEF Init, Map!Init
<1>2. Chains /\ Counted /\ Gone /\ [Next]_vars => Chains' /\ Counted' /\ Gone' /\ MapRight
  BY MapStep
<1>3. Spec => Map!Init /\ [][Map!Next \/ ret'.key \in Astray \cup Astray']_<<Entries, ret>>
  BY <1>1, <1>2, MapInit, PTL DEF Spec, MapRight
<1> QED
  BY <1>3 DEF IsMap

-----------------------------------------------------------------------------
(* The walk.                                                               *)

\* From finds the first node from a place on, and nothing only if there is none.
LEMMA FromIs ==
  ASSUME Table(nodes, cap), NEW i \in Nat
  PROVE  /\ From(i) = {} => \A x \in Places : x[1] < i
         /\ \A y \in From(i) :
              /\ y \in Places /\ y[1] \in Nat /\ y[2] = 1 /\ y[1] >= i
              /\ \A x \in Places : x[1] >= i => x[1] >= y[1]
<1>1. cap \in Nat /\ \A l \in 0..(cap - 1) : nodes[l] \in Seq(Node) /\ Len(nodes[l]) \in Nat
  BY LenProperties DEF Table
<1>2. Places = PlacesIn(nodes, cap)
  BY Now
<1>3. ASSUME NEW x \in Places PROVE x[1] \in 0..(cap - 1) /\ nodes[x[1]] # << >>
  <2>1. x[1] \in 0..(cap - 1) /\ x[2] \in 1..Len(nodes[x[1]])
    BY <1>2, PlaceIs
  <2>2. Len(<< >>) = 0
    OBVIOUS
  <2>3. Len(nodes[x[1]]) # 0
    BY <1>1, <2>1
  <2> QED
    BY <2>1, <2>2, <2>3
<1>4. ASSUME NEW y \in From(i)
      PROVE  /\ y \in Places /\ y[1] \in Nat /\ y[2] = 1 /\ y[1] >= i
             /\ \A x \in Places : x[1] >= i => x[1] >= y[1]
  <2>1. PICK j \in i..(cap - 1) : /\ y = <<j, 1>> /\ nodes[j] # << >>
                                  /\ \A l \in i..(j - 1) : nodes[l] = << >>
    BY DEF From
  <2>2. j \in 0..(cap - 1)
    BY <1>1
  <2>3. 1 \in 1..Len(nodes[j])
    <3>1. Len(nodes[j]) \in Nat /\ Len(nodes[j]) # 0
      BY <1>1, <2>1, <2>2, EmptySeq
    <3> QED
      BY <3>1
  <2>4. y \in Places
    BY <1>2, <2>1, <2>2, <2>3, PlaceIs
  <2>5. ASSUME NEW x \in Places, x[1] >= i PROVE x[1] >= j
    <3>1. x[1] \in Nat /\ nodes[x[1]] # << >>
      BY <1>3
    <3>2. x[1] \notin i..(j - 1)
      BY <2>1, <3>1
    <3> QED
      BY <1>1, <2>2, <2>5, <3>1, <3>2
  <2> QED
    BY <1>1, <2>1, <2>2, <2>4, <2>5
<1>5. ASSUME From(i) = {}, NEW x \in Places, ~(x[1] < i) PROVE FALSE
  <2> DEFINE S == {j \in i..(cap - 1) : nodes[j] # << >>}
  <2>1. x[1] \in S
    BY <1>1, <1>3, <1>5
  <2>2. S \subseteq Nat /\ S # {}
    BY <1>1, <2>1
  <2>3. PICK j \in S : \A l \in S : j <= l
    <3> HIDE DEF S
    <3> QED
      BY <2>2, LeastOf
  <2>4. \A l \in i..(j - 1) : nodes[l] = << >>
    <3>1. ASSUME NEW l \in i..(j - 1), nodes[l] # << >> PROVE FALSE
      <4>1. l \in S
        BY <1>1, <2>3, <3>1
      <4> QED
        BY <2>2, <2>3, <4>1
    <3> QED
      BY <3>1
  <2>5. <<j, 1>> \in From(i)
    BY <2>3, <2>4 DEF From
  <2> QED
    BY <1>5, <2>5
<1> QED
  BY <1>3, <1>4, <1>5

\* Where a walk is and what it has shown.
Walk == /\ at \in Places \cup {NoWalk, Done} /\ seen \subseteq Places
        /\ at = NoWalk => seen = {}
        /\ Astray = {} => /\ at \in Places => seen = UpTo(at)
                          /\ at = Done => seen = Places

LEMMA Apart == Table(nodes, cap) => NoWalk \notin Places /\ Done \notin Places /\ NoWalk # Done
<1> SUFFICES ASSUME Table(nodes, cap) PROVE NoWalk \notin Places /\ Done \notin Places /\ NoWalk # Done
  OBVIOUS
<1>1. \A x \in Places : x[1] \in 0..(cap - 1) /\ x[2] \in 1..Len(nodes[x[1]])
  BY Now, PlaceIs
<1>2. NoWalk[2] = 0 /\ Done[2] = 0 /\ NoWalk[1] = -1 /\ Done[1] = cap
  BY DEF NoWalk, Done
<1>3. \A x \in Places : x[2] # 0
  BY <1>1
<1> QED
  BY <1>2, <1>3 DEF Table

\* A walk goes on to the next node, or ends where there is none.
LEMMA ShowsWalk ==
  ASSUME Table(nodes, cap), Walk, NEW next \in SUBSET Places, Shows(next),
         Astray = {} => /\ next = {} => seen = Places
                        /\ \A y \in next : seen \cup {y} = UpTo(y)
  PROVE  Walk'
<1>1. Places' = Places /\ Done' = Done /\ NoWalk' = NoWalk /\ nodes' = nodes /\ cap' = cap
  BY Now, Then DEF Shows, table, Done, NoWalk
<1>2. Astray' = Astray
  BY <1>1, AstrayHere, AstrayThen
<1>3. \A y \in Places : UpTo(y)' = UpTo(y)
  BY <1>1 DEF UpTo
<1>4. NoWalk \notin Places /\ Done \notin Places /\ NoWalk # Done
  BY Apart
<1>5. CASE next = {} /\ at' = Done /\ seen' = seen
  BY <1>1, <1>2, <1>4, <1>5 DEF Walk
<1>6. CASE \E y \in next : at' = y /\ seen' = seen \cup {y}
  <2>1. PICK y \in next : at' = y /\ seen' = seen \cup {y}
    BY <1>6
  <2>2. at' \in Places' /\ seen' \subseteq Places' /\ at' # NoWalk' /\ at' # Done'
    BY <1>1, <1>4, <2>1 DEF Walk
  <2>3. Astray' = {} => seen' = UpTo(at)'
    <3>1. UpTo(at)' = {z \in Places : z[1] < y[1] \/ (z[1] = y[1] /\ z[2] <= y[2])}
      BY <1>1, <2>1 DEF UpTo
    <3>2. UpTo(at)' = UpTo(y)
      BY <3>1 DEF UpTo
    <3> QED
      BY <1>2, <2>1, <3>2
  <2> QED
    BY <2>2, <2>3 DEF Walk
<1> QED
  BY <1>5, <1>6 DEF Shows

LEMMA PlacesAre ==
  ASSUME Table(nodes, cap)
  PROVE  \A x \in Places : /\ x[1] \in 0..(cap - 1) /\ x[1] \in Nat /\ x[2] \in Nat /\ x[2] >= 1
                           /\ x[2] <= Len(nodes[x[1]]) /\ Len(nodes[x[1]]) \in Nat
                           /\ x = <<x[1], x[2]>> /\ NodeAt(x) \in Node
<1>1. ASSUME NEW x \in PlacesIn(nodes, cap)
      PROVE  /\ x[1] \in 0..(cap - 1) /\ x[1] \in Nat /\ x[2] \in Nat /\ x[2] \in 1..Len(nodes[x[1]])
             /\ Len(nodes[x[1]]) \in Nat
             /\ x = <<x[1], x[2]>> /\ NodeAt(x) \in Node
  BY PlaceIs, PlaceType, Here
<1> QED
  BY <1>1, Now

LEMMA FirstWalk ==
  ASSUME Table(nodes, cap), Counted, Walk, GetFirst
  PROVE  Walk'
<1> DEFINE next == IF count = 0 THEN {} ELSE From(0)
<1>1. at = NoWalk /\ Shows(next) /\ seen = {}
  BY DEF GetFirst, Walk
<1>2. count = 0 => Places = {}
  <2>1. IsFiniteSet(Places) /\ Cardinality(Places) <= count
    BY Now DEF Counted
  <2>2. Cardinality(Places) \in Nat
    BY <2>1, FS_CardinalityType
  <2> QED
    BY <2>1, <2>2, FS_EmptySet
<1>3. \A x \in Places : x[1] \in Nat /\ x[2] \in Nat /\ x[2] >= 1 /\ x = <<x[1], x[2]>>
  BY PlacesAre
<1>4. /\ From(0) = {} => \A x \in Places : x[1] < 0
      /\ \A y \in From(0) :
           /\ y \in Places /\ y[1] \in Nat /\ y[2] = 1
           /\ \A x \in Places : x[1] >= 0 => x[1] >= y[1]
  BY FromIs
<1>5. next = {} => Places = {}
  BY <1>2, <1>3, <1>4
<1>6. next \in SUBSET Places
  BY <1>4
<1>7. ASSUME NEW y \in next PROVE {y} = UpTo(y)
  <2>1. /\ y \in Places /\ y[1] \in Nat /\ y[2] = 1
        /\ \A x \in Places : x[1] >= 0 => x[1] >= y[1]
    BY <1>4
  <2>2. ASSUME NEW x \in Places, x[1] < y[1] \/ (x[1] = y[1] /\ x[2] <= y[2]) PROVE x = y
    <3>1. x[1] >= y[1] /\ x[1] \in Nat
      BY <1>3, <2>1
    <3>2. x[1] = y[1] /\ x[2] = y[2]
      BY <1>3, <2>1, <2>2, <3>1
    <3> QED
      BY <1>3, <2>1, <3>2
  <2> QED
    BY <2>1, <2>2 DEF UpTo
<1> HIDE DEF next
<1> QED
  BY <1>1, <1>5, <1>6, <1>7, ShowsWalk

LEMMA NextWalk ==
  ASSUME Table(nodes, cap), Walk, GetNext
  PROVE  Walk'
<1> DEFINE i == Index(NodeAt(at).key, cap)
<1>1. at \in Places /\ Shows(NextOf(at))
  BY DEF GetNext
<1>2. \A x \in Places : /\ x[1] \in 0..(cap - 1) /\ x[1] \in Nat /\ x[2] \in Nat /\ x[2] >= 1
                        /\ x[2] <= Len(nodes[x[1]]) /\ Len(nodes[x[1]]) \in Nat
                        /\ x = <<x[1], x[2]>> /\ NodeAt(x) \in Node
  BY PlacesAre
<1>3. i \in Nat /\ i + 1 \in Nat
  <2>1. NodeAt(at).key \in Key
    BY <1>1, <1>2 DEF Node
  <2>2. cap \in Nat /\ cap > 0
    BY DEF Table
  <2>3. Index(NodeAt(at).key, cap) \in 0..(cap - 1)
    BY <2>1, <2>2, IndexType
  <2> QED
    BY <2>3
<1>4. Astray = {} => seen = UpTo(at) /\ i = at[1]
  <2>1. NodeAt(at).key \in Key
    BY <1>1, <1>2 DEF Node
  <2>2. Astray = {} => i = at[1]
    BY <1>1, <2>1 DEF Astray
  <2> QED
    BY <1>1, <2>2 DEF Walk
<1>5. CASE at[2] < Len(nodes[at[1]])
  <2> DEFINE y == <<at[1], at[2] + 1>>
  <2>1. NextOf(at) = {y}
    BY <1>5 DEF NextOf
  <2>2. y[1] = at[1] /\ y[2] = at[2] + 1
    OBVIOUS
  <2>3. y \in Places
    <3>1. at[1] \in 0..(cap - 1) /\ at[2] + 1 \in 1..Len(nodes[at[1]])
      BY <1>1, <1>2, <1>5
    <3> QED
      BY <3>1, PlaceIs, Now
  <2> HIDE DEF y
  <2>4. UpTo(at) \cup {y} = UpTo(y)
    <3>1. ASSUME NEW x \in Places PROVE x \in UpTo(at) \cup {y} <=> x \in UpTo(y)
      <4>1. /\ x[1] \in Nat /\ x[2] \in Nat /\ x = <<x[1], x[2]>>
            /\ y[1] \in Nat /\ y[2] \in Nat /\ y = <<y[1], y[2]>> /\ at[2] \in Nat
        BY <1>1, <1>2, <2>3
      <4>2. x = y <=> x[1] = y[1] /\ x[2] = y[2]
        BY <4>1
      <4>3. x[2] <= y[2] <=> x[2] <= at[2] \/ x[2] = y[2]
        BY <2>2, <4>1
      <4>4. x \in UpTo(at) <=> x[1] < at[1] \/ (x[1] = at[1] /\ x[2] <= at[2])
        BY DEF UpTo
      <4>5. x \in UpTo(y) <=> x[1] < y[1] \/ (x[1] = y[1] /\ x[2] <= y[2])
        BY DEF UpTo
      <4> QED
        BY <2>2, <4>2, <4>3, <4>4, <4>5, Zenon
    <3> QED
      BY <2>3, <3>1 DEF UpTo
  <2> QED
    BY <1>1, <1>4, <2>1, <2>3, <2>4, ShowsWalk
<1>6. CASE ~(at[2] < Len(nodes[at[1]]))
  <2>1. NextOf(at) = From(i + 1)
    BY <1>6 DEF NextOf
  <2>2. /\ From(i + 1) = {} => \A x \in Places : x[1] < i + 1
        /\ \A y \in From(i + 1) :
             /\ y \in Places /\ y[1] \in Nat /\ y[2] = 1 /\ y[1] >= i + 1
             /\ \A x \in Places : x[1] >= i + 1 => x[1] >= y[1]
    BY <1>3, FromIs
  <2> HIDE DEF i
  <2>3. \A x \in Places : x[1] = at[1] => x[2] <= at[2]
    BY <1>1, <1>2, <1>6
  <2>4. ASSUME Astray = {}, From(i + 1) = {} PROVE seen = Places
    <3>1. \A x \in Places : x[1] < at[1] \/ x[1] = at[1]
      BY <1>1, <1>2, <1>4, <2>2, <2>4
    <3>2. UpTo(at) = Places
      BY <2>3, <3>1 DEF UpTo
    <3> QED
      BY <1>4, <2>4, <3>2
  <2>5. ASSUME Astray = {}, NEW y \in From(i + 1) PROVE seen \cup {y} = UpTo(y)
    <3>1. i = at[1] /\ seen = UpTo(at)
      BY <1>4, <2>5
    <3>2. /\ y \in Places /\ y[1] \in Nat /\ y[2] = 1 /\ y[1] >= at[1] + 1
          /\ \A x \in Places : x[1] >= at[1] + 1 => x[1] >= y[1]
      BY <2>2, <3>1
    <3>3. at[1] \in Nat
      BY <1>1, <1>2
    <3>4. ASSUME NEW x \in Places PROVE x \in UpTo(at) \cup {y} <=> x \in UpTo(y)
      <4>1. x[1] \in Nat /\ x[2] \in Nat /\ x[2] >= 1 /\ x = <<x[1], x[2]>> /\ y = <<y[1], y[2]>>
        BY <1>2, <3>2
      <4>2. x \in UpTo(at) <=> x[1] < at[1] \/ (x[1] = at[1] /\ x[2] <= at[2])
        BY DEF UpTo
      <4>3. x \in UpTo(y) <=> x[1] < y[1] \/ (x[1] = y[1] /\ x[2] <= y[2])
        BY DEF UpTo
      <4>4. x = y <=> x[1] = y[1] /\ x[2] = y[2]
        BY <4>1
      <4>5. x[1] >= at[1] + 1 => x[1] >= y[1]
        BY <3>2
      <4>6. x[1] = at[1] => x[2] <= at[2]
        BY <2>3
      <4>7. CASE x[1] <= at[1]
        <5>1. x \in UpTo(at)
          BY <3>3, <4>1, <4>2, <4>6, <4>7
        <5>2. x \in UpTo(y)
          BY <3>2, <3>3, <4>1, <4>3, <4>7
        <5> QED
          BY <5>1, <5>2
      <4>8. CASE ~(x[1] <= at[1])
        <5>1. x \notin UpTo(at)
          BY <3>3, <4>1, <4>2, <4>8
        <5>2. x[1] >= y[1]
          BY <3>3, <4>1, <4>5, <4>8
        <5>3. x \in UpTo(y) <=> x[1] = y[1] /\ x[2] = y[2]
          BY <3>2, <4>1, <4>3, <5>2
        <5> QED
          BY <4>4, <5>1, <5>3
      <4> QED
        BY <4>7, <4>8
    <3> QED
      BY <3>1, <3>2, <3>4 DEF UpTo
  <2>6. From(i + 1) \in SUBSET Places
    BY <2>2
  <2> QED
    BY <1>1, <2>1, <2>4, <2>5, <2>6, ShowsWalk
<1> QED
  BY <1>5, <1>6

LEMMA WalkStep ==
  ASSUME Chains, Chains', Counted, Walk, [Next]_vars
  PROVE  Walk'
<1>1. Table(nodes, cap)
  BY DEF Chains
<1>2. CASE GetFirst
  BY <1>1, <1>2, FirstWalk
<1>3. CASE GetNext
  BY <1>1, <1>3, NextWalk
<1>4. CASE EndsWalk
  <2>1. at' = NoWalk /\ seen' = {} /\ NoWalk' = NoWalk
    BY <1>4 DEF EndsWalk, NoWalk
  <2>2. at' \notin Places'
    <3>1. Places' = PlacesIn(nodes', cap')
      BY Then
    <3>2. \A x \in Places' : x[1] \in 0..(cap' - 1)
      BY <3>1, PlaceIs
    <3>3. NoWalk[1] = -1
      BY DEF NoWalk
    <3>4. NoWalk \notin Places'
      BY <3>2, <3>3
    <3> QED
      BY <2>1, <3>4
  <2>3. at' # Done'
    <3>1. cap' \in Nat /\ Done'[1] = cap' /\ NoWalk[1] = -1
      BY DEF Chains, Table, Done, NoWalk
    <3> QED
      BY <2>1, <3>1
  <2> QED
    BY <2>1, <2>2, <2>3 DEF Walk
<1>5. CASE UNCHANGED <<table, at, seen>>
  <2>1. nodes' = nodes /\ cap' = cap /\ at' = at /\ seen' = seen
    BY <1>5 DEF table
  <2>2. Places' = Places /\ Astray' = Astray /\ Done' = Done /\ NoWalk' = NoWalk
    BY <1>1, <2>1, Now, Then, AstrayHere, AstrayThen DEF Done, NoWalk
  <2>3. UpTo(at)' = UpTo(at)
    BY <2>1, <2>2 DEF UpTo
  <2> QED
    BY <2>1, <2>2, <2>3 DEF Walk
<1>6. ASSUME NEW k \in Key, NEW v \in Value, Put(k, v) PROVE EndsWalk
  BY <1>6 DEF Put
<1>7. ASSUME NEW k \in Key, NEW b \in BOOLEAN, RemoveKey(k, b) PROVE EndsWalk
  BY <1>7 DEF RemoveKey
<1>8. ASSUME NEW k \in Key, Get(k) PROVE EndsWalk
  BY <1>8 DEF Get
<1>9. Clear => EndsWalk
  BY DEF Clear
<1>10. SetFreeCb \/ UNCHANGED vars => UNCHANGED <<table, at, seen>>
  BY DEF SetFreeCb, vars, table
<1> QED
  BY <1>2, <1>3, <1>4, <1>5, <1>6, <1>7, <1>8, <1>9, <1>10 DEF Next

LEMMA WalkInit == Init => Walk /\ free_cb \in BOOLEAN
<1> SUFFICES ASSUME Init PROVE Walk /\ free_cb \in BOOLEAN
  OBVIOUS
<1>1. Table(nodes, cap) /\ at = NoWalk /\ seen = {} /\ free_cb = FALSE
  BY EmptyTable DEF Init
<1>2. at \notin Places /\ at # Done
  BY <1>1, Apart
<1> QED
  BY <1>1, <1>2 DEF Walk

LEMMA FreeCbStep == free_cb \in BOOLEAN /\ [Next]_vars => free_cb' \in BOOLEAN
  BY DEF Next, Put, Get, RemoveKey, Clear, SetFreeCb, GetFirst, GetNext, Shows, vars

\* Every variable has its type, and while no key is astray a walk shows every
\* node once, in the order of the table (C_HASH_MAP_FOR).
THEOREM WalksComplete == Spec => []WalkComplete
<1> DEFINE Inv == Chains /\ Counted /\ Gone /\ Walk /\ free_cb \in BOOLEAN
<1>1. Init => Inv
  BY MapInit, WalkInit
<1>2. Inv /\ [Next]_vars => Inv'
  <2>1. Chains /\ Counted /\ Gone /\ [Next]_vars => Chains' /\ Counted' /\ Gone'
    BY MapStep
  <2>2. Chains /\ Chains' /\ Counted /\ Walk /\ [Next]_vars => Walk'
    BY WalkStep
  <2> QED
    BY <2>1, <2>2, FreeCbStep
<1>3. Inv => WalkComplete
  BY DEF Chains, Counted, Gone, Walk, WalkComplete, TypeOK, Table
<1> QED
  BY <1>1, <1>2, <1>3, PTL DEF Spec
=============================================================================

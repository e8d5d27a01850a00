-------------------------- MODULE SparseArrayProofs --------------------------
(***************************************************************************)
(* The array stays sorted, the binary search is correct, and the array is  *)
(* a map: for any keys, values and first capacity.                         *)
(***************************************************************************)
EXTENDS SparseArray, TLAPS

\* The inductive invariant: the search is only correct in a sorted array, an
\* insertion keeps the array sorted only where a correct search has put it, and
\* both need places that exist.
Searchable == TypeOK /\ Sorted /\ SearchCorrect

-----------------------------------------------------------------------------
(* The invariant.                                                          *)

LEMMA NodesTyped ==
  ASSUME TypeOK
  PROVE  \A i \in 0..(len - 1) : /\ nodes[i] \in Node
                                 /\ nodes[i].key \in Int
                                 /\ nodes[i].key \in Key /\ nodes[i].value \in Value
                                 /\ nodes[i] = Entry(nodes[i].key, nodes[i].value)
BY ArrayAssumption DEF TypeOK, Node, Entry

LEMMA HalfBetween ==
  ASSUME NEW a \in Int, NEW b \in Int, 0 <= a, a <= b
  PROVE  Half(a + b) \in Int /\ a <= Half(a + b) /\ Half(a + b) <= b
BY DEF Half

LEMMA HalfInt == ASSUME NEW x \in Int PROVE Half(x) \in Int
BY DEF Half

\* resize() makes room for one more node: half of 2 or more is at least 1.
LEMMA CapEnough ==
  ASSUME TypeOK
  PROVE  Grown \in Nat /\ Grown >= 2 /\ len < Grown
BY DEF TypeOK, Grown

LEMMA Initially == Init => Searchable
BY ArrayAssumption DEF Init, Searchable, TypeOK, Sorted, SearchCorrect, NoCall, Call

\* Beginning a search in an array whose nodes do not change.
LEMMA FindSafe ==
  ASSUME Searchable, NEW c, Find(c), UNCHANGED <<nodes, len>>, cap' \in Nat, cap' >= 2, len <= cap',
         \/ c \in [op : {"put"}, key : Key, value : Value] /\ len < cap'
         \/ c \in [op : {"get", "remove"}, key : Key, value : {NULL}]
  PROVE  Searchable'
<1>. USE DEF Searchable
<1>1. CASE len = 0
  BY <1>1 DEF Find, TypeOK, Sorted, SearchCorrect, Complement, probe
<1>2. CASE len # 0
  <2>1. len - 1 \in Int /\ 0 <= len - 1
    BY <1>2 DEF TypeOK
  <2>2. 0 <= Half(len - 1) /\ Half(len - 1) <= len - 1 /\ Half(len - 1) \in Int
    BY <2>1 DEF Half
  <2>. QED BY <1>2, <2>1, <2>2 DEF Find, TypeOK, Sorted, SearchCorrect
<1>. QED BY <1>1, <1>2

LEMMA HitSafe == ASSUME Searchable, Search, Hit PROVE Searchable'
BY DEF Searchable, TypeOK, Sorted, SearchCorrect, Search, Hit, array, probe, Complement

LEMMA GoUpSafe ==
  ASSUME Searchable, Search, GoUp
  PROVE  Searchable'
<1>. USE DEF Searchable
<1>1. /\ start \in Int /\ end \in Int /\ mid \in Int /\ len \in Nat
      /\ 0 <= start /\ start <= mid /\ mid <= end /\ end < len
  BY DEF TypeOK, Search, GoUp
<1>2. call.key \in Int
  BY ArrayAssumption DEF TypeOK, Search
<1>3. \A i \in 0..(len - 1) : nodes[i].key \in Int
  BY NodesTyped
<1>4. TypeOK'
  <2>1. start' = mid + 1 /\ end' = end /\ mid' = Half(mid + 1 + end)
    BY DEF GoUp, Above
  <2>2. mid' \in Int
    BY <2>1, <1>1, HalfInt
  <2>3. mid + 1 \in Int /\ 0 <= mid + 1
    BY <1>1
  <2>4. mid + 1 <= end => mid + 1 <= Half(mid + 1 + end) /\ Half(mid + 1 + end) <= end
    BY <2>3, <1>1, HalfBetween
  <2>5. start' <= end' => start' <= mid' /\ mid' <= end'
    BY <2>1, <2>4
  <2>. QED BY <1>1, <2>1, <2>2, <2>5 DEF TypeOK, Search, GoUp, array
<1>5. Sorted'
  BY DEF Sorted, Search, array
<1>6. SearchCorrect'
  <2>1. \A i \in 0..mid : nodes[i].key < call.key
    BY <1>1, <1>2, <1>3 DEF Sorted, GoUp
  <2>. QED BY <1>1, <2>1 DEF SearchCorrect, Search, GoUp, Above, array
<1>. QED BY <1>4, <1>5, <1>6

LEMMA GoDownSafe ==
  ASSUME Searchable, Search, GoDown
  PROVE  Searchable'
<1>. USE DEF Searchable
<1>1. /\ start \in Int /\ end \in Int /\ mid \in Int /\ len \in Nat
      /\ 0 <= start /\ start <= mid /\ mid <= end /\ end < len
  BY DEF TypeOK, Search, GoDown
<1>2. call.key \in Int
  BY ArrayAssumption DEF TypeOK, Search
<1>3. \A i \in 0..(len - 1) : nodes[i].key \in Int
  BY NodesTyped
<1>4. TypeOK'
  <2>1. start' = start /\ end' = mid - 1 /\ mid' = Half(start + (mid - 1))
    BY DEF GoDown, Below
  <2>2. mid' \in Int
    BY <2>1, <1>1, HalfInt
  <2>3. mid - 1 \in Int
    BY <1>1
  <2>4. start <= mid - 1 => /\ start <= Half(start + (mid - 1))
                            /\ Half(start + (mid - 1)) <= mid - 1
    BY <2>3, <1>1, HalfBetween
  <2>5. start' <= end' => start' <= mid' /\ mid' <= end'
    BY <2>1, <2>4
  <2>. QED BY <1>1, <2>1, <2>2, <2>5 DEF TypeOK, Search, GoDown, array
<1>5. Sorted'
  BY DEF Sorted, Search, array
<1>6. SearchCorrect'
  <2>1. \A i \in mid..(len - 1) : nodes[i].key > call.key
    BY <1>1, <1>2, <1>3 DEF Sorted, GoDown
  <2>. QED BY <1>1, <2>1 DEF SearchCorrect, Search, GoDown, Below, array
<1>. QED BY <1>4, <1>5, <1>6

LEMMA MissSafe == ASSUME Searchable, Search, Miss PROVE Searchable'
<1>. USE DEF Searchable
<1>1. /\ start \in Int /\ end \in Int /\ len \in Nat
      /\ 0 <= start /\ start = end + 1 /\ end < len
  BY DEF TypeOK, Search, Miss
<1>2. index' = -start - 1 /\ index' < 0 /\ -index' - 1 = start
  BY <1>1 DEF Miss, Complement
<1>. QED BY <1>1, <1>2 DEF TypeOK, Sorted, SearchCorrect, Search, Miss, array, probe, Complement

LEMMA SearchSafe == ASSUME Searchable, Search PROVE Searchable'
BY HitSafe, GoUpSafe, GoDownSafe, MissSafe DEF Search

-----------------------------------------------------------------------------
(* Calls that change the array.                                            *)

LEMMA FinishIdle ==
  ASSUME NEW v, Finish(v), TypeOK
  PROVE  /\ pc' = "idle" /\ call' = NoCall
         /\ start' \in Int /\ end' \in Int /\ mid' \in Int /\ index' \in Int
BY DEF Finish, probe, TypeOK

\* With no call in progress only the array matters.
LEMMA IdleSafe ==
  ASSUME pc' = "idle", call' = NoCall,
         start' \in Int, end' \in Int, mid' \in Int, index' \in Int,
         len' \in Nat, cap' \in Nat, cap' >= 2, len' <= cap',
         nodes' \in [0..(len' - 1) -> Node], Sorted'
  PROVE  Searchable'
BY DEF Searchable, TypeOK, SearchCorrect

LEMMA AtOnceIdle ==
  ASSUME AtOnce, TypeOK
  PROVE  /\ pc' = "idle" /\ call' = NoCall
         /\ start' \in Int /\ end' \in Int /\ mid' \in Int /\ index' \in Int
BY DEF AtOnce, probe, TypeOK

LEMMA ReplaceSafe == ASSUME Searchable, Replace PROVE Searchable'
<1>. USE DEF Searchable
<1>1. /\ index \in 0..(len - 1) /\ len \in Nat /\ cap \in Nat /\ cap >= 2 /\ len <= cap
      /\ call.value \in Value /\ nodes \in [0..(len - 1) -> Node]
  BY DEF Replace, TypeOK
<1>2. nodes' \in [0..(len' - 1) -> Node]
  BY <1>1 DEF Replace, Node
<1>3. \A i \in 0..(len - 1) : nodes'[i].key = nodes[i].key
  BY <1>1 DEF Replace, Node
<1>4. Sorted'
  BY <1>3 DEF Sorted, Replace
<1>. QED BY <1>1, <1>2, <1>4, FinishIdle, IdleSafe DEF Replace

LEMMA InsertSafe == ASSUME Searchable, Insert PROVE Searchable'
<1>. USE DEF Searchable
<1> DEFINE p == Complement(index)
           e == Entry(call.key, call.value)
<1>1. /\ p \in 0..len /\ len \in Nat /\ cap \in Nat /\ cap >= 2 /\ len < cap
      /\ call.key \in Key /\ call.key \in Int /\ call.value \in Value
      /\ nodes \in [0..(len - 1) -> Node]
  BY ArrayAssumption DEF Insert, TypeOK, Complement
<1>2. e \in Node /\ e.key = call.key
  BY <1>1 DEF Node, Entry
<1>3. /\ \A i \in 0..(p - 1) : nodes[i].key < call.key
      /\ \A i \in p..(len - 1) : nodes[i].key > call.key
  <2>1. pc = "found" /\ ~(index >= 0)
    BY DEF Insert, TypeOK
  <2>. QED BY <2>1 DEF SearchCorrect
<1>4. len' = len + 1 /\ cap' = cap /\ nodes' = Inserted(p, e)
  BY DEF Insert
<1>5. \A i \in 0..(len - 1) : nodes[i].key \in Int
  BY NodesTyped
<1>. HIDE DEF p, e
<1>6. nodes' \in [0..(len' - 1) -> Node]
  BY <1>1, <1>2, <1>4 DEF Inserted
<1>7. Sorted'
  <2>1. \A j \in 0..len : nodes'[j] = IF j < p THEN nodes[j] ELSE IF j = p THEN e ELSE nodes[j - 1]
    BY <1>4 DEF Inserted
  <2> SUFFICES ASSUME NEW a \in 0..len, NEW b \in 0..len, a < b
               PROVE  nodes'[a].key < nodes'[b].key
    BY <1>1, <1>4 DEF Sorted
  <2>2. \/ a < p /\ b < p
        \/ a < p /\ b = p
        \/ a < p /\ p < b
        \/ a = p /\ p < b
        \/ p < a /\ p < b
    BY <1>1
  <2>3. CASE a < p /\ b < p
    BY <1>1, <2>1, <2>3 DEF Sorted
  <2>4. CASE a < p /\ b = p
    BY <1>1, <1>2, <1>3, <2>1, <2>4
  <2>5. CASE a < p /\ p < b
    <3>1. a \in 0..(len - 1) /\ b - 1 \in 0..(len - 1) /\ a < b - 1 /\ ~(b < p) /\ b # p
      BY <1>1, <2>5
    <3>2. nodes'[a] = nodes[a] /\ nodes'[b] = nodes[b - 1]
      BY <2>1, <2>5, <3>1
    <3>. QED BY <3>1, <3>2 DEF Sorted
  <2>6. CASE a = p /\ p < b
    <3>1. b - 1 \in p..(len - 1) /\ b - 1 \in 0..(len - 1) /\ ~(b < p) /\ b # p /\ ~(a < p)
      BY <1>1, <2>6
    <3>2. nodes'[a] = e /\ nodes'[b] = nodes[b - 1] /\ nodes[b - 1].key > call.key
      BY <1>3, <2>1, <2>6, <3>1
    <3>. QED BY <1>1, <1>2, <1>5, <3>1, <3>2
  <2>7. CASE p < a /\ p < b
    <3>1. /\ a - 1 \in 0..(len - 1) /\ b - 1 \in 0..(len - 1) /\ a - 1 < b - 1
          /\ ~(a < p) /\ a # p /\ ~(b < p) /\ b # p
      BY <1>1, <2>7
    <3>2. nodes'[a] = nodes[a - 1] /\ nodes'[b] = nodes[b - 1]
      BY <2>1, <3>1
    <3>. QED BY <3>1, <3>2 DEF Sorted
  <2>. QED BY <2>2, <2>3, <2>4, <2>5, <2>6, <2>7
<1>. QED BY <1>1, <1>4, <1>6, <1>7, FinishIdle, IdleSafe DEF Insert

LEMMA RemovedSafe == ASSUME Searchable, Removed PROVE Searchable'
<1>. USE DEF Searchable
<1>1. /\ index \in 0..(len - 1) /\ len \in Nat /\ cap \in Nat /\ cap >= 2 /\ len <= cap
      /\ nodes \in [0..(len - 1) -> Node]
  BY DEF Removed, TypeOK
<1>2. len' = len - 1 /\ len' \in Nat /\ cap' = cap /\ nodes' = Deleted(index)
  BY <1>1 DEF Removed
<1>3. nodes' \in [0..(len' - 1) -> Node]
  BY <1>1, <1>2 DEF Deleted
<1>4. Sorted'
  <2>1. \A j \in 0..(len - 2) : nodes'[j] = IF j < index THEN nodes[j] ELSE nodes[j + 1]
    BY <1>2 DEF Deleted
  <2>2. \A i \in 0..(len - 1) : nodes[i].key \in Int
    BY NodesTyped
  <2> SUFFICES ASSUME NEW a \in 0..(len - 2), NEW b \in 0..(len - 2), a < b
               PROVE  nodes'[a].key < nodes'[b].key
    BY <1>1, <1>2 DEF Sorted
  <2> DEFINE From(j) == IF j < index THEN j ELSE j + 1
  <2>3. From(a) \in 0..(len - 1) /\ From(b) \in 0..(len - 1) /\ From(a) < From(b)
    BY <1>1
  <2>4. nodes'[a] = nodes[From(a)] /\ nodes'[b] = nodes[From(b)]
    BY <2>1
  <2>. QED BY <2>3, <2>4 DEF Sorted
<1>. QED BY <1>1, <1>2, <1>3, <1>4, FinishIdle, IdleSafe DEF Removed

LEMMA LookupSafe == ASSUME Searchable, Absent \/ Got PROVE Searchable'
<1>1. Sorted' /\ nodes' \in [0..(len' - 1) -> Node] /\ len' \in Nat /\ cap' \in Nat /\ cap' >= 2 /\ len' <= cap'
  BY DEF Searchable, TypeOK, Sorted, Absent, Got, array
<1>. QED BY <1>1, FinishIdle, IdleSafe DEF Searchable, Absent, Got

LEMMA RemoveLastSafe == ASSUME Searchable, RemoveLast PROVE Searchable'
<1>. USE DEF Searchable
<1>1. len' \in Nat /\ cap' \in Nat /\ cap' >= 2 /\ len' <= cap' /\ nodes' \in [0..(len' - 1) -> Node]
  BY DEF RemoveLast, TypeOK, array
<1>2. Sorted'
  <2>1. \A j \in 0..(len' - 1) : nodes'[j] = nodes[j] /\ j \in 0..(len - 1)
    BY DEF RemoveLast, TypeOK, array
  <2>. QED BY <2>1 DEF Sorted
<1>. QED BY <1>1, <1>2, AtOnceIdle, IdleSafe DEF RemoveLast

LEMMA RemoveBeforeKeySafe ==
  ASSUME Searchable, NEW k \in Key, RemoveBeforeKey(k)
  PROVE  Searchable'
<1>. USE DEF Searchable
<1>1. PICK i \in 0..len : /\ nodes' = [j \in 0..(len - i - 1) |-> nodes[j + i]]
                          /\ len' = len - i
  BY DEF RemoveBeforeKey
<1>2. len' \in Nat /\ cap' \in Nat /\ cap' >= 2 /\ len' <= cap' /\ nodes' \in [0..(len' - 1) -> Node]
  BY <1>1 DEF RemoveBeforeKey, TypeOK
<1>3. Sorted'
  <2>1. \A j \in 0..(len' - 1) : nodes'[j] = nodes[j + i] /\ j + i \in 0..(len - 1)
    BY <1>1 DEF TypeOK
  <2>2. i \in Int /\ len' \in Int
    BY <1>2
  <2> SUFFICES ASSUME NEW a \in 0..(len' - 1), NEW b \in 0..(len' - 1), a < b
               PROVE  nodes'[a].key < nodes'[b].key
    BY DEF Sorted
  <2>3. a + i < b + i
    BY <2>2
  <2>. QED BY <2>1, <2>3 DEF Sorted
<1>. QED BY <1>2, <1>3, AtOnceIdle, IdleSafe DEF RemoveBeforeKey

LEMMA ClearSafe == ASSUME Searchable, Clear PROVE Searchable'
<1>1. len' = 0 /\ cap' \in Nat /\ cap' >= 2 /\ nodes' \in [0..(len' - 1) -> Node] /\ Sorted'
  BY DEF Searchable, Clear, TypeOK, Sorted
<1>. QED BY <1>1, AtOnceIdle, IdleSafe DEF Clear, Searchable, TypeOK

LEMMA PutSafe ==
  ASSUME Searchable, NEW k \in Key, NEW v \in Value, Put(k, v)
  PROVE  Searchable'
<1>1. len < Grown /\ Grown \in Nat /\ Grown >= 2
  BY CapEnough DEF Searchable
<1>2. Call("put", k, v) \in [op : {"put"}, key : Key, value : Value]
  BY DEF Call
<1>. QED BY <1>1, <1>2, FindSafe DEF Put, Searchable, TypeOK

LEMMA LookSafe ==
  ASSUME Searchable, NEW k \in Key, Get(k) \/ Remove(k)
  PROVE  Searchable'
<1>1. PICK op \in {"get", "remove"} : OnEmpty(op, k) \/ BeginSearch(op, k)
  BY DEF Get, Remove
<1>2. CASE OnEmpty(op, k)
  <2>1. Sorted' /\ nodes' \in [0..(len' - 1) -> Node] /\ len' \in Nat /\ cap' \in Nat /\ cap' >= 2 /\ len' <= cap'
    BY <1>2 DEF Searchable, TypeOK, Sorted, OnEmpty, array
  <2>. QED BY <1>2, <2>1, AtOnceIdle, IdleSafe DEF OnEmpty, Searchable
<1>3. CASE BeginSearch(op, k)
  <2>1. Call(op, k, NULL) \in [op : {"get", "remove"}, key : Key, value : {NULL}]
    BY DEF Call
  <2>. QED BY <1>3, <2>1, FindSafe DEF BeginSearch, Searchable, TypeOK, array
<1>. QED BY <1>1, <1>2, <1>3

LEMMA NextSafe == ASSUME Searchable, [Next]_vars PROVE Searchable'
<1>1. CASE UNCHANGED vars
  BY <1>1 DEF vars, Searchable, TypeOK, Sorted, SearchCorrect
<1>2. CASE Work
  BY <1>2, SearchSafe, ReplaceSafe, InsertSafe, LookupSafe, RemovedSafe DEF Work
<1>3. CASE Begin
  BY <1>3, RemoveLastSafe, ClearSafe, LookSafe, RemoveBeforeKeySafe, PutSafe DEF Begin
<1>. QED BY <1>1, <1>2, <1>3 DEF Next

\* The array of every sequence of calls is sorted, fits its memory, and is
\* searched correctly (find_index, and the shifts of put and remove).
THEOREM SearchableInvariant == Spec => []Searchable
<1>1. Init => Searchable
  BY Initially
<1>2. Searchable /\ [Next]_vars => Searchable'
  BY NextSafe
<1>. QED BY <1>1, <1>2, PTL DEF Spec

\* No call reads or writes a place outside the nodes in use, or beyond the
\* capacity it has just made sure of (resize, find_index).
THEOREM ArrayTypeCorrect == Spec => []TypeOK
<1>1. Searchable => TypeOK
  BY DEF Searchable
<1>. QED BY <1>1, SearchableInvariant, PTL

\* find_index finds the key if it is there, and else the place where it belongs.
THEOREM SearchAlwaysCorrect == Spec => []SearchCorrect
<1>1. Searchable => SearchCorrect
  BY DEF Searchable
<1>. QED BY <1>1, SearchableInvariant, PTL

-----------------------------------------------------------------------------
(* The array is a map.                                                     *)

\* A key is found in one place only.
LEMMA KeysDiffer ==
  ASSUME Searchable
  PROVE  \A i, j \in 0..(len - 1) : nodes[i].key = nodes[j].key => i = j
<1> SUFFICES ASSUME NEW i \in 0..(len - 1), NEW j \in 0..(len - 1), i # j
             PROVE  nodes[i].key # nodes[j].key
  OBVIOUS
<1>1. nodes[i].key \in Int /\ nodes[j].key \in Int
  BY NodesTyped DEF Searchable
<1>2. i < j \/ j < i
  OBVIOUS
<1>. QED BY <1>1, <1>2 DEF Searchable, Sorted

\* What a search has found out holds of the map.
LEMMA FoundHolds ==
  ASSUME Searchable, pc = "found"
  PROVE  /\ index >= 0 => /\ index \in 0..(len - 1)
                          /\ nodes[index].value \in Value
                          /\ Map!Holds(call.key, nodes[index].value)
         /\ index < 0 => Map!Holds(call.key, NULL)
<1>1. index \in Int /\ len \in Nat /\ index < len
  BY DEF Searchable, TypeOK
<1>2. CASE index >= 0
  <2>1. index \in 0..(len - 1)
    BY <1>1, <1>2
  <2>2. nodes[index].key = call.key
    BY <1>2 DEF Searchable, SearchCorrect
  <2>3. nodes[index] = Entry(call.key, nodes[index].value) /\ nodes[index].value \in Value
    BY <2>1, <2>2, NodesTyped DEF Searchable
  <2>4. Entry(call.key, nodes[index].value) \in Entries
    BY <2>1, <2>3 DEF Entries
  <2>. QED BY <1>1, <1>2, <2>1, <2>3, <2>4 DEF Map!Holds, Map!Entry, Entry
<1>3. CASE index < 0
  <2>1. \A i \in 0..(len - 1) : nodes[i].key # call.key
    <3> SUFFICES ASSUME NEW i \in 0..(len - 1)
                 PROVE  nodes[i].key # call.key
      OBVIOUS
    <3>1. nodes[i].key \in Int /\ call.key \in Int
      BY NodesTyped, ArrayAssumption DEF Searchable, TypeOK
    <3>2. nodes[i].key < call.key \/ nodes[i].key > call.key
      BY <1>1, <1>3 DEF Searchable, SearchCorrect, Complement
    <3>. QED BY <3>1, <3>2
  <2>. QED BY <1>1, <1>3, <2>1 DEF Map!Holds, Entries
<1>. QED BY <1>1, <1>2, <1>3

LEMMA ReplaceMaps == ASSUME Searchable, Replace PROVE Map!Next
<1>1. /\ index \in 0..(len - 1) /\ call.key \in Key /\ call.value \in Value
      /\ nodes[index].value \in Value /\ Map!Holds(call.key, nodes[index].value)
  BY FoundHolds DEF Replace, Searchable, TypeOK
<1>2. nodes[index].key = call.key
  BY <1>1 DEF Replace, Searchable, SearchCorrect
<1>3. /\ \A i \in 0..(len - 1) : i # index => nodes'[i] = nodes[i]
      /\ nodes'[index] = Entry(call.key, call.value)
  BY <1>1, <1>2, NodesTyped DEF Replace, Searchable, TypeOK, Node, Entry
<1>4. Entries' = Map!Without(call.key) \cup {Entry(call.key, call.value)}
  <2>1. \A i \in 0..(len - 1) : nodes[i].key = call.key <=> i = index
    BY <1>1, <1>2, KeysDiffer
  <2>2. Entries' = {nodes'[i] : i \in 0..(len - 1)}
    BY DEF Entries, Replace
  <2>. QED BY <1>1, <1>3, <2>1, <2>2 DEF Entries, Map!Without
<1>5. Map!Put(call.key, call.value)
  BY <1>1, <1>4 DEF Map!Put, Replace, Finish, Returns, Call, Map!Returns, Map!Entry, Entry
<1>. QED BY <1>1, <1>5 DEF Map!Next

LEMMA InsertMaps == ASSUME Searchable, Insert PROVE Map!Next
<1> DEFINE p == Complement(index)
           e == Entry(call.key, call.value)
<1>1. /\ p \in 0..len /\ len \in Nat /\ call.key \in Key /\ call.value \in Value
      /\ Map!Holds(call.key, NULL)
  BY FoundHolds DEF Insert, Searchable, TypeOK, Complement
<1>2. len' = len + 1 /\ nodes' = Inserted(p, e)
  BY DEF Insert
<1>. HIDE DEF p, e
<1>3. Entries' = Entries \cup {e}
  <2>1. Entries' = {nodes'[i] : i \in 0..len}
    BY <1>1, <1>2 DEF Entries
  <2>2. \A j \in 0..len : nodes'[j] \in Entries \cup {e}
    <3> SUFFICES ASSUME NEW j \in 0..len PROVE nodes'[j] \in Entries \cup {e}
      OBVIOUS
    <3>1. CASE j = p
      BY <1>1, <1>2, <3>1 DEF Inserted
    <3>2. CASE j < p
      BY <1>1, <1>2, <3>2 DEF Inserted, Entries
    <3>3. CASE j > p
      <4>1. j - 1 \in 0..(len - 1) /\ nodes'[j] = nodes[j - 1]
        BY <1>1, <1>2, <3>3 DEF Inserted
      <4>. QED BY <4>1 DEF Entries
    <3>. QED BY <1>1, <3>1, <3>2, <3>3
  <2>3. \A j \in 0..(len - 1) : nodes[j] \in Entries'
    <3> SUFFICES ASSUME NEW j \in 0..(len - 1) PROVE nodes[j] \in Entries'
      OBVIOUS
    <3>1. CASE j < p
      BY <1>1, <1>2, <2>1, <3>1 DEF Inserted
    <3>2. CASE ~(j < p)
      <4>1. j + 1 \in 0..len /\ nodes'[j + 1] = nodes[j]
        BY <1>1, <1>2, <3>2 DEF Inserted
      <4>. QED BY <4>1, <2>1
    <3>. QED BY <3>1, <3>2
  <2>4. e \in Entries'
    BY <1>1, <1>2, <2>1 DEF Inserted
  <2>. QED BY <2>1, <2>2, <2>3, <2>4 DEF Entries
<1>4. Map!Without(call.key) = Entries
  <2>1. \A i \in 0..(len - 1) : nodes[i].key # call.key
    BY <1>1, NodesTyped, ArrayAssumption DEF Map!Holds, Entries, Map!Entry, Searchable, TypeOK, Node
  <2>. QED BY <2>1 DEF Map!Without, Entries
<1>5. Map!Put(call.key, call.value)
  BY <1>1, <1>3, <1>4 DEF Map!Put, Insert, Finish, Returns, Call, Map!Returns, Map!Entry, Entry, e
<1>. QED BY <1>1, <1>5 DEF Map!Next

LEMMA RemovedMaps == ASSUME Searchable, Removed PROVE Map!Next
<1>1. /\ index \in 0..(len - 1) /\ call.key \in Key /\ len \in Nat
      /\ nodes[index].value \in Value /\ Map!Holds(call.key, nodes[index].value)
  BY FoundHolds DEF Removed, Searchable, TypeOK
<1>2. nodes[index].key = call.key
  BY <1>1 DEF Removed, Searchable, SearchCorrect
<1>3. \A i \in 0..(len - 1) : nodes[i].key = call.key <=> i = index
  BY <1>1, <1>2, KeysDiffer
<1>4. /\ len' = len - 1
      /\ \A j \in 0..(len - 2) : nodes'[j] = IF j < index THEN nodes[j] ELSE nodes[j + 1]
  BY DEF Removed, Deleted
<1>5. Entries' = Map!Without(call.key)
  <2>1. Entries' = {nodes'[j] : j \in 0..(len - 2)}
    BY <1>1, <1>4 DEF Entries
  <2>2. Map!Without(call.key) = {nodes[i] : i \in {i \in 0..(len - 1) : i # index}}
    BY <1>3 DEF Map!Without, Entries
  <2>3. \A j \in 0..(len - 2) : nodes'[j] \in {nodes[i] : i \in {i \in 0..(len - 1) : i # index}}
    <3> SUFFICES ASSUME NEW j \in 0..(len - 2)
                 PROVE  \E i \in 0..(len - 1) : i # index /\ nodes'[j] = nodes[i]
      OBVIOUS
    <3>1. CASE j < index
      BY <1>1, <1>4, <3>1
    <3>2. CASE ~(j < index)
      <4>1. j + 1 \in 0..(len - 1) /\ j + 1 # index /\ nodes'[j] = nodes[j + 1]
        BY <1>1, <1>4, <3>2
      <4>. QED BY <4>1
    <3>. QED BY <3>1, <3>2
  <2>4. \A i \in 0..(len - 1) : i # index => nodes[i] \in Entries'
    <3> SUFFICES ASSUME NEW i \in 0..(len - 1), i # index
                 PROVE  \E j \in 0..(len - 2) : nodes'[j] = nodes[i]
      BY <2>1
    <3>1. CASE i < index
      BY <1>1, <1>4, <3>1
    <3>2. CASE index < i
      <4>1. i - 1 \in 0..(len - 2) /\ nodes'[i - 1] = nodes[i]
        BY <1>1, <1>4, <3>2
      <4>. QED BY <4>1
    <3>. QED BY <1>1, <3>1, <3>2
  <2>. QED BY <2>1, <2>2, <2>3, <2>4
<1>6. Map!Remove(call.key)
  BY <1>1, <1>5 DEF Map!Remove, Removed, Finish, Returns, Call, Map!Returns
<1>. QED BY <1>1, <1>6 DEF Map!Next

LEMMA LookupMaps == ASSUME Searchable, Absent \/ Got PROVE Map!Next
<1>1. call.key \in Key /\ UNCHANGED Entries
  BY DEF Searchable, TypeOK, Absent, Got, array, Entries
<1>2. CASE Got
  <2>1. nodes[index].value \in Value /\ Map!Holds(call.key, nodes[index].value)
    BY <1>2, FoundHolds DEF Got
  <2>2. Map!Get(call.key)
    BY <1>1, <1>2, <2>1 DEF Map!Get, Got, Finish, Returns, Call, Map!Returns
  <2>. QED BY <1>1, <2>2 DEF Map!Next
<1>3. CASE Absent
  <2>1. Map!Holds(call.key, NULL)
    BY <1>3, FoundHolds DEF Absent
  <2>2. \A e \in Entries : e.key # call.key
    BY <2>1, NodesTyped, ArrayAssumption DEF Map!Holds, Entries, Map!Entry, Searchable, TypeOK, Node
  <2>3. Map!Without(call.key) = Entries
    BY <2>2 DEF Map!Without
  <2>4. Map!Get(call.key) \/ Map!Remove(call.key)
    BY <1>1, <1>3, <2>1, <2>3
    DEF Map!Get, Map!Remove, Absent, Finish, Returns, Call, Map!Returns
  <2>. QED BY <1>1, <2>4 DEF Map!Next
<1>. QED BY <1>2, <1>3

LEMMA RemoveLastMaps == ASSUME Searchable, RemoveLast PROVE Map!Next
<1>1. len \in Nat
  BY DEF Searchable, TypeOK
<1>2. CASE len = 0
  <2>1. Entries = {} /\ UNCHANGED Entries
    BY <1>2 DEF Entries, RemoveLast, array
  <2>. QED BY <1>2, <2>1 DEF Map!Next, Map!RemoveLast, RemoveLast, Returns, Call, Map!Returns
<1>3. CASE len > 0
  <2> DEFINE e == nodes[len - 1]
  <2>1. e \in Entries /\ len - 1 \in 0..(len - 1)
    BY <1>1, <1>3 DEF Entries
  <2>2. \A f \in Entries : f.key <= e.key
    <3> SUFFICES ASSUME NEW i \in 0..(len - 1) PROVE nodes[i].key <= nodes[len - 1].key
      BY DEF Entries
    <3>1. nodes[i].key \in Int /\ nodes[len - 1].key \in Int
      BY <2>1, NodesTyped DEF Searchable
    <3>2. i = len - 1 \/ nodes[i].key < nodes[len - 1].key
      BY <1>1, <2>1 DEF Searchable, Sorted
    <3>. QED BY <3>1, <3>2
  <2>3. len' = len - 1 /\ \A j \in 0..(len - 2) : nodes'[j] = nodes[j]
    <3>1. len # 0
      BY <1>1, <1>3
    <3>. QED BY <3>1 DEF RemoveLast
  <2>4. Entries' = {nodes[j] : j \in 0..(len - 2)}
    BY <1>1, <2>3 DEF Entries
  <2>5. \A j \in 0..(len - 1) : nodes[j] = e <=> j = len - 1
    BY <2>1, KeysDiffer
  <2>6. Entries' = Entries \ {e}
    <3>1. \A j \in 0..(len - 1) : j \in 0..(len - 2) <=> j # len - 1
      BY <1>1
    <3>2. 0..(len - 2) \subseteq 0..(len - 1)
      BY <1>1
    <3>3. \A x : x \in Entries' <=> x \in Entries /\ x # e
      BY <2>4, <2>5, <3>1, <3>2 DEF Entries
    <3>. QED BY <3>3
  <2>7. ret' = [op |-> "remove_last", key |-> e.key, value |-> e.value]
    BY <1>1, <1>3 DEF RemoveLast, Returns, Call
  <2>. QED BY <2>1, <2>2, <2>6, <2>7 DEF Map!Next, Map!RemoveLast, Map!Returns
<1>. QED BY <1>1, <1>2, <1>3

LEMMA RemoveBeforeKeyMaps ==
  ASSUME Searchable, NEW k \in Key, RemoveBeforeKey(k)
  PROVE  Map!Next
<1>1. PICK i \in 0..len : /\ StopsAt(k, i)
                          /\ nodes' = [j \in 0..(len - i - 1) |-> nodes[j + i]]
                          /\ len' = len - i
  BY DEF RemoveBeforeKey
<1>2. len \in Nat /\ k \in Int /\ i \in Int /\ i >= 0 /\ i <= len
  BY ArrayAssumption DEF Searchable, TypeOK
<1>3. \A j \in 0..(len - 1) : nodes[j].key > k <=> j >= i
  <2> SUFFICES ASSUME NEW j \in 0..(len - 1) PROVE nodes[j].key > k <=> j >= i
    OBVIOUS
  <2>1. nodes[j].key \in Int
    BY NodesTyped DEF Searchable
  <2>2. CASE j < i
    BY <1>1, <1>2, <2>1, <2>2 DEF StopsAt
  <2>3. CASE j >= i
    <3>1. i \in 0..(len - 1) /\ nodes[i].key > k /\ nodes[i].key \in Int
      BY <1>1, <1>2, <2>3, NodesTyped DEF StopsAt, Searchable
    <3>2. j = i \/ nodes[i].key < nodes[j].key
      BY <1>2, <2>3, <3>1 DEF Searchable, Sorted
    <3>. QED BY <1>2, <2>1, <2>3, <3>1, <3>2
  <2>. QED BY <1>2, <2>2, <2>3
<1>4. Entries' = {e \in Entries : e.key > k}
  <2>1. Entries' = {nodes[j + i] : j \in 0..(len - i - 1)}
    BY <1>1, <1>2 DEF Entries
  <2>2. \A j \in 0..(len - i - 1) : j + i \in 0..(len - 1) /\ j + i >= i
    BY <1>2
  <2>3. \A j \in 0..(len - 1) : j >= i => j - i \in 0..(len - i - 1) /\ (j - i) + i = j
    BY <1>2
  <2>4. Entries' = {nodes[j] : j \in {j \in 0..(len - 1) : j >= i}}
    BY <2>1, <2>2, <2>3
  <2>. QED BY <1>3, <2>4 DEF Entries
<1>5. Map!RemoveBeforeKey(k)
  BY <1>4 DEF Map!RemoveBeforeKey, RemoveBeforeKey, Returns, Call, Map!Returns
<1>. QED BY <1>5 DEF Map!Next

LEMMA ClearMaps == ASSUME Searchable, Clear PROVE Map!Next
<1>1. Entries' = {}
  BY DEF Entries, Clear
<1>. QED BY <1>1 DEF Clear, Map!Next, Map!Clear, Returns, Call, Map!Returns

\* Looking into an empty array.
LEMMA OnEmptyMaps ==
  ASSUME Searchable, NEW k \in Key, NEW op \in {"get", "remove"}, OnEmpty(op, k)
  PROVE  Map!Next
<1>1. Entries = {} /\ UNCHANGED Entries
  BY DEF Entries, OnEmpty, array
<1>2. Map!Holds(k, NULL) /\ Map!Without(k) = Entries
  BY <1>1 DEF Map!Holds, Map!Without
<1>3. Map!Get(k) \/ Map!Remove(k)
  BY <1>1, <1>2 DEF Map!Get, Map!Remove, OnEmpty, Returns, Call, Map!Returns
<1>. QED BY <1>3 DEF Map!Next

\* The steps of a search, and the beginning of a call, do not show.
LEMMA Unseen ==
  ASSUME Searchable,
         Search \/ \E k \in Key : \/ BeginSearch("get", k) \/ BeginSearch("remove", k)
                                  \/ \E v \in Value : Put(k, v)
  PROVE  UNCHANGED <<Entries, ret>>
BY DEF Search, BeginSearch, Put, Find, Entries, array

LEMMA StepMaps ==
  ASSUME Searchable, [Next]_vars
  PROVE  [Map!Next]_<<Entries, ret>>
<1>1. CASE UNCHANGED vars
  BY <1>1 DEF vars, Entries
<1>2. CASE Work
  BY <1>2, Unseen, ReplaceMaps, InsertMaps, LookupMaps, RemovedMaps DEF Work
<1>3. CASE RemoveLast \/ Clear
  BY <1>3, RemoveLastMaps, ClearMaps
<1>4. ASSUME NEW k \in Key, Get(k) \/ Remove(k)
      PROVE  [Map!Next]_<<Entries, ret>>
  BY <1>4, Unseen, OnEmptyMaps DEF Get, Remove
<1>5. ASSUME NEW k \in Key, RemoveBeforeKey(k) \/ \E v \in Value : Put(k, v)
      PROVE  [Map!Next]_<<Entries, ret>>
  BY <1>5, Unseen, RemoveBeforeKeyMaps
<1>. QED BY <1>1, <1>2, <1>3, <1>4, <1>5 DEF Next, Begin

\* The sparse array implements a map: whatever the keys, the values and the
\* first capacity, every call returns and leaves what a map would (the
\* functions of c_sparse_array.c, which the registries of devent are made of).
THEOREM ArrayImplementsMap == Spec => ImplementsMap
<1>1. Init => Map!Init
  BY DEF Init, Map!Init, Entries, Call
<1>2. Searchable /\ [Next]_vars => [Map!Next]_<<Entries, ret>>
  BY StepMaps
<1>. QED BY <1>1, <1>2, SearchableInvariant, PTL DEF Spec, ImplementsMap, Map!Spec
=============================================================================

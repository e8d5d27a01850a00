----------------------------- MODULE SparseArray -----------------------------
(***************************************************************************)
(* dlib/c_sparse_array.c: a map kept as an array of nodes sorted by key,   *)
(* found by binary search.  The registries of devent (listeners, events    *)
(* and DNS events by descriptor) are three of these; EventLoop takes them  *)
(* as maps, and this module is why it may.                                 *)
(*                                                                         *)
(* The search of find_index is a loop, one iteration a step; everything    *)
(* else a call does is straight code and belongs to its last step.         *)
(***************************************************************************)
EXTENDS Integers

CONSTANTS Key,          \* the keys callers use
          Value,        \* the pointers callers store
          NULL,
          DefaultCap    \* C_SPARSE_ARRAY_DEFAULT_CAP

ASSUME ArrayAssumption ==
  /\ Key \subseteq Int
  /\ NULL \notin Value
  /\ DefaultCap \in Nat /\ DefaultCap >= 2   \* resize() of 1 would not grow

VARIABLES nodes,   \* nodes[i], i < len: the part of the array in use
          len,
          cap,
          call,    \* the call in progress
          start, end, mid,  \* of find_index
          index,   \* the result of find_index
          pc,
          ret      \* the last call and its result

vars  == <<nodes, len, cap, call, start, end, mid, index, pc, ret>>
array == <<nodes, len, cap>>
probe == <<start, end, mid>>

Node == [key : Key, value : Value]
Entry(k, v) == [key |-> k, value |-> v]
Call(op, k, v) == [op |-> op, key |-> k, value |-> v]
Returns(op, k, v) == ret' = Call(op, k, v)
NoCall == Call("none", NULL, NULL)

Complement(x) == -x - 1                          \* ~x
Half(x) == IF x < 0 THEN -((-x) \div 2) ELSE x \div 2   \* x / 2 in C

\* The capacity after resize(array, len + 1): half as much again is enough
\* (a slip: it stays).
NotGrown == cap
Grown == IF cap > len THEN cap ELSE cap + cap \div 2

\* CSparseArray_new.
Init ==
  /\ nodes = [i \in {} |-> Entry(NULL, NULL)] /\ len = 0 /\ cap = DefaultCap
  /\ call = NoCall /\ pc = "idle"
  /\ start = 0 /\ end = 0 /\ mid = 0 /\ index = 0
  /\ ret = Call("new", NULL, NULL)

-----------------------------------------------------------------------------
(* find_index.                                                             *)

\* The beginning of find_index, on a call that needs it.
Find(c) ==
  /\ call' = c
  /\ UNCHANGED ret
  /\ IF len = 0
     THEN pc' = "found" /\ index' = Complement(0) /\ UNCHANGED probe
     ELSE /\ pc' = "search"
          /\ start' = 0 /\ end' = len - 1 /\ mid' = Half(len - 1)
          /\ UNCHANGED index

Hit ==
  /\ start <= end /\ nodes[mid].key = call.key
  /\ index' = mid /\ pc' = "found"
  /\ UNCHANGED probe

\* Where the halves of the array begin and end (a slip: mid is left in).
Above(m) == m + 1
UpTo(m)  == m
Below(m) == m - 1

GoUp ==
  /\ start <= end /\ nodes[mid].key < call.key
  /\ start' = Above(mid) /\ mid' = Half(Above(mid) + end)
  /\ UNCHANGED <<end, index, pc>>

GoDown ==
  /\ start <= end /\ nodes[mid].key > call.key
  /\ end' = Below(mid) /\ mid' = Half(start + Below(mid))
  /\ UNCHANGED <<start, index, pc>>

Miss ==
  /\ start > end
  /\ index' = Complement(start) /\ pc' = "found"
  /\ UNCHANGED probe

Search == /\ pc = "search"
          /\ Hit \/ GoUp \/ GoDown \/ Miss
          /\ UNCHANGED <<array, call, ret>>

-----------------------------------------------------------------------------
(* The calls.                                                              *)

Finish(v) == /\ Returns(call.op, call.key, v)
             /\ pc' = "idle" /\ call' = NoCall
             /\ UNCHANGED <<probe, index>>

AtOnce == pc = "idle" /\ UNCHANGED <<call, probe, index, pc>>

\* CSparseArray_put up to find_index.
Put(k, v) == /\ pc = "idle"
             /\ cap' = Grown
             /\ Find(Call("put", k, v))
             /\ UNCHANGED <<nodes, len>>

Replace == /\ pc = "found" /\ call.op = "put" /\ index >= 0
           /\ Finish(nodes[index].value)
           /\ nodes' = [nodes EXCEPT ![index].value = call.value]
           /\ UNCHANGED <<len, cap>>

\* The nodes from i on move up one place, and e goes to place i (a slip: to the
\* end).
Appended(i, e) == [j \in 0..len |-> IF j < len THEN nodes[j] ELSE e]
Inserted(i, e) ==
  [j \in 0..len |-> IF j < i THEN nodes[j] ELSE IF j = i THEN e ELSE nodes[j - 1]]

Insert == /\ pc = "found" /\ call.op = "put" /\ index < 0
          /\ Finish(NULL)
          /\ nodes' = Inserted(Complement(index), Entry(call.key, call.value))
          /\ len' = len + 1
          /\ UNCHANGED cap

\* CSparseArray_get and CSparseArray_remove look at len before they search.
OnEmpty(op, k) == AtOnce /\ len = 0 /\ Returns(op, k, NULL) /\ UNCHANGED array

BeginSearch(op, k) == /\ pc = "idle" /\ len > 0
                      /\ Find(Call(op, k, NULL))
                      /\ UNCHANGED array

Get(k)    == OnEmpty("get", k) \/ BeginSearch("get", k)
Remove(k) == OnEmpty("remove", k) \/ BeginSearch("remove", k)

Absent == /\ pc = "found" /\ call.op \in {"get", "remove"} /\ index < 0
          /\ Finish(NULL)
          /\ UNCHANGED array

Got == /\ pc = "found" /\ call.op = "get" /\ index >= 0
       /\ Finish(nodes[index].value)
       /\ UNCHANGED array

\* The nodes above i move down one place (a slip: those above i + 1).
Shortened(i) == [j \in 0..(len - 2) |-> IF j <= i THEN nodes[j] ELSE nodes[j + 1]]
Deleted(i) == [j \in 0..(len - 2) |-> IF j < i THEN nodes[j] ELSE nodes[j + 1]]

Removed == /\ pc = "found" /\ call.op = "remove" /\ index >= 0
           /\ Finish(nodes[index].value)
           /\ nodes' = Deleted(index)
           /\ len' = len - 1
           /\ UNCHANGED cap

RemoveLast ==
  /\ AtOnce
  /\ \/ len = 0 /\ Returns("remove_last", NULL, NULL) /\ UNCHANGED array
     \/ /\ len > 0
        /\ Returns("remove_last", nodes[len - 1].key, nodes[len - 1].value)
        /\ nodes' = [j \in 0..(len - 2) |-> nodes[j]]
        /\ len' = len - 1
        /\ UNCHANGED cap

\* i is where the first loop of CSparseArray_remove_before_key stops.
StopsAt(k, i) == /\ \A j \in 0..(i - 1) : nodes[j].key <= k
                 /\ i < len => nodes[i].key > k

RemoveBeforeKey(k) ==
  /\ AtOnce
  /\ Returns("remove_before", k, NULL)
  /\ \E i \in 0..len :
       /\ StopsAt(k, i)
       /\ nodes' = [j \in 0..(len - i - 1) |-> nodes[j + i]]
       /\ len' = len - i
  /\ UNCHANGED cap

Clear == /\ AtOnce
         /\ Returns("clear", NULL, NULL)
         /\ nodes' = [j \in {} |-> Entry(NULL, NULL)] /\ len' = 0
         /\ UNCHANGED cap

Begin == \/ RemoveLast \/ Clear
         \/ \E k \in Key : \/ Get(k) \/ Remove(k) \/ RemoveBeforeKey(k)
                           \/ \E v \in Value : Put(k, v)

Work == Search \/ Replace \/ Insert \/ Absent \/ Got \/ Removed

Next == Begin \/ Work

\* The program has one thread, and a call that has begun goes on.
Spec == Init /\ [][Next]_vars /\ WF_vars(Work)

-----------------------------------------------------------------------------
(* Properties.                                                             *)

\* Every variable has its type, the nodes in use fit the memory allocated, and
\* a search looks at and returns places in use only.
TypeOK ==
  /\ len \in Nat /\ cap \in Nat /\ cap >= 2 /\ len <= cap
  /\ nodes \in [0..(len - 1) -> Node]
  /\ start \in Int /\ end \in Int /\ mid \in Int /\ index \in Int
  /\ pc \in {"idle", "search", "found"}
  /\ pc = "idle" => call = NoCall
  /\ pc # "idle" => \/ /\ call \in [op : {"put"}, key : Key, value : Value]
                       /\ len < cap
                    \/ call \in [op : {"get", "remove"}, key : Key, value : {NULL}]
  /\ pc = "search" => /\ 0 <= start /\ start <= end + 1 /\ end < len
                      /\ start <= end => start <= mid /\ mid <= end
  /\ pc = "found" => index < len /\ Complement(index) <= len

\* The keys are strictly increasing, whatever was put and removed in whatever
\* order: the binary search relies on it (find_index).
Sorted == \A i, j \in 0..(len - 1) : i < j => nodes[i].key < nodes[j].key

\* What find_index has ruled out does not hold the key it searches, and where
\* it says the key is or belongs, it is or belongs.
SearchCorrect ==
  /\ pc = "search" =>
       /\ \A i \in 0..(start - 1) : nodes[i].key < call.key
       /\ \A i \in (end + 1)..(len - 1) : nodes[i].key > call.key
  /\ pc = "found" =>
       IF index >= 0 THEN nodes[index].key = call.key
       ELSE /\ \A i \in 0..(Complement(index) - 1) : nodes[i].key < call.key
            /\ \A i \in Complement(index)..(len - 1) : nodes[i].key > call.key

\* A sparse array is a map: every call returns and leaves what a map would.
Entries == {nodes[i] : i \in 0..(len - 1)}
Map == INSTANCE KeyMap WITH entries <- Entries
ImplementsMap == Map!Spec

\* Every call returns: the binary search ends.
CallsReturn == (pc # "idle") ~> (pc = "idle")
=============================================================================

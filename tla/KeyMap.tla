------------------------------- MODULE KeyMap -------------------------------
(***************************************************************************)
(* What dlib/c_sparse_array.h promises of a CSparseArray, and              *)
(* dlib/c_hash_map.h of a CHashMap but for the calls by order of keys: a   *)
(* map from keys to pointers.  Nothing here knows of an order in memory, of  *)
(* a capacity or of a search.  `ret` is the interface: the call that       *)
(* returned last, its key, and what it returned.                           *)
(***************************************************************************)
EXTENDS Integers

CONSTANTS Key,       \* the keys callers use
          Value,     \* the pointers callers store
          NULL

VARIABLES entries,   \* the pairs of the map
          ret        \* the last call and its result

Entry(k, v) == [key |-> k, value |-> v]
Returns(op, k, v) == ret' = [op |-> op, key |-> k, value |-> v]

\* r is what the map holds under k, or NULL.
Holds(k, r) ==
  \/ Entry(k, r) \in entries
  \/ r = NULL /\ \A e \in entries : e.key # k

Without(k) == {e \in entries : e.key # k}

Init == entries = {} /\ ret = [op |-> "new", key |-> NULL, value |-> NULL]

\* The old value is returned.
Put(k, v) ==
  /\ \E old \in Value \cup {NULL} : Holds(k, old) /\ Returns("put", k, old)
  /\ entries' = Without(k) \cup {Entry(k, v)}

Get(k) ==
  /\ \E r \in Value \cup {NULL} : Holds(k, r) /\ Returns("get", k, r)
  /\ UNCHANGED entries

Remove(k) ==
  /\ \E old \in Value \cup {NULL} : Holds(k, old) /\ Returns("remove", k, old)
  /\ entries' = Without(k)

\* The entry with the greatest key goes.
RemoveLast ==
  \/ entries = {} /\ Returns("remove_last", NULL, NULL) /\ UNCHANGED entries
  \/ \E e \in entries :
       /\ \A f \in entries : f.key <= e.key
       /\ Returns("remove_last", e.key, e.value)
       /\ entries' = entries \ {e}

\* Keys up to k go, k included.
RemoveBeforeKey(k) ==
  /\ Returns("remove_before", k, NULL)
  /\ entries' = {e \in entries : e.key > k}

Clear == Returns("clear", NULL, NULL) /\ entries' = {}

Next ==
  \/ RemoveLast \/ Clear
  \/ \E k \in Key :
       \/ Get(k) \/ Remove(k) \/ RemoveBeforeKey(k)
       \/ \E v \in Value : Put(k, v)

Spec == Init /\ [][Next]_<<entries, ret>>
=============================================================================

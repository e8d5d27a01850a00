------------------------------- MODULE HashMap -------------------------------
(***************************************************************************)
(* dlib/c_hash_map.c: a chained hash map that doubles its table.  The      *)
(* server keeps the passwords of its users in one (server_config.c puts,   *)
(* auth.c gets).  A name is an integer that stands for a string, and its   *)
(* hash, an int, is any function of it.                                    *)
(*                                                                         *)
(* c_hash_map_resize looks at the wrong bit of a hash (c_hash_map.c:149)   *)
(* and leaves some nodes where no search looks for them.  Astray are the   *)
(* keys this has happened to; what is promised of the others is promised   *)
(* whatever happens to these.                                              *)
(***************************************************************************)
EXTENDS Integers, SequencesExt

CONSTANTS Key,         \* the names callers use
          Hash,        \* Hash[k]: c_hash of k
          Value,       \* the pointers callers store
          NULL,
          DefaultCap,  \* C_HASH_MAP_DEFAULT_CAP
          MaxCount     \* bound: entries counted

ASSUME HashMapAssumption ==
  /\ Hash \in [Key -> Int]
  /\ Value \subseteq Int /\ NULL \notin Key \cup Value
  /\ DefaultCap \in Nat /\ DefaultCap >= 2
  /\ MaxCount \in Nat

VARIABLES nodes,    \* nodes[i]: the chain at place i of the table
          cap,
          count,
          free_cb,  \* a callback that frees values is set
          at,       \* where a walk over the map has come to
          seen,     \* history: the nodes the walk has shown
          freed,    \* history: the pointers given to free_cb in the last step
          ret       \* history: the last call, and the value that it returned or
                    \* that left the map in it

table == <<nodes, cap, count>>
vars  == <<nodes, cap, count, free_cb, at, seen, freed, ret>>

Node == [key : Key, value : Value]
Entry(k, v) == [key |-> k, value |-> v]
Returns(op, k, v) == ret' = [op |-> op, key |-> k, value |-> v]

\* A place in the table and one in its chain.
Places == UNION {{<<i, p>> : p \in 1..Len(nodes[i])} : i \in 0..(cap - 1)}
NodeAt(x) == nodes[x[1]][x[2]]
Held == {NodeAt(x).value : x \in Places}
NoWalk == <<-1, 0>>
Done == <<cap, 0>>     \* the walk has come to the end

\* hash & (c - 1), where c is a power of two; the bit of that value.
Index(k, c) == Hash[k] % c
HasBit(k, c) == (Hash[k] \div c) % 2 = 1

\* c_hash_map_new.
Init == /\ nodes = [i \in 0..(DefaultCap - 1) |-> <<>>] /\ cap = DefaultCap
        /\ count = 0 /\ free_cb = FALSE
        /\ at = NoWalk /\ seen = {} /\ freed = {}
        /\ ret = [op |-> "new", key |-> NULL, value |-> NULL]

-----------------------------------------------------------------------------
(* The table grows.                                                        *)

\* The place in the new table of a node that was at place i.
NewIndex(k, i) == IF HasBit(k, 2 * cap) THEN Index(k, 2 * cap) ELSE i

\* New chains are filled from the old ones, place by place, in their order.
Chosen(e, i, j) == IF NewIndex(e.key, i) = j THEN <<e>> ELSE <<>>
Leaving(i, j) ==
  FlattenSeq([p \in 1..Len(nodes[i]) |-> Chosen(nodes[i][p], i, j)])
Relocated ==
  [j \in 0..(2 * cap - 1) |-> FlattenSeq([n \in 1..cap |-> Leaving(n - 1, j)])]

\* c_hash_map_resize(map, target_count): at three quarters the table doubles
\* (a slip: only when it is full).
WhenFull(target_count) == target_count > cap
Grows(target_count) == 3 * cap <= 4 * target_count /\ count # 0

Resized == IF Grows(count + 1) THEN [cap |-> 2 * cap, nodes |-> Relocated]
                               ELSE [cap |-> cap, nodes |-> nodes]

-----------------------------------------------------------------------------
(* The calls.                                                              *)

\* Where strcmp finds k in a chain; 0 if it does not.
Find(chain, k) == SelectInSeq(chain, LAMBDA e : e.key = k)

\* The pointers handed to free_cb in this call, where one is set.
Frees(values) == freed' = IF free_cb THEN values ELSE {}
EndsWalk == at' = NoWalk /\ seen' = {}

\* c_hash_map_put: a node that has the key gives way to the new one, the others
\* of its chain before it or not (slips: all of them are looked at but the
\* head; the new pointer is freed).
SkipsHead(chain, e) == LET p == Find(chain, e.key)
                       IN IF p > 1 THEN ReplaceAt(chain, p, e) ELSE Append(chain, e)
PutIn(chain, e) == LET p == Find(chain, e.key)
                   IN IF p > 0 THEN ReplaceAt(chain, p, e) ELSE Append(chain, e)
GivenUpNew(chain, e) == IF Find(chain, e.key) > 0 THEN {e.value} ELSE {}
GivenUp(chain, e) == LET p == Find(chain, e.key)
                     IN IF p > 0 THEN {chain[p].value} ELSE {}

\* The caller has just allocated v (server_config.c:98): the map does not have
\* it.  Which of those it does not have makes no difference.
Fresh(v) == v \notin Held /\ \A u \in Value : u < v => u \in Held

Put(k, v) ==
  /\ count < MaxCount /\ Fresh(v)
  /\ LET r == Resized
         i == Index(k, r.cap)
         out == GivenUp(r.nodes[i], Entry(k, v))
     IN /\ cap' = r.cap
        /\ nodes' = [r.nodes EXCEPT ![i] = PutIn(@, Entry(k, v))]
        /\ Frees(out)
        /\ \E old \in out \cup {NULL} :
             (old = NULL <=> out = {}) /\ Returns("put", k, old)
  /\ count' = count + 1
  /\ EndsWalk /\ UNCHANGED free_cb

\* c_hash_map_get, c_hash_map_has and c_hash_map_get_node.
Get(k) ==
  /\ LET chain == nodes[Index(k, cap)]
         p == Find(chain, k)
     IN Returns("get", k, IF p > 0 THEN chain[p].value ELSE NULL)
  /\ freed' = {} /\ EndsWalk /\ UNCHANGED <<table, free_cb>>

\* c_hash_map_remove (a slip: what is behind the node goes with it).
CutOff(chain, p)  == SubSeq(chain, 1, p - 1)
Without(chain, p) == RemoveAt(chain, p)

RemoveKey(k, free_value) ==
  /\ LET i == Index(k, cap)
         p == Find(nodes[i], k)
         v == nodes[i][p].value
     IN IF p > 0
        THEN /\ nodes' = [nodes EXCEPT ![i] = Without(@, p)]
             /\ count' = count - 1
             /\ Frees(IF free_value THEN {v} ELSE {})
             /\ Returns("remove", k, v)
        ELSE UNCHANGED <<nodes, count>> /\ freed' = {} /\ Returns("remove", k, NULL)
  /\ EndsWalk /\ UNCHANGED <<cap, free_cb>>

\* c_hash_map_clear: c_hash_map_free, then c_hash_map_init, which forgets the
\* callback.
Clear ==
  /\ Frees(Held)
  /\ nodes' = [i \in 0..(DefaultCap - 1) |-> <<>>] /\ cap' = DefaultCap
  /\ count' = 0 /\ free_cb' = FALSE
  /\ EndsWalk /\ Returns("clear", NULL, NULL)

SetFreeCb == /\ ~free_cb /\ free_cb' = TRUE /\ freed' = {}
             /\ UNCHANGED <<table, at, seen, ret>>

-----------------------------------------------------------------------------
(* C_HASH_MAP_FOR: a walk over the nodes.  Its body changes nothing; a     *)
(* change ends the walk.                                                   *)

\* The head of the first chain from place i on, if there is one.
From(i) == {<<j, 1>> : j \in {j \in i..(cap - 1) :
                                /\ nodes[j] # <<>>
                                /\ \A l \in i..(j - 1) : nodes[l] = <<>>}}

\* c_hash_map_get_next: the next of the chain, or the first after the place the
\* key belongs in (a slip: only one place further is looked at).
NextPlaceOnly(x) ==
  IF x[2] < Len(nodes[x[1]]) THEN {<<x[1], x[2] + 1>>}
  ELSE {y \in From(Index(NodeAt(x).key, cap) + 1) :
          y[1] = Index(NodeAt(x).key, cap) + 1}
NextOf(x) == IF x[2] < Len(nodes[x[1]]) THEN {<<x[1], x[2] + 1>>}
             ELSE From(Index(NodeAt(x).key, cap) + 1)

Shows(next) == /\ \/ next = {} /\ at' = Done /\ seen' = seen
                  \/ \E x \in next : at' = x /\ seen' = seen \cup {x}
               /\ freed' = {} /\ UNCHANGED <<table, free_cb, ret>>

GetFirst == /\ at = NoWalk
            /\ Shows(IF count = 0 THEN {} ELSE From(0))
GetNext  == at \in Places /\ Shows(NextOf(at))

Next == \/ Clear \/ SetFreeCb \/ GetFirst \/ GetNext
        \/ \E k \in Key : \/ Get(k)
                          \/ \E b \in BOOLEAN : RemoveKey(k, b)
                          \/ \E v \in Value : Put(k, v)

Spec == Init /\ [][Next]_vars

-----------------------------------------------------------------------------
(* Properties.                                                             *)

\* The keys a node of which no search finds: it is in the chain of another
\* place, or behind another node of the key.
Astray == {k \in Key : \E x \in Places :
             NodeAt(x).key = k /\ (x[1] # Index(k, cap) \/ x[2] # Find(nodes[x[1]], k))}

\* Every variable has its type, and a walk is at a node of the map.
TypeOK ==
  /\ cap \in Nat /\ count \in Nat /\ free_cb \in BOOLEAN
  /\ nodes \in [0..(cap - 1) -> Seq(Node)]
  /\ at \in Places \cup {NoWalk, Done} /\ seen \subseteq Places
  /\ freed \subseteq Value

\* The table is never three quarters full, although a put counts where it
\* replaces, and growth happens before the put and only if something is counted
\* (c_hash_map.c:124, 128, 193).
LoadBounded == 4 * count < 3 * cap

\* A call about a key that is not astray, nor goes astray in it, returns and
\* leaves what a map would, whatever other keys share its chains and however
\* often the table has grown.
Entries == {NodeAt(x) : x \in Places}
Map == INSTANCE KeyMap WITH entries <- Entries
IsMap == Map!Init /\ [][Map!Next \/ ret'.key \in Astray \cup Astray']_<<Entries, ret>>

\* A key goes astray only when the table doubles, and only one whose hash has
\* the bit that now decides and not the one above it, which the code tests.
StraysOnlyByBit ==
  [][\A k \in Astray' \ Astray :
       cap' = 2 * cap /\ HasBit(k, cap) /\ ~HasBit(k, 2 * cap)]_vars

\* Every variable has its type, and while no key is astray a walk shows every
\* node once: those before the one it is at, in the order of the table, and at
\* its end all of them.
UpTo(x) == {y \in Places : y[1] < x[1] \/ (y[1] = x[1] /\ y[2] <= x[2])}
WalkComplete ==
  /\ TypeOK
  /\ Astray = {} => /\ at \in Places => seen = UpTo(at)
                    /\ at = Done => seen = Places

\* A pointer is freed once: what a step frees was in the map before it, at one
\* place only, and is not in it any more.  While a callback is set every pointer
\* that leaves the map is freed, or returned by remove.
HeldOnce == \A x, y \in Places : NodeAt(x).value = NodeAt(y).value => x = y
FreedAsLeft ==
  [][/\ freed' \subseteq Held \ Held' /\ HeldOnce /\ HeldOnce'
     /\ free_cb => \A v \in Held \ Held' :
          v \in freed' \/ (ret'.op = "remove" /\ ret'.value = v)]_vars
=============================================================================

------------------------------ MODULE MCHashMap ------------------------------
(* A table of 2 that grows to 4 and 8.  The keys, one of a negative hash,    *)
(* collide in the first; one goes astray at the first growth and comes back  *)
(* at the second, and one goes astray at the second.                         *)
EXTENDS HashMap

MCKey == 1..3
MCHash == [k \in MCKey |-> CASE k = 1 -> -8 [] k = 2 -> 10 [] OTHER -> 4]
MCValue == 1..(MaxCount + 1)
=============================================================================

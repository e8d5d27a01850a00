----------------------------- MODULE MCEventLoop -----------------------------
(* Two events and one name query over three descriptors: a listener or two     *)
(* connections and a DNS socket, every descriptor and object reused.           *)
EXTENDS EventLoop, TLC

CONSTANTS e1, e2, d1

MCFd == {3, 4, 5}
MCFdTwo == {3, 4}
MCEventId == {e1, e2}
MCDnsId == {d1}
Symmetric == Permutations(MCEventId)
=============================================================================

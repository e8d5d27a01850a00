----------------------------- MODULE MCSocksClient -----------------------------
(* Servers that do everything right, one for each way to turn the client down,  *)
(* and two that are bound to a name that is too long (a char is at most 7 here, *)
(* so that such a name is short).                                               *)
EXTENDS SocksClient

MCMethods == {<<5, 0>>, <<5, 2>>, <<5, 255>>, <<4, 0>>}
MCLogins == {<<1, 0>>, <<1, 1>>, <<2, 0>>}
Ipv4Reply(rep) == <<5, rep, 0, 1, 10, 0, 0, 1, 1, 187>>
DomainReply(n) == <<5, 0, 0, 3, n>> \o [i \in 1..n |-> 97] \o <<1, 187>>
Ipv6Reply == <<5, 0, 0, 4, 32, 1, 0, 0, 0, 0, 0, 0, 0, 0, 0, 0, 0, 0, 0, 1, 0, 80>>
MCReplies == {Ipv4Reply(0), Ipv4Reply(5), DomainReply(2), DomainReply(8), DomainReply(15), Ipv6Reply,
              <<4, 0, 0, 1, 10, 0, 0, 1, 0, 80>>, <<5, 0, 0, 2, 10, 0, 0, 1, 0, 80>>}

\* All of them are whole.
ASSUME WholeAnswers
=============================================================================

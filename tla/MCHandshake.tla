----------------------------- MODULE MCHandshake -----------------------------
(* Clients that do everything right, and one for each thing they can do      *)
(* wrong, to a server with one user and to one without.                      *)
EXTENDS Handshake

MCConfigs == {(<<7>> :> <<8, 9>>), << >>}

MCGreetings == {<<5, 1, 0>>, <<5, 1, 2>>, <<5, 3, 0, 1, 2>>, <<5, 0>>, <<4, 1, 2>>}
MCLogins == {<<1, 1, 7, 2, 8, 9>>, <<1, 1, 7, 1, 8>>, <<1, 2, 7, 7, 1, 8>>, <<2, 1, 7, 1, 8>>,
             <<1, 3, 7, 0, 9, 3, 8, 9, 0>>, <<1, 1, 7, 0>>,
             <<1, 128>> \o [i \in 1..128 |-> 7] \o <<1, 8>>}
Ipv4Request(command) == <<5, command, 0, 1, 10, 0, 0, 1, 1, 187>>
DomainRequest == <<5, 1, 0, 3, 2, 97, 98, 1, 187>>
CutDomainRequest == <<5, 1, 0, 3, 3, 97, 0, 98, 1, 187>>
Ipv6Request == <<5, 1, 0, 4, 32, 1, 0, 0, 0, 0, 0, 0, 0, 0, 0, 0, 0, 0, 0, 1, 0, 80>>
BadRequests == {<<4, 1, 0, 1, 10, 0, 0, 1, 0, 80>>, <<5, 1, 1, 1, 10, 0, 0, 1, 0, 80>>,
                <<5, 1, 0, 2, 10, 0, 0, 1, 0, 80>>}
MCRequests == {Ipv4Request(1), Ipv4Request(2), DomainRequest, CutDomainRequest,
               Ipv6Request, <<5, 1, 0, 3, 0, 0, 80>>} \cup BadRequests

\* All of them are whole.
ASSUME WholeMessages
=============================================================================

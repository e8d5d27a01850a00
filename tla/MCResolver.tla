------------------------------ MODULE MCResolver ------------------------------
(* Names that share endings, so that pointers lead into names that end in       *)
(* pointers; queries of up to three questions.                                  *)
EXTENDS Resolver, TLC

C == <<<<99>>>>
AbC == <<<<97, 98>>, <<99>>>>
XAbC == <<<<120>>, <<97, 98>>, <<99>>>>
MCDomains == {AbC, C}

AddressOf4(owner, last) == [owner |-> owner, type |-> QTYPE_A, data |-> <<10, 0, 0, last>>]
Ipv6 == [i \in 1..16 |-> CASE i = 1 -> 254 [] i = 2 -> 128 [] i = 16 -> 1 [] OTHER -> 0]
Cname(owner, target) == [owner |-> owner, type |-> QTYPE_CNAME, target |-> target]
MCRecords == {AddressOf4(C, 1), AddressOf4(XAbC, 2)}
             \cup {Cname(AbC, XAbC), Cname(C, AbC), Cname(XAbC, C)}
             \cup {[Cname(C, AbC) EXCEPT !.type = 39]}  \* DNAME
             \cup {[AddressOf4(C, 1) EXCEPT !.type = QTYPE_AAAA, !.data = Ipv6]}
             \cup {[AddressOf4(C, 1) EXCEPT !.type = 15, !.data = <<0, 10, 192, 12>>],  \* MX
                   [AddressOf4(C, 1) EXCEPT !.type = 16, !.data = <<7, 118>>]}  \* cut short

Asking(name, type, class) == [name |-> name, type |-> type, class |-> class]
MCQuestions == {Asking(C, QTYPE_A, CLASS_IN), Asking(AbC, QTYPE_AAAA, CLASS_IN),
                Asking(XAbC, QTYPE_A, CLASS_IN), Asking(AbC, QTYPE_A, 3),
                Asking(AbC, 2, CLASS_IN)}
MCQueries == UNION {[1..n -> MCQuestions] : n \in 1..3}

Known(last) == [ipv4 |-> <<127, 0, 0, last>>, ipv6 |-> [i \in 1..16 |-> IF i = 16 THEN last ELSE 0]]
MCHosts == (<<99>> :> Known(3)) @@ (<<97, 98, 46, 99>> :> Known(4))
           @@ (<<120, 46, 97, 98, 46, 99>> :> Known(5))
=============================================================================

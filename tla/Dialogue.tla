------------------------------- MODULE Dialogue -------------------------------
(***************************************************************************)
(* What the handshake of the docks server means, message by message: a     *)
(* client greets, logs in if it is asked to, and names the host it wants   *)
(* to reach.  Each message moves the dialogue on as a function of the      *)
(* whole message.  Nothing here knows how a message is cut into pieces on  *)
(* its way.                                                                *)
(***************************************************************************)
EXTENDS Integers, Sequences, FiniteSets

CONSTANT NULL

VARIABLES users,     \* the password of each user
          stage,     \* what the server waits for, or how it ended
          script,    \* the messages of this client
          broken,    \* the client or the host to reach was lost
          target     \* the host and port to be connected to

VERSION == 5
NO_AUTHENTICATION_REQUIRED == 0
USERNAME_PASSWORD == 2
IPV4 == 1
DOMAINNAME == 3
IPV6 == 4
AddressLen(atype) == IF atype = IPV4 THEN 4 ELSE 16
\* The bytes in front of the first that is 0.
CString(bytes) ==
  SubSeq(bytes, 1, Cardinality({i \in 1..Len(bytes) : \A j \in 1..i : bytes[j] # 0}))
Uint16(bytes) == 256 * bytes[1] + bytes[2]

vars == <<users, stage, script, broken, target>>

Offered(g) == {g[i] : i \in 3..(2 + g[2])}

AfterGreeting(g) ==
  IF g[1] # VERSION \/ g[2] = 0 THEN "closed"
  ELSE IF DOMAIN users = {} THEN "request"
  ELSE IF USERNAME_PASSWORD \in Offered(g) THEN "login"
  ELSE "closed"

Name(l)     == CString(SubSeq(l, 3, 2 + l[2]))
Password(l) == CString(SubSeq(l, 4 + l[2], 3 + l[2] + l[3 + l[2]]))

AfterLogin(l) ==
  IF l[1] # 1 THEN "closed"
  ELSE IF Name(l) \in DOMAIN users /\ users[Name(l)] = Password(l) THEN "request"
  ELSE "refused"

WellFormed(r) == /\ r[1] = VERSION /\ r[3] = 0
                 /\ r[4] \in {IPV4, DOMAINNAME, IPV6}
                 /\ r[4] = DOMAINNAME => r[5] > 0

AfterRequest(r) ==
  IF ~WellFormed(r) THEN "closed"
  ELSE IF r[2] = 1 THEN "connecting"
  ELSE "ignored"

Target(r) ==
  LET host == IF r[4] = DOMAINNAME THEN CString(SubSeq(r, 6, 5 + r[5]))
              ELSE SubSeq(r, 5, 4 + AddressLen(r[4]))
      port == SubSeq(r, Len(r) - 1, Len(r))
  IN  [host |-> host, port |-> Uint16(port)]

Init == stage = "greeting" /\ broken = FALSE /\ target = NULL

Greet == stage = "greeting" /\ stage' = AfterGreeting(script.greeting)
Login == stage = "login" /\ stage' = AfterLogin(script.login)
Request == /\ stage = "request"
           /\ stage' = AfterRequest(script.request)
           /\ target' = IF stage' = "connecting" THEN Target(script.request) ELSE target

\* A message that is taken wrongly: nothing is promised from then on.
Mislead == stage' = "misled"

\* Only a loss ends the dialogue otherwise.
Lose == stage' = "closed" /\ broken' = TRUE /\ UNCHANGED <<users, script, target>>

Next == \/ (Greet \/ Login) /\ UNCHANGED <<users, script, broken, target>>
        \/ Request /\ UNCHANGED <<users, script, broken>>
        \/ Lose \/ Mislead

Spec == Init /\ [][Next]_vars
=============================================================================

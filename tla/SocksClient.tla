------------------------------ MODULE SocksClient ------------------------------
(***************************************************************************)
(* The docks client (docks_client.c, and the halves of method.c, auth.c    *)
(* and docks_connect.c that it uses): a local client that Handshake has    *)
(* brought to a request is connected through a SOCKS server upstream.      *)
(* This module is the handshake with that server; when it is done the two  *)
(* connections are a Session.  Of `pair`, "remote" is the event of the     *)
(* server upstream, its context the ClientContext and from on_connect on   *)
(* the RemoteContext.                                                      *)
(*                                                                         *)
(* What the server answers arrives in any pieces; a step is one run of a   *)
(* read callback with those it calls itself, as in Handshake.  A byte is   *)
(* its value; what the host behind the server says follows the server's    *)
(* last answer in the same stream, as HOST + 1, HOST + 2, ...              *)
(*                                                                         *)
(* A message is one symbol: the user, the password and the host that the   *)
(* client writes are shorter than 128 bytes, since their lengths are cast  *)
(* to char before they are passed on as a size.                            *)
(***************************************************************************)
EXTENDS Session

CONSTANTS Methods, Logins, Replies,   \* what servers answer
          CharMax,                    \* the greatest value of a char, 127
          MaxSaid                     \* bound on what a host says at once
ASSUME SocksClientAssumption ==
  /\ MaxSaid \in 0..MaxRead /\ CharMax \in Nat
  /\ Methods \cup Logins \cup Replies \subseteq Seq(0..255)

VARIABLES script,    \* the answers of this server
          stage,     \* the read callback of the upstream event, or the end
          inbox,     \* its in_buffer
          wire,      \* what is on its way from the server
          asking,    \* messages to the server in the out_buffer
          asked,     \* messages the server has received
          answered,  \* how many of them it has answered
          ending,    \* the stream has ended and its last read_cb has run
          fault      \* history: the first thing that went wrong

session == <<pair, connected, given, early>>
upstream == <<script, wire, asked, answered>>
clientVars == <<session, upstream, stage, inbox, asking, ending, fault>>

HOST == 256
VERSION == 5
USERNAME_PASSWORD == 2
NO_AUTHENTICATION_REQUIRED == 0
SUCCEEDED == 0
IPV4 == 1
DOMAINNAME == 3
IPV6 == 4

Reading == {"negotiation", "login", "connect", "bind_host", "bind_port"}
Shaking == {"connecting"} \cup Reading
Drop(s, k) == SubSeq(s, k + 1, Len(s))

\* connect_remote, called by read_address, has begun to connect.
ClientInit ==
  /\ Init
  /\ script \in [method : Methods, login : Logins, reply : Replies, said : 0..MaxSaid]
  /\ stage = "connecting" /\ inbox = << >> /\ wire = << >>
  /\ asking = << >> /\ asked = << >> /\ answered = 0
  /\ ending = FALSE /\ fault = "none"

-----------------------------------------------------------------------------
(* How a callback ends.  `b` is the in_buffer as it leaves it.             *)

Waits(b, s) == inbox' = b /\ stage' = s /\ UNCHANGED <<session, asking, fault>>

Asks(what, b, s) ==
  /\ asking' = Append(asking, what)
  /\ inbox' = b /\ stage' = s
  /\ UNCHANGED <<session, fault>>

\* docks_send_remote_address: always a name, whatever kind of host it is.
SendRemoteAddress(b) == Asks("request", b, "connect")

\* DocketEvent_free, ClientContext_free; the local client is not told.
\* (A slip: without the return that follows.)
GoesOn ==
  /\ pair' = Gone(pair, "remote")
  /\ UNCHANGED <<stage, inbox, asking, connected, given, early, fault>>
GivesUp ==
  /\ pair' = Gone(pair, "remote")
  /\ stage' = "failed" /\ inbox' = << >> /\ asking' = << >>
  /\ UNCHANGED <<connected, given, early, fault>>

\* The program ends.
Crashes == stage' = "crashed" /\ UNCHANGED <<session, inbox, asking, fault>>

\* on_connect, docks_on_remote_connect: from here on a Session, with what the
\* host has said already in the in_buffer.  A local client that has left is
\* written to all the same, and nothing is said of what follows.
OnConnect(b) ==
  LET said == [i \in 1..Len(b) |-> b[i] - HOST]
      c    == [pair EXCEPT !.in["remote"] = said]
  IN  /\ inbox' = << >>
      /\ \/ /\ pair.live["server"]
            /\ pair' \in {Gone(Gone(c, "remote"), "server")}
                           \cup Push(AwaitsReply(c), "server")
            /\ connected' = TRUE
            /\ given' = [given EXCEPT !["remote"] = Len(said)]
            /\ early' = (said # << >>)
            /\ stage' = "done"
         \/ /\ ~pair.live["server"]
            /\ pair' = [pair EXCEPT !.misused = TRUE] /\ stage' = "crashed"
            /\ UNCHANGED <<connected, given, early>>
      /\ UNCHANGED <<asking, fault>>

-----------------------------------------------------------------------------
(* Read callbacks.                                                         *)

\* (A slip: the method chosen by the server is not looked at.)
AnyMethod(b) ==
  \/ Len(b) < 2 /\ Waits(b, stage)
  \/ Len(b) >= 2 /\ SendRemoteAddress(Drop(b, 2))

\* on_read_negotication: answers that are not understood are thrown away ("TODO
\* close client").
ReadNegotiation(b) ==
  \/ Len(b) < 2 /\ Waits(b, stage)
  \/ /\ Len(b) >= 2 /\ b[1] = VERSION /\ b[2] = USERNAME_PASSWORD
     /\ Asks("login", Drop(b, 2), "login")
  \/ /\ Len(b) >= 2 /\ b[1] = VERSION /\ b[2] = NO_AUTHENTICATION_REQUIRED
     /\ SendRemoteAddress(Drop(b, 2))
  \/ /\ Len(b) >= 2
     /\ b[1] # VERSION \/ b[2] \notin {USERNAME_PASSWORD, NO_AUTHENTICATION_REQUIRED}
     /\ Waits(Drop(b, 2), stage)

\* docks_on_read_UP.  (A slip: it waits for one byte too many.)
ByteMoreOfLogin(b) ==
  \/ Len(b) < 3 /\ Waits(b, stage)
  \/ Len(b) >= 3 /\ b[1] = 1 /\ b[2] = 0 /\ SendRemoteAddress(Drop(b, 2))
  \/ Len(b) >= 3 /\ (b[1] # 1 \/ b[2] # 0) /\ Waits(Drop(b, 2), stage)
ReadLogin(b) ==
  \/ Len(b) < 2 /\ Waits(b, stage)
  \/ Len(b) >= 2 /\ b[1] = 1 /\ b[2] = 0 /\ SendRemoteAddress(Drop(b, 2))
  \/ Len(b) >= 2 /\ (b[1] # 1 \/ b[2] # 0) /\ Waits(Drop(b, 2), stage)

\* on_read_server_bind_port.
ReadBindPort(b) ==
  \/ Len(b) < 2 /\ Waits(b, "bind_port")
  \/ Len(b) >= 2 /\ OnConnect(Drop(b, 2))

\* on_read_server_bind_host: the type, for a name its length, and the address;
\* 0 for a type unknown.
BindHostLen(b) ==
  CASE b[1] = IPV4 -> 1 + 4
    [] b[1] = IPV6 -> 1 + 16
    [] b[1] = DOMAINNAME /\ Len(b) < 2 -> 2
    [] b[1] = DOMAINNAME /\ Len(b) >= 2 -> 2 + b[2]
    [] OTHER -> 0

\* The length of a name is a char, negative above CharMax.  An array of 2 + length
\* bytes is read: of one byte when it is -1, and of none or fewer when it is less, which
\* is undefined: nothing is taken, or it waits for ever, or the stack is overwritten.
LongName(b) == Len(b) >= 2 /\ b[1] = DOMAINNAME /\ b[2] > CharMax
ReadLongName(b) ==
  \/ b[2] = 2 * CharMax + 1 /\ ReadBindPort(Drop(b, 1))
  \/ b[2] # 2 * CharMax + 1 /\ (Waits(b, "bind_host") \/ ReadBindPort(b) \/ Crashes)

ReadBindHost(b) ==
  \/ b = << >> /\ Waits(b, "bind_host")
  \/ b # << >> /\ BindHostLen(b) = 0 /\ GivesUp
  \/ b # << >> /\ LongName(b) /\ ReadLongName(b)
  \/ b # << >> /\ ~LongName(b) /\ Len(b) < BindHostLen(b) /\ Waits(b, "bind_host")
  \/ /\ b # << >> /\ ~LongName(b) /\ BindHostLen(b) # 0 /\ Len(b) >= BindHostLen(b)
     /\ ReadBindPort(Drop(b, BindHostLen(b)))

\* on_read_server_connect.
ReadConnect(b) ==
  \/ Len(b) < 3 /\ Waits(b, stage)
  \/ Len(b) >= 3 /\ (b[1] # VERSION \/ b[3] # 0 \/ b[2] # SUCCEEDED) /\ GivesUp
  \/ /\ Len(b) >= 3 /\ b[1] = VERSION /\ b[3] = 0 /\ b[2] = SUCCEEDED
     /\ ReadBindHost(Drop(b, 3))

UpstreamCallback(b) ==
  \/ stage = "negotiation" /\ ReadNegotiation(b)
  \/ stage = "login" /\ ReadLogin(b)
  \/ stage = "connect" /\ ReadConnect(b)
  \/ stage = "bind_host" /\ ReadBindHost(b)
  \/ stage = "bind_port" /\ ReadBindPort(b)

-----------------------------------------------------------------------------
(* The two connections before on_connect.                                  *)

\* DEVENT_CONNECT: on_connect_to_server, docks_write_methods.  When the message
\* cannot be sent the event is freed, and its callbacks are set after that.
UpstreamConnect ==
  /\ stage = "connecting"
  /\ \/ /\ stage' = "negotiation" /\ asking' = <<"methods">>
        /\ UNCHANGED <<pair, fault>>
     \/ /\ stage' = "crashed" /\ fault' = "first_write"
        /\ pair' = [FreeEvent(pair, "remote") EXCEPT !.misused = TRUE]
        /\ UNCHANGED asking
  /\ UNCHANGED <<connected, given, early, upstream, inbox>>

\* docket_on_event_read: a piece of n bytes.  What the host says after the last
\* answer and is still on its way is left to Read of Session.
UpstreamRead(n) ==
  /\ stage \in Reading
  /\ UpstreamCallback(inbox \o SubSeq(wire, 1, n))
  /\ wire' = IF stage' = "done" THEN << >> ELSE Drop(wire, n)
  /\ UNCHANGED <<script, asked, answered>>

\* ... and at its end, or after DEVENT_CONNECT, the out_buffer is sent.
UpstreamFlush ==
  /\ stage \in Reading /\ asking # << >>
  /\ asked' = asked \o asking /\ asking' = << >>
  /\ UNCHANGED <<session, script, wire, answered, stage, inbox, fault>>

\* The end of the stream: what is left in the in_buffer goes to its callback once
\* more, ...
UpstreamLastRead ==
  /\ stage \in Reading /\ inbox # << >>
  /\ UpstreamCallback(inbox)
  /\ ending' = (stage' \in Reading \cup {"done"})
  /\ UNCHANGED upstream

\* ... and the event is closed: on_connect_to_server.  So it is when a write fails or
\* the connection was not made.  The local client is not told.
UpstreamEnds ==
  /\ stage \in Shaking
  /\ pair' = FreeEvent(pair, "remote")
  /\ stage' = "lost" /\ inbox' = << >> /\ asking' = << >> /\ ending' = FALSE
  /\ UNCHANGED <<connected, given, early, upstream, fault>>

\* The last answer was there at the end of the stream: the event is closed as one of
\* a Session, if it is still there.
EndsOnceHanded ==
  /\ stage = "done" /\ ending
  /\ pair' = IF pair.live["remote"] THEN Closed(pair, "remote") ELSE pair
  /\ ending' = FALSE
  /\ UNCHANGED <<connected, given, early, upstream, stage, inbox, asking, fault>>

\* server_event_cb, which does nothing, and devent_close_internal.
LocalEnds ==
  /\ stage \in Shaking \cup {"lost", "failed"} /\ pair.live["server"]
  /\ pair' = FreeEvent(pair, "server")
  /\ fault' = IF stage \in Shaking THEN "left" ELSE fault
  /\ UNCHANGED <<connected, given, early, upstream, stage, inbox, asking>>

\* The server upstream.
AnswerTo(message) ==
  CASE message = "methods" -> script.method
    [] message = "login" -> script.login
    [] message = "request" ->
         script.reply \o [i \in 1..(IF script.reply[2] = SUCCEEDED THEN script.said ELSE 0) |-> HOST + i]

UpstreamAnswers ==
  /\ stage \in Reading /\ answered < Len(asked)
  /\ wire' = wire \o AnswerTo(asked[answered + 1])
  /\ answered' = answered + 1
  /\ UNCHANGED <<session, script, asked, stage, inbox, asking, fault>>

Relay == stage = "done" /\ Next /\ UNCHANGED <<upstream, stage, inbox, asking, fault>>

ClientNext ==
  \/ /\ ~ending /\ UNCHANGED ending
     /\ \/ UpstreamConnect \/ UpstreamFlush \/ UpstreamAnswers \/ LocalEnds \/ Relay
        \/ \E n \in 1..Len(wire) : UpstreamRead(n)
  \/ ~ending /\ UpstreamLastRead
  \/ UpstreamEnds \/ EndsOnceHanded

ClientSpec == ClientInit /\ [][ClientNext]_clientVars

-----------------------------------------------------------------------------
(* Properties.                                                             *)

Messages == {"methods", "login", "request"}

\* A granted request with a bound name that is longer than a char can count.
Misread == script.reply[2] = SUCCEEDED /\ LongName(Drop(script.reply, 3))

ClientTypeOK ==
  /\ (stage = "done" /\ Misread) \/ TypeOK
  /\ stage \in Shaking \cup {"failed", "lost", "crashed", "done"}
  /\ inbox \in Seq(0..(HOST + MaxSaid)) /\ wire \in Seq(0..(HOST + MaxSaid))
  /\ asking \in Seq(Messages) /\ asked \in Seq(Messages)
  /\ answered \in 0..Len(asked) /\ ending \in BOOLEAN
  /\ fault \in {"none", "left", "first_write"}

\* However the answers are cut, nothing freed is used or freed again, before,
\* during and after the hand-over from ClientContext to RemoteContext, but in two
\* cases: the local client has left while the handshake went on
\* (server_event_cb), or the first message could not be sent
\* (docks_write_methods).
FreedUnlessFault == pair.misused => fault # "none"

\* Answers as the protocol has them: two bytes for a method and a login, and for a
\* request, unless it is turned down after three, the host and two bytes more.
\* (An answer that is longer or shorter shifts what is read after it.)
WholeAnswers ==
  /\ \A a \in Methods \cup Logins : Len(a) = 2
  /\ \A r \in Replies :
       /\ Len(r) >= 3
       /\ r[1] = VERSION /\ r[2] = SUCCEEDED /\ r[3] = 0 =>
            /\ Len(r) >= 5
            /\ BindHostLen(Drop(r, 3)) # 0 => Len(r) = 3 + BindHostLen(Drop(r, 3)) + 2

\* A message is sent when the one before is answered in full, and the password
\* only to a server that has asked for it; the local client is told that it is
\* connected only when the server has answered everything, and said so.
Wanted ==
  <<"methods">> \o (IF script.method[2] = USERNAME_PASSWORD THEN <<"login">> ELSE << >>)
    \o <<"request">>
AsksInTurn ==
  LET said == asked \o asking
  IN  /\ IsPrefix(said, Wanted) /\ Len(said) <= answered + 1
      /\ REPLY \in ToSet(pair.got["server"] \o pair.out["server"]) =>
           asked = Wanted /\ answered = Len(asked) /\ script.reply[2] = SUCCEEDED

\* No answer is left half read: when all that the server has sent has arrived,
\* the client waits for more only if it has been turned down ("TODO close
\* client"), or bound to a name whose length it takes for a negative one
\* (docks_connect.c, on_read_server_bind_host).
TurnedDown ==
  \/ script.method[1] # VERSION
  \/ script.method[2] \notin {USERNAME_PASSWORD, NO_AUTHENTICATION_REQUIRED}
  \/ "login" \in ToSet(asked) /\ script.login # <<1, 0>>
NoAnswerHeldBack ==
  stage \in Reading /\ wire = << >> /\ asking = << >> /\ answered = Len(asked) =>
    TurnedDown \/ Misread

\* Every variable has its type, and once it is handed over, a session begun this
\* way is like any other: what the host says in the same piece as the last answer
\* reaches the local client, too.  After a name whose length is misread the rest of
\* the name is taken for the host's words.
LikeAnySession ==
  /\ ClientTypeOK
  /\ stage = "done" /\ ~Misread => ContextFollowsEvent /\ OutlivesToSend /\ Delivered
=============================================================================

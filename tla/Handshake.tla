------------------------------ MODULE Handshake ------------------------------
(***************************************************************************)
(* The docks server (server.c, method.c, negotication.c, auth.c and        *)
(* docks_connect.c up to the connection to the remote host): one client    *)
(* whose messages arrive in any pieces.  Every piece read is appended to   *)
(* the in_buffer and the read callback runs (read.c); a callback that      *)
(* wants more returns, and the next piece finds it, or whatever callback   *)
(* it has installed, again.                                                *)
(*                                                                         *)
(* A step is one run of a read callback, with the callbacks it calls       *)
(* itself and all it does to the buffer, the event and the context.        *)
(* A byte is its value, 0 to 255; a string of bytes is a sequence.         *)
(***************************************************************************)
EXTENDS Integers, Sequences, SequencesExt

CONSTANTS Configs,       \* user tables, read from lines of text: the password of each user
          Greetings, Logins, Requests,   \* what clients send
          CharMax,       \* the greatest value of a char, 127
          NULL

ASSUME HandshakeAssumption ==
  /\ CharMax \in Nat
  /\ Greetings \cup Logins \cup Requests \subseteq Seq(0..255)
  /\ \A table \in Configs : \A u \in DOMAIN table : 0 \notin ToSet(u) \cup ToSet(table[u])
  /\ NULL \notin [host : Seq(0..255), port : Nat]

VARIABLES users,         \* the user table of the configuration
          script,        \* the messages of this client
          sent,          \* how many of them it has sent
          wire,          \* bytes on their way
          in,            \* the in_buffer of its event
          read_cb,       \* the read callback of its event
          event,         \* "live" or "freed"
          method_count, connect_header, remote,  \* fields of its ServerContext
          target,        \* remote_host and remote_port
          replies,       \* what the server has answered, the out_buffer included
          heard,         \* how many of the answers have left it
          ending,        \* the end of the stream is being handled
          broken,        \* history: client or remote host lost
          misled         \* history: a message met the server at its weak spots

vars == <<users, script, sent, wire, in, read_cb, event, method_count, connect_header,
          remote, target, replies, heard, ending, broken, misled>>
context == <<method_count, connect_header, remote, target>>

Words == INSTANCE Dialogue WITH stage <- "none"
VERSION == Words!VERSION
NO_ACCEPTABLE_METHODS == 255
CONNECT == 1
HEADER_LEN == 4
PORT_LEN == 2
SUCCESS == 0
FAILURE == 255

Prefix(s, k) == SubSeq(s, 1, k)
Drop(s, k)   == SubSeq(s, k + 1, Len(s))

\* (size_t) of a char: lengths above CharMax are negative, hence huge.
TooShort(s, byte) == byte > CharMax \/ Len(s) < byte

\* docks_on_socks_connect.
Init ==
  /\ users \in Configs
  /\ script \in [greeting : Greetings, login : Logins, request : Requests]
  /\ sent = 0 /\ wire = << >> /\ in = << >>
  /\ read_cb = "read_methods" /\ event = "live"
  /\ method_count = 0 /\ connect_header = << >>
  /\ remote = FALSE /\ target = NULL /\ replies = << >> /\ heard = 0
  /\ ending = FALSE /\ broken = FALSE /\ misled = FALSE

-----------------------------------------------------------------------------
(* How a callback ends.  `b` is the in_buffer as it leaves it.             *)

Waits(b, cb) ==
  /\ in' = b /\ read_cb' = cb
  /\ UNCHANGED <<event, broken>>

\* DocketEvent_free and ServerContext_free.
Freed == in' = << >> /\ event' = "freed" /\ UNCHANGED read_cb

\* The server closes of its own accord.
Closes == Freed /\ UNCHANGED broken

\* DocketEvent_write of a reply.  Writing is off while an event is read, so
\* the reply stays in the out_buffer until docket_on_event_read has no more to
\* read (a slip: a client that is turned down is hung up on at once).
HangsUp(r, b, cb) ==
  replies' = Append(replies, r) /\ IF r[2] = FAILURE THEN Closes ELSE Waits(b, cb)
Replies(r, b, cb) == replies' = Append(replies, r) /\ Waits(b, cb)

-----------------------------------------------------------------------------
(* method.c, negotication.c.                                               *)

\* docks_negotication (slips: users are let in without a password; a password
\* is asked for when there are no users).
Lenient(methods) ==
  IF Contains(methods, Words!NO_AUTHENTICATION_REQUIRED)
  THEN Words!NO_AUTHENTICATION_REQUIRED
  ELSE IF Contains(methods, Words!USERNAME_PASSWORD) THEN Words!USERNAME_PASSWORD
  ELSE NO_ACCEPTABLE_METHODS

Strict(methods) ==
  IF Contains(methods, Words!USERNAME_PASSWORD) THEN Words!USERNAME_PASSWORD
  ELSE NO_ACCEPTABLE_METHODS

Negotiated(methods) ==
  IF DOMAIN users = {} THEN Words!NO_AUTHENTICATION_REQUIRED
  ELSE IF Contains(methods, Words!USERNAME_PASSWORD) THEN Words!USERNAME_PASSWORD
  ELSE NO_ACCEPTABLE_METHODS

\* The reader of the next message.
Reader(method) == IF method = Words!USERNAME_PASSWORD THEN "auth_read" ELSE "connect_read"

\* docks_on_read_methods_inner on a buffer b that holds the methods.
Choose(b, count) ==
  LET method == Negotiated(Prefix(b, count))
      rest   == Drop(b, count)
  IN  IF method # NO_ACCEPTABLE_METHODS
      THEN Replies(<<VERSION, method>>, rest, Reader(method))
      ELSE replies' = Append(replies, <<VERSION, method>>) /\ Closes

ReadMethodsInner(b, count) ==
  /\ method_count' = count
  /\ UNCHANGED <<connect_header, remote, target>>
  /\ \/ Len(b) < count /\ Waits(b, "read_methods_inner") /\ UNCHANGED replies
     \/ count = 0 /\ Closes /\ UNCHANGED replies
     \/ count > 0 /\ Len(b) >= count /\ Choose(b, count)

ReadMethods(b) ==
  \/ Len(b) < 2 /\ Waits(b, read_cb) /\ UNCHANGED <<context, replies>>
  \/ Len(b) >= 2 /\ b[1] # VERSION /\ Closes /\ UNCHANGED <<context, replies>>
  \/ Len(b) >= 2 /\ b[1] = VERSION /\ ReadMethodsInner(Drop(b, 2), b[2])

-----------------------------------------------------------------------------
(* auth.c.                                                                 *)

\* Names and passwords are looked up and compared as C strings.
Verdict(name, password) ==
  LET u == Words!CString(name)
      p == Words!CString(password)
  IN  IF u \in DOMAIN users /\ users[u] = p THEN SUCCESS ELSE FAILURE

\* A login of which the name has arrived and nothing else: the length of the
\* password is read from memory that was never written, `len - 2 -
\* username_len - 1` wraps around and is not less, and what is found there is
\* compared.  Nothing can be taken from the buffer.
UnreadPassword(b, name) ==
  \E verdict \in {SUCCESS, FAILURE} :
    /\ verdict = SUCCESS => Words!CString(name) \in DOMAIN users
    /\ Replies(<<1, verdict>>, b, "connect_read")

Login(b, name, rest) ==
  \/ rest = << >> /\ UnreadPassword(b, name)
  \/ rest # << >> /\ TooShort(Tail(rest), Head(rest)) /\ Waits(b, read_cb) /\ UNCHANGED replies
  \/ /\ rest # << >> /\ ~TooShort(Tail(rest), Head(rest))
     /\ Replies(<<1, Verdict(name, Prefix(Tail(rest), Head(rest)))>>,
                Drop(Tail(rest), Head(rest)), "connect_read")

\* docks_on_auth_read.
AuthRead(b) ==
  /\ UNCHANGED context
  /\ \/ Len(b) < 2 /\ Waits(b, read_cb) /\ UNCHANGED replies
     \/ Len(b) >= 2 /\ b[1] # 1 /\ Closes /\ UNCHANGED replies
     \/ /\ Len(b) >= 2 /\ b[1] = 1 /\ TooShort(Drop(b, 2), b[2])
        /\ Waits(b, read_cb) /\ UNCHANGED replies
     \/ /\ Len(b) >= 2 /\ b[1] = 1 /\ ~TooShort(Drop(b, 2), b[2])
        /\ Login(b, SubSeq(b, 3, 2 + b[2]), Drop(b, 2 + b[2]))

-----------------------------------------------------------------------------
(* docks_connect.c.                                                        *)

\* The rest of read_address, with host and port of the request.
Connect(header, host, port, b) ==
  /\ target' = [host |-> host, port |-> Words!Uint16(port)]
  /\ \/ header[2] # CONNECT /\ Waits(b, "read_address") /\ UNCHANGED remote
     \/ header[2] = CONNECT /\ Waits(b, "read_address") /\ remote' = TRUE
     \/ /\ header[2] = CONNECT
        /\ Freed /\ broken' = TRUE
        /\ UNCHANGED remote

\* An address of n bytes and the port (a slip: one byte more is waited for).
ByteMore(b, n) == Len(b) > n + PORT_LEN
AddressArrived(b, n) == Len(b) >= n + PORT_LEN

ReadIp(header, b) ==
  LET n == Words!AddressLen(header[4])
  IN  \/ /\ ~AddressArrived(b, n)
         /\ Waits(b, "read_address") /\ UNCHANGED <<remote, target>>
      \/ /\ AddressArrived(b, n)
         /\ Connect(header, Prefix(b, n), SubSeq(b, n + 1, n + PORT_LEN),
                    Drop(b, n + PORT_LEN))

\* All that has arrived is taken out of the buffer before its length is known;
\* the name is copied as a C string.
ReadDomain(header, b) ==
  \/ b = << >> /\ Waits(b, "read_address") /\ UNCHANGED <<remote, target>>
  \/ b # << >> /\ b[1] = 0 /\ Closes /\ UNCHANGED <<remote, target>>
  \/ /\ b # << >> /\ b[1] > 0 /\ ~AddressArrived(Tail(b), b[1])
     /\ Waits(<< >>, "read_address") /\ UNCHANGED <<remote, target>>
  \/ /\ b # << >> /\ b[1] > 0 /\ AddressArrived(Tail(b), b[1])
     /\ Connect(header, Words!CString(SubSeq(b, 2, 1 + b[1])),
                SubSeq(b, 2 + b[1], 1 + b[1] + PORT_LEN),
                << >>)

\* read_address, which docks_connect_read calls too.
ReadAddress(header, b) ==
  /\ connect_header' = header
  /\ UNCHANGED <<method_count, replies>>
  /\ \/ header[4] # Words!DOMAINNAME /\ ReadIp(header, b)
     \/ header[4] = Words!DOMAINNAME /\ ReadDomain(header, b)

GoodHeader(h) == /\ h[1] = VERSION /\ h[3] = 0
                 /\ h[4] \in {Words!IPV4, Words!DOMAINNAME, Words!IPV6}

\* docks_connect_read.
ConnectRead(b) ==
  \/ /\ Len(b) < HEADER_LEN
     /\ Waits(b, read_cb) /\ UNCHANGED <<context, replies>>
  \/ /\ Len(b) >= HEADER_LEN /\ ~GoodHeader(b)
     /\ Closes /\ connect_header' = Prefix(b, HEADER_LEN)
     /\ UNCHANGED <<method_count, remote, target, replies>>
  \/ /\ Len(b) >= HEADER_LEN /\ GoodHeader(b)
     /\ ReadAddress(Prefix(b, HEADER_LEN), Drop(b, HEADER_LEN))

-----------------------------------------------------------------------------
(* The event (read.c), its client and the network.                         *)

ReadCallback(b) ==
  \/ read_cb = "read_methods" /\ ReadMethods(b)
  \/ read_cb = "read_methods_inner" /\ ReadMethodsInner(b, method_count)
  \/ read_cb = "auth_read" /\ AuthRead(b)
  \/ read_cb = "connect_read" /\ ConnectRead(b)
  \/ read_cb = "read_address" /\ ReadAddress(connect_header, b)

\* The weak spots: a domain name in two pieces, a login without any of its
\* password, a length that is negative as a char.
CutsDomain(b) ==
  LET header == IF read_cb = "connect_read" THEN b ELSE connect_header
      name   == IF read_cb = "connect_read" THEN Drop(b, HEADER_LEN) ELSE b
  IN  /\ read_cb \in {"connect_read", "read_address"}
      /\ name # << >> /\ header[4] = Words!DOMAINNAME
      /\ Len(name) < 1 + name[1] + PORT_LEN
CutsLogin(b) == read_cb = "auth_read" /\ Len(b) >= 2 /\ Len(b) = 2 + b[2]
LongLogin(b) ==
  /\ read_cb = "auth_read" /\ Len(b) >= 2
  /\ b[2] > CharMax \/ (Len(b) > 2 + b[2] /\ b[3 + b[2]] > CharMax)
Misleads(b) == CutsDomain(b) \/ CutsLogin(b) \/ LongLogin(b)

\* docket_on_event_read: a piece of n bytes.
Read(n) ==
  LET b == in \o Prefix(wire, n)
  IN  /\ event = "live" /\ ~ending
      /\ wire' = Drop(wire, n)
      /\ misled' = (misled \/ Misleads(b))
      /\ ReadCallback(b)
      /\ UNCHANGED <<users, script, sent, heard, ending>>

\* Nothing more to read for now: what the callbacks have written is sent.
Flush ==
  /\ event = "live" /\ ~ending /\ heard < Len(replies)
  /\ heard' = Len(replies)
  /\ UNCHANGED <<users, script, sent, wire, in, read_cb, event, context, replies, ending,
                 broken, misled>>

\* The end of the stream: what is left in the buffer is handed to the callback
\* once more, ...
EndLeft ==
  /\ event = "live" /\ ~ending /\ in # << >>
  /\ ending' = TRUE /\ misled' = (misled \/ Misleads(in))
  /\ ReadCallback(in)
  /\ UNCHANGED <<users, script, sent, wire, heard>>

\* ... and the event is closed, if there still is one, as it is when an answer
\* cannot be sent.  server_event_cb does nothing; the context of a client that
\* leaves is not freed.
End ==
  /\ event = "live" /\ (ending \/ in = << >> \/ heard < Len(replies))
  /\ Freed /\ ending' = TRUE /\ broken' = TRUE
  /\ UNCHANGED <<users, script, sent, wire, context, replies, heard, misled>>

\* The message the last answer asks for.
NextMessage ==
  IF replies = << >> THEN script.greeting
  ELSE IF Last(replies) = <<VERSION, Words!USERNAME_PASSWORD>> THEN script.login
  ELSE script.request

Rejected == replies # << >> /\ Last(replies)[2] \in {FAILURE, NO_ACCEPTABLE_METHODS}

\* A client sends a message when the one before is answered, and nothing more
\* when it is refused (as docks_on_read_UP).
ClientSends ==
  /\ event = "live" /\ ~ending
  /\ sent = heard /\ heard = Len(replies) /\ ~Rejected
  /\ sent' = sent + 1
  /\ wire' = wire \o NextMessage
  /\ UNCHANGED <<users, script, in, read_cb, event, context, replies, heard, ending,
                 broken, misled>>

Arrives == \E n \in 1..Len(wire) : Read(n)

Next == ClientSends \/ Arrives \/ Flush \/ EndLeft \/ End

\* The network delivers and the client goes on as long as neither leaves; that
\* anybody leaves is not assumed, but docket_on_event_read does not stop between
\* its last call and the closing of the event.
Spec == Init /\ [][Next]_vars
        /\ WF_vars(ClientSends) /\ WF_vars(Arrives) /\ WF_vars(Flush)
        /\ WF_vars(ending /\ End)

-----------------------------------------------------------------------------
(* Properties.                                                             *)

Byte == 0..255

TypeOK ==
  /\ sent \in 0..3
  /\ wire \in Seq(Byte) /\ in \in Seq(Byte)
  /\ read_cb \in {"read_methods", "read_methods_inner", "auth_read",
                  "connect_read", "read_address"}
  /\ event \in {"live", "freed"}
  /\ method_count \in Byte
  /\ connect_header \in Seq(Byte)
  /\ read_cb = "read_address" => Len(connect_header) = HEADER_LEN
  /\ replies \in Seq(Byte \X Byte) /\ Len(replies) <= sent /\ heard \in 0..Len(replies)
  /\ {remote, ending, broken, misled} \subseteq BOOLEAN
  /\ remote => target # NULL

\* The messages are as long as they say (as RFC 1928 and 1929 frame them): of
\* another one the rest, or the next message, is read in its place.
WholeMessages ==
  /\ \A g \in Greetings : Len(g) >= 2 /\ (g[1] = VERSION => Len(g) = 2 + g[2])
  /\ \A l \in Logins :
       /\ Len(l) >= 2
       /\ l[1] = 1 => Len(l) >= 3 + l[2] /\ Len(l) = 3 + l[2] + l[3 + l[2]]
  /\ \A r \in Requests :
       /\ Len(r) >= HEADER_LEN
       /\ GoodHeader(r) /\ r[4] = Words!DOMAINNAME =>
            Len(r) > HEADER_LEN /\ Len(r) = HEADER_LEN + 1 + r[5] + PORT_LEN
       /\ GoodHeader(r) /\ r[4] # Words!DOMAINNAME =>
            Len(r) = HEADER_LEN + Words!AddressLen(r[4]) + PORT_LEN

\* An answer is lost only when the client or the host is: when the server closes
\* of its own accord, everything it has answered has been sent, except the answer
\* that no method is acceptable, which is written and freed with the event.
AnswersHeard ==
  event = "freed" /\ ~broken /\ ~misled =>
    heard = Len(replies) \/ Last(replies) = <<VERSION, NO_ACCEPTABLE_METHODS>>

Stage ==
  IF misled THEN "misled"
  ELSE IF event = "freed" THEN "closed"
  ELSE IF remote THEN "connecting"
  ELSE IF target # NULL THEN "ignored"
  ELSE IF read_cb \in {"read_methods", "read_methods_inner"} THEN "greeting"
  ELSE IF read_cb = "auth_read" THEN "login"
  ELSE IF Last(replies) = <<1, FAILURE>> THEN "refused"
  ELSE "request"

\* Every variable has its type; a whole message is never left in the buffer, nor
\* half of one thrown away: when everything a client has sent has arrived, the
\* server is not waiting for more of it, unless it has been misled.
NothingHeldBack ==
  /\ TypeOK
  /\ wire = << >> /\ Stage \in {"greeting", "login", "request"} => sent = Len(replies)

\* The server moves on as a function of whole messages, wherever they are cut:
\* it closes, refuses, ignores or connects for the reason the message gives,
\* and connects to the host and port the request names.  After a cut at a weak
\* spot nothing is promised.
Whole == INSTANCE Dialogue WITH stage <- Stage,
                                target <- IF remote THEN target ELSE NULL
ImplementsDialogue == Whole!Spec

\* A client is not kept waiting: unless a command is ignored or the client
\* refused or misread, the server connects for it or closes.
Concludes == <>(Stage \notin {"greeting", "login", "request"})
=============================================================================

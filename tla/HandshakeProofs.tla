---------------------------- MODULE HandshakeProofs ----------------------------
(***************************************************************************)
(* However the messages of a client are cut: when they are framed as SOCKS *)
(* frames them the docks server holds nothing back, its handshake          *)
(* implements the dialogue of whole messages, and it closes only when its  *)
(* answers have been heard.                                                *)
(*                                                                         *)
(* For that one has to know where in the conversation it is: what has been *)
(* received and what is still on the wire are together the rest of the     *)
(* script after what the read callback has taken (At), what has been       *)
(* received is less than the callback waits for (Short), and a client      *)
(* speaks when it has heard the answer to what it said before (InTurn).    *)
(***************************************************************************)
EXTENDS Handshake, StreamProofs, FiniteSetTheorems

\* What the buffers hold is bytes.
Buffered == wire \in Seq(Byte) /\ in \in Seq(Byte)

\* What every run of a callback leaves in the in_buffer.
EndsWell == in' \in Seq(Byte)

-----------------------------------------------------------------------------
LEMMA Pieces ==
  ASSUME NEW b \in Seq(Byte), NEW k \in Nat
  PROVE  Drop(b, k) \in Seq(Byte) /\ (k <= Len(b) => Prefix(b, k) \in Seq(Byte))
<1>1. \A i \in 1..Len(b) : b[i] \in Byte
  BY ElementOfSeq
<1>2. SubSeq(b, k + 1, Len(b)) \in Seq(Byte)
  BY <1>1, SubSeqProperties, LenProperties
<1>3. k <= Len(b) => SubSeq(b, 1, k) \in Seq(Byte)
  BY <1>1, SubSeqProperties, LenProperties
<1> QED
  BY <1>2, <1>3 DEF Drop, Prefix

LEMMA ByteIsNat ==
  ASSUME NEW x \in Byte
  PROVE  x \in Nat
  BY DEF Byte

LEMMA Bytes ==
  ASSUME NEW b \in Seq(Byte), NEW i \in Nat, 0 < i, i <= Len(b)
  PROVE  b[i] \in Nat
<1>1. i \in 1..Len(b)
  BY LenProperties
<1>2. b[i] \in Byte
  BY <1>1, ElementOfSeq
<1> QED
  BY <1>2, ByteIsNat

LEMMA WaitsWell ==
  ASSUME NEW b \in Seq(Byte), NEW cb, Waits(b, cb)
  PROVE  EndsWell
  BY DEF Waits, EndsWell

LEMMA ClosesWell ==
  ASSUME Closes
  PROVE  EndsWell
  BY EmptySeq DEF Closes, Freed, EndsWell

\* A C string is a piece of the bytes it is read from.
LEMMA CStringType ==
  ASSUME NEW b \in Seq(Byte)
  PROVE  Words!CString(b) \in Seq(Byte)
<1> DEFINE I == {i \in 1..Len(b) : \A j \in 1..i : b[j] # 0}
           k == Cardinality(I)
<1>1. Len(b) \in Nat
  BY LenProperties
<1>2. IsFiniteSet(1..Len(b)) /\ Cardinality(1..Len(b)) = Len(b)
  BY <1>1, FS_Interval
<1>3. k \in Nat /\ k <= Len(b)
  <2>1. I \subseteq 1..Len(b)
    OBVIOUS
  <2> HIDE DEF I
  <2> QED
    BY <1>1, <1>2, <2>1, FS_Subset, FS_CardinalityType
<1> HIDE DEF k
<1>4. SubSeq(b, 1, k) \in Seq(Byte)
  BY <1>3, Pieces DEF Prefix
<1>5. Words!CString(b) = SubSeq(b, 1, k)
  BY Zenon DEF Words!CString, k, Words!Cardinality, Cardinality
<1> QED
  BY <1>4, <1>5

-----------------------------------------------------------------------------
(* The greeting and the login.                                             *)

LEMMA MethodsInnerWell ==
  ASSUME NEW b \in Seq(Byte), NEW count \in Nat, ReadMethodsInner(b, count)
  PROVE  EndsWell
<1>1. CASE Waits(b, "read_methods_inner")
  BY <1>1, WaitsWell
<1>2. CASE Closes
  BY <1>2, ClosesWell
<1>3. CASE Choose(b, count) /\ count <= Len(b)
  <2>1. Drop(b, count) \in Seq(Byte)
    BY Pieces
  <2>2. \/ Closes
        \/ \E method : Waits(Drop(b, count), Reader(method))
    BY <1>3 DEF Choose, Replies
  <2> QED
    BY <2>1, <2>2, WaitsWell, ClosesWell
<1> QED
  BY <1>1, <1>2, <1>3, LenProperties DEF ReadMethodsInner

LEMMA MethodsWell ==
  ASSUME NEW b \in Seq(Byte), ReadMethods(b)
  PROVE  EndsWell
<1>1. CASE Waits(b, read_cb)
  BY <1>1, WaitsWell
<1>2. CASE Closes
  BY <1>2, ClosesWell
<1>3. CASE Len(b) >= 2 /\ ReadMethodsInner(Drop(b, 2), b[2])
  <2>1. b[2] \in Nat
    BY <1>3, Bytes
  <2>2. Drop(b, 2) \in Seq(Byte)
    BY Pieces
  <2> QED
    BY <1>3, <2>1, <2>2, MethodsInnerWell
<1> QED
  BY <1>1, <1>2, <1>3 DEF ReadMethods

LEMMA LoginWell ==
  ASSUME NEW b \in Seq(Byte), NEW name, NEW rest \in Seq(Byte), Login(b, name, rest)
  PROVE  EndsWell
<1>1. CASE UnreadPassword(b, name)
  BY <1>1, WaitsWell DEF UnreadPassword, Replies
<1>2. CASE Waits(b, read_cb)
  BY <1>2, WaitsWell
<1>3. CASE /\ rest # << >>
           /\ Waits(Drop(Tail(rest), Head(rest)), "connect_read")
  <2>1. Tail(rest) \in Seq(Byte) /\ Head(rest) \in Byte
    BY <1>3, HeadTailProperties
  <2>2. Head(rest) \in Nat
    BY <2>1, ByteIsNat
  <2>3. Drop(Tail(rest), Head(rest)) \in Seq(Byte)
    BY <2>1, <2>2, Pieces
  <2> QED
    BY <1>3, <2>3, WaitsWell
<1> QED
  BY <1>1, <1>2, <1>3 DEF Login, Replies

LEMMA AuthWell ==
  ASSUME NEW b \in Seq(Byte), AuthRead(b)
  PROVE  EndsWell
<1>1. CASE Waits(b, read_cb)
  BY <1>1, WaitsWell
<1>2. CASE Closes
  BY <1>2, ClosesWell
<1>3. CASE Len(b) >= 2 /\ Login(b, SubSeq(b, 3, 2 + b[2]), Drop(b, 2 + b[2]))
  <2>1. b[2] \in Nat
    BY <1>3, Bytes
  <2>2. 2 + b[2] \in Nat
    BY <2>1
  <2>3. Drop(b, 2 + b[2]) \in Seq(Byte)
    BY <2>2, Pieces
  <2> QED
    BY <1>3, <2>3, LoginWell
<1> QED
  BY <1>1, <1>2, <1>3 DEF AuthRead

-----------------------------------------------------------------------------
(* The request.                                                            *)

LEMMA ConnectWell ==
  ASSUME NEW header, NEW host, NEW port, NEW b \in Seq(Byte),
         Connect(header, host, port, b)
  PROVE  EndsWell
<1>1. CASE Waits(b, "read_address")
  BY <1>1, WaitsWell
<1>2. CASE Freed
  BY <1>2, EmptySeq DEF Freed, EndsWell
<1> QED
  BY <1>1, <1>2 DEF Connect

LEMMA IpWell ==
  ASSUME NEW header, NEW b \in Seq(Byte),
         ReadIp(header, b)
  PROVE  EndsWell
<1> DEFINE n == Words!AddressLen(header[4])
<1>1. CASE Waits(b, "read_address")
  BY <1>1, WaitsWell
<1>2. CASE Connect(header, Prefix(b, n), SubSeq(b, n + 1, n + PORT_LEN),
                   Drop(b, n + PORT_LEN))
  <2>1. n + PORT_LEN \in Nat
    BY DEF Words!AddressLen, PORT_LEN
  <2>2. Drop(b, n + PORT_LEN) \in Seq(Byte)
    BY <2>1, Pieces
  <2> QED
    BY <1>2, <2>2, ConnectWell
<1> QED
  BY <1>1, <1>2 DEF ReadIp

LEMMA DomainWell ==
  ASSUME NEW header, NEW b \in Seq(Byte),
         ReadDomain(header, b)
  PROVE  EndsWell
<1>1. CASE Waits(b, "read_address") \/ Waits(<< >>, "read_address")
  BY <1>1, EmptySeq, WaitsWell
<1>2. CASE Closes
  BY <1>2, ClosesWell
<1>3. CASE Connect(header, Words!CString(SubSeq(b, 2, 1 + b[1])), SubSeq(b, 2 + b[1], 1 + b[1] + PORT_LEN),
                   << >>)
  BY <1>3, EmptySeq, ConnectWell
<1> QED
  BY <1>1, <1>2, <1>3 DEF ReadDomain

LEMMA AddressWell ==
  ASSUME NEW header, NEW b \in Seq(Byte),
         ReadAddress(header, b)
  PROVE  EndsWell
<1> QED
  BY IpWell, DomainWell DEF ReadAddress

LEMMA ConnectReadWell ==
  ASSUME NEW b \in Seq(Byte), ConnectRead(b), read_cb = "connect_read"
  PROVE  EndsWell
<1>1. CASE Waits(b, read_cb)
  BY <1>1, WaitsWell
<1>2. CASE Closes
  BY <1>2, ClosesWell
<1>3. CASE /\ Len(b) >= HEADER_LEN
           /\ ReadAddress(Prefix(b, HEADER_LEN), Drop(b, HEADER_LEN))
  <2>1. Drop(b, HEADER_LEN) \in Seq(Byte)
    BY Pieces DEF HEADER_LEN
  <2> QED
    BY <1>3, <2>1, AddressWell
<1> QED
  BY <1>1, <1>2, <1>3 DEF ConnectRead

LEMMA CallbackWell ==
  ASSUME NEW b \in Seq(Byte), ReadCallback(b), method_count \in Nat
  PROVE  EndsWell
<1>1. CASE read_cb = "read_address" /\ ReadAddress(connect_header, b)
  BY <1>1, AddressWell
<1> QED
  BY <1>1, MethodsWell, MethodsInnerWell, AuthWell, ConnectReadWell DEF ReadCallback
-----------------------------------------------------------------------------
(* Steps.                                                                  *)

\* The count of methods is a byte.
Counted == method_count \in Nat

LEMMA StillCounted ==
  ASSUME NEW b \in Seq(Byte), ReadCallback(b), Counted
  PROVE  Counted'
<1>1. CASE read_cb = "read_methods" /\ ReadMethods(b)
  <2>1. Len(b) >= 2 => b[2] \in Nat
    BY Bytes
  <2> QED
    BY <1>1, <2>1 DEF ReadMethods, ReadMethodsInner, Counted, context
<1>2. CASE read_cb = "read_methods_inner" /\ ReadMethodsInner(b, method_count)
  BY <1>2 DEF ReadMethodsInner, Counted
<1>3. CASE read_cb = "auth_read" /\ AuthRead(b)
  BY <1>3 DEF AuthRead, Counted, context
<1>4. CASE read_cb = "connect_read" /\ ConnectRead(b)
  BY <1>4 DEF ConnectRead, ReadAddress, Counted, context
<1>5. CASE read_cb = "read_address" /\ ReadAddress(connect_header, b)
  BY <1>5 DEF ReadAddress, Counted
<1> QED
  BY <1>1, <1>2, <1>3, <1>4, <1>5 DEF ReadCallback

Scripted == script \in [greeting : Greetings, login : Logins, request : Requests]

Inv == Buffered /\ Counted /\ Scripted

LEMMA InitInv == Init => Inv
<1> SUFFICES ASSUME Init PROVE Inv
  OBVIOUS
<1>1. << >> \in Seq(Byte)
  OBVIOUS
<1>2. wire = << >> /\ in = << >> /\ method_count = 0 /\ Scripted
  BY DEF Init, Scripted
<1> QED
  BY <1>1, <1>2 DEF Inv, Buffered, Counted

LEMMA ReadInv ==
  ASSUME Inv, NEW n \in 1..Len(wire), Read(n)
  PROVE  Inv'
<1>1. wire \in Seq(Byte) /\ in \in Seq(Byte) /\ n \in Nat /\ n <= Len(wire)
  BY LenProperties DEF Inv, Buffered, Read
<1>2. Prefix(wire, n) \in Seq(Byte) /\ Drop(wire, n) \in Seq(Byte)
  BY <1>1, Pieces
<1>3. in \o Prefix(wire, n) \in Seq(Byte)
  BY <1>1, <1>2, ConcatProperties
<1>4. ReadCallback(in \o Prefix(wire, n)) /\ wire' = Drop(wire, n)
  BY DEF Read
<1>5. EndsWell /\ Counted'
  BY <1>1, <1>3, <1>4, CallbackWell, StillCounted DEF Inv, Counted
<1>6. Scripted'
  BY DEF Inv, Scripted, Read
<1> QED
  BY <1>2, <1>4, <1>5, <1>6 DEF Inv, Buffered, EndsWell

LEMMA EndLeftInv == Inv /\ EndLeft => Inv'
<1> SUFFICES ASSUME Inv, EndLeft PROVE Inv'
  OBVIOUS
<1>1. wire \in Seq(Byte) /\ in \in Seq(Byte) /\ wire' = wire
  BY DEF Inv, Buffered, EndLeft
<1>2. EndsWell /\ Counted'
  BY <1>1, CallbackWell, StillCounted DEF Inv, Counted, EndLeft
<1>3. Scripted'
  BY DEF Inv, Scripted, EndLeft
<1> QED
  BY <1>1, <1>2, <1>3 DEF Inv, Buffered, EndsWell

LEMMA ClientSendsInv == Inv /\ ClientSends => Inv'
<1> SUFFICES ASSUME Inv, ClientSends PROVE Inv'
  OBVIOUS
<1>1. NextMessage \in Seq(Byte)
  BY HandshakeAssumption DEF NextMessage, Byte, Inv, Scripted
<1>2. wire' \in Seq(Byte)
  BY <1>1, ConcatProperties DEF ClientSends, Inv, Buffered
<1> QED
  BY <1>2 DEF ClientSends, Inv, Buffered, Counted, Scripted, context

LEMMA FlushInv == Inv /\ Flush => Inv'
  BY DEF Flush, Inv, Buffered, Counted, Scripted, context

LEMMA EndInv == Inv /\ End => Inv'
<1> SUFFICES ASSUME Inv, End PROVE Inv'
  OBVIOUS
<1>1. << >> \in Seq(Byte)
  OBVIOUS
<1> QED
  BY <1>1 DEF End, Freed, Inv, Buffered, Counted, Scripted, context

LEMMA InvNext == Inv /\ [Next]_vars => Inv'
<1> SUFFICES ASSUME Inv, [Next]_vars PROVE Inv'
  OBVIOUS
<1>1. CASE UNCHANGED vars
  BY <1>1 DEF vars, context, Inv, Buffered, Counted, Scripted
<1>2. CASE Arrives
  BY <1>2, ReadInv DEF Arrives
<1> QED
  BY <1>1, <1>2, ClientSendsInv, FlushInv, EndLeftInv, EndInv DEF Next

-----------------------------------------------------------------------------
(* Types: what every run of a callback leaves, wherever its message was    *)
(* cut.                                                                    *)

Callbacks == {"read_methods", "read_methods_inner", "auth_read", "connect_read", "read_address"}

Kinds ==
  /\ read_cb' \in Callbacks /\ event' \in {"live", "freed"}
  /\ method_count' \in Byte /\ connect_header' \in Seq(Byte)
  /\ read_cb' = "read_address" => Len(connect_header') = HEADER_LEN
  /\ remote' \in BOOLEAN /\ broken' \in BOOLEAN
  /\ remote' => target' # NULL
  /\ \/ replies' = replies
     \/ /\ read_cb \in {"read_methods", "read_methods_inner", "auth_read"}
        /\ \E r \in Byte \X Byte : replies' = Append(replies, r)

LEMMA Values ==
  /\ VERSION = 5 /\ Words!USERNAME_PASSWORD = 2 /\ Words!NO_AUTHENTICATION_REQUIRED = 0
  /\ NO_ACCEPTABLE_METHODS = 255 /\ HEADER_LEN = 4 /\ PORT_LEN = 2
  /\ SUCCESS = 0 /\ FAILURE = 255
  /\ Words!IPV4 = 1 /\ Words!DOMAINNAME = 3 /\ Words!IPV6 = 4
  BY DEF VERSION, Words!VERSION, Words!USERNAME_PASSWORD, Words!NO_AUTHENTICATION_REQUIRED,
         NO_ACCEPTABLE_METHODS, HEADER_LEN, PORT_LEN, SUCCESS, FAILURE,
         Words!IPV4, Words!DOMAINNAME, Words!IPV6

LEMMA AByte ==
  ASSUME NEW b \in Seq(Byte), NEW i \in Nat, 0 < i, i <= Len(b)
  PROVE  b[i] \in Byte /\ b[i] \in Nat
<1>1. i \in 1..Len(b)
  BY LenProperties
<1> QED
  BY <1>1, ElementOfSeq, Bytes

LEMMA VerdictByte == \A v \in {SUCCESS, FAILURE} : <<1, v>> \in Byte \X Byte
<1>1. 1 \in Byte /\ SUCCESS \in Byte /\ FAILURE \in Byte
  BY Values DEF Byte
<1> QED
  BY <1>1

LEMMA NegotiatedByte == \A s : <<VERSION, Negotiated(s)>> \in Byte \X Byte
<1>1. 5 \in Byte /\ 0 \in Byte /\ 2 \in Byte /\ 255 \in Byte
  BY DEF Byte
<1>2. \A s : Negotiated(s) \in Byte /\ VERSION \in Byte
  BY <1>1, Values DEF Negotiated
<1> QED
  BY <1>2

LEMMA MethodsInnerKinds ==
  ASSUME TypeOK, NEW b \in Seq(Byte), NEW count \in Byte, ReadMethodsInner(b, count),
         read_cb \in {"read_methods", "read_methods_inner"}
  PROVE  Kinds
<1> USE DEF Kinds, Callbacks
<1>1. /\ method_count' \in Byte /\ connect_header' \in Seq(Byte) /\ remote' \in BOOLEAN
      /\ broken' \in BOOLEAN /\ (remote' => target' # NULL)
  <2>1. broken' = broken
    BY DEF ReadMethodsInner, Choose, Replies, Waits, Closes, Freed
  <2> QED
    BY <2>1 DEF ReadMethodsInner, TypeOK
<1>2. CASE Waits(b, "read_methods_inner") /\ UNCHANGED replies
  BY <1>1, <1>2 DEF Waits, TypeOK
<1>3. CASE Closes /\ UNCHANGED replies
  BY <1>1, <1>3 DEF Closes, Freed, TypeOK
<1>4. CASE Choose(b, count)
  <2>1. PICK m : /\ <<VERSION, m>> \in Byte \X Byte
                 /\ replies' = Append(replies, <<VERSION, m>>)
                 /\ Waits(Drop(b, count), Reader(m)) \/ Closes
    BY <1>4, NegotiatedByte DEF Choose, Replies
  <2>2. read_cb' \in Callbacks \ {"read_address"} /\ event' \in {"live", "freed"}
    BY <2>1 DEF Waits, Closes, Freed, TypeOK, Reader
  <2> QED
    BY <1>1, <2>1, <2>2
<1> QED
  BY <1>2, <1>3, <1>4 DEF ReadMethodsInner

LEMMA MethodsKinds ==
  ASSUME TypeOK, NEW b \in Seq(Byte), ReadMethods(b), read_cb = "read_methods"
  PROVE  Kinds
<1>1. CASE Waits(b, read_cb) /\ UNCHANGED <<context, replies>>
  BY <1>1 DEF Kinds, Callbacks, Waits, TypeOK, context
<1>2. CASE Closes /\ UNCHANGED <<context, replies>>
  BY <1>2 DEF Kinds, Callbacks, Closes, Freed, TypeOK, context
<1>3. CASE Len(b) >= 2 /\ ReadMethodsInner(Drop(b, 2), b[2])
  <2>1. b[2] \in Byte
    BY <1>3, AByte
  <2>2. Drop(b, 2) \in Seq(Byte)
    BY Pieces
  <2> QED
    BY <1>3, <2>1, <2>2, MethodsInnerKinds
<1> QED
  BY <1>1, <1>2, <1>3 DEF ReadMethods

LEMMA AuthKinds ==
  ASSUME TypeOK, NEW b \in Seq(Byte), AuthRead(b), read_cb = "auth_read"
  PROVE  Kinds
<1> DEFINE rest == Drop(b, 2 + b[2])
           name == SubSeq(b, 3, 2 + b[2])
<1>1. UNCHANGED context
  BY DEF AuthRead
<1>2. CASE Waits(b, read_cb) /\ UNCHANGED replies
  BY <1>1, <1>2 DEF Kinds, Callbacks, Waits, TypeOK, context
<1>3. CASE Closes /\ UNCHANGED replies
  BY <1>1, <1>3 DEF Kinds, Callbacks, Closes, Freed, TypeOK, context
<1>4. ASSUME NEW verdict \in {SUCCESS, FAILURE}, NEW c,
             Replies(<<1, verdict>>, c, "connect_read")
      PROVE  Kinds
  <2>1. <<1, verdict>> \in Byte \X Byte
    BY <1>4, VerdictByte
  <2> QED
    BY <1>1, <1>4, <2>1 DEF Kinds, Callbacks, Replies, Waits, TypeOK, context
<1>5. CASE UnreadPassword(b, name)
  BY <1>4, <1>5 DEF UnreadPassword
<1>6. CASE Replies(<<1, Verdict(name, Prefix(Tail(rest), Head(rest)))>>,
                   Drop(Tail(rest), Head(rest)), "connect_read")
  <2>1. Verdict(name, Prefix(Tail(rest), Head(rest))) \in {SUCCESS, FAILURE}
    BY DEF Verdict
  <2> QED
    BY <1>4, <1>6, <2>1
<1> QED
  BY <1>2, <1>3, <1>5, <1>6 DEF AuthRead, Login

LEMMA TargetSet ==
  ASSUME NEW host \in Seq(Byte), NEW port \in Seq(Byte), Len(port) = 2,
         NEW header, NEW b, Connect(header, host, port, b)
  PROVE  target' # NULL
<1>1. 1 \in Nat /\ 2 \in Nat /\ 0 < 1 /\ 0 < 2 /\ 1 <= Len(port) /\ 2 <= Len(port)
  OBVIOUS
<1>2. port[1] \in Nat /\ port[2] \in Nat
  BY <1>1, Bytes, Zenon
<1>3. Words!Uint16(port) \in Nat
  BY <1>2 DEF Words!Uint16
<1>4. target' \in [host : Seq(Byte), port : Nat]
  BY <1>3 DEF Connect
<1> QED
  BY <1>4, HandshakeAssumption DEF Byte

LEMMA ConnectKinds ==
  ASSUME TypeOK, read_cb \in {"connect_read", "read_address"},
         NEW header \in Seq(Byte), Len(header) = HEADER_LEN, connect_header' = header,
         UNCHANGED <<method_count, replies>>,
         NEW host \in Seq(Byte), NEW port \in Seq(Byte), Len(port) = PORT_LEN,
         NEW b, Connect(header, host, port, b)
  PROVE  Kinds
<1>1. target' # NULL
  BY TargetSet, Values
<1> QED
  BY <1>1 DEF Connect, Kinds, Callbacks, Waits, Freed, TypeOK

LEMMA AddressLenIs ==
  \A a : Words!AddressLen(a) \in {4, 16}
  BY DEF Words!AddressLen

LEMMA Between ==
  ASSUME NEW b \in Seq(Byte), NEW i \in Nat, NEW j \in Nat, 0 < i, i <= j + 1, j <= Len(b)
  PROVE  /\ SubSeq(b, i, j) \in Seq(Byte) /\ Len(SubSeq(b, i, j)) = j - i + 1
         /\ \A k \in 1..j - i + 1 : SubSeq(b, i, j)[k] = b[i + k - 1]
<1>1. \A k \in i..j : b[k] \in Byte
  BY ElementOfSeq, LenProperties
<1>2. /\ SubSeq(b, i, j) \in Seq(Byte)
      /\ Len(SubSeq(b, i, j)) = IF i <= j THEN j - i + 1 ELSE 0
      /\ \A k \in 1..j - i + 1 : SubSeq(b, i, j)[k] = b[i + k - 1]
  BY <1>1, SubSeqProperties
<1> QED
  BY <1>2

LEMMA AddressKinds ==
  ASSUME TypeOK, read_cb \in {"connect_read", "read_address"},
         NEW header \in Seq(Byte), Len(header) = HEADER_LEN,
         NEW b \in Seq(Byte), ReadAddress(header, b)
  PROVE  Kinds
<1>1. connect_header' = header /\ UNCHANGED <<method_count, replies>>
  BY DEF ReadAddress
<1>2. ASSUME NEW c, Waits(c, "read_address") /\ UNCHANGED <<remote, target>>
      PROVE  Kinds
  BY <1>1, <1>2 DEF Kinds, Callbacks, Waits, TypeOK
<1>3. CASE Closes /\ UNCHANGED <<remote, target>>
  BY <1>1, <1>3 DEF Kinds, Callbacks, Closes, Freed, TypeOK
<1>4. CASE ReadIp(header, b)
  <2> DEFINE n == Words!AddressLen(header[4])
  <2>1. n \in {4, 16}
    BY AddressLenIs
  <2> HIDE DEF n
  <2>2. CASE /\ AddressArrived(b, n)
             /\ Connect(header, Prefix(b, n), SubSeq(b, n + 1, n + PORT_LEN),
                        Drop(b, n + PORT_LEN))
    <3>1. n + 2 <= Len(b) /\ Len(b) \in Nat
      BY <2>2, LenProperties, Values DEF AddressArrived
    <3>2. SubSeq(b, 1, n) \in Seq(Byte) /\ SubSeq(b, n + 1, n + 2) \in Seq(Byte)
          /\ Len(SubSeq(b, n + 1, n + 2)) = 2
      BY <2>1, <3>1, Between
    <3> QED
      BY <1>1, <2>2, <3>2, Values, ConnectKinds DEF Prefix
  <2> QED
    BY <1>2, <1>4, <2>2 DEF ReadIp, n
<1>5. CASE ReadDomain(header, b)
  <2>1. CASE /\ b # << >> /\ b[1] > 0 /\ AddressArrived(Tail(b), b[1])
             /\ Connect(header, Words!CString(SubSeq(b, 2, 1 + b[1])), SubSeq(b, 2 + b[1], 1 + b[1] + PORT_LEN),
                        << >>)
    <3>1. Len(b) \in Nat /\ Len(b) >= 1 /\ Len(Tail(b)) = Len(b) - 1
      BY <2>1, LenProperties, EmptySeq, HeadTailProperties
    <3>2. b[1] \in Nat
      BY <3>1, AByte
    <3>3. 1 + b[1] + 2 <= Len(b)
      BY <2>1, <3>1, <3>2, Values DEF AddressArrived
    <3>4. SubSeq(b, 2, 1 + b[1]) \in Seq(Byte) /\ SubSeq(b, 2 + b[1], 1 + b[1] + 2) \in Seq(Byte)
          /\ Len(SubSeq(b, 2 + b[1], 1 + b[1] + 2)) = 2
      <4>1. \A i \in Nat : \A j \in Nat : 0 < i /\ i <= j + 1 /\ j <= Len(b) =>
              SubSeq(b, i, j) \in Seq(Byte) /\ Len(SubSeq(b, i, j)) = j - i + 1
        BY Between
      <4> DEFINE m == b[1]
      <4>2. m \in Nat /\ m + 3 <= Len(b)
        BY <3>2, <3>3
      <4> HIDE DEF m
      <4>3. SubSeq(b, 2, 1 + m) \in Seq(Byte)
        BY <3>1, <4>1, <4>2
      <4>4. SubSeq(b, 2 + m, 1 + m + 2) \in Seq(Byte) /\ Len(SubSeq(b, 2 + m, 1 + m + 2)) = 2
        <5>1. /\ SubSeq(b, 2 + m, 1 + m + 2) \in Seq(Byte)
              /\ Len(SubSeq(b, 2 + m, 1 + m + 2)) = (1 + m + 2) - (2 + m) + 1
          BY <3>1, <4>1, <4>2
        <5> QED
          BY <4>2, <5>1
      <4> QED
        BY <4>3, <4>4 DEF m
    <3>5. Words!CString(SubSeq(b, 2, 1 + b[1])) \in Seq(Byte)
      BY <3>4, CStringType
    <3> QED
      BY <1>1, <2>1, <3>4, <3>5, Values, ConnectKinds
  <2> QED
    BY <1>2, <1>3, <1>5, <2>1 DEF ReadDomain
<1> QED
  BY <1>4, <1>5 DEF ReadAddress

LEMMA ConnectReadKinds ==
  ASSUME TypeOK, NEW b \in Seq(Byte), ConnectRead(b), read_cb = "connect_read"
  PROVE  Kinds
<1>0. Len(b) >= HEADER_LEN =>
        Prefix(b, HEADER_LEN) \in Seq(Byte) /\ Len(Prefix(b, HEADER_LEN)) = HEADER_LEN
  BY Between, Values, LenProperties DEF Prefix
<1>1. CASE Waits(b, read_cb) /\ UNCHANGED <<context, replies>>
  BY <1>1 DEF Kinds, Callbacks, Waits, TypeOK, context
<1>2. CASE /\ Len(b) >= HEADER_LEN
           /\ Closes /\ connect_header' = Prefix(b, HEADER_LEN)
           /\ UNCHANGED <<method_count, remote, target, replies>>
  BY <1>0, <1>2 DEF Kinds, Callbacks, Closes, Freed, TypeOK
<1>3. CASE /\ Len(b) >= HEADER_LEN
           /\ ReadAddress(Prefix(b, HEADER_LEN), Drop(b, HEADER_LEN))
  <2>1. Drop(b, HEADER_LEN) \in Seq(Byte)
    BY Pieces, Values
  <2> QED
    BY <1>0, <1>3, <2>1, AddressKinds
<1> QED
  BY <1>1, <1>2, <1>3 DEF ConnectRead

LEMMA CallbackKinds ==
  ASSUME TypeOK, NEW b \in Seq(Byte), ReadCallback(b)
  PROVE  Kinds
<1>1. CASE read_cb = "read_methods_inner" /\ ReadMethodsInner(b, method_count)
  BY <1>1, MethodsInnerKinds DEF TypeOK
<1>2. CASE read_cb = "read_address" /\ ReadAddress(connect_header, b)
  BY <1>2, AddressKinds DEF TypeOK
<1> QED
  BY <1>1, <1>2, MethodsKinds, AuthKinds, ConnectReadKinds DEF ReadCallback

-----------------------------------------------------------------------------
(* Where the server is in what it reads.  `s` is what it has still to read *)
(* of the message that is under way, the in_buffer first.                  *)

Idle(s) == sent = Len(replies) /\ s = << >>
Pends(m, s) == sent = Len(replies) + 1 /\ s = m

\* A message is under way as a whole, or from behind what has been taken of it;
\* a greeting and a login stay in the buffer until they are there.
At(s) ==
  /\ read_cb = "read_methods" =>
       replies = << >> /\ (Idle(s) \/ Pends(script.greeting, s))
  /\ read_cb = "read_methods_inner" =>
       /\ replies = << >> /\ Pends(Drop(script.greeting, 2), s)
       /\ script.greeting[1] = VERSION /\ method_count = script.greeting[2]
  /\ read_cb = "auth_read" =>
       /\ replies = <<<<VERSION, Words!USERNAME_PASSWORD>>>>
       /\ Idle(s) \/ Pends(script.login, s)
  /\ read_cb \in {"read_methods", "read_methods_inner", "auth_read"} =>
       target = NULL /\ remote = FALSE
  /\ read_cb = "connect_read" /\ ~misled =>
       /\ target = NULL /\ remote = FALSE
       /\ replies # << >>
       /\ Last(replies) \in {<<VERSION, 0>>, <<1, SUCCESS>>, <<1, FAILURE>>}
       /\ \/ Idle(s)
          \/ Pends(script.request, s) /\ Last(replies) # <<1, FAILURE>>
  /\ read_cb = "read_address" /\ ~misled =>
       \/ /\ target = NULL /\ remote = FALSE
          /\ GoodHeader(script.request)
          /\ connect_header = Prefix(script.request, HEADER_LEN)
          /\ Pends(Drop(script.request, HEADER_LEN), s)
          /\ Last(replies) # <<1, FAILURE>>
       \/ target # NULL /\ sent = Len(replies) + 1 /\ s = << >>

\* What is in the buffer is too short for its callback.
Short(b) ==
  /\ read_cb = "read_methods" => Len(b) < 2
  /\ read_cb = "read_methods_inner" => Len(b) < method_count
  /\ read_cb = "auth_read" /\ ~misled /\ Len(b) >= 2 =>
       /\ b[1] = 1 /\ b[2] <= CharMax
       /\ \/ Len(b) < 2 + b[2]
          \/ Len(b) > 2 + b[2] /\ Len(b) < 3 + b[2] + b[3 + b[2]]
  /\ read_cb = "connect_read" /\ ~misled => Len(b) < HEADER_LEN
  /\ read_cb = "read_address" /\ ~misled /\ target = NULL =>
       /\ connect_header[4] = Words!DOMAINNAME => b = << >>
       /\ connect_header[4] # Words!DOMAINNAME =>
            Len(b) < Words!AddressLen(connect_header[4]) + PORT_LEN

Counts == TypeOK /\ sent <= Len(replies) + 1 /\ Len(replies) <= 2
Lives == event = "live" => At(in \o wire) /\ Short(in)
Place == Counts /\ Lives

\* A client speaks when it has heard all the answers it was given.
InTurn == sent > Len(replies) => heard = Len(replies)
Heard == InTurn /\ AnswersHeard

\* A step of the dialogue, or none.
Turn == [Whole!Next]_(Whole!vars)

-----------------------------------------------------------------------------
(* Stages and turns.                                                       *)

LEMMA StageIs ==
  /\ misled => Stage = "misled"
  /\ ~misled /\ event = "freed" => Stage = "closed"
  /\ ~misled /\ event = "live" /\ remote = TRUE => Stage = "connecting"
  /\ ~misled /\ event = "live" /\ remote = FALSE /\ target # NULL => Stage = "ignored"
  /\ ~misled /\ event = "live" /\ remote = FALSE /\ target = NULL =>
       /\ read_cb \in {"read_methods", "read_methods_inner"} => Stage = "greeting"
       /\ read_cb = "auth_read" => Stage = "login"
       /\ read_cb \in {"connect_read", "read_address"} =>
            Stage = IF Last(replies) = <<1, FAILURE>> THEN "refused" ELSE "request"
  BY DEF Stage

LEMMA StageBecomes ==
  /\ misled' => Stage' = "misled"
  /\ ~misled' /\ event' = "freed" => Stage' = "closed"
  /\ ~misled' /\ event' = "live" /\ remote' = TRUE => Stage' = "connecting"
  /\ ~misled' /\ event' = "live" /\ remote' = FALSE /\ target' # NULL => Stage' = "ignored"
  /\ ~misled' /\ event' = "live" /\ remote' = FALSE /\ target' = NULL =>
       /\ read_cb' \in {"read_methods", "read_methods_inner"} => Stage' = "greeting"
       /\ read_cb' = "auth_read" => Stage' = "login"
       /\ read_cb' \in {"connect_read", "read_address"} =>
            Stage' = IF Last(replies') = <<1, FAILURE>> THEN "refused" ELSE "request"
  BY DEF Stage

LEMMA NoTurn ==
  ASSUME Stage' = Stage, UNCHANGED <<users, script, broken, remote, target>>
  PROVE  Turn
  BY DEF Turn, Whole!vars

LEMMA MisledTurn ==
  ASSUME misled'
  PROVE  Turn
  BY StageBecomes DEF Turn, Whole!Next, Whole!Mislead

LEMMA GreetTurn ==
  ASSUME Stage = "greeting", Stage' = Whole!AfterGreeting(script.greeting),
         UNCHANGED <<users, script, broken, remote, target>>
  PROVE  Turn
  BY DEF Turn, Whole!Next, Whole!Greet

LEMMA LoginTurn ==
  ASSUME Stage = "login", Stage' = Whole!AfterLogin(script.login),
         UNCHANGED <<users, script, broken, remote, target>>
  PROVE  Turn
  BY DEF Turn, Whole!Next, Whole!Login

LEMMA RequestTurn ==
  ASSUME Stage = "request", Stage' = Whole!AfterRequest(script.request), remote = FALSE,
         IF Stage' = "connecting" THEN remote' /\ target' = Whole!Target(script.request)
         ELSE remote' = FALSE,
         UNCHANGED <<users, script, broken>>
  PROVE  Turn
  BY DEF Turn, Whole!Next, Whole!Request

LEMMA LossTurn ==
  ASSUME ~misled', event' = "freed", broken' = TRUE, UNCHANGED <<users, script, remote>>,
         remote = FALSE \/ target' = target
  PROVE  Turn
  BY StageBecomes DEF Turn, Whole!Next, Whole!Lose

-----------------------------------------------------------------------------
(* Messages and their parts.                                               *)

LEMMA DropIsRest == \A s, k : Drop(s, k) = Rest(s, k)
  BY DEF Drop, Rest

LEMMA ScriptTypes ==
  ASSUME Scripted
  PROVE  /\ script.greeting \in Greetings /\ script.greeting \in Seq(Byte)
         /\ script.login \in Logins /\ script.login \in Seq(Byte)
         /\ script.request \in Requests /\ script.request \in Seq(Byte)
  BY HandshakeAssumption DEF Scripted, Byte

LEMMA GreetingWhole ==
  ASSUME Scripted, WholeMessages
  PROVE  LET g == script.greeting
         IN  /\ Len(g) \in Nat /\ Len(g) >= 2 /\ g[1] \in Nat /\ g[2] \in Nat /\ g[2] \in Byte
             /\ g[1] = VERSION => Len(g) = 2 + g[2]
<1> DEFINE g == script.greeting
<1>1. g \in Seq(Byte) /\ Len(g) >= 2 /\ (g[1] = VERSION => Len(g) = 2 + g[2])
  BY ScriptTypes DEF WholeMessages
<1> HIDE DEF g
<1>2. Len(g) \in Nat /\ 1 \in Nat /\ 2 \in Nat /\ 0 < 1 /\ 0 < 2 /\ 1 <= Len(g) /\ 2 <= Len(g)
  BY <1>1, LenProperties
<1>3. g[1] \in Nat /\ g[2] \in Nat /\ g[2] \in Byte
  BY <1>1, <1>2, AByte, Zenon
<1>4. /\ Len(g) \in Nat /\ Len(g) >= 2 /\ g[1] \in Nat /\ g[2] \in Nat /\ g[2] \in Byte
      /\ g[1] = VERSION => Len(g) = 2 + g[2]
  BY <1>1, <1>2, <1>3
<1> QED
  BY <1>4 DEF g

\* All of a message has arrived: nothing of it is on its way.
LEMMA AllOf ==
  ASSUME NEW S, NEW b \in Seq(S), NEW w \in Seq(S), NEW m, b \o w = m, Len(b) >= Len(m)
  PROVE  b = m /\ w = << >>
<1>1. Len(b) \in Nat /\ Len(w) \in Nat /\ Len(m) = Len(b) + Len(w)
  BY ConcatProperties, LenProperties
<1>2. Len(w) = 0
  BY <1>1
<1>3. w = << >>
  BY <1>2, EmptySeq
<1> QED
  BY <1>3, ConcatEmptySeq

\* What has arrived is how the message begins.
LEMMA Begins ==
  ASSUME NEW b \in Seq(Byte), NEW w \in Seq(Byte), NEW m, b \o w = m
  PROVE  Len(b) \in Nat /\ Len(b) <= Len(m) /\ \A i \in 1..Len(b) : b[i] = m[i]
  BY SameBeginning, LenProperties

\* The callback takes k bytes from the front.
LEMMA Taken ==
  ASSUME NEW b \in Seq(Byte), NEW w \in Seq(Byte), NEW k \in Nat, k <= Len(b)
  PROVE  Drop(b, k) \o w = Drop(b \o w, k) /\ Drop(b, k) \in Seq(Byte)
<1>1. Rest(b \o w, k) = Rest(b, k) \o w
  BY RestOfConcat
<1> QED
  BY <1>1, DropIsRest, RestProperties

LEMMA DropProperties ==
  \A s \in Seq(Byte) : \A k \in Nat : k <= Len(s) =>
     /\ Drop(s, k) \in Seq(Byte) /\ Len(Drop(s, k)) = Len(s) - k
     /\ \A i \in 1..Len(s) - k : Drop(s, k)[i] = s[k + i]
  BY RestProperties DEF Drop, Rest

LEMMA NothingLeft ==
  ASSUME NEW b \in Seq(Byte), NEW k \in Nat, k >= Len(b)
  PROVE  Drop(b, k) = << >>
  BY DropIsRest, RestProperties

LEMMA Answered ==
  ASSUME NEW r
  PROVE  /\ Append(<< >>, r) = <<r>>
         /\ <<r>> # << >> /\ Len(<<r>>) = 1 /\ Last(<<r>>) = r
  BY DEF Last

LEMMA SameCString == \A s : Words!CString(s) = Whole!CString(s)
  BY Zenon DEF Words!CString, Whole!CString, Words!Cardinality, Whole!Cardinality

-----------------------------------------------------------------------------
(* The greeting.                                                           *)

LEMMA InnerLands ==
  ASSUME WholeMessages, Scripted, NEW c \in Seq(Byte), NEW w \in Seq(Byte), NEW count,
         script.greeting[1] = VERSION, count = script.greeting[2],
         c \o w = Drop(script.greeting, 2),
         replies = << >>, sent = 1, target = NULL, remote = FALSE, event = "live",
         read_cb \in {"read_methods", "read_methods_inner"}, ReadMethodsInner(c, count),
         wire' = w, UNCHANGED <<users, script, sent, misled>>
  PROVE  Lives' /\ Turn
<1> DEFINE g == script.greeting
<1>1. /\ g \in Seq(Byte) /\ Len(g) = 2 + count /\ count \in Nat /\ Len(c) \in Nat
  BY ScriptTypes, GreetingWhole, LenProperties
<1>2. /\ UNCHANGED <<connect_header, remote, target>> /\ method_count' = count
  BY DEF ReadMethodsInner
<1>3. misled \/ Stage = "greeting"
  BY StageIs
<1>4. ASSUME Waits(c, "read_methods_inner"), Len(c) < count, replies' = replies
      PROVE  Lives' /\ Turn
  <2>1. /\ in' = c /\ read_cb' = "read_methods_inner" /\ event' = event /\ broken' = broken
    BY <1>4 DEF Waits
  <2>2. Lives'
    BY <1>2, <1>4, <2>1 DEF Lives, At, Short, Pends, Idle
  <2>3. Turn
    BY <1>2, <1>3, <2>1, StageBecomes, NoTurn, MisledTurn
  <2> QED
    BY <2>2, <2>3
<1>5. ASSUME Closes, Whole!AfterGreeting(g) = "closed"
      PROVE  Lives' /\ Turn
  <2>1. event' = "freed" /\ broken' = broken
    BY <1>5 DEF Closes, Freed
  <2>2. Lives'
    BY <2>1 DEF Lives
  <2>3. Turn
    BY <1>2, <1>3, <1>5, <2>1, StageBecomes, GreetTurn, MisledTurn
  <2> QED
    BY <2>2, <2>3
<1>6. CASE count = 0 /\ Closes
  <2>1. Whole!AfterGreeting(g) = "closed"
    BY <1>6 DEF Whole!AfterGreeting
  <2> QED
    BY <1>5, <1>6, <2>1
<1>7. CASE count > 0 /\ Len(c) >= count /\ Choose(c, count)
  <2> DEFINE method == Negotiated(Prefix(c, count))
  <2>1. Len(Drop(g, 2)) = count /\ \A i \in 1..count : Drop(g, 2)[i] = g[2 + i]
    <3>1. 2 \in Nat /\ 2 <= Len(g) /\ Len(g) - 2 = count
      BY <1>1
    <3>2. /\ Len(Drop(g, 2)) = Len(g) - 2
          /\ \A i \in 1..Len(g) - 2 : Drop(g, 2)[i] = g[2 + i]
      BY <1>1, <3>1, DropProperties, Zenon
    <3> QED
      BY <3>1, <3>2
  <2>2. c = Drop(g, 2) /\ w = << >>
    BY <1>7, <2>1, AllOf, ZenonT(40)
  <2>3. Len(c) = count /\ Prefix(c, count) = c /\ Drop(c, count) = << >>
    BY <1>1, <2>1, <2>2, SubSeqFull, NothingLeft DEF Prefix
  <2>4. Contains(c, 2) <=> 2 \in Whole!Offered(g)
    <3>1. ASSUME Contains(c, 2) PROVE 2 \in Whole!Offered(g)
      <4>1. PICK i \in 1..Len(c) : c[i] = 2
        BY <3>1 DEF Contains
      <4>2. 2 + i \in 3..2 + g[2]
        BY <1>1, <2>3, <4>1
      <4>3. g[2 + i] = 2
        <5>1. i \in 1..count
          BY <2>3, <4>1
        <5> QED
          BY <2>1, <2>2, <4>1, <5>1, Zenon
      <4> QED
        BY <4>2, <4>3 DEF Whole!Offered
    <3>2. ASSUME 2 \in Whole!Offered(g) PROVE Contains(c, 2)
      <4>1. PICK i \in 3..2 + g[2] : g[i] = 2
        BY <3>2 DEF Whole!Offered
      <4>2. i - 2 \in 1..Len(c) /\ 2 + (i - 2) = i
        BY <1>1, <2>3, <4>1
      <4>3. c[i - 2] = 2
        BY <2>1, <2>2, <2>3, <4>1, <4>2
      <4> QED
        BY <4>2, <4>3 DEF Contains
    <3> QED
      BY <3>1, <3>2
  <2>5. method = Negotiated(c)
    BY <2>3
  <2>6. Whole!AfterGreeting(g) = IF method = 0 THEN "request"
                                  ELSE IF method = 2 THEN "login" ELSE "closed"
    <3>1. g[1] = 5 /\ g[2] # 0
      BY <1>1, <1>7, Values
    <3> QED
      BY <2>4, <2>5, <3>1, Values
         DEF Negotiated, Whole!AfterGreeting, Whole!VERSION, Whole!USERNAME_PASSWORD
  <2>7. method \in {0, 2, 255}
    BY Values DEF Negotiated
  <2>8. \/ /\ method # 255 /\ replies' = Append(replies, <<VERSION, method>>)
           /\ Waits(<< >>, Reader(method))
        \/ method = 255 /\ Closes
    BY <1>7, <2>3, Values DEF Choose, Replies
  <2> HIDE DEF method
  <2>9. CASE method = 255 /\ Closes
    BY <1>5, <2>6, <2>9
  <2>10. CASE /\ method # 255 /\ replies' = Append(replies, <<VERSION, method>>)
              /\ Waits(<< >>, Reader(method))
    <3>1. replies' = <<<<VERSION, method>>>> /\ Len(replies') = 1 /\ replies' # << >>
          /\ Last(replies') = <<VERSION, method>>
      BY <2>10, Answered
    <3>2. in' = << >> /\ event' = "live" /\ broken' = broken /\ wire' = << >>
          /\ read_cb' = Reader(method) /\ in' \o wire' = << >>
      BY <2>2, <2>10, ConcatEmptySeq, EmptySeq DEF Waits
    <3>3. CASE method = 2
      <4>1. read_cb' = "auth_read"
        BY <3>2, <3>3, Values DEF Reader
      <4>2. Lives'
        <5>1. Len(<< >>) = 0
          BY EmptySeq
        <5> QED
          BY <1>2, <3>1, <3>2, <3>3, <4>1, <5>1, Values DEF Lives, At, Short, Pends, Idle
      <4>3. ~misled' => Stage' = "login"
        BY <1>2, <3>2, <4>1, StageBecomes
      <4> QED
        BY <1>2, <1>3, <2>6, <3>2, <3>3, <4>2, <4>3, GreetTurn, MisledTurn
    <3>4. CASE method = 0
      <4>1. read_cb' = "connect_read"
        BY <3>2, <3>4, Values DEF Reader
      <4>2. Lives'
        <5>1. Len(<< >>) = 0
          BY EmptySeq
        <5> QED
          BY <1>2, <3>1, <3>2, <3>4, <4>1, <5>1, Values DEF Lives, At, Short, Pends, Idle
      <4>3. <<VERSION, method>> # <<1, FAILURE>>
        BY Values
      <4>4. ~misled' => Stage' = "request"
        BY <1>2, <3>1, <3>2, <4>1, <4>3, StageBecomes
      <4> QED
        BY <1>2, <1>3, <2>6, <3>2, <3>4, <4>2, <4>4, GreetTurn, MisledTurn
    <3> QED
      BY <2>7, <2>10, <3>3, <3>4
  <2> QED
    BY <2>8, <2>9, <2>10
<1> QED
  BY <1>4, <1>5, <1>6, <1>7 DEF ReadMethodsInner

LEMMA MethodsLand ==
  ASSUME WholeMessages, Scripted, NEW b \in Seq(Byte), NEW w \in Seq(Byte),
         b \o w = script.greeting,
         replies = << >>, sent = 1, target = NULL, remote = FALSE, event = "live",
         read_cb = "read_methods", ReadMethods(b),
         wire' = w, UNCHANGED <<users, script, sent, misled>>
  PROVE  Lives' /\ Turn
<1> DEFINE g == script.greeting
<1>1. Len(b) \in Nat /\ \A i \in 1..Len(b) : b[i] = g[i]
  BY Begins
<1>2. misled \/ Stage = "greeting"
  BY StageIs
<1>3. CASE Len(b) < 2 /\ Waits(b, read_cb) /\ UNCHANGED <<context, replies>>
  <2>1. /\ in' = b /\ read_cb' = "read_methods" /\ event' = event /\ broken' = broken
        /\ replies' = << >> /\ remote' = FALSE /\ target' = NULL /\ Len(<< >>) = 0
    BY <1>3, EmptySeq DEF Waits, context
  <2>2. Lives'
    BY <1>3, <2>1 DEF Lives, At, Short, Pends, Idle
  <2>3. Turn
    BY <1>2, <2>1, StageBecomes, NoTurn, MisledTurn
  <2> QED
    BY <2>2, <2>3
<1>4. CASE Len(b) >= 2 /\ b[1] # VERSION /\ Closes /\ UNCHANGED <<context, replies>>
  <2>1. event' = "freed" /\ broken' = broken /\ UNCHANGED <<remote, target>>
    BY <1>4 DEF Closes, Freed, context
  <2>2. g[1] # 5
    BY <1>1, <1>4, Values, SMTT(30)
  <2>3. Whole!AfterGreeting(g) = "closed"
    BY <2>2 DEF Whole!AfterGreeting, Whole!VERSION
  <2>4. Turn
    BY <1>2, <2>1, <2>3, StageBecomes, GreetTurn, MisledTurn
  <2> QED
    BY <2>1, <2>4 DEF Lives
<1>5. CASE Len(b) >= 2 /\ b[1] = VERSION /\ ReadMethodsInner(Drop(b, 2), b[2])
  <2>1. g[1] = VERSION /\ b[2] = g[2]
    BY <1>1, <1>5
  <2>2. Drop(b, 2) \in Seq(Byte) /\ Drop(b, 2) \o w = Drop(g, 2)
    <3>1. 2 \in Nat /\ 2 <= Len(b)
      BY <1>5
    <3>2. Drop(b, 2) \o w = Drop(b \o w, 2) /\ Drop(b, 2) \in Seq(Byte)
      BY <3>1, Taken
    <3> QED
      BY <3>2
  <2> QED
    BY <1>5, <2>1, <2>2, InnerLands
<1> QED
  BY <1>3, <1>4, <1>5 DEF ReadMethods

-----------------------------------------------------------------------------
(* The login.                                                              *)

LEMMA LoginWhole ==
  ASSUME Scripted, WholeMessages, NEW l, l = script.login
  PROVE  /\ l \in Seq(Byte) /\ Len(l) \in Nat /\ Len(l) >= 2 /\ l[1] \in Nat /\ l[2] \in Nat
         /\ l[1] = 1 => /\ Len(l) >= 3 + l[2] /\ l[3 + l[2]] \in Nat
                        /\ Len(l) = 3 + l[2] + l[3 + l[2]]
<1>1. /\ l \in Seq(Byte) /\ Len(l) >= 2
      /\ l[1] = 1 => Len(l) >= 3 + l[2] /\ Len(l) = 3 + l[2] + l[3 + l[2]]
  BY ScriptTypes DEF WholeMessages
<1>2. Len(l) \in Nat /\ 1 \in Nat /\ 2 \in Nat /\ 0 < 1 /\ 0 < 2 /\ 1 <= Len(l) /\ 2 <= Len(l)
  BY <1>1, LenProperties
<1>3. l[1] \in Nat /\ l[2] \in Nat
  BY <1>1, <1>2, AByte, Zenon
<1>4. ASSUME l[1] = 1 PROVE l[3 + l[2]] \in Nat
  <2>1. 3 + l[2] \in Nat /\ 0 < 3 + l[2] /\ 3 + l[2] <= Len(l)
    BY <1>1, <1>3, <1>4
  <2> QED
    BY <1>1, <2>1, AByte, Zenon
<1> QED
  BY <1>1, <1>2, <1>3, <1>4

\* The password, as the callback cuts it out.
LEMMA PasswordIs ==
  ASSUME NEW l \in Seq(Byte), NEW n \in Nat, NEW p \in Nat, Len(l) = 3 + n + p
  PROVE  LET rest == Drop(l, 2 + n)
         IN  /\ rest \in Seq(Byte) /\ rest # << >> /\ Head(rest) = l[3 + n]
             /\ Tail(rest) \in Seq(Byte) /\ Len(Tail(rest)) = p
             /\ Prefix(Tail(rest), p) = SubSeq(l, 4 + n, 3 + n + p)
<1> DEFINE rest == Drop(l, 2 + n)
           pw == SubSeq(l, 4 + n, 3 + n + p)
<1>1. 2 + n \in Nat /\ 2 + n <= Len(l) /\ Len(l) \in Nat /\ Len(l) - (2 + n) = 1 + p
  BY LenProperties
<1>2. /\ rest \in Seq(Byte) /\ Len(rest) = Len(l) - (2 + n)
      /\ \A i \in 1..Len(l) - (2 + n) : rest[i] = l[(2 + n) + i]
  BY <1>1, DropProperties, Zenon
<1>3. /\ pw \in Seq(Byte) /\ Len(pw) = p /\ \A k \in 1..p : pw[k] = l[(4 + n) + k - 1]
  <2>1. 4 + n \in Nat /\ 3 + n + p \in Nat /\ 0 < 4 + n /\ 4 + n <= (3 + n + p) + 1
        /\ 3 + n + p <= Len(l) /\ (3 + n + p) - (4 + n) + 1 = p
    BY <1>1
  <2>2. \A i \in Nat : \A j \in Nat : 0 < i /\ i <= j + 1 /\ j <= Len(l) =>
          /\ SubSeq(l, i, j) \in Seq(Byte) /\ Len(SubSeq(l, i, j)) = j - i + 1
          /\ \A k \in 1..j - i + 1 : SubSeq(l, i, j)[k] = l[i + k - 1]
    BY Between
  <2>3. /\ pw \in Seq(Byte) /\ Len(pw) = (3 + n + p) - (4 + n) + 1
        /\ \A k \in 1..(3 + n + p) - (4 + n) + 1 : pw[k] = l[(4 + n) + k - 1]
    BY <2>1, <2>2, Zenon
  <2> QED
    BY <2>1, <2>3
<1> HIDE DEF rest, pw
<1>4. Len(rest) = 1 + p /\ rest[1] = l[3 + n] /\ rest # << >>
  <2>1. Len(rest) = 1 + p /\ rest[1] = l[(2 + n) + 1]
    BY <1>1, <1>2
  <2>2. (2 + n) + 1 = 3 + n
    OBVIOUS
  <2> QED
    BY <2>1, <2>2, EmptySeq
<1>5. /\ Head(rest) = l[3 + n] /\ Tail(rest) \in Seq(Byte) /\ Len(Tail(rest)) = p
      /\ \A i \in 1..p : Tail(rest)[i] = rest[i + 1]
  <2>1. /\ Head(rest) = rest[1] /\ Tail(rest) \in Seq(Byte) /\ Len(Tail(rest)) = Len(rest) - 1
        /\ \A i \in 1..Len(Tail(rest)) : Tail(rest)[i] = rest[i + 1]
    <3>1. Head(rest) = rest[1]
      BY <1>2, <1>4
    <3> QED
      BY <1>2, <1>4, <3>1, HeadTailProperties, Zenon
  <2>2. Len(rest) - 1 = p
    BY <1>4
  <2> QED
    BY <1>4, <2>1, <2>2
<1>6. Prefix(Tail(rest), p) = Tail(rest)
  BY <1>5, SubSeqFull DEF Prefix
<1>7. \A i \in 1..p : Tail(rest)[i] = pw[i]
  <2> SUFFICES ASSUME NEW i \in 1..p PROVE Tail(rest)[i] = pw[i]
    OBVIOUS
  <2>1. i + 1 \in 1..Len(l) - (2 + n) /\ (2 + n) + (i + 1) = (4 + n) + i - 1
    BY <1>1
  <2>2. Tail(rest)[i] = l[(2 + n) + (i + 1)]
    BY <1>2, <1>5, <2>1, Zenon
  <2>3. pw[i] = l[(4 + n) + i - 1]
    BY <1>3
  <2> QED
    BY <2>1, <2>2, <2>3
<1>8. Tail(rest) = pw
  BY <1>3, <1>5, <1>7, SeqEqual
<1>9. /\ rest \in Seq(Byte) /\ rest # << >> /\ Head(rest) = l[3 + n]
      /\ Tail(rest) \in Seq(Byte) /\ Len(Tail(rest)) = p
      /\ Prefix(Tail(rest), p) = pw
  BY <1>2, <1>4, <1>5, <1>6, <1>8
<1> QED
  BY <1>9 DEF rest, pw

LEMMA AppendedReply ==
  ASSUME NEW S, NEW s \in Seq(S), NEW r \in S
  PROVE  /\ Append(s, r) \in Seq(S) /\ Len(Append(s, r)) = Len(s) + 1
         /\ Last(Append(s, r)) = r /\ Append(s, r) # << >>
<1>1. /\ Append(s, r) \in Seq(S) /\ Len(Append(s, r)) = Len(s) + 1 /\ Len(s) \in Nat
      /\ Append(s, r)[Len(s) + 1] = r
  BY AppendProperties, LenProperties
<1> QED
  BY <1>1, EmptySeq DEF Last

LEMMA AuthLands ==
  ASSUME WholeMessages, Scripted, NEW b \in Seq(Byte), NEW w \in Seq(Byte),
         b \o w = script.login,
         replies = <<<<VERSION, Words!USERNAME_PASSWORD>>>>, sent = 2,
         target = NULL, remote = FALSE, event = "live",
         read_cb = "auth_read", AuthRead(b),
         wire' = w, misled' = (misled \/ Misleads(b)), UNCHANGED <<users, script, sent>>
  PROVE  Lives' /\ Turn
<1> DEFINE l == script.login
           name == SubSeq(b, 3, 2 + b[2])
           rest == Drop(b, 2 + b[2])
<1>1. Len(b) \in Nat /\ Len(b) <= Len(l) /\ \A i \in 1..Len(b) : b[i] = l[i]
  BY Begins
<1>2. /\ l \in Seq(Byte) /\ Len(l) \in Nat /\ Len(l) >= 2 /\ l[1] \in Nat /\ l[2] \in Nat
      /\ l[1] = 1 => /\ Len(l) >= 3 + l[2] /\ l[3 + l[2]] \in Nat
                     /\ Len(l) = 3 + l[2] + l[3 + l[2]]
  BY LoginWhole
<1>3. Len(b) >= 2 => b[1] = l[1] /\ b[2] = l[2]
  BY <1>1
<1>4. Len(replies) = 1 /\ Last(replies) = <<VERSION, 2>>
  BY Answered, Values
<1>5. misled \/ Stage = "login"
  BY StageIs
<1>6. UNCHANGED <<connect_header, remote, target, method_count>> /\ CharMax \in Nat
  BY HandshakeAssumption DEF AuthRead, context
<1>7. ASSUME Waits(b, read_cb), UNCHANGED replies,
             ~misled' /\ Len(b) >= 2 =>
               /\ b[1] = 1 /\ b[2] <= CharMax
               /\ \/ Len(b) < 2 + b[2]
                  \/ Len(b) > 2 + b[2] /\ Len(b) < 3 + b[2] + b[3 + b[2]]
      PROVE  Lives' /\ Turn
  <2>1. /\ in' = b /\ read_cb' = "auth_read" /\ event' = event /\ broken' = broken
        /\ replies' = replies
    BY <1>7 DEF Waits
  <2>2. At(in \o wire)'
    <3>1. in' \o wire' = l /\ sent' = 2 /\ script' = script
      BY <2>1
    <3> QED
      BY <1>4, <1>6, <2>1, <3>1 DEF At, Pends, Idle
  <2>3. Short(in)'
    BY <1>7, <2>1 DEF Short
  <2>4. ~misled' => ~misled /\ Stage' = "login"
    BY <1>6, <2>1, StageBecomes
  <2>5. Turn
    BY <1>5, <1>6, <2>1, <2>4, NoTurn, MisledTurn
  <2> QED
    BY <2>2, <2>3, <2>5 DEF Lives
<1>8. CASE Len(b) < 2 /\ Waits(b, read_cb) /\ UNCHANGED replies
  BY <1>1, <1>7, <1>8
<1>9. CASE Len(b) >= 2 /\ b[1] # 1 /\ Closes /\ UNCHANGED replies
  <2>1. event' = "freed" /\ broken' = broken
    BY <1>9 DEF Closes, Freed
  <2>2. Whole!AfterLogin(l) = "closed"
    BY <1>3, <1>9 DEF Whole!AfterLogin
  <2>3. Turn
    BY <1>5, <1>6, <2>1, <2>2, StageBecomes, LoginTurn, MisledTurn
  <2> QED
    BY <2>1, <2>3 DEF Lives
<1>10. ~misled' => ~misled /\ ~CutsLogin(b) /\ ~LongLogin(b)
  BY DEF Misleads
<1>11. ASSUME Len(b) >= 2, b[1] = 1
       PROVE  /\ b[2] \in Nat /\ Drop(b, 2) \in Seq(Byte) /\ Len(Drop(b, 2)) = Len(b) - 2
              /\ ~misled' => b[2] <= CharMax /\ Len(b) # 2 + b[2]
  <2>1. b[2] \in Nat /\ 2 \in Nat /\ 2 <= Len(b)
    BY <1>2, <1>3, <1>11
  <2>2. Drop(b, 2) \in Seq(Byte) /\ Len(Drop(b, 2)) = Len(b) - 2
    BY <2>1, DropProperties, Zenon
  <2>3. ~misled' => b[2] <= CharMax /\ Len(b) # 2 + b[2]
    BY <1>6, <1>10, <1>11, <2>1 DEF CutsLogin, LongLogin
  <2> QED
    BY <2>1, <2>2, <2>3
<1>12. CASE /\ Len(b) >= 2 /\ b[1] = 1 /\ TooShort(Drop(b, 2), b[2])
            /\ Waits(b, read_cb) /\ UNCHANGED replies
  <2>1. ~misled' => Len(b) < 2 + b[2]
    BY <1>1, <1>6, <1>11, <1>12 DEF TooShort
  <2> QED
    BY <1>7, <1>11, <1>12, <2>1
<1>13. CASE /\ Len(b) >= 2 /\ b[1] = 1 /\ ~TooShort(Drop(b, 2), b[2])
            /\ Login(b, name, rest)
  <2>1. b[2] \in Nat /\ b[2] <= CharMax /\ Len(b) >= 2 + b[2] /\ b[2] = l[2] /\ l[1] = 1
    <3>1. b[2] \in Nat /\ Len(Drop(b, 2)) = Len(b) - 2 /\ b[2] = l[2] /\ l[1] = 1
      BY <1>3, <1>11, <1>13
    <3>2. ~(b[2] > CharMax) /\ ~(Len(b) - 2 < b[2])
      BY <1>13, <3>1 DEF TooShort
    <3> QED
      BY <1>1, <1>6, <3>1, <3>2
  <2> DEFINE n == b[2]
  <2>2. /\ rest \in Seq(Byte) /\ Len(rest) = Len(b) - (2 + n)
        /\ \A i \in 1..Len(b) - (2 + n) : rest[i] = b[(2 + n) + i]
    <3>1. 2 + n \in Nat /\ 2 + n <= Len(b)
      BY <2>1
    <3> QED
      BY <3>1, DropProperties, Zenon
  <2>3. CASE rest = << >> /\ UnreadPassword(b, name)
    <3>1. Len(b) = 2 + b[2]
      <4>1. Len(rest) = 0
        BY <2>3, EmptySeq
      <4> QED
        BY <1>1, <2>1, <2>2, <4>1
    <3>2. misled'
      BY <1>10, <1>13, <3>1 DEF CutsLogin
    <3>3. read_cb' = "connect_read"
      BY <2>3 DEF UnreadPassword, Replies, Waits
    <3>4. Lives'
      BY <3>2, <3>3 DEF Lives, At, Short
    <3> QED
      BY <3>2, <3>4, MisledTurn
  <2>4. ASSUME rest # << >>
        PROVE  /\ Len(b) >= 3 + n /\ Head(rest) = b[3 + n] /\ b[3 + n] = l[3 + n]
               /\ l[3 + n] \in Nat /\ Tail(rest) \in Seq(Byte) /\ Len(Tail(rest)) = Len(b) - (3 + n)
    <3>0. Len(rest) # 0 /\ Len(rest) \in Nat
      BY <2>2, <2>4, EmptySeq, LenProperties
    <3>1. Len(b) >= 3 + n /\ Len(rest) = Len(b) - (2 + n) /\ Len(rest) >= 1
      BY <1>1, <2>1, <2>2, <3>0
    <3>2. Head(rest) = rest[1] /\ Tail(rest) \in Seq(Byte) /\ Len(Tail(rest)) = Len(rest) - 1
      BY <2>2, <2>4, HeadTailProperties
    <3>3. rest[1] = b[(2 + n) + 1] /\ (2 + n) + 1 = 3 + n
      BY <1>1, <2>1, <2>2, <3>1, SMTT(30)
    <3>4. 3 + n \in 1..Len(b)
      BY <1>1, <2>1, <3>1, SMTT(30)
    <3>5. b[3 + n] = l[3 + n] /\ l[3 + n] \in Nat
      BY <1>1, <1>2, <2>1, <3>4
    <3>6. Len(Tail(rest)) = Len(b) - (3 + n)
      <4>1. Len(b) \in Nat /\ n \in Nat
        BY <1>1, <2>1
      <4>2. Len(Tail(rest)) = (Len(b) - (2 + n)) - 1
        BY <3>1, <3>2
      <4> QED
        BY <4>1, <4>2
    <3> QED
      BY <3>1, <3>2, <3>3, <3>5, <3>6
  <2>5. CASE /\ rest # << >> /\ TooShort(Tail(rest), Head(rest))
             /\ Waits(b, read_cb) /\ UNCHANGED replies
    <3>1. /\ Len(b) >= 3 + n /\ Head(rest) = b[3 + n] /\ b[3 + n] \in Nat
          /\ Len(Tail(rest)) = Len(b) - (3 + n)
      BY <2>4, <2>5
    <3>2. ~misled' => b[3 + n] <= CharMax
      BY <1>1, <1>6, <1>10, <1>13, <2>1, <3>1 DEF LongLogin
    <3>3. ~misled' => Len(b) - (3 + n) < b[3 + n]
      BY <1>6, <2>5, <3>1, <3>2 DEF TooShort
    <3>4. ~misled' => Len(b) > 2 + b[2] /\ Len(b) < 3 + b[2] + b[3 + b[2]]
      BY <1>1, <2>1, <3>1, <3>3, SMTT(30)
    <3> QED
      BY <1>7, <1>13, <2>1, <2>5, <3>4
  <2>6. CASE /\ rest # << >> /\ ~TooShort(Tail(rest), Head(rest))
             /\ Replies(<<1, Verdict(name, Prefix(Tail(rest), Head(rest)))>>,
                        Drop(Tail(rest), Head(rest)), "connect_read")
    <3>1. Len(l) = 3 + n + l[3 + n] /\ l[3 + n] \in Nat /\ Len(l) >= 3 + n
      BY <1>2, <2>1
    <3>2. Len(b) >= Len(l)
      <4>1. ~(Len(b) - (3 + n) < l[3 + n])
        BY <2>4, <2>6 DEF TooShort
      <4> QED
        BY <1>1, <2>1, <3>1, <4>1, SMTT(30)
    <3>3. b = l /\ w = << >>
      BY <3>2, AllOf
    <3> DEFINE p == l[3 + n]
    <3>4. /\ Head(rest) = p /\ Tail(rest) \in Seq(Byte) /\ Len(Tail(rest)) = p
          /\ Prefix(Tail(rest), p) = SubSeq(l, 4 + n, 3 + n + p)
      <4>1. l \in Seq(Byte) /\ n \in Nat /\ p \in Nat /\ Len(l) >= 3 + n /\ Len(l) = 3 + n + p
        BY <1>2, <2>1, <3>1
      <4>2. rest = Drop(l, 2 + n)
        BY <3>3
      <4> HIDE DEF rest
      <4>3. LET r == Drop(l, 2 + n)
            IN  /\ Head(r) = l[3 + n] /\ Tail(r) \in Seq(Byte) /\ Len(Tail(r)) = p
                /\ Prefix(Tail(r), p) = SubSeq(l, 4 + n, 3 + n + p)
        BY <4>1, PasswordIs, ZenonT(40)
      <4> QED
        BY <4>2, <4>3
    <3>5. Drop(Tail(rest), Head(rest)) = << >>
      <4>1. p \in Nat /\ p >= Len(Tail(rest)) /\ Head(rest) = p /\ Tail(rest) \in Seq(Byte)
        BY <3>1, <3>4
      <4> HIDE DEF p, rest
      <4> QED
        BY <4>1, NothingLeft
    <3>6. /\ Words!CString(Prefix(Tail(rest), Head(rest))) = Whole!Password(l)
          /\ Words!CString(name) = Whole!Name(l)
      <4>1. Prefix(Tail(rest), Head(rest)) = SubSeq(l, 4 + l[2], 3 + l[2] + l[3 + l[2]])
        BY <2>1, <3>4
      <4>2. name = SubSeq(l, 3, 2 + l[2])
        BY <2>1, <3>3
      <4> HIDE DEF rest, name
      <4> QED
        BY <4>1, <4>2, SameCString DEF Whole!Password, Whole!Name
    <3> DEFINE v == Verdict(name, Prefix(Tail(rest), Head(rest)))
    <3>7. /\ v \in {SUCCESS, FAILURE}
          /\ Whole!AfterLogin(l) = IF v = SUCCESS THEN "request" ELSE "refused"
      <4> DEFINE x == Whole!Name(l)
                 y == Whole!Password(l)
      <4>2. l[1] = 1
        BY <2>1
      <4>3. v = IF x \in DOMAIN users /\ users[x] = y THEN SUCCESS ELSE FAILURE
        BY <3>6, Zenon DEF Verdict
      <4>4. Whole!AfterLogin(l) =
              IF x \in DOMAIN users /\ users[x] = y THEN "request" ELSE "refused"
        BY <4>2 DEF Whole!AfterLogin
      <4> HIDE DEF v, x, y
      <4> QED
        BY <4>3, <4>4, Values
    <3>8. replies' = Append(replies, <<1, v>>) /\ Waits(<< >>, "connect_read")
      BY <2>6, <3>5 DEF Replies
    <3> HIDE DEF v
    <3>9. /\ Len(replies') = 2 /\ Last(replies') = <<1, v>> /\ replies' # << >>
      <4>1. replies \in Seq(Byte \X Byte) /\ Len(replies) = 1
        <5>1. 5 \in Byte /\ 2 \in Byte
          BY DEF Byte
        <5>2. <<VERSION, Words!USERNAME_PASSWORD>> \in Byte \X Byte
          BY <5>1, Values
        <5> QED
          BY <5>2
      <4>2. <<1, v>> \in Byte \X Byte
        BY <3>7, VerdictByte
      <4> QED
        <5> DEFINE r == <<1, v>>
        <5>1. r \in Byte \X Byte /\ replies' = Append(replies, r)
          BY <3>8, <4>2
        <5> HIDE DEF r
        <5>2. /\ Len(Append(replies, r)) = Len(replies) + 1
              /\ Last(Append(replies, r)) = r /\ Append(replies, r) # << >>
          BY <4>1, <5>1, AppendedReply, ZenonT(40)
        <5>3. Len(replies') = 2 /\ Last(replies') = r /\ replies' # << >>
          BY <4>1, <5>1, <5>2
        <5> QED
          BY <5>3 DEF r
    <3>10. /\ in' = << >> /\ event' = "live" /\ broken' = broken /\ wire' = << >>
           /\ read_cb' = "connect_read" /\ in' \o wire' = << >> /\ Len(<< >>) = 0
      BY <3>3, <3>8, ConcatEmptySeq, EmptySeq DEF Waits
    <3>11. Lives'
      BY <1>6, <3>7, <3>9, <3>10, Values DEF Lives, At, Short, Idle
    <3>12. ~misled' => Stage' = IF v = SUCCESS THEN "request" ELSE "refused"
      <4>1. <<1, v>> = <<1, FAILURE>> <=> v # SUCCESS
        BY <3>7, Values
      <4> QED
        BY <1>6, <3>9, <3>10, <4>1, StageBecomes
    <3>13. Turn
      BY <1>5, <1>6, <1>10, <3>7, <3>10, <3>12, LoginTurn, MisledTurn
    <3> QED
      BY <3>11, <3>13
  <2> QED
    BY <1>13, <2>3, <2>5, <2>6 DEF Login
<1> QED
  BY <1>8, <1>9, <1>12, <1>13 DEF AuthRead

-----------------------------------------------------------------------------
(* The request.                                                            *)

LEMMA RequestWhole ==
  ASSUME Scripted, WholeMessages, NEW r, r = script.request
  PROVE  /\ r \in Seq(Byte) /\ Len(r) \in Nat /\ Len(r) >= 4
         /\ GoodHeader(r) /\ r[4] = 3 => /\ Len(r) >= 5 /\ r[5] \in Nat /\ Len(r) = 7 + r[5]
         /\ GoodHeader(r) /\ r[4] # 3 => Len(r) = 6 + Words!AddressLen(r[4])
<1>1. /\ r \in Seq(Byte) /\ Len(r) >= HEADER_LEN
      /\ GoodHeader(r) /\ r[4] = Words!DOMAINNAME =>
           Len(r) > HEADER_LEN /\ Len(r) = HEADER_LEN + 1 + r[5] + PORT_LEN
      /\ GoodHeader(r) /\ r[4] # Words!DOMAINNAME =>
           Len(r) = HEADER_LEN + Words!AddressLen(r[4]) + PORT_LEN
  BY ScriptTypes DEF WholeMessages
<1>2. Len(r) \in Nat /\ Words!AddressLen(r[4]) \in Nat
  BY <1>1, AddressLenIs, LenProperties
<1>3. ASSUME GoodHeader(r), r[4] = 3
      PROVE  /\ Len(r) >= 5 /\ r[5] \in Nat /\ Len(r) = 7 + r[5]
  <2>1. Len(r) >= 5 /\ Len(r) = 4 + 1 + r[5] + 2
    BY <1>1, <1>2, <1>3, Values
  <2>2. 5 \in Nat /\ 0 < 5 /\ 5 <= Len(r)
    BY <2>1
  <2>3. r[5] \in Nat
    BY <1>1, <2>2, AByte, Zenon
  <2> QED
    BY <2>1, <2>3
<1>4. ASSUME GoodHeader(r), r[4] # 3 PROVE Len(r) = 6 + Words!AddressLen(r[4])
  BY <1>1, <1>2, <1>4, Values
<1> QED
  BY <1>1, <1>2, <1>3, <1>4, Values

LEMMA WithinRest ==
  ASSUME NEW s \in Seq(Byte), NEW k \in Nat, NEW i \in Nat, NEW j \in Nat,
         0 < i, i <= j + 1, k + j <= Len(s)
  PROVE  SubSeq(Drop(s, k), i, j) = SubSeq(s, k + i, k + j)
<1> DEFINE d == Drop(s, k)
           x == SubSeq(d, i, j)
           y == SubSeq(s, k + i, k + j)
<1>1. Len(s) \in Nat /\ k <= Len(s) /\ j <= Len(s) - k
  BY LenProperties
<1>2. d \in Seq(Byte) /\ Len(d) = Len(s) - k /\ \A m \in 1..Len(s) - k : d[m] = s[k + m]
  BY <1>1, DropProperties, Zenon
<1> HIDE DEF d
<1>3. j <= Len(d)
  BY <1>1, <1>2
<1>4. x \in Seq(Byte) /\ Len(x) = j - i + 1 /\ \A m \in 1..j - i + 1 : x[m] = d[i + m - 1]
  BY <1>2, <1>3, Between
<1>5. y \in Seq(Byte) /\ Len(y) = j - i + 1 /\ \A m \in 1..j - i + 1 : y[m] = s[(k + i) + m - 1]
  <2>1. k + i \in Nat /\ k + j \in Nat /\ 0 < k + i /\ k + i <= (k + j) + 1
        /\ (k + j) - (k + i) + 1 = j - i + 1
    OBVIOUS
  <2>2. \A a \in Nat : \A b \in Nat : 0 < a /\ a <= b + 1 /\ b <= Len(s) =>
          /\ SubSeq(s, a, b) \in Seq(Byte) /\ Len(SubSeq(s, a, b)) = b - a + 1
          /\ \A m \in 1..b - a + 1 : SubSeq(s, a, b)[m] = s[a + m - 1]
    BY Between
  <2>3. /\ y \in Seq(Byte) /\ Len(y) = (k + j) - (k + i) + 1
        /\ \A m \in 1..(k + j) - (k + i) + 1 : y[m] = s[(k + i) + m - 1]
    BY <2>1, <2>2, Zenon
  <2> QED
    BY <2>1, <2>3
<1> HIDE DEF x, y
<1>6. \A m \in 1..j - i + 1 : x[m] = y[m]
  <2> SUFFICES ASSUME NEW m \in 1..j - i + 1 PROVE x[m] = y[m]
    OBVIOUS
  <2>1. i + m - 1 \in 1..Len(s) - k /\ k + (i + m - 1) = (k + i) + m - 1
    BY <1>1
  <2>2. x[m] = s[k + (i + m - 1)]
    BY <1>2, <1>4, <2>1, Zenon
  <2> QED
    BY <1>5, <2>1, <2>2
<1>7. x = y
  BY <1>4, <1>5, <1>6, SeqEqual
<1> QED
  BY <1>7 DEF x, y, d

LEMMA MisledLands ==
  ASSUME misled', read_cb' \in {"connect_read", "read_address"} \/ event' = "freed"
  PROVE  Lives' /\ Turn
<1>1. Lives'
  BY DEF Lives, At, Short
<1> QED
  BY <1>1, MisledTurn

LEMMA HeaderIs ==
  ASSUME NEW r \in Seq(Byte), Len(r) >= 4
  PROVE  LET h == Prefix(r, HEADER_LEN)
         IN  h[1] = r[1] /\ h[2] = r[2] /\ h[3] = r[3] /\ h[4] = r[4]
<1>1. SubSeq(r, 1, 4)[1] = r[1] /\ SubSeq(r, 1, 4)[2] = r[2]
      /\ SubSeq(r, 1, 4)[3] = r[3] /\ SubSeq(r, 1, 4)[4] = r[4]
  BY Between, LenProperties
<1> QED
  BY <1>1, Values DEF Prefix

\* A request that is complete: where the connection begins, or not.
LEMMA ConnectLands ==
  ASSUME Scripted, NEW r, r = script.request, GoodHeader(r), r[4] = 3 => r[5] > 0,
         NEW header, header[2] = r[2],
         NEW host \in Seq(Byte), NEW port \in Seq(Byte), Len(port) = 2,
         host = Whole!Target(r).host, Words!Uint16(port) = Whole!Target(r).port,
         Connect(header, host, port, << >>),
         ~misled, ~misled', event = "live", Stage = "request", remote = FALSE,
         sent = Len(replies) + 1, replies' = replies, wire' = << >>,
         UNCHANGED <<users, script, sent>>
  PROVE  Lives' /\ Turn
<1>1. Whole!WellFormed(r)
  BY Values DEF Whole!WellFormed, GoodHeader, Whole!VERSION, Whole!IPV4, Whole!IPV6,
                Whole!DOMAINNAME
<1>2. target' = Whole!Target(r)
  BY DEF Connect, Whole!Target
<1>3. target' # NULL
  BY TargetSet
<1>4. << >> \o << >> = << >>
  BY ConcatEmptySeq, EmptySeq
<1>5. CASE header[2] # CONNECT /\ Waits(<< >>, "read_address") /\ UNCHANGED remote
  <2>1. /\ in' = << >> /\ read_cb' = "read_address" /\ event' = "live" /\ broken' = broken
        /\ remote' = FALSE
    BY <1>5 DEF Waits
  <2>2. Lives'
    BY <1>3, <1>4, <2>1 DEF Lives, At, Short
  <2>3. Stage' = "ignored"
    BY <1>3, <2>1, StageBecomes
  <2>4. Whole!AfterRequest(r) = "ignored"
    BY <1>1, <1>5 DEF Whole!AfterRequest, CONNECT
  <2>5. Turn
    BY <2>1, <2>3, <2>4, RequestTurn
  <2> QED
    BY <2>2, <2>5
<1>6. CASE header[2] = CONNECT /\ Waits(<< >>, "read_address") /\ remote' = TRUE
  <2>1. /\ in' = << >> /\ read_cb' = "read_address" /\ event' = "live" /\ broken' = broken
    BY <1>6 DEF Waits
  <2>2. Lives'
    BY <1>3, <1>4, <2>1 DEF Lives, At, Short
  <2>3. Stage' = "connecting"
    BY <1>6, <2>1, StageBecomes
  <2>4. Whole!AfterRequest(r) = "connecting"
    BY <1>1, <1>6 DEF Whole!AfterRequest, CONNECT
  <2>5. Turn
    BY <1>2, <1>6, <2>1, <2>3, <2>4, RequestTurn
  <2> QED
    BY <2>2, <2>5
<1>7. CASE Freed /\ broken' = TRUE /\ UNCHANGED remote
  <2>1. event' = "freed"
    BY <1>7 DEF Freed
  <2> QED
    BY <1>7, <2>1, LossTurn DEF Lives
<1> QED
  BY <1>5, <1>6, <1>7 DEF Connect

\* Host and port, as the callback cuts them out of what follows the header.
LEMMA IpCut ==
  ASSUME NEW r \in Seq(Byte), NEW n \in Nat, Len(r) = 6 + n
  PROVE  LET c == Drop(r, 4)
         IN  /\ SubSeq(c, 1, n) \in Seq(Byte) /\ SubSeq(c, 1, n) = SubSeq(r, 5, 4 + n)
             /\ SubSeq(c, n + 1, n + 2) \in Seq(Byte) /\ Len(SubSeq(c, n + 1, n + 2)) = 2
             /\ SubSeq(c, n + 1, n + 2) = SubSeq(r, Len(r) - 1, Len(r))
<1>1. 1 \in Nat /\ 4 \in Nat /\ 0 < 1 /\ 1 <= n + 1 /\ 4 + n <= Len(r) /\ 4 + 1 = 5
  OBVIOUS
<1>2. SubSeq(Drop(r, 4), 1, n) = SubSeq(r, 4 + 1, 4 + n)
  BY <1>1, WithinRest
<1>3. /\ n + 1 \in Nat /\ n + 2 \in Nat /\ 0 < n + 1 /\ n + 1 <= (n + 2) + 1
      /\ 4 + (n + 2) <= Len(r) /\ 4 + (n + 1) = Len(r) - 1 /\ 4 + (n + 2) = Len(r)
  OBVIOUS
<1>4. SubSeq(Drop(r, 4), n + 1, n + 2) = SubSeq(r, 4 + (n + 1), 4 + (n + 2))
  BY <1>1, <1>3, WithinRest, ZenonT(40)
<1>5. SubSeq(r, 5, 4 + n) \in Seq(Byte)
  BY <1>1, Between
<1>6. /\ SubSeq(r, 5 + n, 6 + n) \in Seq(Byte)
      /\ Len(SubSeq(r, 5 + n, 6 + n)) = (6 + n) - (5 + n) + 1
  <2>1. 5 + n \in Nat /\ 6 + n \in Nat /\ 0 < 5 + n /\ 5 + n <= (6 + n) + 1 /\ 6 + n <= Len(r)
    OBVIOUS
  <2> QED
    BY <2>1, Between
<1>7. Len(r) - 1 = 5 + n /\ (6 + n) - (5 + n) + 1 = 2
  OBVIOUS
<1> QED
  BY <1>1, <1>2, <1>3, <1>4, <1>5, <1>6, <1>7, Zenon

LEMMA DomainCut ==
  ASSUME NEW r \in Seq(Byte), NEW m \in Nat, Len(r) = 7 + m
  PROVE  LET c == Drop(r, 4)
         IN  /\ SubSeq(c, 2, 1 + m) \in Seq(Byte) /\ SubSeq(c, 2, 1 + m) = SubSeq(r, 6, 5 + m)
             /\ SubSeq(c, 2 + m, 3 + m) \in Seq(Byte) /\ Len(SubSeq(c, 2 + m, 3 + m)) = 2
             /\ SubSeq(c, 2 + m, 3 + m) = SubSeq(r, Len(r) - 1, Len(r))
<1>1. /\ 2 \in Nat /\ 4 \in Nat /\ 1 + m \in Nat /\ 0 < 2 /\ 2 <= (1 + m) + 1
      /\ 4 + (1 + m) <= Len(r) /\ 4 + 2 = 6 /\ 4 + (1 + m) = 5 + m
  OBVIOUS
<1>2. SubSeq(Drop(r, 4), 2, 1 + m) = SubSeq(r, 4 + 2, 4 + (1 + m))
  BY <1>1, WithinRest, ZenonT(40)
<1>3. /\ 2 + m \in Nat /\ 3 + m \in Nat /\ 0 < 2 + m /\ 2 + m <= (3 + m) + 1
      /\ 4 + (3 + m) <= Len(r) /\ 4 + (2 + m) = Len(r) - 1 /\ 4 + (3 + m) = Len(r)
  OBVIOUS
<1>4. SubSeq(Drop(r, 4), 2 + m, 3 + m) = SubSeq(r, 4 + (2 + m), 4 + (3 + m))
  <2>1. \A k \in Nat : \A i \in Nat : \A j \in Nat :
          0 < i /\ i <= j + 1 /\ k + j <= Len(r) =>
            SubSeq(Drop(r, k), i, j) = SubSeq(r, k + i, k + j)
    BY WithinRest, ZenonT(40)
  <2> QED
    BY <1>1, <1>3, <2>1, Zenon
<1>5. SubSeq(r, 6, 5 + m) \in Seq(Byte)
  <2>1. 6 \in Nat /\ 5 + m \in Nat /\ 0 < 6 /\ 6 <= (5 + m) + 1 /\ 5 + m <= Len(r)
    OBVIOUS
  <2> QED
    BY <2>1, Between
<1>6. /\ SubSeq(r, 6 + m, 7 + m) \in Seq(Byte)
      /\ Len(SubSeq(r, 6 + m, 7 + m)) = (7 + m) - (6 + m) + 1
  <2>1. 6 + m \in Nat /\ 7 + m \in Nat /\ 0 < 6 + m /\ 6 + m <= (7 + m) + 1 /\ 7 + m <= Len(r)
    OBVIOUS
  <2> QED
    BY <2>1, Between
<1>7. Len(r) - 1 = 6 + m /\ (7 + m) - (6 + m) + 1 = 2
  OBVIOUS
<1> QED
  BY <1>1, <1>2, <1>3, <1>4, <1>5, <1>6, <1>7, Zenon

LEMMA AddressLands ==
  ASSUME WholeMessages, Scripted, NEW c \in Seq(Byte), NEW w \in Seq(Byte),
         NEW r, r = script.request, GoodHeader(r), c \o w = Drop(r, 4),
         NEW header, header = Prefix(r, HEADER_LEN),
         header[4] = 3 /\ c # << >> => Len(c) >= 1 + c[1] + 2, ReadAddress(header, c),
         ~misled, ~misled', event = "live", Stage = "request",
         remote = FALSE, target = NULL, Last(replies) # <<1, FAILURE>>,
         sent = Len(replies) + 1, wire' = w, UNCHANGED <<users, script, sent>>
  PROVE  Lives' /\ Turn
<1>1. /\ r \in Seq(Byte) /\ Len(r) \in Nat /\ Len(r) >= 4
      /\ r[4] = 3 => /\ Len(r) >= 5 /\ r[5] \in Nat /\ Len(r) = 7 + r[5]
      /\ r[4] # 3 => Len(r) = 6 + Words!AddressLen(r[4])
  BY RequestWhole
<1>2. header[2] = r[2] /\ header[4] = r[4]
  BY <1>1, HeaderIs
<1>3. replies' = replies /\ connect_header' = header /\ Len(c) \in Nat
  BY LenProperties DEF ReadAddress
<1>4. 4 \in Nat /\ 4 <= Len(r) /\ Len(Drop(r, 4)) = Len(r) - 4
      /\ \A i \in 1..Len(r) - 4 : Drop(r, 4)[i] = r[4 + i]
  <2>1. 4 \in Nat /\ 4 <= Len(r)
    BY <1>1
  <2> QED
    BY <1>1, <2>1, DropProperties, Zenon
<1>5. \A i \in 1..Len(c) : c[i] = Drop(r, 4)[i] /\ Len(c) <= Len(r) - 4
  BY <1>4, Begins
\* Nothing but the buffer has changed.
<1>6. ASSUME Waits(c, "read_address"), UNCHANGED <<remote, target>>,
             header[4] = 3 => c = << >>,
             header[4] # 3 => Len(c) < Words!AddressLen(header[4]) + 2
      PROVE  Lives' /\ Turn
  <2>1. /\ in' = c /\ read_cb' = "read_address" /\ event' = "live" /\ broken' = broken
        /\ in' \o wire' = Drop(r, 4) /\ target' = NULL /\ remote' = FALSE
    BY <1>6 DEF Waits
  <2>2. At(in \o wire)'
    BY <1>3, <2>1, Values DEF At, Pends
  <2>3. Short(in)'
    BY <1>3, <1>6, <2>1, Values DEF Short
  <2>4. Stage' = "request"
    BY <1>3, <2>1, StageBecomes
  <2>5. Turn
    BY <2>1, <2>4, NoTurn
  <2> QED
    BY <2>2, <2>3, <2>5 DEF Lives
<1>7. CASE r[4] # 3
  <2> DEFINE n == Words!AddressLen(r[4])
  <2>1. n \in Nat /\ n > 0 /\ Len(r) = 6 + n
    BY <1>1, <1>7, AddressLenIs
  <2>2. CASE ~AddressArrived(c, n) /\ Waits(c, "read_address") /\ UNCHANGED <<remote, target>>
    <3>1. Len(c) < n + 2
      BY <1>3, <2>1, <2>2, Values DEF AddressArrived
    <3> QED
      BY <1>2, <1>6, <1>7, <2>2, <3>1
  <2>3. CASE /\ AddressArrived(c, n)
             /\ Connect(header, Prefix(c, n), SubSeq(c, n + 1, n + PORT_LEN),
                        Drop(c, n + PORT_LEN))
    <3>1. Len(c) >= n + 2 /\ Len(Drop(r, 4)) = n + 2
      BY <1>3, <1>4, <2>1, <2>3, Values DEF AddressArrived
    <3>2. c = Drop(r, 4) /\ w = << >>
      <4>1. Len(c) >= Len(Drop(r, 4))
        BY <3>1
      <4> QED
        BY <4>1, AllOf
    <3>3. n + 2 \in Nat /\ n + 2 >= Len(c) /\ n + 2 <= Len(c)
      BY <2>1, <3>1, <3>2
    <3>4. Drop(c, n + 2) = << >>
      BY <3>3, NothingLeft
    <3> DEFINE host == SubSeq(c, 1, n)
               port == SubSeq(c, n + 1, n + 2)
    <3>5. /\ host \in Seq(Byte) /\ host = SubSeq(r, 5, 4 + n)
          /\ port \in Seq(Byte) /\ Len(port) = 2 /\ port = SubSeq(r, Len(r) - 1, Len(r))
      <4> HIDE DEF n
      <4>1. LET d == Drop(r, 4)
            IN  /\ SubSeq(d, 1, n) \in Seq(Byte) /\ SubSeq(d, 1, n) = SubSeq(r, 5, 4 + n)
                /\ SubSeq(d, n + 1, n + 2) \in Seq(Byte) /\ Len(SubSeq(d, n + 1, n + 2)) = 2
                /\ SubSeq(d, n + 1, n + 2) = SubSeq(r, Len(r) - 1, Len(r))
        BY <1>1, <2>1, IpCut
      <4> QED
        BY <3>2, <4>1
    <3>7. host \in Seq(Byte) /\ port \in Seq(Byte) /\ Len(port) = 2
      BY <3>5
    <3>8. host = Whole!Target(r).host /\ Words!Uint16(port) = Whole!Target(r).port
      BY <1>7, <3>5, ZenonT(40) DEF Whole!Target, Whole!AddressLen, Words!AddressLen, Whole!Uint16,
                              Words!Uint16, Whole!DOMAINNAME, Whole!IPV4, Words!IPV4
    <3>9. Connect(header, host, port, << >>)
      BY <2>3, <3>4, Values DEF Prefix
    <3>10. wire' = << >>
      BY <3>2
    <3> HIDE DEF host, port
    <3> QED
      BY <1>2, <1>3, <1>7, <3>7, <3>8, <3>9, <3>10, ConnectLands
  <2>4. ReadIp(header, c)
    BY <1>2, <1>7, Values DEF ReadAddress
  <2> QED
    BY <1>2, <2>2, <2>3, <2>4 DEF ReadIp
<1>8. CASE r[4] = 3
  <2> DEFINE m == r[5]
  <2>1. m \in Nat /\ Len(r) = 7 + m
    BY <1>1, <1>8
  <2>2. CASE c = << >> /\ Waits(c, "read_address") /\ UNCHANGED <<remote, target>>
    BY <1>2, <1>6, <1>8, <2>2
  <2>3. c # << >> => c[1] = m /\ Len(c) >= 3 + m /\ Len(Tail(c)) = Len(c) - 1
    <3>1. ASSUME c # << >>
          PROVE  c[1] = m /\ Len(c) >= 3 + m /\ Len(Tail(c)) = Len(c) - 1
      <4>1. Len(c) # 0
        BY <3>1, EmptySeq
      <4>2. 1 \in 1..Len(c) /\ 1 \in 1..Len(r) - 4
        BY <1>3, <2>1, <4>1, SMTT(30)
      <4>3. c[1] = r[4 + 1]
        BY <1>4, <1>5, <4>2
      <4>4. c[1] = m
        BY <4>3
      <4>5. Len(c) >= 1 + c[1] + 2
        BY <1>2, <1>8, <3>1
      <4>6. Len(c) >= 3 + m
        BY <1>3, <2>1, <4>4, <4>5
      <4>7. Len(Tail(c)) = Len(c) - 1
        BY <3>1, HeadTailProperties
      <4> QED
        BY <4>4, <4>6, <4>7
    <3> QED
      BY <3>1
  <2>4. CASE c # << >> /\ c[1] = 0 /\ Closes /\ UNCHANGED <<remote, target>>
    <3>1. event' = "freed" /\ broken' = broken /\ remote' = FALSE
      BY <2>4 DEF Closes, Freed
    <3>2. Whole!AfterRequest(r) = "closed"
      <4>1. r[5] = 0
        BY <2>3, <2>4
      <4> QED
        BY <1>8, <4>1 DEF Whole!AfterRequest, Whole!WellFormed, Whole!DOMAINNAME
    <3>3. Stage' = "closed"
      BY <3>1, StageBecomes
    <3>4. Turn
      BY <3>1, <3>2, <3>3, RequestTurn
    <3> QED
      BY <3>1, <3>4 DEF Lives
  <2>5. ~(c # << >> /\ ~AddressArrived(Tail(c), c[1]))
    BY <1>3, <2>1, <2>3, Values, SMTT(30) DEF AddressArrived
  <2>6. CASE /\ c # << >> /\ c[1] > 0
             /\ Connect(header, Words!CString(SubSeq(c, 2, 1 + c[1])), SubSeq(c, 2 + c[1], 1 + c[1] + PORT_LEN),
                        << >>)
    <3>1. c = Drop(r, 4) /\ w = << >> /\ Len(c) = 3 + m /\ c[1] = m
      <4>1. Len(c) >= Len(Drop(r, 4)) /\ Len(Drop(r, 4)) = 3 + m
        BY <1>3, <1>4, <2>1, <2>3, <2>6, SMTT(30)
      <4>2. c = Drop(r, 4) /\ w = << >>
        BY <4>1, AllOf
      <4> QED
        BY <2>3, <2>6, <4>1, <4>2
    <3> DEFINE name == SubSeq(c, 2, 1 + m)
               host == Words!CString(name)
               port == SubSeq(c, 2 + m, 3 + m)
    <3>2. /\ name \in Seq(Byte) /\ name = SubSeq(r, 6, 5 + m)
          /\ port \in Seq(Byte) /\ Len(port) = 2 /\ port = SubSeq(r, Len(r) - 1, Len(r))
      <4> HIDE DEF m
      <4>1. LET d == Drop(r, 4)
            IN  /\ SubSeq(d, 2, 1 + m) \in Seq(Byte) /\ SubSeq(d, 2, 1 + m) = SubSeq(r, 6, 5 + m)
                /\ SubSeq(d, 2 + m, 3 + m) \in Seq(Byte) /\ Len(SubSeq(d, 2 + m, 3 + m)) = 2
                /\ SubSeq(d, 2 + m, 3 + m) = SubSeq(r, Len(r) - 1, Len(r))
        BY <1>1, <2>1, DomainCut
      <4> QED
        BY <3>1, <4>1
    <3>3. host \in Seq(Byte)
      BY <3>2, CStringType
    <3>4. host = Whole!CString(SubSeq(r, 6, 5 + m))
      BY <3>2, SameCString
    <3>5. host = Whole!Target(r).host /\ Words!Uint16(port) = Whole!Target(r).port
      <4> HIDE DEF host
      <4> QED
        BY <1>8, <3>2, <3>4 DEF Whole!Target, Whole!Uint16, Words!Uint16, Whole!DOMAINNAME
    <3>6. Connect(header, host, port, << >>)
      <4>1. 1 + m + PORT_LEN = 3 + m
        BY <2>1, Values, SMTT(30)
      <4> QED
        BY <2>6, <3>1, <4>1
    <3>7. r[5] > 0 /\ wire' = << >>
      BY <2>6, <3>1
    <3> HIDE DEF host, port
    <3> QED
      BY <1>2, <1>3, <3>2, <3>3, <3>5, <3>6, <3>7, ConnectLands
  <2>7. ReadDomain(header, c)
    BY <1>2, <1>8, Values DEF ReadAddress
  <2> QED
    BY <2>2, <2>4, <2>5, <2>6, <2>7 DEF ReadDomain
<1> QED
  BY <1>7, <1>8

LEMMA ConnectReadLands ==
  ASSUME WholeMessages, Scripted, NEW b \in Seq(Byte), NEW w \in Seq(Byte),
         b \o w = script.request, ConnectRead(b), read_cb = "connect_read",
         replies # << >>, Last(replies) \in {<<VERSION, 0>>, <<1, SUCCESS>>},
         ~misled, ~misled', misled' = (misled \/ Misleads(b)), event = "live",
         remote = FALSE, target = NULL, Last(replies) # <<1, FAILURE>>,
         sent = Len(replies) + 1, wire' = w, UNCHANGED <<users, script, sent>>
  PROVE  Lives' /\ Turn
<1> DEFINE r == script.request
<1>1. r \in Seq(Byte) /\ Len(r) \in Nat /\ Len(r) >= 4
  BY RequestWhole
<1>2. Len(b) \in Nat /\ \A i \in 1..Len(b) : b[i] = r[i]
  BY Begins
<1>3. Stage = "request"
  BY StageIs
<1>4. CASE Len(b) < HEADER_LEN /\ Waits(b, read_cb) /\ UNCHANGED <<context, replies>>
  <2>1. /\ in' = b /\ read_cb' = "connect_read" /\ event' = "live" /\ broken' = broken
        /\ replies' = replies /\ target' = NULL /\ remote' = FALSE /\ in' \o wire' = r
    BY <1>4 DEF Waits, context
  <2>2. At(in \o wire)'
    BY <2>1 DEF At, Pends
  <2>3. Short(in)'
    BY <1>4, <2>1 DEF Short
  <2>4. Stage' = "request"
    BY <2>1, StageBecomes
  <2> QED
    BY <1>3, <2>1, <2>2, <2>3, <2>4, NoTurn DEF Lives
<1>5. ASSUME Len(b) >= HEADER_LEN
      PROVE  /\ b[1] = r[1] /\ b[2] = r[2] /\ b[3] = r[3] /\ b[4] = r[4]
             /\ GoodHeader(b) <=> GoodHeader(r)
             /\ Prefix(b, HEADER_LEN) = Prefix(r, HEADER_LEN)
             /\ Drop(b, 4) \in Seq(Byte) /\ Drop(b, 4) \o w = Drop(r, 4)
  <2>1. Len(b) >= 4 /\ 4 \in Nat /\ 4 <= Len(b)
    BY <1>5, Values
  <2>2. b[1] = r[1] /\ b[2] = r[2] /\ b[3] = r[3] /\ b[4] = r[4]
    BY <1>2, <2>1
  <2>3. GoodHeader(b) <=> GoodHeader(r)
    BY <2>2 DEF GoodHeader
  <2>4. SubSeq(b, 1, 4) = SubSeq(r, 1, 4)
    <3>1. /\ SubSeq(b, 1, 4) \in Seq(Byte) /\ Len(SubSeq(b, 1, 4)) = 4
          /\ \A i \in 1..4 : SubSeq(b, 1, 4)[i] = b[i]
      BY <2>1, FirstProperties
    <3>2. /\ SubSeq(r, 1, 4) \in Seq(Byte) /\ Len(SubSeq(r, 1, 4)) = 4
          /\ \A i \in 1..4 : SubSeq(r, 1, 4)[i] = r[i]
      BY <1>1, FirstProperties
    <3>3. \A i \in 1..4 : SubSeq(b, 1, 4)[i] = SubSeq(r, 1, 4)[i]
      <4>1. \A i \in 1..4 : i \in 1..Len(b)
        BY <1>2, <2>1
      <4> QED
        BY <1>2, <3>1, <3>2, <4>1
    <3> QED
      BY <3>1, <3>2, <3>3, SeqEqual
  <2>5. Drop(b, 4) \o w = Drop(b \o w, 4) /\ Drop(b, 4) \in Seq(Byte)
    BY <2>1, Taken
  <2> QED
    BY <2>2, <2>3, <2>4, <2>5, Values DEF Prefix
<1>6. CASE /\ Len(b) >= HEADER_LEN /\ ~GoodHeader(b)
           /\ Closes /\ UNCHANGED <<method_count, remote, target, replies>>
  <2>1. event' = "freed" /\ broken' = broken /\ remote' = FALSE
    BY <1>6 DEF Closes, Freed
  <2>2. Whole!AfterRequest(r) = "closed"
    <3>1. ~GoodHeader(r)
      BY <1>5, <1>6
    <3> QED
      BY <3>1, Values DEF GoodHeader, Whole!AfterRequest, Whole!WellFormed, Whole!VERSION,
                          Whole!IPV4, Whole!IPV6, Whole!DOMAINNAME
  <2>3. Stage' = "closed"
    BY <2>1, StageBecomes
  <2>4. Turn
    BY <1>3, <2>1, <2>2, <2>3, RequestTurn
  <2> QED
    BY <2>1, <2>4 DEF Lives
<1>7. CASE /\ Len(b) >= HEADER_LEN /\ GoodHeader(b)
           /\ ReadAddress(Prefix(b, HEADER_LEN), Drop(b, HEADER_LEN))
  <2> DEFINE header == Prefix(r, HEADER_LEN)
             c == Drop(b, 4)
  <2>1. /\ GoodHeader(r) /\ c \in Seq(Byte) /\ c \o w = Drop(r, 4)
        /\ ReadAddress(header, c)
    BY <1>5, <1>7, Values
  <2>2. header[4] = b[4]
    BY <1>1, <1>5, <1>7, HeaderIs
  <2>3. ~CutsDomain(b)
    BY DEF Misleads
  <2>4. b[4] = 3 /\ c # << >> => ~(Len(c) < 1 + c[1] + 2)
    BY <2>3, Values DEF CutsDomain
  <2>5. b[4] = 3 /\ c # << >> => Len(c) >= 1 + c[1] + 2
    <3>1. ASSUME c # << >> PROVE c[1] \in Nat /\ Len(c) \in Nat
      <4>1. Len(c) # 0 /\ Len(c) \in Nat
        BY <2>1, <3>1, EmptySeq, LenProperties
      <4>2. 1 \in Nat /\ 0 < 1 /\ 1 <= Len(c)
        BY <4>1
      <4> QED
        BY <2>1, <4>1, <4>2, Bytes, Zenon
    <3> HIDE DEF c
    <3> QED
      BY <2>4, <3>1
  <2> HIDE DEF c
  <2> QED
    BY <1>3, <2>1, <2>2, <2>5, AddressLands
<1> QED
  BY <1>4, <1>6, <1>7 DEF ConnectRead

LEMMA RestOfAddressLands ==
  ASSUME WholeMessages, Scripted, NEW b \in Seq(Byte), NEW w \in Seq(Byte),
         NEW r, r = script.request, GoodHeader(r), b \o w = Drop(r, 4),
         connect_header = Prefix(r, HEADER_LEN),
         ReadAddress(connect_header, b), read_cb = "read_address",
         ~misled, ~misled', misled' = (misled \/ Misleads(b)), event = "live",
         remote = FALSE, target = NULL, Last(replies) # <<1, FAILURE>>,
         sent = Len(replies) + 1, wire' = w, UNCHANGED <<users, script, sent>>
  PROVE  Lives' /\ Turn
<1>1. ~CutsDomain(b)
  BY DEF Misleads
<1>2. connect_header[4] = 3 /\ b # << >> => ~(Len(b) < 1 + b[1] + 2)
  BY <1>1, Values DEF CutsDomain
<1>3. connect_header[4] = 3 /\ b # << >> => Len(b) >= 1 + b[1] + 2
  <2>1. ASSUME b # << >> PROVE b[1] \in Nat /\ Len(b) \in Nat
    <3>1. Len(b) # 0 /\ Len(b) \in Nat
      BY <2>1, EmptySeq, LenProperties
    <3>2. 1 \in Nat /\ 0 < 1 /\ 1 <= Len(b)
      BY <3>1
    <3> QED
      BY <3>1, <3>2, Bytes, Zenon
  <2> QED
    BY <1>2, <2>1
<1>4. Stage = "request"
  BY StageIs
<1> DEFINE header == connect_header
<1>5. /\ header = Prefix(r, HEADER_LEN) /\ ReadAddress(header, b)
      /\ header[4] = 3 /\ b # << >> => Len(b) >= 1 + b[1] + 2
  BY <1>3
<1> HIDE DEF header
<1> QED
  BY <1>4, <1>5, AddressLands

-----------------------------------------------------------------------------
(* Every run of a callback.                                                *)

\* A run on what is in the buffer, b; w is still on its way.
Given(b, w) ==
  /\ b \in Seq(Byte) /\ w \in Seq(Byte) /\ b # << >> /\ b \o w = in \o wire
  /\ event = "live" /\ ReadCallback(b)
  /\ wire' = w /\ misled' = (misled \/ Misleads(b))
  /\ ending' \in BOOLEAN /\ UNCHANGED <<users, script, sent, heard>>

LEMMA NotNothing ==
  ASSUME NEW b \in Seq(Byte), NEW w \in Seq(Byte), b # << >>
  PROVE  b \o w # << >>
<1>1. Len(b) \in Nat /\ Len(b) # 0 /\ Len(w) \in Nat
  BY EmptySeq, LenProperties
<1>2. Len(b \o w) = Len(b) + Len(w)
  BY ConcatProperties
<1>3. Len(b \o w) # 0
  BY <1>1, <1>2
<1> QED
  BY <1>3, EmptySeq

LEMMA ConnectStays ==
  ASSUME NEW b, read_cb \in {"connect_read", "read_address"}, ReadCallback(b)
  PROVE  read_cb' \in {"connect_read", "read_address"} \/ event' = "freed"
<1>1. ASSUME NEW header, NEW c, ReadAddress(header, c)
      PROVE  read_cb' \in {"connect_read", "read_address"} \/ event' = "freed"
  BY <1>1 DEF ReadAddress, ReadIp, ReadDomain, Connect, Waits, Freed, Closes
<1>2. CASE read_cb = "connect_read" /\ ConnectRead(b)
  BY <1>1, <1>2 DEF ConnectRead, Waits, Closes, Freed
<1>3. CASE read_cb = "read_address" /\ ReadAddress(connect_header, b)
  BY <1>1, <1>3
<1> QED
  BY <1>2, <1>3 DEF ReadCallback

LEMMA CallbackLands ==
  ASSUME WholeMessages, Scripted, Place, NEW b, NEW w, Given(b, w)
  PROVE  Lives' /\ Turn
<1>1. /\ b \in Seq(Byte) /\ w \in Seq(Byte) /\ b # << >> /\ event = "live"
      /\ ReadCallback(b) /\ wire' = w /\ misled' = (misled \/ Misleads(b))
      /\ UNCHANGED <<users, script, sent>>
  BY DEF Given
<1>2. At(b \o w)
  BY DEF Given, Place, Lives
<1>3. b \o w # << >>
  BY <1>1, NotNothing
<1>4. ~Idle(b \o w)
  BY <1>3 DEF Idle
<1>5. CASE read_cb = "read_methods"
  <2>1. replies = << >> /\ Pends(script.greeting, b \o w) /\ target = NULL /\ remote = FALSE
    BY <1>2, <1>4, <1>5 DEF At
  <2>2. sent = 1 /\ b \o w = script.greeting
    <3>1. Len(<< >>) = 0
      BY EmptySeq
    <3> QED
      BY <2>1, <3>1 DEF Pends
  <2>3. misled' = misled
    <3>1. ~Misleads(b)
      BY <1>5 DEF Misleads, CutsDomain, CutsLogin, LongLogin
    <3>2. misled \in BOOLEAN
      BY DEF Place, Counts, TypeOK
    <3> QED
      BY <1>1, <3>1, <3>2
  <2>4. ReadMethods(b)
    BY <1>1, <1>5 DEF ReadCallback
  <2> QED
    BY <1>1, <1>5, <2>1, <2>2, <2>3, <2>4, MethodsLand
<1>6. CASE read_cb = "read_methods_inner"
  <2>1. /\ replies = << >> /\ Pends(Drop(script.greeting, 2), b \o w)
        /\ target = NULL /\ remote = FALSE
        /\ script.greeting[1] = VERSION /\ method_count = script.greeting[2]
    BY <1>2, <1>6 DEF At
  <2>2. sent = 1 /\ b \o w = Drop(script.greeting, 2)
    <3>1. Len(<< >>) = 0
      BY EmptySeq
    <3> QED
      BY <2>1, <3>1 DEF Pends
  <2>3. misled' = misled
    <3>1. ~Misleads(b)
      BY <1>6 DEF Misleads, CutsDomain, CutsLogin, LongLogin
    <3>2. misled \in BOOLEAN
      BY DEF Place, Counts, TypeOK
    <3> QED
      BY <1>1, <3>1, <3>2
  <2>4. ReadMethodsInner(b, method_count)
    BY <1>1, <1>6 DEF ReadCallback
  <2> DEFINE count == method_count
  <2>5. count = script.greeting[2] /\ ReadMethodsInner(b, count)
    BY <2>1, <2>4
  <2> HIDE DEF count
  <2> QED
    BY <1>1, <1>6, <2>1, <2>2, <2>3, <2>5, InnerLands
<1>7. CASE read_cb = "auth_read"
  <2>1. /\ replies = <<<<VERSION, Words!USERNAME_PASSWORD>>>>
        /\ Pends(script.login, b \o w) /\ target = NULL /\ remote = FALSE
    BY <1>2, <1>4, <1>7 DEF At
  <2>2. sent = 2 /\ b \o w = script.login
    BY <2>1, Answered DEF Pends
  <2>3. AuthRead(b)
    BY <1>1, <1>7 DEF ReadCallback
  <2> QED
    BY <1>1, <1>7, <2>1, <2>2, <2>3, AuthLands
<1>8. CASE read_cb \in {"connect_read", "read_address"} /\ misled'
  BY <1>1, <1>8, ConnectStays, MisledLands
<1>9. CASE read_cb = "connect_read" /\ ~misled'
  <2>1. ~misled
    BY <1>1, <1>9
  <2>2. /\ target = NULL /\ remote = FALSE /\ replies # << >>
        /\ Last(replies) \in {<<VERSION, 0>>, <<1, SUCCESS>>, <<1, FAILURE>>}
        /\ Pends(script.request, b \o w) /\ Last(replies) # <<1, FAILURE>>
    BY <1>2, <1>4, <1>9, <2>1 DEF At
  <2>3. sent = Len(replies) + 1 /\ b \o w = script.request
    BY <2>2 DEF Pends
  <2>4. ConnectRead(b)
    BY <1>1, <1>9 DEF ReadCallback
  <2>5. Last(replies) \in {<<VERSION, 0>>, <<1, SUCCESS>>}
    BY <2>2
  <2> QED
    BY <1>1, <1>9, <2>1, <2>2, <2>3, <2>4, <2>5, ConnectReadLands
<1>10. CASE read_cb = "read_address" /\ ~misled'
  <2>1. ~misled
    BY <1>1, <1>10
  <2>2. /\ target = NULL /\ remote = FALSE /\ GoodHeader(script.request)
        /\ connect_header = Prefix(script.request, HEADER_LEN)
        /\ Pends(Drop(script.request, HEADER_LEN), b \o w) /\ Last(replies) # <<1, FAILURE>>
    BY <1>2, <1>3, <1>10, <2>1 DEF At
  <2>3. sent = Len(replies) + 1 /\ b \o w = Drop(script.request, 4)
    BY <2>2, Values DEF Pends
  <2>4. ReadAddress(connect_header, b)
    BY <1>1, <1>10 DEF ReadCallback
  <2> QED
    BY <1>1, <1>10, <2>1, <2>2, <2>3, <2>4, RestOfAddressLands
<1> QED
  BY <1>1, <1>5, <1>6, <1>7, <1>8, <1>9, <1>10 DEF ReadCallback

LEMMA CallbackCounts ==
  ASSUME WholeMessages, Scripted, Inv, Place, NEW b, NEW w, Given(b, w)
  PROVE  Counts'
<1>1. TypeOK /\ sent \in 0..3 /\ sent <= Len(replies) + 1 /\ Len(replies) <= 2 /\ Len(replies) <= sent
      /\ replies \in Seq(Byte \X Byte) /\ Len(replies) \in Nat /\ heard \in 0..Len(replies)
  BY LenProperties DEF Place, Counts, TypeOK
<1>2. b \in Seq(Byte) /\ ReadCallback(b) /\ wire' \in Seq(Byte) /\ UNCHANGED <<sent, heard>>
  BY DEF Given
<1>3. Kinds
  BY <1>1, <1>2, CallbackKinds
<1>4. in' \in Seq(Byte)
  <2>1. method_count \in Nat
    BY DEF Inv, Counted
  <2> QED
    BY <1>2, <2>1, CallbackWell DEF EndsWell
<1>5. misled' \in BOOLEAN
  <2>1. misled' = (misled \/ Misleads(b)) /\ misled \in BOOLEAN
    BY <1>1 DEF Given, TypeOK
  <2> QED
    BY <2>1 DEF Misleads, CutsDomain, CutsLogin, LongLogin
<1>6. ending' \in BOOLEAN
  BY DEF Given
<1>7. /\ replies' \in Seq(Byte \X Byte) /\ Len(replies') <= sent /\ Len(replies) <= Len(replies')
      /\ sent <= Len(replies') + 1 /\ Len(replies') <= 2
  <2>1. CASE replies' = replies
    BY <1>1, <2>1
  <2>2. CASE /\ read_cb \in {"read_methods", "read_methods_inner", "auth_read"}
             /\ \E r \in Byte \X Byte : replies' = Append(replies, r)
    <3>1. PICK r \in Byte \X Byte : replies' = Append(replies, r)
      BY <2>2
    <3>2. replies' \in Seq(Byte \X Byte) /\ Len(replies') = Len(replies) + 1
      BY <1>1, <3>1, AppendedReply
    <3>3. At(b \o w) /\ ~Idle(b \o w)
      <4>1. b \o w # << >>
        BY NotNothing DEF Given
      <4> QED
        BY <4>1 DEF Given, Place, Lives, Idle
    <3>4. sent = Len(replies) + 1 /\ Len(replies) <= 1
      <4>1. Len(<< >>) = 0 /\ Len(<<<<VERSION, Words!USERNAME_PASSWORD>>>>) = 1
        BY Answered, EmptySeq
      <4>2. sent = Len(replies) + 1
        BY <2>2, <3>3 DEF At, Pends
      <4>3. replies \in {<< >>, <<<<VERSION, Words!USERNAME_PASSWORD>>>>}
        BY <2>2, <3>3 DEF At
      <4>4. Len(replies) = 0 \/ Len(replies) = 1
        BY <4>1, <4>3, Zenon
      <4>5. \A n : n = 0 \/ n = 1 => n <= 1
        OBVIOUS
      <4>6. Len(replies) <= 1
        BY <4>4, <4>5, Zenon
      <4> QED
        BY <4>2, <4>6
    <3> QED
      BY <1>1, <3>2, <3>4
  <2> QED
    BY <1>3, <2>1, <2>2 DEF Kinds
<1>8. heard' \in 0..Len(replies')
  BY <1>1, <1>2, <1>7, LenProperties
<1>9. TypeOK'
  BY <1>1, <1>2, <1>3, <1>4, <1>5, <1>6, <1>7, <1>8 DEF TypeOK, Kinds, Callbacks
<1> QED
  BY <1>2, <1>7, <1>9 DEF Counts

\* Whoever frees the event has not answered before, except that nothing is
\* acceptable.
LEMMA LastWord ==
  ASSUME NEW b, ReadCallback(b), event = "live", event' = "freed",
         replies \in Seq(Byte \X Byte)
  PROVE  replies' = replies \/ Last(replies') = <<VERSION, NO_ACCEPTABLE_METHODS>>
<1>1. ASSUME NEW r, NEW c, NEW cb, Replies(r, c, cb)
      PROVE  FALSE
  BY <1>1 DEF Replies, Waits
<1>2. ASSUME NEW c, NEW count, ReadMethodsInner(c, count)
      PROVE  replies' = replies \/ Last(replies') = <<VERSION, NO_ACCEPTABLE_METHODS>>
  <2>1. CASE Choose(c, count)
    <3> DEFINE method == Negotiated(Prefix(c, count))
               r == <<VERSION, method>>
    <3>1. method = NO_ACCEPTABLE_METHODS /\ replies' = Append(replies, r)
      BY <1>1, <2>1 DEF Choose
    <3>2. r \in Byte \X Byte
      BY NegotiatedByte
    <3>3. Last(Append(replies, r)) = r
      <4> HIDE DEF r
      <4> QED
        BY <3>2, AppendedReply
    <3> QED
      BY <3>1, <3>3
  <2> QED
    BY <1>2, <2>1 DEF ReadMethodsInner
<1>3. CASE read_cb = "read_methods" /\ ReadMethods(b)
  BY <1>2, <1>3 DEF ReadMethods
<1>4. CASE read_cb = "auth_read" /\ AuthRead(b)
  BY <1>1, <1>4 DEF AuthRead, Login, UnreadPassword
<1>5. CASE read_cb = "connect_read" /\ ConnectRead(b)
  BY <1>5 DEF ConnectRead, ReadAddress
<1>6. CASE read_cb = "read_address" /\ ReadAddress(connect_header, b)
  BY <1>6 DEF ReadAddress
<1> QED
  BY <1>2, <1>3, <1>4, <1>5, <1>6 DEF ReadCallback

LEMMA CallbackHeard ==
  ASSUME Place, Heard, NEW b, NEW w, Given(b, w)
  PROVE  Heard'
<1>1. /\ TypeOK /\ replies \in Seq(Byte \X Byte) /\ Len(replies) \in Nat /\ sent \in Nat
      /\ b \in Seq(Byte) /\ ReadCallback(b) /\ event = "live" /\ UNCHANGED <<sent, heard>>
  BY LenProperties DEF Place, Counts, TypeOK, Given
<1>2. Kinds
  BY <1>1, CallbackKinds
<1>3. InTurn'
  <2>1. ASSUME NEW r \in Byte \X Byte, replies' = Append(replies, r)
        PROVE  Len(replies') = Len(replies) + 1
    BY <1>1, <2>1, AppendedReply
  <2>2. replies' = replies \/ Len(replies') = Len(replies) + 1
    BY <1>2, <2>1 DEF Kinds
  <2>3. CASE replies' = replies
    BY <1>1, <2>3 DEF Heard, InTurn
  <2>4. CASE Len(replies') = Len(replies) + 1
    <3>1. ~(sent > Len(replies'))
      BY <1>1, <2>4 DEF Place, Counts
    <3> QED
      BY <1>1, <3>1 DEF InTurn
  <2> QED
    BY <2>2, <2>3, <2>4
<1>4. ASSUME event' = "freed", ~misled'
      PROVE  heard' = Len(replies') \/ Last(replies') = <<VERSION, NO_ACCEPTABLE_METHODS>>
  <2>1. ~misled /\ At(b \o w) /\ ~Idle(b \o w)
    <3>1. b \o w # << >>
      BY NotNothing DEF Given
    <3> QED
      BY <1>4, <3>1 DEF Given, Place, Lives, Idle
  <2>2. sent = Len(replies) + 1
    BY <1>1, <2>1 DEF At, Pends, TypeOK
  <2>3. heard = Len(replies)
    BY <1>1, <2>2 DEF Heard, InTurn
  <2> QED
    BY <1>1, <1>4, <2>3, LastWord
<1> QED
  BY <1>3, <1>4 DEF Heard, AnswersHeard

-----------------------------------------------------------------------------
(* Every step.                                                             *)

Whereabouts == Inv /\ Place /\ Heard

LEMMA PlaceInit == Init => Whereabouts
<1> SUFFICES ASSUME Init PROVE Whereabouts
  OBVIOUS
<1>1. << >> \in Seq(Byte) /\ << >> \in Seq(Byte \X Byte) /\ Len(<< >>) = 0
      /\ << >> \o << >> = << >>
  BY EmptySeq, ConcatEmptySeq
<1>2. /\ sent = 0 /\ wire = << >> /\ in = << >> /\ read_cb = "read_methods" /\ event = "live"
      /\ method_count = 0 /\ connect_header = << >> /\ remote = FALSE /\ target = NULL
      /\ replies = << >> /\ heard = 0 /\ ending = FALSE /\ broken = FALSE /\ misled = FALSE
     
  BY DEF Init
<1>3. 0 \in Byte /\ 0 \in 0..3 /\ 0 \in 0..0
  BY DEF Byte
<1>4. TypeOK
  <2>1. {remote, ending, broken, misled} \subseteq BOOLEAN /\ read_cb # "read_address"
    BY <1>2
  <2>2. sent \in 0..3 /\ Len(replies) <= sent /\ heard \in 0..Len(replies)
    <3>1. Len(replies) = 0
      BY <1>1, <1>2
    <3> QED
      BY <1>2, <3>1
  <2>3. wire \in Seq(Byte) /\ in \in Seq(Byte) /\ connect_header \in Seq(Byte)
        /\ replies \in Seq(Byte \X Byte) /\ method_count \in Byte
    BY <1>1, <1>2, <1>3, Zenon
  <2> QED
    BY <1>2, <2>1, <2>2, <2>3 DEF TypeOK
<1>5. Counts
  BY <1>1, <1>2, <1>4 DEF Counts
<1>6. Lives
  BY <1>1, <1>2 DEF Lives, At, Short, Idle
<1> QED
  BY <1>1, <1>2, <1>5, <1>6, InitInv DEF Whereabouts, Place, Heard, InTurn, AnswersHeard

LEMMA GivenPlace ==
  ASSUME WholeMessages, Whereabouts, NEW b, NEW w, Given(b, w)
  PROVE  Place' /\ Heard' /\ Turn
<1>1. Inv /\ Place /\ Scripted
  BY DEF Whereabouts, Inv
<1> QED
  BY <1>1, CallbackCounts, CallbackLands, CallbackHeard DEF Place, Whereabouts

LEMMA ReadPlace ==
  ASSUME WholeMessages, Whereabouts, NEW n \in 1..Len(wire), Read(n)
  PROVE  Place' /\ Heard' /\ Turn
<1>1. wire \in Seq(Byte) /\ in \in Seq(Byte) /\ n \in Nat /\ n <= Len(wire) /\ n > 0
  BY LenProperties DEF Whereabouts, Inv, Buffered
<1> DEFINE x == Prefix(wire, n)
           y == Drop(wire, n)
<1>2. x \in Seq(Byte) /\ Len(x) = n /\ y \in Seq(Byte) /\ x \o y = wire
  <2>1. SubSeq(wire, 1, n) \o Rest(wire, n) = wire
    BY <1>1, SplitAt
  <2>2. SubSeq(wire, 1, n) \in Seq(Byte) /\ Len(SubSeq(wire, 1, n)) = n
    BY <1>1, FirstProperties
  <2>3. y \in Seq(Byte)
    BY <1>1, Pieces
  <2> QED
    BY <2>1, <2>2, <2>3 DEF Prefix, Drop, Rest
<1> HIDE DEF x, y
<1>3. (in \o x) \o y = in \o wire /\ in \o x \in Seq(Byte) /\ in \o x # << >>
  <2>1. \A s, t, u \in Seq(Byte) : (s \o t) \o u = s \o (t \o u)
    OBVIOUS
  <2>2. Len(in \o x) = Len(in) + n /\ Len(in) \in Nat /\ in \o x \in Seq(Byte)
    BY <1>1, <1>2, ConcatProperties, LenProperties
  <2>3. Len(in \o x) # 0
    BY <1>1, <2>2
  <2> QED
    BY <1>1, <1>2, <2>1, <2>2, <2>3, EmptySeq
<1>4. ending \in BOOLEAN
  BY DEF Whereabouts, Place, Counts, TypeOK
<1>5. PICK b \in Seq(Byte), w \in Seq(Byte) : b = in \o x /\ w = y
  BY <1>2, <1>3
<1>6. Given(b, w)
  <2>1. /\ event = "live" /\ wire' = y /\ misled' = (misled \/ Misleads(in \o x))
        /\ ReadCallback(in \o x) /\ UNCHANGED <<users, script, sent, heard, ending>>
    BY DEF Read, x, y
  <2>2. misled' = (misled \/ Misleads(b)) /\ ReadCallback(b)
    BY <1>5, <2>1
  <2> QED
    BY <1>3, <1>4, <1>5, <2>1, <2>2 DEF Given
<1> QED
  BY <1>6, GivenPlace

LEMMA EndLeftPlace ==
  ASSUME WholeMessages, Whereabouts, EndLeft
  PROVE  Place' /\ Heard' /\ Turn
<1>1. wire \in Seq(Byte) /\ in \in Seq(Byte)
  BY DEF Whereabouts, Inv, Buffered
<1>2. PICK b \in Seq(Byte), w \in Seq(Byte) : b = in /\ w = wire
  BY <1>1
<1>3. /\ event = "live" /\ in # << >> /\ wire' = wire /\ misled' = (misled \/ Misleads(in))
      /\ ReadCallback(in) /\ UNCHANGED <<users, script, sent, heard>> /\ ending' = TRUE
  BY DEF EndLeft
<1>4. misled' = (misled \/ Misleads(b)) /\ ReadCallback(b)
  BY <1>2, <1>3
<1>5. Given(b, w)
  BY <1>2, <1>3, <1>4 DEF Given
<1> QED
  BY <1>5, GivenPlace

\* Nobody has moved on: the same stage.
LEMMA StageStays ==
  ASSUME UNCHANGED <<users, script, read_cb, event, remote, target, replies, broken, misled>>
  PROVE  Turn
<1>1. Stage' = Stage
  BY DEF Stage
<1> QED
  BY <1>1, NoTurn

LEMMA SendsPlace ==
  ASSUME WholeMessages, Whereabouts, ClientSends
  PROVE  Place' /\ Heard' /\ Turn
<1>1. /\ event = "live" /\ sent = heard /\ heard = Len(replies) /\ ~Rejected
      /\ sent' = sent + 1 /\ wire' = wire \o NextMessage
      /\ UNCHANGED <<users, script, in, read_cb, event, method_count, connect_header, remote,
                     target, replies, heard, ending, broken, misled>>
  BY DEF ClientSends, context
<1>2. /\ TypeOK /\ sent \in 0..3 /\ Len(replies) <= 2 /\ Len(replies) \in Nat
      /\ wire \in Seq(Byte) /\ in \in Seq(Byte) /\ Scripted
      /\ At(in \o wire) /\ Short(in)
  BY <1>1, LenProperties DEF Whereabouts, Place, Counts, Lives, TypeOK, Inv
<1>3. NextMessage \in Seq(Byte)
  BY <1>2, ScriptTypes DEF NextMessage
<1>4. wire' \in Seq(Byte)
  BY <1>1, <1>2, <1>3, ConcatProperties
<1>5. sent' \in 0..3 /\ sent' = Len(replies) + 1
  BY <1>1, <1>2
<1>6. Counts'
  BY <1>1, <1>2, <1>4, <1>5 DEF Counts, TypeOK
<1>7. ASSUME in \o wire = << >>
      PROVE  in' \o wire' = NextMessage
  <2>1. \A s, t, u \in Seq(Byte) : (s \o t) \o u = s \o (t \o u)
    OBVIOUS
  <2>2. in \o (wire \o NextMessage) = << >> \o NextMessage
    <3>1. (in \o wire) \o NextMessage = in \o (wire \o NextMessage)
      BY <1>2, <1>3, <2>1, Zenon
    <3> QED
      BY <1>7, <3>1, Zenon
  <2>3. << >> \o NextMessage = NextMessage
    BY <1>3, ConcatEmptySeq
  <2> QED
    BY <1>1, <2>2, <2>3
<1>8. \A m, s : ~Pends(m, s)
  <2>1. sent # Len(replies) + 1
    BY <1>1, <1>2
  <2> QED
    BY <2>1 DEF Pends
<1>9. \A s, u : Idle(s) => s = << >>
  BY DEF Idle
<1>10. At(in \o wire)'
  <2> DEFINE s == in' \o wire'
  <2>1. CASE read_cb = "read_methods"
    <3>1. replies = << >> /\ in \o wire = << >> /\ target = NULL /\ remote = FALSE
      BY <1>2, <1>8, <1>9, <2>1 DEF At
    <3>2. NextMessage = script.greeting
      BY <3>1 DEF NextMessage
    <3>3. s = script.greeting
      BY <1>7, <3>1, <3>2
    <3> HIDE DEF s
    <3>4. sent' = Len(replies') + 1 /\ s = script'.greeting
      BY <1>1, <1>5, <3>3
    <3> QED
      BY <1>1, <2>1, <3>1, <3>4 DEF At, Pends, s
  <2>2. CASE read_cb = "read_methods_inner"
    BY <1>2, <1>8, <2>2 DEF At
  <2>3. CASE read_cb = "auth_read"
    <3>1. /\ replies = <<<<VERSION, Words!USERNAME_PASSWORD>>>> /\ in \o wire = << >>
          /\ target = NULL /\ remote = FALSE
      BY <1>2, <1>8, <1>9, <2>3 DEF At
    <3>2. NextMessage = script.login
      BY <3>1, Answered DEF NextMessage
    <3>3. s = script.login
      BY <1>7, <3>1, <3>2
    <3> HIDE DEF s
    <3>4. sent' = Len(replies') + 1 /\ s = script'.login
      BY <1>1, <1>5, <3>3
    <3> QED
      BY <1>1, <2>3, <3>1, <3>4 DEF At, Pends, s
  <2>4. CASE read_cb = "connect_read" /\ ~misled
    <3>1. /\ target = NULL /\ remote = FALSE /\ replies # << >> /\ in \o wire = << >>
          /\ Last(replies) \in {<<VERSION, 0>>, <<1, SUCCESS>>, <<1, FAILURE>>}
      BY <1>2, <1>8, <1>9, <2>4 DEF At
    <3>2. Last(replies) # <<1, FAILURE>>
      <4>1. ASSUME Last(replies) = <<1, FAILURE>> PROVE FALSE
        <5>1. Last(replies)[2] = FAILURE
          BY <4>1
        <5> QED
          BY <1>1, <3>1, <5>1 DEF Rejected
      <4> QED
        BY <4>1
    <3>3. Last(replies) # <<VERSION, Words!USERNAME_PASSWORD>>
      <4>1. <<VERSION, 0>> # <<5, 2>> /\ <<1, SUCCESS>> # <<5, 2>>
        BY Values
      <4> QED
        BY <3>1, <3>2, <4>1, Values
    <3>4. NextMessage = script.request
      BY <3>1, <3>3 DEF NextMessage
    <3>5. s = script.request
      BY <1>7, <3>1, <3>4
    <3> HIDE DEF s
    <3>6. sent' = Len(replies') + 1 /\ s = script'.request
      BY <1>1, <1>5, <3>5
    <3> QED
      BY <1>1, <2>4, <3>1, <3>2, <3>6 DEF At, Pends, s
  <2>5. CASE read_cb = "read_address" /\ ~misled
    <3>1. sent = Len(replies) + 1
      BY <1>2, <2>5 DEF At, Pends
    <3> QED
      BY <1>1, <1>2, <3>1
  <2>6. CASE read_cb \in {"connect_read", "read_address"} /\ misled
    BY <1>1, <2>6 DEF At
  <2> QED
    BY <1>2, <2>1, <2>2, <2>3, <2>4, <2>5, <2>6 DEF TypeOK
<1>11. Short(in)'
  BY <1>1, <1>2 DEF Short
<1>12. Turn
  BY <1>1, StageStays
<1>13. Heard'
  BY <1>1 DEF Heard, InTurn, AnswersHeard
<1> QED
  BY <1>6, <1>10, <1>11, <1>12, <1>13 DEF Place, Lives

LEMMA FlushPlace ==
  ASSUME Whereabouts, Flush
  PROVE  Place' /\ Heard' /\ Turn
<1>1. /\ heard' = Len(replies)
      /\ UNCHANGED <<users, script, sent, wire, in, read_cb, event, method_count, connect_header,
                     remote, target, replies, ending, broken, misled>>
  BY DEF Flush, context
<1>2. Len(replies) \in 0..Len(replies)
  BY LenProperties DEF Whereabouts, Place, Counts, TypeOK
<1>3. Counts'
  BY <1>1, <1>2 DEF Whereabouts, Place, Counts, TypeOK
<1>4. Lives'
  BY <1>1 DEF Whereabouts, Place, Lives, At, Short, Idle, Pends, GoodHeader
<1>5. Turn
  BY <1>1, StageStays
<1>6. Heard'
  BY <1>1 DEF Flush, Heard, InTurn, AnswersHeard
<1> QED
  BY <1>3, <1>4, <1>5, <1>6 DEF Place

LEMMA EndPlace ==
  ASSUME Whereabouts, End
  PROVE  Place' /\ Heard' /\ Turn
<1>1. /\ event = "live" /\ event' = "freed" /\ in' = << >> /\ ending' = TRUE /\ broken' = TRUE
      /\ UNCHANGED <<users, script, sent, wire, read_cb, method_count, connect_header,
                     remote, target, replies, heard, misled>>
  BY DEF End, Freed, context
<1>2. Counts'
  BY <1>1, EmptySeq DEF Whereabouts, Place, Counts, TypeOK
<1>3. Lives'
  BY <1>1 DEF Lives
<1>4. ASSUME ~misled' PROVE Turn
  BY <1>1, <1>4, LossTurn
<1>5. Heard'
  BY <1>1 DEF Whereabouts, Heard, InTurn, AnswersHeard
<1> QED
  BY <1>2, <1>3, <1>4, <1>5, MisledTurn DEF Place

LEMMA PlaceNext ==
  ASSUME WholeMessages
  PROVE  Whereabouts /\ [Next]_vars => Whereabouts' /\ Turn
<1> SUFFICES ASSUME Whereabouts, [Next]_vars PROVE Whereabouts' /\ Turn
  OBVIOUS
<1>1. Inv'
  BY InvNext DEF Whereabouts
<1>2. CASE UNCHANGED vars
  <2>1. UNCHANGED <<users, script, sent, wire, in, read_cb, event, method_count, connect_header,
                    remote, target, replies, heard, ending, broken, misled>>
    BY <1>2 DEF vars
  <2>2. Counts'
    BY <2>1 DEF Whereabouts, Place, Counts, TypeOK
  <2>3. Lives'
    BY <2>1 DEF Whereabouts, Place, Lives, At, Short, Idle, Pends, GoodHeader
  <2>4. Heard'
    BY <2>1 DEF Whereabouts, Heard, InTurn, AnswersHeard
  <2> QED
    BY <1>1, <2>1, <2>2, <2>3, <2>4, StageStays DEF Whereabouts, Place
<1>3. CASE Next
  BY <1>1, <1>3, SendsPlace, ReadPlace, FlushPlace, EndLeftPlace, EndPlace
     DEF Next, Arrives, Whereabouts
<1> QED
  BY <1>2, <1>3

-----------------------------------------------------------------------------
(* What holds of every client whose messages are whole.                    *)

LEMMA PlaceMoves ==
  ASSUME WholeMessages, Whereabouts
  PROVE  NothingHeldBack
<1>1. TypeOK /\ Scripted /\ in \in Seq(Byte) /\ Len(replies) \in Nat
  BY LenProperties DEF Whereabouts, Place, Counts, TypeOK, Inv
<1>2. ASSUME wire = << >>, Stage \in {"greeting", "login", "request"}
      PROVE  sent = Len(replies)
  <2>1. /\ ~misled /\ event = "live" /\ target = NULL /\ remote = FALSE
        /\ At(in) /\ Short(in)
    <3>1. ~misled /\ event = "live" /\ remote = FALSE /\ target = NULL
      BY <1>1, <1>2 DEF Stage, TypeOK
    <3>2. in \o << >> = in
      BY <1>1, ConcatEmptySeq
    <3> QED
      BY <1>2, <3>1, <3>2 DEF Whereabouts, Place, Lives
  <2>2. SUFFICES ASSUME sent # Len(replies) PROVE FALSE
    OBVIOUS
  <2>3. ~Idle(in)
    BY <2>2 DEF Idle
  <2>4. CASE read_cb = "read_methods"
    <3>1. in = script.greeting /\ Len(in) < 2
      BY <2>1, <2>3, <2>4 DEF At, Pends, Short
    <3> QED
      BY <1>1, <3>1, GreetingWhole
  <2>5. CASE read_cb = "read_methods_inner"
    <3>1. /\ in = Drop(script.greeting, 2) /\ Len(in) < script.greeting[2]
          /\ script.greeting[1] = VERSION
      BY <2>1, <2>5 DEF At, Pends, Short
    <3> DEFINE g == script.greeting
    <3>2. /\ g \in Seq(Byte) /\ Len(g) \in Nat /\ g[2] \in Nat /\ Len(g) = 2 + g[2]
      BY <1>1, <3>1, GreetingWhole, ScriptTypes
    <3>3. 2 \in Nat /\ 2 <= Len(g) /\ Len(g) - 2 = g[2]
      BY <3>2
    <3>4. Len(Drop(g, 2)) = Len(g) - 2
      BY <3>2, <3>3, DropProperties, Zenon
    <3> QED
      BY <3>1, <3>2, <3>3, <3>4
  <2>6. CASE read_cb = "auth_read"
    <3> DEFINE l == script.login
    <3>1. in = l
      BY <2>1, <2>3, <2>6 DEF At, Pends
    <3>2. /\ Len(l) \in Nat /\ Len(l) >= 2 /\ l[1] \in Nat /\ l[2] \in Nat
          /\ l[1] = 1 => /\ Len(l) >= 3 + l[2] /\ l[3 + l[2]] \in Nat
                         /\ Len(l) = 3 + l[2] + l[3 + l[2]]
      BY <1>1, LoginWhole
    <3>3. /\ l[1] = 1
          /\ \/ Len(l) < 2 + l[2]
             \/ Len(l) > 2 + l[2] /\ Len(l) < 3 + l[2] + l[3 + l[2]]
      BY <2>1, <2>6, <3>1, <3>2 DEF Short
    <3> QED
      BY <3>2, <3>3
  <2>7. CASE read_cb = "connect_read"
    <3>1. in = script.request /\ Len(in) < 4
      BY <2>1, <2>3, <2>7, Values DEF At, Pends, Short
    <3>2. Len(script.request) >= 4 /\ Len(script.request) \in Nat
      BY <1>1, RequestWhole
    <3> QED
      BY <3>1, <3>2
  <2>8. CASE read_cb = "read_address"
    <3> DEFINE r == script.request
    <3>1. /\ GoodHeader(r) /\ connect_header = Prefix(r, HEADER_LEN) /\ in = Drop(r, 4)
          /\ connect_header[4] = 3 => in = << >>
          /\ connect_header[4] # 3 => Len(in) < Words!AddressLen(connect_header[4]) + 2
      BY <2>1, <2>8, Values DEF At, Pends, Short
    <3>2. /\ r \in Seq(Byte) /\ Len(r) \in Nat /\ Len(r) >= 4
          /\ r[4] = 3 => /\ Len(r) >= 5 /\ r[5] \in Nat /\ Len(r) = 7 + r[5]
          /\ r[4] # 3 => Len(r) = 6 + Words!AddressLen(r[4])
      BY <1>1, <3>1, RequestWhole
    <3>3. connect_header[4] = r[4]
      BY <3>1, <3>2, HeaderIs
    <3>4. Len(Drop(r, 4)) = Len(r) - 4
      <4>1. 4 \in Nat /\ 4 <= Len(r)
        BY <3>2
      <4> QED
        BY <3>2, <4>1, DropProperties, Zenon
    <3>5. Words!AddressLen(r[4]) \in Nat /\ Len(<< >>) = 0
      BY AddressLenIs, EmptySeq
    <3>6. Len(in) = Len(r) - 4
      BY <3>1, <3>4
    <3> HIDE DEF r
    <3>7. CASE r[4] = 3
      <4>1. Len(in) = 0
        BY <3>1, <3>3, <3>5, <3>7
      <4> QED
        BY <3>2, <3>6, <3>7, <4>1
    <3>8. CASE r[4] # 3
      BY <3>1, <3>2, <3>3, <3>5, <3>6, <3>8
    <3> QED
      BY <3>7, <3>8
  <2> QED
    BY <1>1, <2>4, <2>5, <2>6, <2>7, <2>8 DEF TypeOK
<1> QED
  BY <1>1, <1>2 DEF NothingHeldBack

\* However its messages are cut, once all that a client has said is there the
\* server has answered it, unless it has been misled or the client has been turned
\* down (method.c, auth.c, docks_connect.c).
THEOREM NothingIsHeldBack ==
  ASSUME WholeMessages
  PROVE  Spec => []NothingHeldBack
<1>1. Whereabouts /\ [Next]_vars => Whereabouts'
  BY PlaceNext
<1>2. Whereabouts => NothingHeldBack
  BY PlaceMoves
<1> QED
  BY <1>1, <1>2, PlaceInit, PTL DEF Spec

\* The server moves on as a function of whole messages: every step of it is a step
\* of the dialogue, or none, wherever the messages are cut (method.c,
\* negotication.c, auth.c, docks_connect.c).
THEOREM HandshakeIsDialogue ==
  ASSUME WholeMessages
  PROVE  Spec => ImplementsDialogue
<1>1. Init => Whole!Init
  BY DEF Init, Whole!Init, Stage
<1>2. Whereabouts /\ [Next]_vars => Whereabouts' /\ Turn
  BY PlaceNext
<1> QED
  BY <1>1, <1>2, PlaceInit, PTL DEF Spec, ImplementsDialogue, Whole!Spec, Turn

\* The server closes of its own accord only when the client has heard all its
\* answers, but for the one that no method is acceptable (method.c): answers lie
\* in the out_buffer while the event is read, and the client waits for each.
THEOREM AnswersAreHeard ==
  ASSUME WholeMessages
  PROVE  Spec => []AnswersHeard
<1>1. Whereabouts /\ [Next]_vars => Whereabouts'
  BY PlaceNext
<1>2. Whereabouts => AnswersHeard
  BY DEF Whereabouts, Heard
<1> QED
  BY <1>1, <1>2, PlaceInit, PTL DEF Spec
=============================================================================

---------------------------- MODULE NetworkProofs ----------------------------
(***************************************************************************)
(* The two components whose steps are answers of the network: what an      *)
(* event does with its socket (EventIO), and the query for a name          *)
(* (Resolver, DnsCodec).                                                   *)
(*                                                                         *)
(* EventIO: for every size of the buffers of the kernel and every number   *)
(* of bytes, the loop does not turn for nothing, NoSpin.  A report that    *)
(* brings nothing takes something away that it could come from, and puts   *)
(* nothing in its place.  What there is to take away is Owed; the state    *)
(* that is exempt, Stuck, is one that owes for ever.                       *)
(*                                                                         *)
(* Resolver: for all names, queries of others, records, addresses and      *)
(* errors, the query asks for the name, and what answers it is read where  *)
(* it was written, as it was written.  The argument goes from bytes to     *)
(* messages:                                                               *)
(*   - get_name and LabelsAt unfold: a recursive function from a set to    *)
(*     itself is an iteration (IterationSteps), and a step of it reads a   *)
(*     label, a pointer or the end;                                        *)
(*   - c_dns_pack writes the wire format of the labels (NamePacked);       *)
(*   - a name is in a message, NameIn, when it ends there, is a known name *)
(*     or a pointer to one; known names fit (Fits) when a label lies where *)
(*     each is said to be, followed by the rest of the name; such a name   *)
(*     is read back by both readers (GetNameReads);                        *)
(*   - what a name server and c_dns_gen_inet_response write leaves what is *)
(*     in the message (Keeps), and puts the next name, question or record  *)
(*     into it (NameWritten, QuestionWritten, RecordWritten,               *)
(*     OwnAnswerWritten), so a message is a Layout: questions and answers, *)
(*     each where the one before it ends;                                  *)
(*   - the inductive invariant, ResolverInv, says which layout the query,  *)
(*     the draft and the message are, and that the cursor is at the start  *)
(*     of the next of its items and the hostent holds the items before it. *)
(***************************************************************************)
EXTENDS EventIO, Resolver, StreamProofs, FiniteSetTheorems

IOType == [alive : BOOLEAN, ev : SUBSET READ_WRITE, filters : SUBSET READ_WRITE,
           out : 0..MaxOut, room : 0..Room, line : {"open", "ended", "broken"}]
Batches == {<<>>, <<"READ">>, <<"WRITE">>, <<"READ", "WRITE">>, <<"WRITE", "READ">>}

\* A WRITE report to come, and a READ report to come that is not wanted.
InBatch(f) == \E n \in 1..Len(batch) : batch[n] = f
OwesWrite == InBatch("WRITE") \/ "WRITE" \in io.filters
OwesRead  == "READ" \notin io.ev /\ (InBatch("READ") \/ "READ" \in io.filters)
Owed == (IF OwesWrite THEN 1 ELSE 0) + (IF OwesRead THEN 1 ELSE 0)

Stuck == io.filters = {"WRITE"} /\ "READ" \notin io.ev

\* A READ report is never stale: nobody but its handler takes what has arrived.
ReadIsDue == InBatch("READ") => arrived > 0 \/ io.line # "open"

Inv ==
  /\ TypeOK
  /\ io.alive => ReadIsDue
  /\ pc = "read_cb" => ~InBatch("READ")
  /\ Stuck \/ wasted + Owed <= 2

-----------------------------------------------------------------------------
(* What the calls leave of an event.                                       *)

LEMMA UpdatesType ==
  ASSUME NEW c \in IOType
  PROVE  /\ Updates(c) \in IOType
         /\ Updates(c).alive = c.alive /\ Updates(c).ev = c.ev /\ Updates(c).out = c.out
         /\ Updates(c).line = c.line /\ Updates(c).room = c.room
         /\ "READ" \in c.ev \cup c.filters => Updates(c).filters = c.ev
         /\ "READ" \notin c.ev \cup c.filters => Updates(c).filters = c.filters
  BY DEF Updates, IOType

LEMMA EnablesType ==
  ASSUME NEW c \in IOType, NEW bit \in READ_WRITE
  PROVE  /\ Enables(c, bit) \in IOType
         /\ Enables(c, bit).ev = c.ev \cup {bit}
         /\ Enables(c, bit).alive = c.alive /\ Enables(c, bit).filters = c.filters
         /\ Enables(c, bit).out = c.out /\ Enables(c, bit).line = c.line
         /\ Enables(c, bit).room = c.room
         /\ Disables(c, bit) \in IOType
         /\ Disables(c, bit).ev = c.ev \ {bit}
         /\ Disables(c, bit).alive = c.alive /\ Disables(c, bit).filters = c.filters
         /\ Disables(c, bit).out = c.out /\ Disables(c, bit).line = c.line
         /\ Disables(c, bit).room = c.room
<1>1. c.ev \cup {bit} \in SUBSET READ_WRITE /\ c.ev \ {bit} \in SUBSET READ_WRITE
  BY DEF IOType
<1> QED
  BY <1>1 DEF Enables, Disables, IOType

LEMMA CloseType ==
  ASSUME NEW c \in IOType
  PROVE  /\ Close(c) \in IOType
         /\ Close(c).alive = FALSE /\ Close(c).filters = {} /\ Close(c).line = c.line
<1>1. 0 \in 0..MaxOut
  BY IOAssumption
<1> QED
  BY <1>1 DEF Close, IOType

LEMMA Lengths ==
  ASSUME NEW c \in IOType
  PROVE  c.out \in Nat /\ c.room \in Nat /\ c.out <= MaxOut /\ c.room <= Room
         /\ MaxOut \in Nat /\ Room \in Nat
<1>1. c.out \in 0..MaxOut /\ c.room \in 0..Room
  BY DEF IOType
<1> QED
  BY <1>1, IOAssumption

\* EAGAIN: the out_buffer is shorter by what there was room for, and WRITE is
\* neither enabled nor, if the change comes through, armed.
LEMMA WouldBlockType ==
  ASSUME NEW c \in IOType, c.out > c.room
  PROVE  LET d == WouldBlock(c)
         IN  /\ d \in IOType /\ d.alive = c.alive /\ d.line = c.line
             /\ d.out = c.out - c.room /\ d.ev = c.ev \ {"WRITE"}
             /\ "READ" \in c.ev \cup c.filters => d.filters = c.ev \ {"WRITE"}
             /\ "READ" \notin c.ev \cup c.filters => d.filters = c.filters
<1> DEFINE n == c.out - c.room
           f == [c EXCEPT !.out = n, !.room = 0]
           g == Disables(f, "WRITE")
<1>1. n \in 0..MaxOut /\ 0 \in 0..Room
  BY Lengths
<1> HIDE DEF n
<1>2. /\ f \in IOType /\ f.alive = c.alive /\ f.line = c.line /\ f.out = n
      /\ f.ev = c.ev /\ f.filters = c.filters
  BY <1>1 DEF IOType
<1> HIDE DEF f
<1>3. /\ g \in IOType /\ g.alive = c.alive /\ g.line = c.line /\ g.out = n
      /\ g.ev = c.ev \ {"WRITE"} /\ g.filters = c.filters
  BY <1>2, EnablesType DEF READ_WRITE
<1>4. WouldBlock(c) = Updates(g)
  BY DEF WouldBlock, g, f, n
<1> HIDE DEF g
<1>5. /\ Updates(g) \in IOType /\ Updates(g).alive = c.alive /\ Updates(g).line = c.line
      /\ Updates(g).out = n /\ Updates(g).ev = c.ev \ {"WRITE"}
      /\ "READ" \in c.ev \cup c.filters => Updates(g).filters = c.ev \ {"WRITE"}
      /\ "READ" \notin c.ev \cup c.filters => Updates(g).filters = c.filters
  BY <1>3, UpdatesType
<1> QED
  BY <1>4, <1>5 DEF n

LEMMA SendsAllType ==
  ASSUME NEW c \in IOType, c.out <= c.room
  PROVE  LET d == SendsAll(c)
         IN  d \in IOType /\ d.alive = c.alive /\ d.line = c.line /\ d.out = 0
<1> DEFINE n == c.room - c.out
<1>1. n \in 0..Room /\ 0 \in 0..MaxOut
  BY Lengths
<1> HIDE DEF n
<1>2. SendsAll(c) = [c EXCEPT !.out = 0, !.room = n]
  BY DEF SendsAll, n
<1> QED
  BY <1>1, <1>2 DEF IOType

\* devent_write_data.
LEMMA WriteDataType ==
  ASSUME NEW c \in IOType
  PROVE  LET d == WriteData(c)
         IN  /\ d \in IOType /\ d.line = c.line
             /\ d.alive = c.alive \/ (~d.alive /\ d.filters = {})
<1>1. CASE "WRITE" \notin c.ev
  <2>1. WriteData(c) = Updates(Enables(c, "WRITE"))
    BY <1>1 DEF WriteData
  <2> QED
    BY <2>1, EnablesType, UpdatesType DEF READ_WRITE
<1>2. CASE "WRITE" \in c.ev /\ c.out = 0
  BY <1>2 DEF WriteData
<1>3. CASE "WRITE" \in c.ev /\ c.out > 0 /\ c.line = "broken"
  <2>1. WriteData(c) = Close(c)
    BY <1>3 DEF WriteData
  <2> QED
    BY <2>1, CloseType
<1>4. CASE "WRITE" \in c.ev /\ c.out > 0 /\ c.line # "broken"
  <2>1. WriteData(c) = IF c.out > c.room THEN WouldBlock(c) ELSE SendsAll(c)
    BY <1>4 DEF WriteData
  <2>2. c.out > c.room \/ c.out <= c.room
    BY Lengths
  <2> QED
    BY <2>1, <2>2, WouldBlockType, SendsAllType
<1> QED
  BY <1>1, <1>2, <1>3, <1>4, Lengths

\* docket_on_event_write when it brings nothing: WRITE is not armed any more,
\* unless deleting the READ filter fails first.
LEMMA OnEventWriteType ==
  ASSUME NEW c \in IOType
  PROVE  LET d == OnEventWrite(c)
         IN  /\ d \in IOType /\ d.line = c.line
             /\ d.alive = c.alive \/ (~d.alive /\ d.filters = {})
             /\ d.alive /\ d.out = c.out =>
                  /\ "READ" \in d.ev <=> "READ" \in c.ev
                  /\ "READ" \in c.ev \cup c.filters => d.filters = c.ev \ {"WRITE"}
                  /\ "READ" \notin c.ev \cup c.filters => d.filters = c.filters
<1> DEFINE f == Updates(Disables(c, "WRITE"))
           g == Enables(f, "WRITE")
<1>1. /\ f \in IOType /\ f.alive = c.alive /\ f.line = c.line /\ f.out = c.out
      /\ f.ev = c.ev \ {"WRITE"}
      /\ "READ" \in c.ev \cup c.filters => f.filters = c.ev \ {"WRITE"}
      /\ "READ" \notin c.ev \cup c.filters => f.filters = c.filters
  BY EnablesType, UpdatesType DEF READ_WRITE
<1> HIDE DEF f
<1>2. /\ g \in IOType /\ g.alive = c.alive /\ g.line = c.line /\ g.out = c.out
      /\ g.ev = f.ev \cup {"WRITE"} /\ g.filters = f.filters
  BY <1>1, EnablesType DEF READ_WRITE
<1>3. OnEventWrite(c) = IF g.out = 0 THEN g ELSE WriteData(g)
  BY DEF OnEventWrite, g, f
<1> HIDE DEF g
<1>4. CASE g.out = 0
  BY <1>1, <1>2, <1>3, <1>4
<1>5. CASE g.out # 0
  <2> DEFINE d == WriteData(g)
  <2>1. OnEventWrite(c) = d /\ "WRITE" \in g.ev /\ g.out > 0
    BY <1>2, <1>3, <1>5, Lengths
  <2>2. d \in IOType /\ d.line = c.line /\ (d.alive = c.alive \/ (~d.alive /\ d.filters = {}))
    BY <1>2, WriteDataType
  <2>3. ASSUME d.alive, d.out = c.out
        PROVE  /\ "READ" \in d.ev <=> "READ" \in c.ev
               /\ "READ" \in c.ev \cup c.filters => d.filters = c.ev \ {"WRITE"}
               /\ "READ" \notin c.ev \cup c.filters => d.filters = c.filters
    <3>1. g.line # "broken"
      <4> SUFFICES ASSUME g.line = "broken" PROVE FALSE
        OBVIOUS
      <4>1. d = Close(g)
        BY <2>1 DEF WriteData
      <4> QED
        BY <1>2, <2>3, <4>1, CloseType
    <3>2. d = IF g.out > g.room THEN WouldBlock(g) ELSE SendsAll(g)
      BY <2>1, <3>1 DEF WriteData
    <3>3. g.out > g.room
      <4> SUFFICES ASSUME ~(g.out > g.room) PROVE FALSE
        OBVIOUS
      <4>1. d = SendsAll(g) /\ g.out <= g.room
        BY <1>2, <3>2, Lengths
      <4>2. d.out = 0
        BY <1>2, <4>1, SendsAllType
      <4> QED
        BY <1>2, <1>5, <2>3, <4>2
    <3>4. /\ d.ev = g.ev \ {"WRITE"}
          /\ "READ" \in g.ev \cup g.filters => d.filters = g.ev \ {"WRITE"}
          /\ "READ" \notin g.ev \cup g.filters => d.filters = g.filters
      BY <1>2, <3>2, <3>3, WouldBlockType
    <3>5. c.ev \in SUBSET READ_WRITE /\ c.filters \in SUBSET READ_WRITE
      BY DEF IOType
    <3> QED
      BY <1>1, <1>2, <3>4, <3>5 DEF READ_WRITE
  <2> QED
    BY <2>1, <2>2, <2>3
<1> QED
  BY <1>4, <1>5
-----------------------------------------------------------------------------
(* Steps.                                                                  *)

LEMMA OwedBounds == Owed \in 0..2
  BY DEF Owed

\* A report that brings something, and everything else: the count begins again.
LEMMA BeginsAgain ==
  ASSUME TypeOK', wasted' = 0, io'.alive => ReadIsDue', pc' = "read_cb" => ~InBatch("READ")'
  PROVE  Inv'
<1>1. Owed' = 0 \/ Owed' = 1 \/ Owed' = 2
  BY DEF Owed
<1>2. wasted' + Owed' <= 2
  BY <1>1
<1> QED
  BY <1>2 DEF Inv, InBatch

LEMMA InitInv == Init => Inv
<1> SUFFICES ASSUME Init PROVE Inv
  OBVIOUS
<1>1. READ_WRITE \in SUBSET READ_WRITE /\ 0 \in 0..MaxOut /\ Room \in 0..Room
      /\ 0 \in 0..MaxArrived /\ 0 \in 0..MaxWrites
  BY IOAssumption
<1>2. TypeOK
  <2>1. io = [alive |-> TRUE, ev |-> READ_WRITE, filters |-> READ_WRITE,
              out |-> 0, room |-> Room, line |-> "open"]
    BY DEF Init
  <2>2. io \in IOType /\ io.alive
    BY <1>1, <2>1 DEF IOType
  <2> QED
    <3>1. /\ batch = <<>> /\ pc = "loop" /\ arrived = 0 /\ wrote = 0
          /\ reenabled = FALSE /\ wasted = 0
      BY DEF Init
    <3>2. batch \in Batches
      BY <3>1, Zenon DEF Batches
    <3>3. wasted \in 0..3
      BY <3>1
    <3> QED
      BY <1>1, <2>2, <3>1, <3>2, <3>3, Zenon DEF TypeOK, IOType, Batches
<1>3. Owed \in 0..2 /\ wasted = 0 /\ batch = <<>> /\ pc = "loop"
  BY OwedBounds DEF Init
<1>4. ~InBatch("READ")
  BY <1>3 DEF InBatch
<1> QED
  BY <1>2, <1>3, <1>4 DEF Inv, ReadIsDue

\* The bytes the application gives.
LEMMA PutsType ==
  ASSUME Inv, NEW n \in 0..1, Puts(n)
  PROVE  /\ io \in IOType /\ wrote' \in 0..MaxWrites
         /\ [io EXCEPT !.out = io.out + n] \in IOType
<1>1. io \in IOType /\ wrote \in 0..MaxWrites
  BY DEF Inv, TypeOK, IOType
<1>2. io.out + n \in 0..MaxOut
  BY <1>1, Lengths DEF Puts
<1>3. wrote' \in 0..MaxWrites
  BY <1>1, IOAssumption DEF Puts
<1> QED
  BY <1>1, <1>2, <1>3 DEF IOType

\* A call of the application, which has the event in its hands.
LEMMA CallInv ==
  ASSUME Inv, io' \in IOType, io'.line = io.line, ~io'.alive => io'.filters = {}, io.alive,
         wrote' \in 0..MaxWrites, reenabled' \in BOOLEAN, wasted' = 0,
         UNCHANGED <<batch, pc, arrived>>
  PROVE  Inv'
<1>1. TypeOK'
  BY DEF Inv, TypeOK, IOType
<1>2. ReadIsDue' /\ (pc' = "read_cb" => ~InBatch("READ")')
  BY DEF Inv, ReadIsDue, InBatch
<1> QED
  BY <1>1, <1>2, BeginsAgain

LEMMA RearmedType ==
  ASSUME NEW c, Rearmed(c), Inv
  PROVE  reenabled' \in BOOLEAN
  BY DEF Rearmed, Inv, TypeOK

LEMMA AppInv == Inv /\ App => Inv'
<1> SUFFICES ASSUME Inv, App PROVE Inv'
  OBVIOUS
<1>1. io \in IOType /\ io.alive /\ wasted' = 0 /\ UNCHANGED <<batch, pc, arrived>>
  BY DEF Inv, TypeOK, IOType, App
<1>2. CASE Write
  <2> DEFINE c == [io EXCEPT !.out = io.out + 1]
  <2>0. Puts(1) /\ 1 \in 0..1
    BY <1>2 DEF Write
  <2>1. /\ c \in IOType /\ c.alive = io.alive /\ c.line = io.line
        /\ wrote' \in 0..MaxWrites
    BY <1>1, <2>0, PutsType DEF IOType
  <2>2. io' = IF "WRITE" \in c.ev THEN WriteData(c) ELSE c
    BY <1>2 DEF Write
  <2> HIDE DEF c
  <2>3. io' \in IOType /\ io'.line = io.line /\ (~io'.alive => io'.filters = {})
    BY <1>1, <2>1, <2>2, WriteDataType
  <2> QED
    BY <1>1, <1>2, <2>1, <2>3, CallInv, RearmedType DEF Write
<1>3. CASE WriteBuffer
  <2>1. PICK n \in 0..1 : /\ Puts(n)
                          /\ io' = WriteData([io EXCEPT !.out = io.out + n])
                          /\ Rearmed(io')
    BY <1>3 DEF WriteBuffer
  <2> DEFINE c == [io EXCEPT !.out = io.out + n]
  <2>2. c \in IOType /\ c.alive = io.alive /\ c.line = io.line /\ wrote' \in 0..MaxWrites
    BY <1>1, <2>1, PutsType DEF IOType
  <2>3. io' = WriteData(c)
    BY <2>1
  <2> HIDE DEF c
  <2>4. io' \in IOType /\ io'.line = io.line /\ (~io'.alive => io'.filters = {})
    BY <1>1, <2>2, <2>3, WriteDataType
  <2> QED
    BY <1>1, <2>1, <2>2, <2>4, CallInv, RearmedType
<1>4. CASE WriteBufferForce
  <2>1. PICK n \in 0..1 :
          /\ Puts(n)
          /\ LET c == WriteData(Enables([io EXCEPT !.out = io.out + n], "WRITE"))
             IN io' = IF c.alive THEN [c EXCEPT !.ev = io.ev] ELSE c
          /\ Rearmed(io')
    BY <1>4 DEF WriteBufferForce
  <2> DEFINE b == [io EXCEPT !.out = io.out + n]
             d == Enables(b, "WRITE")
             c == WriteData(d)
  <2>2. b \in IOType /\ b.alive = io.alive /\ b.line = io.line /\ wrote' \in 0..MaxWrites
    BY <1>1, <2>1, PutsType DEF IOType
  <2>3. io' = IF c.alive THEN [c EXCEPT !.ev = io.ev] ELSE c
    BY <2>1
  <2> HIDE DEF b
  <2>4. d \in IOType /\ d.alive = io.alive /\ d.line = io.line
    BY <2>2, EnablesType DEF READ_WRITE
  <2> HIDE DEF d
  <2>5. c \in IOType /\ c.line = io.line /\ (~c.alive => c.filters = {})
    BY <1>1, <2>4, WriteDataType
  <2> HIDE DEF c
  <2>6. io' \in IOType /\ io'.line = io.line /\ (~io'.alive => io'.filters = {})
    <3>1. CASE c.alive
      <4>1. io' = [c EXCEPT !.ev = io.ev]
        BY <2>3, <3>1
      <4> QED
        BY <1>1, <2>5, <3>1, <4>1 DEF IOType
    <3>2. CASE ~c.alive
      BY <2>3, <2>5, <3>2
    <3> QED
      BY <3>1, <3>2
  <2> QED
    BY <1>1, <2>1, <2>2, <2>6, CallInv, RearmedType
<1>5. CASE SetReadEnable
  <2>1. io' \in IOType /\ io'.line = io.line /\ io'.alive = io.alive
    <3>1. io \in IOType /\ "READ" \in READ_WRITE
      BY <1>1 DEF READ_WRITE
    <3>2. \/ io' = Enables(io, "READ")
          \/ io' = Disables(io, "READ")
      BY <1>5, Zenon DEF SetReadEnable
    <3>3. /\ Enables(io, "READ") \in IOType /\ Disables(io, "READ") \in IOType
          /\ Enables(io, "READ").line = io.line /\ Disables(io, "READ").line = io.line
          /\ Enables(io, "READ").alive = io.alive /\ Disables(io, "READ").alive = io.alive
      BY <3>1, EnablesType
    <3> QED
      BY <3>2, <3>3
  <2>2. wrote' \in 0..MaxWrites
    BY <1>5 DEF SetReadEnable, Inv, TypeOK
  <2>3. reenabled' \in BOOLEAN
    BY <1>5 DEF SetReadEnable
  <2> QED
    BY <1>1, <2>1, <2>2, <2>3, CallInv
<1>6. CASE Free
  <2>1. io' \in IOType /\ io'.line = io.line /\ io'.filters = {}
    BY <1>1, <1>6, CloseType DEF Free
  <2>2. wrote' \in 0..MaxWrites /\ reenabled' \in BOOLEAN
    BY <1>6 DEF Free, Inv, TypeOK
  <2> QED
    BY <1>1, <2>1, <2>2, CallInv
<1> QED
  BY <1>2, <1>3, <1>4, <1>5, <1>6 DEF App

LEMMA PeerInv == Inv /\ Peer => Inv'
<1> SUFFICES ASSUME Inv, Peer PROVE Inv'
  OBVIOUS
<1>1. /\ io \in IOType /\ io.alive /\ wasted' = 0 /\ UNCHANGED <<batch, pc, wrote, reenabled>>
      /\ arrived \in 0..MaxArrived
  BY DEF Inv, TypeOK, IOType, Peer
<1>2. /\ io' \in IOType /\ io'.alive = io.alive
      /\ arrived' \in 0..MaxArrived
      /\ arrived > 0 \/ io.line # "open" => arrived' > 0 \/ io'.line # "open"
  <2>1. CASE PeerSends
    <3>1. io' = io /\ arrived' = arrived + 1 /\ arrived < MaxArrived /\ MaxArrived \in Nat
      BY <2>1, IOAssumption DEF PeerSends
    <3>2. arrived' \in 0..MaxArrived /\ arrived' > 0
      BY <1>1, <3>1
    <3> QED
      BY <1>1, <3>1, <3>2
  <2>2. CASE PeerTakes
    <3>1. PICK room \in (io.room + 1)..Room : io' = [io EXCEPT !.room = room]
      BY <2>2 DEF PeerTakes
    <3>2. room \in 0..Room
      BY <1>1, Lengths
    <3> QED
      BY <1>1, <2>2, <3>1, <3>2 DEF PeerTakes, IOType
  <2>3. CASE PeerEnds
    <3>1. 0 \in 0..MaxArrived
      BY IOAssumption
    <3>2. PICK line \in {"ended", "broken"} : io' = [io EXCEPT !.line = line]
      BY <2>3 DEF PeerEnds
    <3>3. io' \in IOType /\ io'.alive = io.alive /\ io'.line # "open"
      BY <1>1, <3>2 DEF IOType
    <3>4. arrived' \in 0..MaxArrived
      BY <1>1, <2>3, <3>1 DEF PeerEnds
    <3> QED
      BY <3>3, <3>4
  <2> QED
    BY <2>1, <2>2, <2>3 DEF Peer
<1>3. TypeOK'
  BY <1>1, <1>2 DEF Inv, TypeOK, IOType
<1>4. ReadIsDue' /\ (pc' = "read_cb" => ~InBatch("READ")')
  BY <1>1, <1>2 DEF Inv, ReadIsDue, InBatch
<1> QED
  BY <1>1, <1>3, <1>4, BeginsAgain
-----------------------------------------------------------------------------
(* The loop.                                                               *)

\* A report is served once.
LEMMA ServingBatch ==
  ASSUME Inv, NEW f \in READ_WRITE, Serving(f)
  PROVE  /\ batch' \in Batches /\ InBatch(f) /\ ~InBatch(f)'
         /\ InBatch("READ")' => InBatch("READ")
         /\ InBatch("WRITE")' => InBatch("WRITE")
<1>1. batch \in Batches /\ batch # <<>> /\ Head(batch) = f /\ batch' = Tail(batch)
  BY DEF Serving, Inv, TypeOK, Batches
<1>2. CASE batch = <<"READ">>
  <2>1. batch' = <<>> /\ f = "READ"
    BY <1>1, <1>2
  <2> QED
    BY <1>2, <2>1 DEF Batches, InBatch
<1>3. CASE batch = <<"WRITE">>
  <2>1. batch' = <<>> /\ f = "WRITE"
    BY <1>1, <1>3
  <2> QED
    BY <1>3, <2>1 DEF Batches, InBatch
<1>4. CASE batch = <<"READ", "WRITE">>
  <2>1. batch' = <<"WRITE">> /\ f = "READ"
    BY <1>1, <1>4
  <2> QED
    BY <1>4, <2>1 DEF Batches, InBatch
<1>5. CASE batch = <<"WRITE", "READ">>
  <2>1. batch' = <<"READ">> /\ f = "WRITE"
    BY <1>1, <1>5
  <2> QED
    BY <1>5, <2>1 DEF Batches, InBatch
<1> QED
  BY <1>1, <1>2, <1>3, <1>4, <1>5 DEF Batches

LEMMA KeventInv == Inv /\ Kevent => Inv'
<1> SUFFICES ASSUME Inv, Kevent PROVE Inv'
  OBVIOUS
<1>1. /\ batch' \in {<<"READ">>, <<"WRITE">>, <<"READ", "WRITE">>, <<"WRITE", "READ">>}
      /\ \A n \in 1..Len(batch') : batch'[n] \in Ready
      /\ UNCHANGED <<io, pc, arrived, wrote, reenabled, wasted>>
      /\ pc = "loop" /\ batch = <<>>
  BY DEF Kevent
<1>2. batch' \in Batches
  BY <1>1 DEF Batches
<1>3. TypeOK'
  BY <1>1, <1>2 DEF Inv, TypeOK, Batches
<1>4. \A f : InBatch(f)' => f \in Ready
  BY <1>1 DEF InBatch
<1>5. ReadIsDue'
  BY <1>1, <1>4 DEF ReadIsDue, Ready
<1>6. /\ OwesWrite' => OwesWrite
      /\ OwesRead' => OwesRead
  BY <1>1, <1>4 DEF OwesWrite, OwesRead, Ready
<1>7. (Owed' = 0 \/ Owed' = 1 \/ Owed' = 2) /\ (Owed = 0 \/ Owed = 1 \/ Owed = 2)
  BY DEF Owed
<1>8. Owed' <= Owed
  BY <1>6 DEF Owed
<1>9. Stuck' \/ wasted' + Owed' <= 2
  <2>1. Stuck' = Stuck /\ wasted' = wasted /\ wasted \in 0..3
    BY <1>1 DEF Stuck, Inv, TypeOK
  <2> QED
    BY <1>7, <1>8, <2>1 DEF Inv
<1> QED
  BY <1>1, <1>3, <1>5, <1>9 DEF Inv

\* A handler that found a filter of its own that may be gone now: what it does
\* to the count.
LEMMA ServedInv ==
  ASSUME Inv, TypeOK', io'.alive => ReadIsDue', pc' = "loop",
         wasted' = 0 \/ (wasted' = Least(wasted + 1, 3) /\ (Stuck => Stuck')
                         /\ (Stuck' \/ Owed' < Owed))
  PROVE  Inv'
<1>1. (Owed' = 0 \/ Owed' = 1 \/ Owed' = 2) /\ (Owed = 0 \/ Owed = 1 \/ Owed = 2)
  BY DEF Owed
<1>2. CASE wasted' = 0
  <2>1. wasted' + Owed' <= 2
    BY <1>1, <1>2
  <2> QED
    BY <2>1 DEF Inv
<1>3. CASE Stuck'
  BY <1>3 DEF Inv
<1>4. CASE wasted' = Least(wasted + 1, 3) /\ (Stuck => Stuck') /\ ~Stuck' /\ Owed' < Owed
  <2>0. wasted \in 0..3
    BY DEF Inv, TypeOK
  <2>1. ~Stuck /\ wasted \in 0..3 /\ wasted + Owed <= 2
    BY <1>4, <2>0 DEF Inv
  <2>2. wasted' <= wasted + 1
    BY <1>4, <2>1 DEF Least
  <2>3. wasted' + Owed' <= 2
    BY <1>1, <1>4, <2>1, <2>2 DEF Inv, TypeOK
  <2> QED
    BY <2>3 DEF Inv
<1> QED
  BY <1>2, <1>3, <1>4
\* The rest of a handler of a report, in terms of its event.
LEMMA ReturnsType ==
  ASSUME Inv, batch' \in Batches, NEW c \in IOType, Returns(c, io), ~c.alive => c.filters = {},
         Rearmed(io'), UNCHANGED wrote
  PROVE  /\ TypeOK' /\ io' = c /\ pc' = "loop" /\ arrived' = arrived
         /\ \/ wasted' = 0
            \/ pc # "read_cb" /\ c.alive /\ c.out = io.out /\ wasted' = Least(wasted + 1, 3)
<1>1. /\ io' = c /\ pc' = "loop" /\ arrived' = arrived
      /\ wasted' = IF c.out # io.out \/ ~c.alive \/ pc = "read_cb" THEN 0
                   ELSE Least(wasted + 1, 3)
  BY DEF Returns
<1>2. wasted \in 0..3
  BY DEF Inv, TypeOK
<1>3. wasted' \in 0..3
  BY <1>1, <1>2 DEF Least
<1>4. reenabled' \in BOOLEAN
  BY RearmedType
<1>5. TypeOK'
  BY <1>1, <1>3, <1>4 DEF Inv, TypeOK, IOType, Batches
<1> QED
  BY <1>1, <1>5

\* A turn of the read loop always brings something.
LEMMA ReadTurnInv ==
  ASSUME Inv, batch' \in Batches, ~InBatch("READ")', NEW c \in IOType,
         c.alive, c.line = io.line, c.out = io.out, ReadTurn(c), pc = "read_cb" \/ ReadIsDue,
         pc # "read_cb" => InBatch("READ"),
         Rearmed(io'), UNCHANGED wrote
  PROVE  Inv'
<1>1. reenabled' \in BOOLEAN
  BY RearmedType
<1>2. ReadIsDue'
  BY DEF ReadIsDue
<1>3. CASE arrived > 0 /\ arrived' = arrived - 1 /\ pc' = "read_cb" /\ wasted' = 0 /\ io' = c
  <2>1. arrived \in 0..MaxArrived /\ MaxArrived \in Nat
    BY IOAssumption DEF Inv, TypeOK
  <2>2. arrived' \in 0..MaxArrived
    BY <1>3, <2>1
  <2>3. TypeOK'
    BY <1>1, <1>3, <2>2 DEF Inv, TypeOK, IOType, Batches
  <2> QED
    BY <1>2, <1>3, <2>3, BeginsAgain
<1>4. CASE arrived = 0 /\ c.line = "open" /\ Returns(Flush(c), io)
  <2> DEFINE f == Flush(c)
  <2>1. Enables(c, "WRITE") \in IOType /\ Enables(c, "WRITE").alive
    BY EnablesType DEF READ_WRITE
  <2>2. f \in IOType /\ (~f.alive => f.filters = {})
    BY <2>1, WriteDataType DEF Flush
  <2>3. pc = "read_cb"
    BY <1>4 DEF ReadIsDue
  <2> HIDE DEF f
  <2>4. TypeOK' /\ pc' = "loop" /\ wasted' = 0
    BY <1>4, <2>2, <2>3, ReturnsType DEF f
  <2> QED
    BY <1>2, <2>4, BeginsAgain
<1>5. CASE Returns(Close(c), io)
  <2>1. Close(c) \in IOType /\ ~Close(c).alive /\ Close(c).filters = {}
    BY CloseType
  <2>2. TypeOK' /\ pc' = "loop" /\ wasted' = 0
    BY <1>5, <2>1, ReturnsType
  <2> QED
    BY <1>2, <2>2, BeginsAgain
<1> QED
  BY <1>3, <1>4, <1>5 DEF ReadTurn

LEMMA ServeReadInv == Inv /\ ServeRead => Inv'
<1> SUFFICES ASSUME Inv, ServeRead PROVE Inv'
  OBVIOUS
<1> DEFINE c == Disables(io, "WRITE")
<1>1. /\ io \in IOType /\ pc = "loop" /\ Rearmed(io') /\ UNCHANGED wrote
      /\ ~io.alive => io.filters = {}
  BY DEF Inv, TypeOK, IOType, ServeRead, Serving
<1>2. /\ batch' \in Batches /\ InBatch("READ") /\ ~InBatch("READ")'
      /\ InBatch("WRITE")' => InBatch("WRITE")
  BY ServingBatch DEF ServeRead, READ_WRITE
<1>3. /\ c \in IOType /\ c.alive = io.alive /\ c.line = io.line /\ c.out = io.out
      /\ c.ev = io.ev \ {"WRITE"} /\ c.filters = io.filters
  BY <1>1, EnablesType DEF READ_WRITE
<1>4. CASE ~io.alive /\ Returns(io, io)
  <2>1. TypeOK' /\ pc' = "loop" /\ wasted' = 0
    BY <1>1, <1>2, <1>4, ReturnsType
  <2> QED
    BY <1>2, <2>1, BeginsAgain DEF ReadIsDue
<1>5. CASE io.alive /\ "READ" \notin c.ev /\ Returns(ReadDisabled(c), io)
  <2> DEFINE d == Updates(c)
  <2> HIDE DEF c
  <2>1. /\ d \in IOType /\ d.alive = io.alive /\ d.ev = c.ev
        /\ "READ" \in c.filters => d.filters = c.ev
        /\ "READ" \notin c.filters => d.filters = c.filters
    BY <1>3, <1>5, UpdatesType
  <2>2. io.ev \in SUBSET READ_WRITE /\ "READ" \notin io.ev
    BY <1>1, <1>3, <1>5 DEF IOType
  <2>3. c.ev = {}
    BY <1>3, <2>2 DEF READ_WRITE
  <2>4. /\ TypeOK' /\ io' = d /\ pc' = "loop"
        /\ wasted' = 0 \/ wasted' = Least(wasted + 1, 3)
    BY <1>1, <1>2, <1>5, <2>1, ReturnsType DEF ReadDisabled
  <2> HIDE DEF d
  <2>5. ReadIsDue'
    BY <1>2 DEF ReadIsDue
  <2>6. Stuck => Stuck'
    BY <1>3, <2>1, <2>3, <2>4 DEF Stuck
  <2>7. ~OwesRead' /\ OwesRead /\ (OwesWrite' => OwesWrite)
    BY <1>2, <1>3, <2>1, <2>2, <2>3, <2>4 DEF OwesRead, OwesWrite
  <2>8. Owed' < Owed
    BY <2>7 DEF Owed
  <2> QED
    BY <2>4, <2>5, <2>6, <2>8, ServedInv
<1>6. CASE io.alive /\ "READ" \in c.ev /\ ReadTurn(c)
  BY <1>1, <1>2, <1>3, <1>6, ReadTurnInv DEF Inv
<1> QED
  BY <1>4, <1>5, <1>6 DEF ServeRead

LEMMA ReadCbReturnsInv == Inv /\ ReadCbReturns => Inv'
<1> SUFFICES ASSUME Inv, ReadCbReturns PROVE Inv'
  OBVIOUS
<1>1. /\ io \in IOType /\ pc = "read_cb" /\ Rearmed(io') /\ UNCHANGED <<batch, wrote>>
      /\ ~io.alive => io.filters = {}
  BY DEF Inv, TypeOK, IOType, ReadCbReturns
<1>2. batch' \in Batches /\ ~InBatch("READ")'
  BY <1>1 DEF Inv, TypeOK, Batches, InBatch
<1>3. ReadIsDue'
  BY <1>2 DEF ReadIsDue
<1>4. CASE ~io.alive /\ Returns(io, io)
  <2>1. TypeOK' /\ pc' = "loop" /\ wasted' = 0
    BY <1>1, <1>2, <1>4, ReturnsType
  <2> QED
    BY <1>3, <2>1, BeginsAgain
<1>5. CASE io.alive /\ "READ" \in io.ev /\ ReadTurn(io)
  BY <1>1, <1>2, <1>5, ReadTurnInv
<1>6. CASE io.alive /\ "READ" \notin io.ev /\ Returns(Flush(io), io)
  <2> DEFINE f == Flush(io)
  <2>1. Enables(io, "WRITE") \in IOType /\ Enables(io, "WRITE").alive
    BY <1>1, <1>6, EnablesType DEF READ_WRITE
  <2>2. f \in IOType /\ (~f.alive => f.filters = {})
    BY <2>1, WriteDataType DEF Flush
  <2> HIDE DEF f
  <2>3. TypeOK' /\ pc' = "loop" /\ wasted' = 0
    BY <1>1, <1>2, <1>6, <2>2, ReturnsType DEF f
  <2> QED
    BY <1>3, <2>3, BeginsAgain
<1> QED
  BY <1>4, <1>5, <1>6 DEF ReadCbReturns

LEMMA ServeWriteInv == Inv /\ ServeWrite => Inv'
<1> SUFFICES ASSUME Inv, ServeWrite PROVE Inv'
  OBVIOUS
<1>1. /\ io \in IOType /\ pc = "loop" /\ Rearmed(io') /\ UNCHANGED wrote
      /\ ~io.alive => io.filters = {}
  BY DEF Inv, TypeOK, IOType, ServeWrite, Serving
<1>2. /\ batch' \in Batches /\ InBatch("WRITE") /\ ~InBatch("WRITE")'
      /\ InBatch("READ")' => InBatch("READ")
  BY ServingBatch DEF ServeWrite, READ_WRITE
<1>3. CASE ~io.alive
  <2>1. Returns(io, io)
    BY <1>3 DEF ServeWrite
  <2>2. TypeOK' /\ pc' = "loop" /\ wasted' = 0 /\ io' = io
    BY <1>1, <1>2, <1>3, <2>1, ReturnsType
  <2> QED
    BY <1>3, <2>2, BeginsAgain
<1>4. CASE io.alive
  <2> DEFINE d == OnEventWrite(io)
  <2>1. Returns(d, io)
    BY <1>4 DEF ServeWrite
  <2>2. /\ d \in IOType /\ d.line = io.line /\ (~d.alive => d.filters = {})
        /\ d.alive /\ d.out = io.out =>
             /\ "READ" \in d.ev <=> "READ" \in io.ev
             /\ "READ" \in io.ev \cup io.filters => d.filters = io.ev \ {"WRITE"}
             /\ "READ" \notin io.ev \cup io.filters => d.filters = io.filters
    BY <1>1, <1>4, OnEventWriteType
  <2> HIDE DEF d
  <2>3. /\ TypeOK' /\ io' = d /\ pc' = "loop" /\ arrived' = arrived
        /\ wasted' = 0 \/ (d.alive /\ d.out = io.out /\ wasted' = Least(wasted + 1, 3))
    BY <1>1, <1>2, <2>1, <2>2, ReturnsType
  <2>4. ReadIsDue'
    BY <1>2, <1>4, <2>2, <2>3 DEF Inv, ReadIsDue
  <2>5. ASSUME d.alive, d.out = io.out
        PROVE  (Stuck => Stuck') /\ (Stuck' \/ Owed' < Owed)
    <3>1. io.filters \in SUBSET READ_WRITE
      BY <1>1 DEF IOType
    <3>2. OwesWrite
      BY <1>2 DEF OwesWrite
    <3>3. CASE "READ" \in io.ev \cup io.filters
      <4>1. ~OwesWrite'
        BY <1>2, <2>2, <2>3, <2>5, <3>3 DEF OwesWrite
      <4>2. OwesRead' => OwesRead
        BY <1>2, <2>2, <2>3, <2>5, <3>3 DEF OwesRead
      <4>3. ~Stuck
        BY <3>3 DEF Stuck
      <4> QED
        BY <3>2, <4>1, <4>2, <4>3 DEF Owed
    <3>4. CASE "READ" \notin io.ev \cup io.filters
      <4>1. io'.filters = io.filters /\ "READ" \notin io'.ev
        BY <2>2, <2>3, <2>5, <3>4
      <4>2. CASE "WRITE" \in io.filters
        <5>1. io.filters = {"WRITE"}
          BY <3>1, <3>4, <4>2 DEF READ_WRITE
        <5> QED
          BY <4>1, <5>1 DEF Stuck
      <4>3. CASE "WRITE" \notin io.filters
        <5>1. ~OwesWrite' /\ (OwesRead' => OwesRead) /\ ~Stuck
          BY <1>2, <3>4, <4>1, <4>3 DEF OwesWrite, OwesRead, Stuck
        <5> QED
          BY <3>2, <5>1 DEF Owed
      <4> QED
        BY <4>2, <4>3
    <3> QED
      BY <3>3, <3>4
  <2> QED
    BY <2>3, <2>4, <2>5, ServedInv
<1> QED
  BY <1>3, <1>4

\* While neither side does anything, at most two reports bring nothing, whatever
\* the sizes of the buffers, but in the state that utils.c:55 makes.
THEOREM LoopNeverSpins == Spec => []NoSpin
<1>1. Inv /\ [Next]_vars => Inv'
  <2> SUFFICES ASSUME Inv, [Next]_vars PROVE Inv'
    OBVIOUS
  <2>1. CASE UNCHANGED vars
    <3>1. (Owed' = Owed) /\ (ReadIsDue' <=> ReadIsDue) /\ (Stuck' <=> Stuck)
      BY <2>1 DEF vars, Owed, OwesRead, OwesWrite, InBatch, ReadIsDue, Stuck
    <3> QED
      BY <2>1, <3>1 DEF vars, Inv, TypeOK, InBatch
  <2> QED
    BY <2>1, AppInv, PeerInv, KeventInv, ServeReadInv, ReadCbReturnsInv, ServeWriteInv
       DEF Next, Loop
<1>2. Inv => NoSpin
  <2> SUFFICES ASSUME Inv PROVE NoSpin
    OBVIOUS
  <2>1. wasted \in 0..3 /\ (Owed = 0 \/ Owed = 1 \/ Owed = 2)
    BY DEF Inv, TypeOK, Owed
  <2>2. wasted < 3 \/ Stuck
    BY <2>1 DEF Inv
  <2> QED
    BY <2>2 DEF Inv, NoSpin, Stuck
<1> QED
  BY <1>1, <1>2, InitInv, PTL DEF Spec

-----------------------------------------------------------------------------
(* Recursion: iterating a function from a set to itself.                   *)

Iterates(T, z, g, n, f) ==
  f \in [0..n -> T] /\ f[0] = z /\ \A k \in 1..n : f[k] = g[f[k - 1]]
IterationTo(T, z, g, n) == CHOOSE f : Iterates(T, z, g, n, f)
Iteration(T, z, g) == [n \in Nat |-> IterationTo(T, z, g, n)[n]]

LEMMA IterationBegins ==
  ASSUME NEW T, NEW z \in T, NEW g \in [T -> T], NEW n \in Nat
  PROVE  Iterates(T, z, g, n, IterationTo(T, z, g, n))
<1> DEFINE G == {k \in Nat : \E f : Iterates(T, z, g, k, f)}
<1>1. 0 \in G
  <2> DEFINE f == [i \in 0..0 |-> z]
  <2>1. f \in [0..0 -> T] /\ f[0] = z /\ \A i \in 1..0 : f[i] = g[f[i - 1]]
    OBVIOUS
  <2> HIDE DEF f
  <2> QED
    BY <2>1 DEF Iterates
<1>2. ASSUME NEW k \in Nat, k \in G PROVE k + 1 \in G
  <2>1. PICK f : Iterates(T, z, g, k, f)
    BY <1>2
  <2> DEFINE h == [i \in 0..(k + 1) |-> IF i = k + 1 THEN g[f[k]] ELSE f[i]]
  <2>2. h \in [0..(k + 1) -> T] /\ h[0] = z
    BY <2>1 DEF Iterates
  <2>3. ASSUME NEW i \in 1..(k + 1) PROVE h[i] = g[h[i - 1]]
    BY <2>1 DEF Iterates
  <2> HIDE DEF h
  <2>4. Iterates(T, z, g, k + 1, h)
    BY <2>2, <2>3 DEF Iterates
  <2> QED
    BY <2>4
<1>3. n \in G
  BY <1>1, <1>2, Induction
<1> QED
  BY <1>3 DEF IterationTo

LEMMA IterationIsOne ==
  ASSUME NEW T, NEW z, NEW g, NEW m \in Nat, NEW n \in Nat, m <= n,
         NEW f, Iterates(T, z, g, m, f), NEW h, Iterates(T, z, g, n, h)
  PROVE  f[m] = h[m]
<1> DEFINE G == {k \in Nat : k <= m => f[k] = h[k]}
<1>1. 0 \in G
  BY DEF Iterates
<1>2. ASSUME NEW k \in Nat, k \in G PROVE k + 1 \in G
  <2>1. SUFFICES ASSUME k + 1 <= m PROVE f[k + 1] = h[k + 1]
    OBVIOUS
  <2>2. k + 1 \in 1..m /\ k + 1 \in 1..n /\ (k + 1) - 1 = k /\ f[k] = h[k]
    BY <1>2, <2>1
  <2> QED
    BY <2>2 DEF Iterates
<1>3. Nat \subseteq G
  BY <1>1, <1>2, Induction
<1> QED
  BY <1>3

LEMMA IterationSteps ==
  ASSUME NEW T, NEW z \in T, NEW g \in [T -> T]
  PROVE  /\ Iteration(T, z, g) \in [Nat -> T]
         /\ Iteration(T, z, g)[0] = z
         /\ \A n \in Nat : Iteration(T, z, g)[n + 1] = g[Iteration(T, z, g)[n]]
<1> DEFINE f == Iteration(T, z, g)
           Part(n) == IterationTo(T, z, g, n)
<1>1. \A n \in Nat : f[n] = Part(n)[n]
  BY DEF Iteration
<1>2. ASSUME NEW n \in Nat
      PROVE  /\ Part(n) \in [0..n -> T] /\ Part(n)[0] = z
             /\ \A k \in 1..n : Part(n)[k] = g[Part(n)[k - 1]]
  <2> HIDE DEF f
  <2>1. Iterates(T, z, g, n, Part(n))
    BY IterationBegins
  <2> QED
    BY <2>1 DEF Iterates
<1>3. ASSUME NEW n \in Nat PROVE f[n] \in T
  BY <1>1, <1>2
<1>4. ASSUME NEW n \in Nat PROVE f[n + 1] = g[f[n]]
  <2>1. n + 1 \in Nat /\ n <= n + 1 /\ n + 1 \in 1..(n + 1) /\ (n + 1) - 1 = n
    OBVIOUS
  <2>2. Part(n)[n] = Part(n + 1)[n]
    <3>1. Iterates(T, z, g, n, Part(n)) /\ Iterates(T, z, g, n + 1, Part(n + 1))
      BY <2>1, IterationBegins
    <3> QED
      BY <2>1, <3>1, IterationIsOne
  <2>3. Part(n + 1)[n + 1] = g[Part(n + 1)[n]]
    BY <1>2, <2>1
  <2> QED
    BY <1>1, <2>1, <2>2, <2>3
<1>5. f[0] = z
  BY <1>1, <1>2
<1>6. f \in [Nat -> T]
  BY <1>3 DEF Iteration
<1> QED
  BY <1>4, <1>5, <1>6

-----------------------------------------------------------------------------
(* Reading a name, step by step.                                           *)

Octet == 0..255

LEMMA ByteType ==
  ASSUME NEW m, m.data \in Seq(Octet), NEW o \in Int
  PROVE  /\ Byte(m, o) \in Octet
         /\ End(m) \in Nat /\ End(m) >= HEADER_LENGTH
         /\ Byte(m, o) # 0 => o \in HEADER_LENGTH..(End(m) - 1)
<1>1. Len(m.data) \in Nat /\ \A i \in 1..Len(m.data) : m.data[i] \in Octet
  BY LenProperties, ElementOfSeq
<1> QED
  BY <1>1 DEF Byte, End, HEADER_LENGTH, Octet

LEMMA BytesType ==
  ASSUME NEW m, m.data \in Seq(Octet), NEW o \in Int, NEW n \in Nat
  PROVE  /\ Bytes(m, o, n) \in Seq(Octet) /\ Len(Bytes(m, o, n)) = n
         /\ \A i \in 1..n : Bytes(m, o, n)[i] = Byte(m, o + i - 1)
<1>1. \A i \in 1..n : Byte(m, o + i - 1) \in Octet
  BY ByteType
<1>2. Bytes(m, o, n) \in [1..n -> Octet]
  BY <1>1 DEF Bytes
<1>3. Bytes(m, o, n) \in Seq(Octet) /\ Len(Bytes(m, o, n)) = n
  BY <1>2, LenProperties
<1> QED
  BY <1>3 DEF Bytes

Outcome == [text : Seq(Octet), offset : Nat, size : Int]
Outcomes == [Nat -> Outcome]
NoName(o) == [text |-> << >>, offset |-> o, size |-> 1]

\* One step of get_name, when `rest` is what it reads in one step less.
Labelled(m, o, r) == [r EXCEPT !.text = Joined(Bytes(m, o + 1, Byte(m, o)), @), !.offset = o,
                               !.size = IF @ = -1 THEN -1 ELSE 1 + Byte(m, o) + @]
Step(m, rest, o) ==
  IF Byte(m, o) = 0 THEN NoName(o)
  ELSE IF ~IsPointer(m, o) THEN Labelled(m, o, rest[o + 1 + Byte(m, o)])
  ELSE IF PointerAt(m, o) > End(m) THEN [text |-> << >>, offset |-> o, size |-> -1]
  ELSE [rest[PointerAt(m, o)] EXCEPT !.size = PTR_LEN]

\* get_name in so many steps.
NamesOf(m) ==
  CHOOSE name : name =
    [steps \in Nat |->
      [o \in Nat |->
           IF steps = 0 \/ Byte(m, o) = 0 THEN [text |-> << >>, offset |-> o, size |-> 1]
           ELSE IF ~IsPointer(m, o)
           THEN [name[steps - 1][o + 1 + Byte(m, o)] EXCEPT
                   !.text = Joined(Bytes(m, o + 1, Byte(m, o)), @), !.offset = o,
                   !.size = IF @ = -1 THEN -1 ELSE 1 + Byte(m, o) + @]
           ELSE IF PointerAt(m, o) > End(m)
           THEN [text |-> << >>, offset |-> o, size |-> -1]
           ELSE [name[steps - 1][PointerAt(m, o)] EXCEPT !.size = PTR_LEN]]]

LEMMA GetNameIs == \A m, o : GetName(m, o) = NamesOf(m)[MAX_STEPS][o]
  BY DEF GetName, NamesOf

LEMMA StepType ==
  ASSUME NEW m, m.data \in Seq(Octet), NEW rest \in Outcomes, NEW o \in Nat
  PROVE  Step(m, rest, o) \in Outcome
<1>1. Byte(m, o) \in Octet /\ Byte(m, o + 1) \in Octet /\ End(m) \in Nat
  BY ByteType
<1>2. CASE Byte(m, o) = 0
  BY <1>2, EmptySeq DEF Step, NoName, Outcome
<1>3. CASE Byte(m, o) # 0 /\ ~IsPointer(m, o)
  <2> DEFINE r == rest[o + 1 + Byte(m, o)]
             l == Bytes(m, o + 1, Byte(m, o))
  <2>0. Byte(m, o) \in Nat /\ o + 1 \in Int /\ o + 1 + Byte(m, o) \in Nat
    <3>1. \A b \in Octet : b \in Nat
      BY DEF Octet
    <3>2. \A b \in Nat : o + 1 \in Int /\ o + 1 + b \in Nat
      OBVIOUS
    <3> QED
      BY <1>1, <3>1, <3>2, Zenon
  <2>1. r \in Outcome
    BY <2>0 DEF Outcomes
  <2>2. l \in Seq(Octet)
    BY <2>0, BytesType
  <2>3. r.text \in Seq(Octet) /\ r.size \in Int
    BY <2>1 DEF Outcome
  <2>4. Joined(l, r.text) \in Seq(Octet)
    <3>1. DOT \in Octet
      BY DEF DOT, Octet
    <3> QED
      BY <2>2, <2>3, <3>1 DEF Joined
  <2> DEFINE n == IF r.size = -1 THEN -1 ELSE 1 + Byte(m, o) + r.size
  <2> HIDE DEF r, l
  <2>6. n \in Int
    BY <2>0, <2>3
  <2>7. ASSUME NEW t \in Seq(Octet), NEW i \in Int
        PROVE  [r EXCEPT !.text = t, !.offset = o, !.size = i] \in Outcome
    BY <2>1 DEF Outcome
  <2>8. [r EXCEPT !.text = Joined(l, r.text), !.offset = o, !.size = n] \in Outcome
    BY <2>4, <2>6, <2>7
  <2>5. [r EXCEPT !.text = Joined(l, @), !.offset = o,
                  !.size = IF @ = -1 THEN -1 ELSE 1 + Byte(m, o) + @] \in Outcome
    BY <2>8 DEF n
  <2> QED
    BY <1>3, <2>5 DEF Step, Labelled, r, l
<1>4. CASE Byte(m, o) # 0 /\ IsPointer(m, o)
  <2>1. PointerAt(m, o) \in Nat
    <3>1. \A b, c \in 0..255 : (b % 4) * 16 + c \in Nat
      OBVIOUS
    <3> QED
      BY <1>1, <3>1 DEF PointerAt, Octet
  <2>2. rest[PointerAt(m, o)] \in Outcome
    BY <2>1 DEF Outcomes
  <2>3. [text |-> << >>, offset |-> o, size |-> -1] \in Outcome
    BY EmptySeq DEF Outcome
  <2>4. [rest[PointerAt(m, o)] EXCEPT !.size = PTR_LEN] \in Outcome
    BY <2>2 DEF Outcome, PTR_LEN
  <2> QED
    BY <1>4, <2>3, <2>4 DEF Step
<1> QED
  BY <1>2, <1>3, <1>4

LEMMA NamesUnfold ==
  ASSUME NEW m, m.data \in Seq(Octet)
  PROVE  /\ \A o \in Nat : NamesOf(m)[0][o] = NoName(o)
         /\ \A steps, o \in Nat : NamesOf(m)[steps + 1][o] = Step(m, NamesOf(m)[steps], o)
<1> DEFINE z == [o \in Nat |-> NoName(o)]
           g == [r \in Outcomes |-> [o \in Nat |-> Step(m, r, o)]]
           Body(f, steps, o) ==
             IF steps = 0 \/ Byte(m, o) = 0 THEN [text |-> << >>, offset |-> o, size |-> 1]
             ELSE IF ~IsPointer(m, o)
             THEN [f[steps - 1][o + 1 + Byte(m, o)] EXCEPT
                     !.text = Joined(Bytes(m, o + 1, Byte(m, o)), @), !.offset = o,
                     !.size = IF @ = -1 THEN -1 ELSE 1 + Byte(m, o) + @]
             ELSE IF PointerAt(m, o) > End(m)
             THEN [text |-> << >>, offset |-> o, size |-> -1]
             ELSE [f[steps - 1][PointerAt(m, o)] EXCEPT !.size = PTR_LEN]
<1>1. z \in Outcomes
  BY EmptySeq DEF NoName, Outcomes, Outcome
<1>2. g \in [Outcomes -> Outcomes]
  BY StepType DEF Outcomes
<1> HIDE DEF z, g
<1> DEFINE h == Iteration(Outcomes, z, g)
<1>3. /\ h \in [Nat -> Outcomes] /\ h[0] = z
      /\ \A n \in Nat : h[n + 1] = g[h[n]]
  BY <1>1, <1>2, IterationSteps
<1>4. ASSUME NEW f, NEW steps \in Nat, NEW o \in Nat
      PROVE  Body(f, steps, o) = IF steps = 0 THEN NoName(o) ELSE Step(m, f[steps - 1], o)
  BY DEF NoName, Step, Labelled
<1> HIDE DEF Body, h, g, z
<1>5. ASSUME NEW steps \in Nat PROVE h[steps] = [o \in Nat |-> Body(h, steps, o)]
  <2>1. h[steps] \in [Nat -> Outcome]
    BY <1>3 DEF Outcomes
  <2>2. ASSUME NEW o \in Nat PROVE h[steps][o] = Body(h, steps, o)
    <3>1. CASE steps = 0
      BY <1>3, <1>4, <3>1 DEF z
    <3>2. CASE steps # 0
      <4>1. steps - 1 \in Nat /\ (steps - 1) + 1 = steps
        BY <3>2
      <4>2. h[steps] = g[h[steps - 1]] /\ h[steps - 1] \in Outcomes
        BY <1>3, <4>1
      <4>3. h[steps][o] = Step(m, h[steps - 1], o)
        BY <4>2 DEF g
      <4> QED
        BY <1>4, <3>2, <4>3
    <3> QED
      BY <3>1, <3>2
  <2> QED
    BY <2>1, <2>2
<1>6. h = [steps \in Nat |-> [o \in Nat |-> Body(h, steps, o)]]
  BY <1>3, <1>5
<1> DEFINE N == CHOOSE name : name = [steps \in Nat |-> [o \in Nat |-> Body(name, steps, o)]]
<1>7. N = [steps \in Nat |-> [o \in Nat |-> Body(N, steps, o)]]
  BY <1>6
<1>8. NamesOf(m) = N
  BY DEF NamesOf, Body
<1> HIDE DEF N
<1>9. \A steps, o \in Nat : N[steps][o] = Body(N, steps, o)
  <2>1. \A steps \in Nat : N[steps] = [o \in Nat |-> Body(N, steps, o)]
    BY <1>7
  <2> QED
    BY <2>1
<1>10. \A o \in Nat : N[0][o] = NoName(o)
  BY <1>4, <1>9
<1>11. ASSUME NEW steps \in Nat, NEW o \in Nat PROVE N[steps + 1][o] = Step(m, N[steps], o)
  <2>1. steps + 1 \in Nat /\ steps + 1 # 0 /\ (steps + 1) - 1 = steps
    OBVIOUS
  <2>2. N[steps + 1][o] = Body(N, steps + 1, o)
    BY <1>9, <2>1
  <2>3. Body(N, steps + 1, o) = Step(m, N[(steps + 1) - 1], o)
    BY <1>4, <2>1
  <2> QED
    BY <2>1, <2>2, <2>3
<1> QED
  BY <1>8, <1>10, <1>11

\* Anybody else's reading, step by step.
LabelLists == [Nat -> Seq(Seq(Octet))]
LabelStep(m, rest, o) ==
  IF Byte(m, o) = 0 THEN << >>
  ELSE IF Byte(m, o) >= 192 THEN rest[(Byte(m, o) - 192) * 256 + Byte(m, o + 1)]
  ELSE <<Bytes(m, o + 1, Byte(m, o))>> \o rest[o + 1 + Byte(m, o)]

LabelsOf(m) ==
  CHOOSE labels : labels =
    [steps \in Nat |->
      [o \in Nat |->
           IF steps = 0 \/ Byte(m, o) = 0 THEN << >>
           ELSE IF Byte(m, o) >= 192
           THEN labels[steps - 1][(Byte(m, o) - 192) * 256 + Byte(m, o + 1)]
           ELSE <<Bytes(m, o + 1, Byte(m, o))>> \o labels[steps - 1][o + 1 + Byte(m, o)]]]

LEMMA LabelsAtIs == \A m, o : LabelsAt(m, o) = LabelsOf(m)[MAX_STEPS][o]
  BY DEF LabelsAt, LabelsOf

LEMMA LabelStepType ==
  ASSUME NEW m, m.data \in Seq(Octet), NEW rest \in LabelLists, NEW o \in Nat
  PROVE  LabelStep(m, rest, o) \in Seq(Seq(Octet))
<1>1. Byte(m, o) \in Octet /\ Byte(m, o + 1) \in Octet
  BY ByteType
<1>2. CASE Byte(m, o) = 0
  BY <1>2, EmptySeq DEF LabelStep
<1>3. CASE Byte(m, o) # 0 /\ Byte(m, o) >= 192
  <2>1. \A b, c \in 0..255 : b >= 192 => (b - 192) * 256 + c \in Nat
    OBVIOUS
  <2>2. (Byte(m, o) - 192) * 256 + Byte(m, o + 1) \in Nat
    BY <1>1, <1>3, <2>1 DEF Octet
  <2>3. rest[(Byte(m, o) - 192) * 256 + Byte(m, o + 1)] \in Seq(Seq(Octet))
    BY <2>2 DEF LabelLists
  <2> QED
    BY <1>3, <2>3 DEF LabelStep
<1>4. CASE Byte(m, o) # 0 /\ ~(Byte(m, o) >= 192)
  <2>1. \A b \in Octet : b \in Nat
    BY DEF Octet
  <2>2. \A b \in Nat : o + 1 \in Int /\ o + 1 + b \in Nat
    OBVIOUS
  <2>3. Byte(m, o) \in Nat /\ o + 1 \in Int /\ o + 1 + Byte(m, o) \in Nat
    BY <1>1, <2>1, <2>2, Zenon
  <2>4. Bytes(m, o + 1, Byte(m, o)) \in Seq(Octet)
    BY <2>3, BytesType
  <2>5. rest[o + 1 + Byte(m, o)] \in Seq(Seq(Octet))
    BY <2>3 DEF LabelLists
  <2>6. \A l \in Seq(Octet), r \in Seq(Seq(Octet)) : <<l>> \o r \in Seq(Seq(Octet))
    OBVIOUS
  <2>7. <<Bytes(m, o + 1, Byte(m, o))>> \o rest[o + 1 + Byte(m, o)] \in Seq(Seq(Octet))
    BY <2>4, <2>5, <2>6
  <2> QED
    BY <1>4, <2>7 DEF LabelStep
<1> QED
  BY <1>2, <1>3, <1>4

LEMMA LabelsUnfold ==
  ASSUME NEW m, m.data \in Seq(Octet)
  PROVE  /\ \A o \in Nat : LabelsOf(m)[0][o] = << >>
         /\ \A steps, o \in Nat : LabelsOf(m)[steps + 1][o] = LabelStep(m, LabelsOf(m)[steps], o)
<1> DEFINE z == [o \in Nat |-> << >>]
           g == [r \in LabelLists |-> [o \in Nat |-> LabelStep(m, r, o)]]
           Body(f, steps, o) ==
             IF steps = 0 \/ Byte(m, o) = 0 THEN << >>
             ELSE IF Byte(m, o) >= 192
             THEN f[steps - 1][(Byte(m, o) - 192) * 256 + Byte(m, o + 1)]
             ELSE <<Bytes(m, o + 1, Byte(m, o))>> \o f[steps - 1][o + 1 + Byte(m, o)]
<1>1. z \in LabelLists
  BY EmptySeq DEF LabelLists
<1>2. g \in [LabelLists -> LabelLists]
  BY LabelStepType DEF LabelLists
<1> HIDE DEF z, g
<1> DEFINE h == Iteration(LabelLists, z, g)
<1>3. /\ h \in [Nat -> LabelLists] /\ h[0] = z
      /\ \A n \in Nat : h[n + 1] = g[h[n]]
  BY <1>1, <1>2, IterationSteps
<1>4. ASSUME NEW f, NEW steps \in Nat, NEW o \in Nat
      PROVE  Body(f, steps, o) = IF steps = 0 THEN << >> ELSE LabelStep(m, f[steps - 1], o)
  BY DEF LabelStep
<1> HIDE DEF Body, h
<1>5. ASSUME NEW steps \in Nat PROVE h[steps] = [o \in Nat |-> Body(h, steps, o)]
  <2>1. h[steps] \in [Nat -> Seq(Seq(Octet))]
    BY <1>3 DEF LabelLists
  <2>2. ASSUME NEW o \in Nat PROVE h[steps][o] = Body(h, steps, o)
    <3>1. CASE steps = 0
      BY <1>3, <1>4, <3>1 DEF z
    <3>2. CASE steps # 0
      <4>1. steps - 1 \in Nat /\ (steps - 1) + 1 = steps
        BY <3>2
      <4>2. h[steps] = g[h[steps - 1]] /\ h[steps - 1] \in LabelLists
        BY <1>3, <4>1
      <4>3. h[steps][o] = LabelStep(m, h[steps - 1], o)
        BY <4>2 DEF g
      <4> QED
        BY <1>4, <3>2, <4>3
    <3> QED
      BY <3>1, <3>2
  <2> QED
    BY <2>1, <2>2
<1>6. h = [steps \in Nat |-> [o \in Nat |-> Body(h, steps, o)]]
  BY <1>3, <1>5
<1> DEFINE N == CHOOSE labels : labels = [steps \in Nat |-> [o \in Nat |-> Body(labels, steps, o)]]
<1>7. N = [steps \in Nat |-> [o \in Nat |-> Body(N, steps, o)]]
  BY <1>6
<1>8. LabelsOf(m) = N
  BY DEF LabelsOf, Body
<1> HIDE DEF N
<1>9. \A steps, o \in Nat : N[steps][o] = Body(N, steps, o)
  <2>1. \A steps \in Nat : N[steps] = [o \in Nat |-> Body(N, steps, o)]
    BY <1>7
  <2> QED
    BY <2>1
<1>10. \A o \in Nat : N[0][o] = << >>
  BY <1>4, <1>9
<1>11. ASSUME NEW steps \in Nat, NEW o \in Nat PROVE N[steps + 1][o] = LabelStep(m, N[steps], o)
  <2>1. steps + 1 \in Nat /\ steps + 1 # 0 /\ (steps + 1) - 1 = steps
    OBVIOUS
  <2>2. N[steps + 1][o] = Body(N, steps + 1, o)
    BY <1>9, <2>1
  <2>3. Body(N, steps + 1, o) = LabelStep(m, N[(steps + 1) - 1], o)
    BY <1>4, <2>1
  <2> QED
    BY <2>1, <2>2, <2>3
<1> QED
  BY <1>8, <1>10, <1>11

\* Where the labels stop, step by step.
StopStep(m, rest, o) ==
  IF Byte(m, o) = 0 \/ IsPointer(m, o) THEN o
  ELSE IF Byte(m, o) > 127 THEN End(m)
  ELSE rest[o + 1 + Byte(m, o)]
Stops == [Nat -> Nat]
FirstStop(m, o) == IF Byte(m, o) = 0 \/ IsPointer(m, o) THEN o ELSE End(m)

StopsOf(m) ==
  CHOOSE stop : stop =
    [steps \in Nat |->
      [o \in Nat |->
           IF Byte(m, o) = 0 \/ IsPointer(m, o) THEN o
           ELSE IF steps = 0 \/ Byte(m, o) > 127 THEN End(m)
           ELSE stop[steps - 1][o + 1 + Byte(m, o)]]]

LEMMA StraysIs ==
  \A m, o : Strays(m, o) <=>
    StopsOf(m)[MAX_STEPS][o] + (IF IsPointer(m, StopsOf(m)[MAX_STEPS][o]) THEN PTR_LEN ELSE 1) > End(m)
  BY DEF Strays, StopsOf

LEMMA StopStepType ==
  ASSUME NEW m, m.data \in Seq(Octet), NEW rest \in Stops, NEW o \in Nat
  PROVE  StopStep(m, rest, o) \in Nat /\ FirstStop(m, o) \in Nat
<1>1. Byte(m, o) \in Octet /\ End(m) \in Nat
  BY ByteType
<1>2. \A b \in Octet : o + 1 + b \in Nat
  BY DEF Octet
<1>3. rest[o + 1 + Byte(m, o)] \in Nat
  BY <1>1, <1>2 DEF Stops
<1> QED
  BY <1>1, <1>3 DEF StopStep, FirstStop

LEMMA StopsUnfold ==
  ASSUME NEW m, m.data \in Seq(Octet)
  PROVE  /\ \A o \in Nat : StopsOf(m)[0][o] = FirstStop(m, o)
         /\ \A steps, o \in Nat : StopsOf(m)[steps + 1][o] = StopStep(m, StopsOf(m)[steps], o)
<1> DEFINE z == [o \in Nat |-> FirstStop(m, o)]
           g == [r \in Stops |-> [o \in Nat |-> StopStep(m, r, o)]]
           Body(f, steps, o) ==
             IF Byte(m, o) = 0 \/ IsPointer(m, o) THEN o
             ELSE IF steps = 0 \/ Byte(m, o) > 127 THEN End(m)
             ELSE f[steps - 1][o + 1 + Byte(m, o)]
<1>1. z \in Stops
  <2>1. [o \in Nat |-> 0] \in Stops
    BY DEF Stops
  <2> QED
    BY <2>1, StopStepType DEF Stops
<1>2. g \in [Stops -> Stops]
  BY StopStepType DEF Stops
<1> HIDE DEF z, g
<1> DEFINE h == Iteration(Stops, z, g)
<1>3. /\ h \in [Nat -> Stops] /\ h[0] = z
      /\ \A n \in Nat : h[n + 1] = g[h[n]]
  BY <1>1, <1>2, IterationSteps
<1>4. ASSUME NEW f, NEW steps \in Nat, NEW o \in Nat
      PROVE  Body(f, steps, o) = IF steps = 0 THEN FirstStop(m, o) ELSE StopStep(m, f[steps - 1], o)
  <2>1. CASE steps = 0
    BY <2>1, Zenon DEF FirstStop
  <2>2. CASE steps # 0
    BY <2>2, Zenon DEF StopStep
  <2> QED
    BY <2>1, <2>2, Zenon
<1> HIDE DEF Body, h
<1>5. ASSUME NEW steps \in Nat PROVE h[steps] = [o \in Nat |-> Body(h, steps, o)]
  <2>1. h[steps] \in [Nat -> Nat]
    BY <1>3 DEF Stops
  <2>2. ASSUME NEW o \in Nat PROVE h[steps][o] = Body(h, steps, o)
    <3>1. CASE steps = 0
      BY <1>3, <1>4, <3>1 DEF z
    <3>2. CASE steps # 0
      <4>1. steps - 1 \in Nat /\ (steps - 1) + 1 = steps
        BY <3>2
      <4>2. h[steps] = g[h[steps - 1]] /\ h[steps - 1] \in Stops
        BY <1>3, <4>1
      <4>3. h[steps][o] = StopStep(m, h[steps - 1], o)
        BY <4>2 DEF g
      <4> QED
        BY <1>4, <3>2, <4>3
    <3> QED
      BY <3>1, <3>2
  <2> QED
    BY <2>1, <2>2
<1>6. h = [steps \in Nat |-> [o \in Nat |-> Body(h, steps, o)]]
  BY <1>3, <1>5
<1> DEFINE N == CHOOSE stop : stop = [steps \in Nat |-> [o \in Nat |-> Body(stop, steps, o)]]
<1>7. N = [steps \in Nat |-> [o \in Nat |-> Body(N, steps, o)]]
  BY <1>6
<1>8. StopsOf(m) = N
  BY DEF StopsOf, Body
<1> HIDE DEF N
<1>9. \A steps, o \in Nat : N[steps][o] = Body(N, steps, o)
  <2>1. \A steps \in Nat : N[steps] = [o \in Nat |-> Body(N, steps, o)]
    BY <1>7
  <2> QED
    BY <2>1
<1>10. \A o \in Nat : N[0][o] = FirstStop(m, o)
  BY <1>4, <1>9
<1>11. ASSUME NEW steps \in Nat, NEW o \in Nat PROVE N[steps + 1][o] = StopStep(m, N[steps], o)
  <2>1. steps + 1 \in Nat /\ steps + 1 # 0 /\ (steps + 1) - 1 = steps
    OBVIOUS
  <2>2. N[steps + 1][o] = Body(N, steps + 1, o)
    BY <1>9, <2>1
  <2>3. Body(N, steps + 1, o) = StopStep(m, N[(steps + 1) - 1], o)
    BY <1>4, <2>1
  <2> QED
    BY <2>1, <2>2, <2>3
<1> QED
  BY <1>8, <1>10, <1>11

-----------------------------------------------------------------------------
(* Texts of names.                                                         *)

Dotted(labels) == FlattenSeq([i \in 1..Len(labels) |-> <<DOT>> \o labels[i]])

LEMMA LabelType ==
  ASSUME NEW l \in Label
  PROVE  /\ l \in Seq(Octet) /\ Len(l) \in 1..63
         /\ \A i \in 1..Len(l) : l[i] \in 1..255 /\ l[i] # DOT
<1>1. l \in Seq((1..255) \ {DOT}) /\ Len(l) \in 1..63
  BY DEF Label
<1>2. \A i \in 1..Len(l) : l[i] \in (1..255) \ {DOT}
  BY <1>1, ElementOfSeq
<1>3. l \in Seq(Octet)
  BY <1>1, SeqMonotonic DEF Octet
<1> QED
  BY <1>1, <1>2, <1>3

\* Labels with something before each: a dot, or its length.
LEMMA PartsType ==
  ASSUME NEW v \in Seq(Label)
  PROVE  /\ [i \in 1..Len(v) |-> <<DOT>> \o v[i]] \in Seq(Seq(Octet))
         /\ [i \in 1..Len(v) |-> <<Len(v[i])>> \o v[i]] \in Seq(Seq(Octet))
<1>1. Len(v) \in Nat /\ \A i \in 1..Len(v) : v[i] \in Label
  BY LenProperties, ElementOfSeq
<1>2. ASSUME NEW i \in 1..Len(v)
      PROVE  <<DOT>> \o v[i] \in Seq(Octet) /\ <<Len(v[i])>> \o v[i] \in Seq(Octet)
  <2>1. v[i] \in Seq(Octet) /\ Len(v[i]) \in Octet /\ DOT \in Octet
    BY <1>1, LabelType DEF Octet, DOT
  <2>2. \A x \in Octet, l \in Seq(Octet) : <<x>> \o l \in Seq(Octet)
    OBVIOUS
  <2> QED
    BY <2>1, <2>2
<1>3. \A p \in [1..Len(v) -> Seq(Octet)] : p \in Seq(Seq(Octet))
  BY <1>1
<1> QED
  BY <1>2, <1>3

LEMMA DottedType ==
  ASSUME NEW v \in Seq(Label)
  PROVE  Dotted(v) \in Seq(Octet) /\ Wire(v) \in Seq(Octet)
<1>1. \A p \in Seq(Seq(Octet)) : FlattenSeq(p) \in Seq(Octet)
  <2>1. << >> \in Seq(Octet)
    BY EmptySeq
  <2> QED
    BY <2>1, FlattenAppend
<1> QED
  BY <1>1, PartsType DEF Dotted, Wire

\* One more label at the end.
LEMMA DottedAppend ==
  ASSUME NEW v \in Seq(Label), NEW l \in Label
  PROVE  /\ Append(v, l) \in Seq(Label)
         /\ Dotted(Append(v, l)) = Dotted(v) \o (<<DOT>> \o l)
         /\ Wire(Append(v, l)) = Wire(v) \o (<<Len(l)>> \o l)
<1> DEFINE w == Append(v, l)
<1>1. /\ w \in Seq(Label) /\ Len(v) \in Nat /\ Len(w) = Len(v) + 1
      /\ \A i \in 1..Len(v) : w[i] = v[i]
      /\ w[Len(v) + 1] = l
  BY AppendProperties, LenProperties
<1> HIDE DEF w
<1> DEFINE dv == [i \in 1..Len(v) |-> <<DOT>> \o v[i]]
           dw == [i \in 1..Len(w) |-> <<DOT>> \o w[i]]
           lv == [i \in 1..Len(v) |-> <<Len(v[i])>> \o v[i]]
           lw == [i \in 1..Len(w) |-> <<Len(w[i])>> \o w[i]]
<1>2. dv \in Seq(Seq(Octet)) /\ lv \in Seq(Seq(Octet))
  BY PartsType
<1>3. dw \in Seq(Seq(Octet)) /\ lw \in Seq(Seq(Octet))
  BY <1>1, PartsType
<1>4. PICK n \in Nat : n = Len(v)
  BY <1>1
<1>5. /\ Len(dv) = n /\ Len(dw) = n + 1 /\ \A i \in 1..n : dw[i] = dv[i]
      /\ dw[n + 1] = <<DOT>> \o l
  BY <1>1, <1>4
<1>6. /\ Len(lv) = n /\ Len(lw) = n + 1 /\ \A i \in 1..n : lw[i] = lv[i]
      /\ lw[n + 1] = <<Len(l)>> \o l
  BY <1>1, <1>4
<1>7. Dotted(v) = FlattenSeq(dv) /\ Dotted(w) = FlattenSeq(dw)
  BY DEF Dotted
<1>8. Wire(v) = FlattenSeq(lv) /\ Wire(w) = FlattenSeq(lw)
  BY DEF Wire
<1> HIDE DEF dv, dw, lv, lw
<1>9. FlattenSeq(dw) = FlattenSeq(dv) \o dw[n + 1]
  BY <1>2, <1>3, <1>5, FlattenLonger
<1>10. FlattenSeq(lw) = FlattenSeq(lv) \o lw[n + 1]
  BY <1>2, <1>3, <1>6, FlattenLonger
<1> QED
  BY <1>1, <1>5, <1>6, <1>7, <1>8, <1>9, <1>10 DEF w

\* Sequences of octets.
LEMMA OctetSeq ==
  /\ DOT \in Octet /\ << >> \in Seq(Octet) /\ Len(<< >>) = 0
  /\ \A x \in Octet : <<x>> \in Seq(Octet) /\ Len(<<x>>) = 1 /\ <<x>>[1] = x
  /\ \A a \in Seq(Octet) : /\ Len(a) \in Nat /\ a \o << >> = a /\ << >> \o a = a
                           /\ Len(a) = 0 => a = << >>
                           /\ \A i \in 1..Len(a) : a[i] \in Octet
  /\ \A a, b \in Seq(Octet) : a \o b \in Seq(Octet) /\ Len(a \o b) = Len(a) + Len(b)
<1>1. DOT \in Octet
  BY DEF DOT, Octet
<1>2. \A x \in Octet : <<x>> \in Seq(Octet) /\ Len(<<x>>) = 1 /\ <<x>>[1] = x
  OBVIOUS
<1>3. ASSUME NEW a \in Seq(Octet) PROVE Len(a) \in Nat /\ \A i \in 1..Len(a) : a[i] \in Octet
  BY LenProperties, ElementOfSeq
<1>4. ASSUME NEW a \in Seq(Octet) PROVE Len(a) = 0 => a = << >>
  BY EmptySeq
<1>5. ASSUME NEW a \in Seq(Octet), NEW b \in Seq(Octet)
      PROVE  a \o b \in Seq(Octet) /\ Len(a \o b) = Len(a) + Len(b)
  BY ConcatProperties
<1>6. ASSUME NEW a \in Seq(Octet) PROVE a \o << >> = a /\ << >> \o a = a
  BY ConcatEmptySeq
<1> QED
  BY <1>1, <1>2, <1>3, <1>4, <1>5, <1>6, EmptySeq

LEMMA OctetConcat ==
  \A a, b \in Seq(Octet) : \A i \in 1..Len(a) + Len(b) :
     (a \o b)[i] = IF i <= Len(a) THEN a[i] ELSE b[i - Len(a)]
  BY ConcatProperties

LEMMA OctetAssociates == \A a, b, c \in Seq(Octet) : (a \o b) \o c = a \o (b \o c)
  BY ConcatAssociative

\* One more label in front.
LEMMA DottedHead ==
  ASSUME NEW v \in Seq(Label), v # << >>
  PROVE  /\ v[1] \in Label /\ Tail(v) \in Seq(Label) /\ Len(Tail(v)) = Len(v) - 1
         /\ Dotted(v) = (<<DOT>> \o v[1]) \o Dotted(Tail(v))
<1> DEFINE t == Tail(v)
           d == [i \in 1..Len(v) |-> <<DOT>> \o v[i]]
           e == [i \in 1..Len(t) |-> <<DOT>> \o t[i]]
           f == << <<DOT>> \o v[1] >>
<1>1. /\ t \in Seq(Label) /\ Len(v) \in Nat \ {0} /\ Len(t) = Len(v) - 1
      /\ \A i \in 1..Len(t) : t[i] = v[i + 1]
  BY HeadTailProperties, EmptySeq
<1>2. v[1] \in Label
  BY <1>1, ElementOfSeq
<1>3. d \in Seq(Seq(Octet)) /\ e \in Seq(Seq(Octet))
  BY <1>1, PartsType
<1>4. <<DOT>> \o v[1] \in Seq(Octet)
  <2>1. v[1] \in Seq(Octet) /\ DOT \in Octet
    BY <1>2, LabelType DEF Octet, DOT
  <2>2. \A l \in Seq(Octet), x \in Octet : <<x>> \o l \in Seq(Octet)
    OBVIOUS
  <2> QED
    BY <2>1, <2>2
<1>5. f \in Seq(Seq(Octet)) /\ Len(f) = 1 /\ f[1] = <<DOT>> \o v[1]
  BY <1>4
<1>6. Len(d) = Len(v) /\ \A i \in 1..Len(v) : d[i] = <<DOT>> \o v[i]
  BY <1>1
<1>7. Len(e) = Len(t) /\ \A i \in 1..Len(t) : e[i] = <<DOT>> \o t[i]
  BY <1>1
<1>8. Dotted(v) = FlattenSeq(d) /\ Dotted(t) = FlattenSeq(e)
  BY DEF Dotted
<1> HIDE DEF d, e, f, t
<1>9. /\ f \o e \in Seq(Seq(Octet)) /\ Len(f \o e) = 1 + Len(e)
      /\ \A i \in 1..1 + Len(e) : (f \o e)[i] = IF i <= 1 THEN f[i] ELSE e[i - 1]
  <2>1. \A a, b \in Seq(Seq(Octet)) :
          /\ a \o b \in Seq(Seq(Octet)) /\ Len(a \o b) = Len(a) + Len(b)
          /\ \A i \in 1..Len(a) + Len(b) : (a \o b)[i] = IF i <= Len(a) THEN a[i] ELSE b[i - Len(a)]
    BY ConcatProperties
  <2>2. /\ f \o e \in Seq(Seq(Octet)) /\ Len(f \o e) = Len(f) + Len(e)
        /\ \A i \in 1..Len(f) + Len(e) : (f \o e)[i] = IF i <= Len(f) THEN f[i] ELSE e[i - Len(f)]
    BY <1>3, <1>5, <2>1, Zenon
  <2> QED
    BY <1>5, <2>2
<1>10. \A i \in 1..Len(v) : d[i] = (f \o e)[i]
  <2> SUFFICES ASSUME NEW i \in 1..Len(v) PROVE d[i] = (f \o e)[i]
    OBVIOUS
  <2>1. CASE i = 1
    <3>1. Len(e) \in Nat /\ 1 \in 1..1 + Len(e)
      BY <1>1, <1>7
    <3>2. (f \o e)[1] = f[1]
      BY <1>9, <3>1
    <3> QED
      BY <1>5, <1>6, <2>1, <3>2
  <2>2. CASE i # 1
    <3>1. i - 1 \in 1..Len(t) /\ (i - 1) + 1 = i
      BY <1>1, <2>2
    <3>2. e[i - 1] = <<DOT>> \o v[i]
      BY <1>1, <1>7, <3>1
    <3>3. (f \o e)[i] = e[i - 1]
      BY <1>1, <1>7, <1>9, <2>2
    <3> QED
      BY <1>6, <3>2, <3>3
  <2> QED
    BY <2>1, <2>2
<1>11. d = f \o e
  <2>1. Len(d) = Len(f \o e)
    BY <1>1, <1>6, <1>7, <1>9
  <2> QED
    BY <1>3, <1>6, <1>9, <1>10, <2>1, SeqEqual
<1>12. FlattenSeq(d) = FlattenSeq(f) \o FlattenSeq(e)
  BY <1>3, <1>5, <1>11, FlattenConcat
<1>13. FlattenSeq(f) = <<DOT>> \o v[1]
  <2>1. << >> \in Seq(Seq(Octet)) /\ Len(<< >>) = 0
    BY EmptySeq
  <2>2. \A t0, v0 \in Seq(Seq(Octet)) :
          Len(t0) = 0 /\ Len(v0) = 0 + 1 => FlattenSeq(v0) = FlattenSeq(t0) \o v0[0 + 1]
    <3> SUFFICES ASSUME NEW t0 \in Seq(Seq(Octet)), NEW v0 \in Seq(Seq(Octet)),
                        Len(t0) = 0, Len(v0) = 0 + 1
                 PROVE  FlattenSeq(v0) = FlattenSeq(t0) \o v0[0 + 1]
      OBVIOUS
    <3>1. \A i \in 1..0 : v0[i] = t0[i]
      OBVIOUS
    <3>2. 0 \in Nat
      OBVIOUS
    <3> QED
      BY <3>1, <3>2, FlattenLonger, Zenon
  <2>3. FlattenSeq(f) = FlattenSeq(<< >>) \o f[0 + 1]
    <3>1. Len(f) = 0 + 1
      BY <1>5
    <3> QED
      BY <1>5, <2>1, <2>2, <3>1, Zenon
  <2> QED
    BY <1>4, <1>5, <2>3, FlattenEmpty, OctetSeq
<1> QED
  BY <1>1, <1>2, <1>8, <1>12, <1>13 DEF t

LEMMA DottedEmpty == Dotted(<< >>) = << >> /\ Wire(<< >>) = << >>
  BY EmptySeq, FlattenEmpty DEF Dotted, Wire

\* What follows the first.
LEMMA DropOne ==
  ASSUME NEW S, NEW x \in S, NEW s \in Seq(S)
  PROVE  /\ Drop(<<x>> \o s, 1) = s
         /\ <<x>> \o s \in Seq(S) /\ Len(<<x>> \o s) = Len(s) + 1 /\ (<<x>> \o s)[1] = x
<1> DEFINE t == <<x>> \o s
<1>1. <<x>> \in Seq(S) /\ Len(<<x>>) = 1 /\ <<x>>[1] = x /\ Len(s) \in Nat
  BY LenProperties
<1>2. /\ t \in Seq(S) /\ Len(t) = Len(s) + 1
      /\ \A i \in 1..Len(s) + 1 : t[i] = IF i <= 1 THEN <<x>>[i] ELSE s[i - 1]
  BY <1>1, ConcatProperties
<1> HIDE DEF t
<1>3. \A i \in 2..Len(t) : t[i] \in S
  BY <1>2, ElementOfSeq
<1>4. /\ SubSeq(t, 2, Len(t)) \in Seq(S)
      /\ Len(SubSeq(t, 2, Len(t))) = Len(s)
      /\ \A i \in 1..Len(s) : SubSeq(t, 2, Len(t))[i] = t[2 + i - 1]
  <2>1. 2 \in Int /\ Len(t) \in Int
    BY <1>1, <1>2
  <2>2. /\ SubSeq(t, 2, Len(t)) \in Seq(S)
        /\ Len(SubSeq(t, 2, Len(t))) = IF 2 <= Len(t) THEN Len(t) - 2 + 1 ELSE 0
        /\ \A i \in 1..Len(t) - 2 + 1 : SubSeq(t, 2, Len(t))[i] = t[2 + i - 1]
    BY <1>3, <2>1, SubSeqProperties
  <2> QED
    BY <1>1, <1>2, <2>2
<1>5. \A i \in 1..Len(s) : SubSeq(t, 2, Len(t))[i] = s[i]
  BY <1>1, <1>2, <1>4
<1>6. SubSeq(t, 2, Len(t)) = s
  BY <1>4, <1>5, SeqEqual
<1>7. Drop(t, 1) = s
  BY <1>6 DEF Drop
<1>8. t[1] = x
  BY <1>1, <1>2
<1> QED
  BY <1>2, <1>7, <1>8 DEF t

\* The text of a name, label by label.
LEMMA TextJoined ==
  ASSUME NEW v \in Seq(Label)
  PROVE  /\ v = << >> => TextOf(v) = << >>
         /\ v # << >> =>
              /\ TextOf(v) \in Seq(Octet) /\ TextOf(v) # << >>
              /\ Dotted(v) = <<DOT>> \o TextOf(v)
              /\ TextOf(v) = Joined(v[1], TextOf(Tail(v)))
<1>1. \A u : TextOf(u) = Drop(Dotted(u), 1)
  BY DEF TextOf, Dotted
<1>2. CASE v = << >>
  <2>1. Drop(<< >>, 1) = << >>
    BY EmptySeq, SubSeqEmpty DEF Drop
  <2> QED
    BY <1>1, <1>2, <2>1, DottedEmpty
<1>3. ASSUME NEW u \in Seq(Label), u # << >>
      PROVE  /\ TextOf(u) = u[1] \o Dotted(Tail(u))
             /\ Dotted(u) = <<DOT>> \o TextOf(u)
             /\ TextOf(u) \in Seq(Octet) /\ TextOf(u) # << >>
             /\ u[1] \in Seq(Octet) /\ Tail(u) \in Seq(Label) /\ Dotted(Tail(u)) \in Seq(Octet)
  <2> DEFINE l == u[1]
             d == Dotted(Tail(u))
  <2>1. l \in Label /\ Tail(u) \in Seq(Label) /\ Dotted(u) = (<<DOT>> \o l) \o d
    BY <1>3, DottedHead
  <2>2. d \in Seq(Octet)
    BY <2>1, DottedType
  <2> HIDE DEF l, d
  <2>3. l \in Seq(Octet) /\ Len(l) \in 1..63
    BY <2>1, LabelType
  <2>4. <<DOT>> \in Seq(Octet) /\ DOT \in Octet
    BY OctetSeq
  <2>5. Dotted(u) = <<DOT>> \o (l \o d)
    BY <2>1, <2>2, <2>3, <2>4, OctetAssociates
  <2>6. l \o d \in Seq(Octet) /\ Len(l \o d) = Len(l) + Len(d) /\ Len(d) \in Nat
    BY <2>2, <2>3, OctetSeq
  <2> DEFINE t == l \o d
  <2>7. t # << >>
    <3>1. \A i \in 1..63, j \in Nat : i + j # 0
      OBVIOUS
    <3>2. Len(t) # 0
      BY <2>3, <2>6, <3>1, Zenon
    <3> QED
      BY <3>2, EmptySeq, Zenon
  <2> HIDE DEF t
  <2>8. Drop(<<DOT>> \o t, 1) = t
    BY <2>4, <2>6, DropOne DEF t
  <2>9. TextOf(u) = t /\ Dotted(u) = <<DOT>> \o t
    BY <1>1, <2>5, <2>8 DEF t
  <2> QED
    BY <2>1, <2>2, <2>3, <2>6, <2>7, <2>9 DEF t, l, d
<1>4. CASE v # << >>
  <2>1. CASE Tail(v) = << >>
    <3>1. TextOf(Tail(v)) = << >>
      <4>1. Drop(<< >>, 1) = << >>
        BY EmptySeq, SubSeqEmpty DEF Drop
      <4> QED
        BY <1>1, <2>1, <4>1, DottedEmpty
    <3>2. TextOf(v) = v[1]
      <4>1. TextOf(v) = v[1] \o << >> /\ v[1] \in Seq(Octet)
        BY <1>4, <1>3, <2>1, DottedEmpty
      <4> QED
        BY <4>1, OctetSeq
    <3> QED
      BY <1>4, <1>3, <3>1, <3>2 DEF Joined
  <2>2. CASE Tail(v) # << >>
    <3>1. Tail(v) \in Seq(Label)
      BY <1>4, <1>3
    <3>2. /\ TextOf(Tail(v)) # << >> /\ Dotted(Tail(v)) = <<DOT>> \o TextOf(Tail(v))
          /\ TextOf(Tail(v)) \in Seq(Octet)
      BY <1>3, <2>2, <3>1
    <3>3. TextOf(v) = v[1] \o (<<DOT>> \o TextOf(Tail(v)))
      BY <1>4, <1>3, <3>2
    <3>4. (v[1] \o <<DOT>>) \o TextOf(Tail(v)) = v[1] \o (<<DOT>> \o TextOf(Tail(v)))
      <4>1. v[1] \in Seq(Octet) /\ <<DOT>> \in Seq(Octet)
        <5>1. DOT \in Octet
          BY DEF DOT, Octet
        <5> QED
          BY <1>4, <1>3, <5>1
      <4> QED
        BY <3>2, <4>1, OctetAssociates
    <3> QED
      BY <1>4, <1>3, <3>2, <3>3, <3>4 DEF Joined
  <2> QED
    BY <2>1, <2>2
<1> QED
  BY <1>2, <1>4

\* A sequence with one octet and more behind it.
IsFollowed(e, s, x, l) ==
  /\ e \in Seq(Octet) /\ Len(e) = Len(s) + 1 + Len(l)
  /\ \A i \in 1..Len(s) : e[i] = s[i]
  /\ e[Len(s) + 1] = x
  /\ \A j \in 1..Len(l) : e[Len(s) + 1 + j] = l[j]

LEMMA Followed ==
  ASSUME NEW s \in Seq(Octet), NEW x \in Octet, NEW l \in Seq(Octet)
  PROVE  IsFollowed(s \o (<<x>> \o l), s, x, l)
<1> DEFINE e == s \o (<<x>> \o l)
<1> DEFINE t == <<x>> \o l
<1>1. <<x>> \in Seq(Octet) /\ Len(<<x>>) = 1 /\ <<x>>[1] = x /\ Len(s) \in Nat /\ Len(l) \in Nat
  BY OctetSeq
<1>2. /\ t \in Seq(Octet) /\ Len(t) = 1 + Len(l)
      /\ \A i \in 1..1 + Len(l) : t[i] = IF i <= 1 THEN <<x>>[i] ELSE l[i - 1]
  <2>1. /\ t \in Seq(Octet) /\ Len(t) = Len(<<x>>) + Len(l)
        /\ \A i \in 1..Len(<<x>>) + Len(l) :
             t[i] = IF i <= Len(<<x>>) THEN <<x>>[i] ELSE l[i - Len(<<x>>)]
    BY <1>1, OctetSeq, OctetConcat, Zenon
  <2> QED
    BY <1>1, <2>1
<1> HIDE DEF t
<1>3. /\ e \in Seq(Octet) /\ Len(e) = Len(s) + Len(t)
      /\ \A i \in 1..Len(s) + Len(t) : e[i] = IF i <= Len(s) THEN s[i] ELSE t[i - Len(s)]
  <2>1. t \in Seq(Octet)
    BY <1>2
  <2>2. /\ s \o t \in Seq(Octet) /\ Len(s \o t) = Len(s) + Len(t)
        /\ \A i \in 1..Len(s) + Len(t) : (s \o t)[i] = IF i <= Len(s) THEN s[i] ELSE t[i - Len(s)]
    BY <2>1, OctetSeq, OctetConcat, Zenon
  <2> QED
    BY <2>2 DEF t
<1> HIDE DEF e
<1> DEFINE n == Len(s)
           k == Len(l)
<1>4. n \in Nat /\ k \in Nat /\ Len(t) = 1 + k /\ Len(e) = n + (1 + k)
  BY <1>1, <1>2, <1>3
<1>5. \A i \in 1..n + (1 + k) : e[i] = IF i <= n THEN s[i] ELSE t[i - n]
  BY <1>3, <1>4
<1>6. t[1] = x /\ \A j \in 1..k : t[1 + j] = l[j]
  <2> HIDE DEF k
  <2>1. \A i \in 1..1 + k : t[i] = IF i <= 1 THEN <<x>>[i] ELSE l[i - 1]
    BY <1>2 DEF k
  <2>2. t[1] = <<x>>[1]
    BY <1>4, <2>1
  <2>3. \A j \in 1..k : 1 + j \in 1..1 + k /\ ~(1 + j <= 1) /\ (1 + j) - 1 = j
    BY <1>4
  <2>4. \A j \in 1..k : t[1 + j] = l[j]
    BY <2>1, <2>3
  <2> QED
    BY <1>1, <2>2, <2>4
<1> HIDE DEF n, k
<1>7. \A i \in 1..n : e[i] = s[i]
  <2>1. \A i \in 1..n : i \in 1..n + (1 + k) /\ i <= n
    BY <1>4
  <2> QED
    BY <1>5, <2>1, Zenon
<1>8. e[n + 1] = x
  <2>1. n + 1 \in 1..n + (1 + k) /\ ~(n + 1 <= n) /\ (n + 1) - n = 1
    BY <1>4
  <2>2. e[n + 1] = t[(n + 1) - n]
    BY <1>5, <2>1, Zenon
  <2> QED
    BY <1>6, <2>1, <2>2
<1>9. ASSUME NEW j \in 1..k PROVE e[n + 1 + j] = l[j]
  <2>1. n + 1 + j \in 1..n + (1 + k) /\ ~(n + 1 + j <= n) /\ (n + 1 + j) - n = 1 + j
    BY <1>4
  <2>2. e[n + 1 + j] = t[(n + 1 + j) - n]
    BY <1>5, <2>1, Zenon
  <2> QED
    BY <1>6, <2>1, <2>2
<1>10. Len(e) = n + 1 + k
  BY <1>4
<1> QED
  BY <1>3, <1>7, <1>8, <1>9, <1>10 DEF n, k, e, IsFollowed

\* The first place after i that holds a dot, or the end.
NextDot(d, i, q) ==
  /\ q \in (i + 1)..(Len(d) + 1)
  /\ \A p \in (i + 1)..(q - 1) : d[p] # DOT
  /\ q <= Len(d) => d[q] = DOT

\* What is packed has lengths where what is dotted has dots.
Encodes(w, d) ==
  /\ Len(w) = Len(d)
  /\ Len(d) > 0 => d[1] = DOT
  /\ \A i \in 1..Len(d) :
       /\ w[i] # 0
       /\ d[i] = DOT => NextDot(d, i, i + 1 + w[i])
       /\ d[i] # DOT => w[i] = d[i]

LEMMA EncodesLonger ==
  ASSUME NEW d \in Seq(Octet), NEW w \in Seq(Octet), Len(w) = Len(d), Encodes(w, d), NEW l \in Label,
         NEW e, e = d \o (<<DOT>> \o l), NEW f, f = w \o (<<Len(l)>> \o l)
  PROVE  Encodes(f, e)
<1> DEFINE n == Len(d)
           k == Len(l)
<1>1. l \in Seq(Octet) /\ k \in 1..63 /\ k \in Octet /\ DOT \in Octet /\ n \in Nat
  BY LabelType, OctetSeq DEF Octet
<1>2. \A i \in 1..k : l[i] # DOT /\ l[i] # 0
  <2>1. \A i \in 1..k : l[i] \in 1..255 /\ l[i] # DOT
    BY LabelType
  <2>2. \A x \in 1..255 : x # 0
    OBVIOUS
  <2> QED
    BY <2>1, <2>2, Zenon
<1>3. /\ Len(e) = n + 1 + k /\ e[n + 1] = DOT
      /\ \A i \in 1..n : e[i] = d[i]
      /\ \A j \in 1..k : e[n + 1 + j] = l[j]
  <2>1. IsFollowed(e, d, DOT, l)
    BY <1>1, Followed
  <2> QED
    BY <2>1 DEF IsFollowed
<1>4. /\ Len(f) = n + 1 + k /\ f[n + 1] = k
      /\ \A i \in 1..n : f[i] = w[i]
      /\ \A j \in 1..k : f[n + 1 + j] = l[j]
  <2>1. IsFollowed(w \o (<<k>> \o l), w, k, l)
    BY <1>1, Followed
  <2>2. Len(w) = n
    OBVIOUS
  <2> QED
    BY <2>1, <2>2 DEF IsFollowed
<1>5. /\ \A i \in 1..n : w[i] # 0 /\ w[i] \in Nat
      /\ \A i \in 1..n : d[i] = DOT => NextDot(d, i, i + 1 + w[i])
      /\ \A i \in 1..n : d[i] # DOT => w[i] = d[i]
      /\ n > 0 => d[1] = DOT
  <2>1. \A i \in 1..n : w[i] \in Octet
    BY OctetSeq
  <2>2. \A x \in Octet : x \in Nat
    BY DEF Octet
  <2> QED
    BY <2>1, <2>2 DEF Encodes
<1>0. n = Len(d)
  OBVIOUS
<1> HIDE DEF n, k
<1>6. ASSUME NEW i \in 1..n PROVE /\ f[i] # 0 /\ (e[i] # DOT => f[i] = e[i])
                                  /\ e[i] = DOT => NextDot(e, i, i + 1 + f[i])
  <2>1. f[i] = w[i] /\ e[i] = d[i]
    BY <1>3, <1>4
  <2>2. ASSUME e[i] = DOT PROVE NextDot(e, i, i + 1 + f[i])
    <3> DEFINE q == i + 1 + w[i]
    <3>1. /\ q \in (i + 1)..(n + 1)
          /\ \A p \in (i + 1)..(q - 1) : d[p] # DOT
          /\ q <= n => d[q] = DOT
      BY <1>0, <1>5, <2>1, <2>2 DEF NextDot
    <3> HIDE DEF q
    <3>2. q \in (i + 1)..(Len(e) + 1)
      BY <1>1, <1>3, <3>1
    <3>3. \A p \in (i + 1)..(q - 1) : e[p] # DOT
      <4>1. \A p \in (i + 1)..(q - 1) : p \in 1..n
        BY <1>1, <3>1
      <4> QED
        BY <1>3, <3>1, <4>1
    <3>4. q <= Len(e) => e[q] = DOT
      <4>1. q <= n => q \in 1..n
        BY <1>1, <3>1
      <4>2. q <= n \/ q = n + 1
        BY <1>1, <3>1
      <4> QED
        BY <1>3, <3>1, <4>1, <4>2
    <3>5. NextDot(e, i, q)
      BY <3>2, <3>3, <3>4 DEF NextDot
    <3> QED
      BY <2>1, <3>5 DEF q
  <2> QED
    BY <1>5, <2>1, <2>2
<1>7. f[n + 1] # 0 /\ NextDot(e, n + 1, n + 1 + 1 + f[n + 1])
  <2> DEFINE q == n + 1 + 1 + k
  <2>1. q \in (n + 1 + 1)..(Len(e) + 1) /\ ~(q <= Len(e))
    BY <1>1, <1>3
  <2>2. \A p \in (n + 1 + 1)..(q - 1) : e[p] # DOT
    <3> SUFFICES ASSUME NEW p \in (n + 1 + 1)..(q - 1) PROVE e[p] # DOT
      OBVIOUS
    <3>1. p - (n + 1) \in 1..k /\ n + 1 + (p - (n + 1)) = p
      BY <1>1
    <3>2. e[n + 1 + (p - (n + 1))] = l[p - (n + 1)]
      BY <1>3, <3>1, Zenon
    <3> QED
      BY <1>2, <3>1, <3>2
  <2>3. NextDot(e, n + 1, q)
    BY <2>1, <2>2 DEF NextDot
  <2>4. f[n + 1] = k /\ k # 0
    BY <1>1, <1>4
  <2> QED
    BY <2>3, <2>4
<1>8. ASSUME NEW i \in (n + 2)..(n + 1 + k)
      PROVE  f[i] # 0 /\ e[i] # DOT /\ f[i] = e[i]
  <2>1. i - (n + 1) \in 1..k /\ n + 1 + (i - (n + 1)) = i
    BY <1>1
  <2>2. e[i] = l[i - (n + 1)] /\ f[i] = l[i - (n + 1)]
    BY <1>3, <1>4, <2>1
  <2> QED
    BY <1>2, <2>1, <2>2
<1>9. e[1] = DOT
  <2>1. CASE n = 0
    BY <1>3, <2>1
  <2>2. CASE n # 0
    <3>1. n > 0 /\ 1 \in 1..n
      BY <1>1, <2>2
    <3> QED
      BY <1>3, <1>5, <3>1
  <2> QED
    BY <2>1, <2>2
<1>10. ASSUME NEW i \in 1..Len(e)
       PROVE  /\ f[i] # 0
              /\ e[i] = DOT => NextDot(e, i, i + 1 + f[i])
              /\ e[i] # DOT => f[i] = e[i]
  <2>1. i \in 1..n \/ i = n + 1 \/ i \in (n + 2)..(n + 1 + k)
    BY <1>1, <1>3
  <2>2. CASE i = n + 1
    BY <1>3, <1>7, <2>2
  <2> QED
    BY <1>6, <1>8, <2>1, <2>2
<1>11. Len(f) = Len(e)
  BY <1>3, <1>4
<1> QED
  BY <1>9, <1>10, <1>11 DEF Encodes

\* A sequence is its front and its last.
LEMMA FrontAndLast ==
  ASSUME NEW S, NEW v \in Seq(S), NEW n \in Nat, Len(v) = n + 1
  PROVE  /\ SubSeq(v, 1, n) \in Seq(S) /\ Len(SubSeq(v, 1, n)) = n /\ v[n + 1] \in S
         /\ v = Append(SubSeq(v, 1, n), v[n + 1])
<1> DEFINE s == SubSeq(v, 1, n)
<1>1. /\ s \in Seq(S) /\ Len(s) = n /\ \A i \in 1..n : s[i] = v[i]
  BY FirstProperties
<1>2. v[n + 1] \in S
  BY ElementOfSeq
<1> HIDE DEF s
<1> DEFINE w == Append(s, v[n + 1])
<1>3. /\ w \in Seq(S) /\ Len(w) = n + 1 /\ \A i \in 1..n : w[i] = s[i]
      /\ w[n + 1] = v[n + 1]
  BY <1>1, <1>2, AppendProperties
<1> HIDE DEF w
<1>4. \A i \in 1..(n + 1) : v[i] = w[i]
  BY <1>1, <1>3
<1>5. v = w
  BY <1>3, <1>4, SeqEqual
<1> QED
  BY <1>1, <1>2, <1>5 DEF w, s

LEMMA WireEncodes ==
  ASSUME NEW v \in Seq(Label)
  PROVE  Encodes(Wire(v), Dotted(v))
<1> DEFINE G == {n \in Nat : \A u \in Seq(Label) : Len(u) = n => Encodes(Wire(u), Dotted(u))}
<1>1. 0 \in G
  <2>1. Encodes(<< >>, << >>)
    <3>1. Len(<< >>) = 0
      BY EmptySeq
    <3> QED
      BY <3>1 DEF Encodes
  <2> SUFFICES ASSUME NEW u \in Seq(Label), Len(u) = 0 PROVE Encodes(Wire(u), Dotted(u))
    OBVIOUS
  <2>2. u = << >>
    BY EmptySeq
  <2> QED
    BY <2>1, <2>2, DottedEmpty
<1>2. ASSUME NEW n \in Nat, n \in G PROVE n + 1 \in G
  <2> SUFFICES ASSUME NEW u \in Seq(Label), Len(u) = n + 1 PROVE Encodes(Wire(u), Dotted(u))
    OBVIOUS
  <2> DEFINE s == SubSeq(u, 1, n)
             l == u[n + 1]
  <2>1. s \in Seq(Label) /\ Len(s) = n /\ l \in Label /\ u = Append(s, l)
    BY FrontAndLast
  <2> HIDE DEF s, l
  <2>2. Encodes(Wire(s), Dotted(s))
    BY <1>2, <2>1
  <2>3. /\ Dotted(u) = Dotted(s) \o (<<DOT>> \o l)
        /\ Wire(u) = Wire(s) \o (<<Len(l)>> \o l)
    BY <2>1, DottedAppend
  <2>4. Dotted(s) \in Seq(Octet) /\ Wire(s) \in Seq(Octet) /\ Len(Wire(s)) = Len(Dotted(s))
    BY <2>1, <2>2, DottedType DEF Encodes
  <2> QED
    BY <2>1, <2>2, <2>3, <2>4, EncodesLonger
<1>3. Nat \subseteq G
  BY <1>1, <1>2, Induction
<1>4. Len(v) \in Nat
  BY LenProperties
<1> QED
  BY <1>3, <1>4

LEMMA MinIs ==
  ASSUME NEW S \in SUBSET Int, NEW x \in S, \A y \in S : x <= y
  PROVE  Min(S) = x
<1>1. \A z \in S : (\A y \in S : z <= y) => z = x
  OBVIOUS
<1> QED
  BY <1>1 DEF Min

LEMMA DotBefore ==
  ASSUME NEW d \in Seq(Octet)
  PROVE  /\ <<DOT>> \o d \in Seq(Octet) /\ Len(<<DOT>> \o d) = Len(d) + 1 /\ Len(d) \in Nat
         /\ (<<DOT>> \o d)[1] = DOT
         /\ \A i \in 1..Len(d) : (<<DOT>> \o d)[i + 1] = d[i]
<1> DEFINE e == <<DOT>> \o d
<1>1. /\ <<DOT>> \in Seq(Octet) /\ Len(<<DOT>>) = 1 /\ <<DOT>>[1] = DOT /\ Len(d) \in Nat
  BY OctetSeq
<1>2. /\ e \in Seq(Octet) /\ Len(e) = Len(<<DOT>>) + Len(d)
      /\ \A i \in 1..Len(<<DOT>>) + Len(d) :
           e[i] = IF i <= Len(<<DOT>>) THEN <<DOT>>[i] ELSE d[i - Len(<<DOT>>)]
  BY <1>1, OctetSeq, OctetConcat, Zenon
<1> HIDE DEF e
<1>3. \A i \in 1..1 + Len(d) : e[i] = IF i <= 1 THEN <<DOT>>[i] ELSE d[i - 1]
  BY <1>1, <1>2
<1>4. e[1] = DOT
  BY <1>1, <1>3
<1>5. ASSUME NEW i \in 1..Len(d) PROVE e[i + 1] = d[i]
  <2>1. i + 1 \in 1..1 + Len(d) /\ ~(i + 1 <= 1) /\ (i + 1) - 1 = i
    BY <1>1
  <2>2. e[i + 1] = d[(i + 1) - 1]
    BY <1>3, <2>1, Zenon
  <2> QED
    BY <2>1, <2>2
<1>6. Len(e) = Len(d) + 1
  BY <1>1, <1>2
<1> QED
  BY <1>1, <1>2, <1>4, <1>5, <1>6 DEF e

\* domain_to_dns_name_format, place by place.
LEMMA LabelLengthIs ==
  ASSUME NEW d \in Seq(Octet), NEW i \in 1..(Len(d) + 1), NEW q \in Int,
         NextDot(<<DOT>> \o d, i, q)
  PROVE  LabelLength(d, i) = q - 1 - i
<1> DEFINE e == <<DOT>> \o d
           n == Len(d)
           S == {p \in i..n : d[p] = DOT} \cup {n + 1}
<1>1. n \in Nat /\ Len(e) = n + 1 /\ \A p \in 1..n : e[p + 1] = d[p]
  BY DotBefore
<1> HIDE DEF e
<1>2. /\ q \in (i + 1)..(n + 2)
      /\ \A p \in (i + 1)..(q - 1) : e[p] # DOT
      /\ q <= n + 1 => e[q] = DOT
  <2>1. Len(e) + 1 = n + 2
    BY <1>1
  <2> QED
    BY <1>1, <2>1 DEF NextDot, e
<1>3. q - 1 \in S
  <2>1. CASE q <= n + 1
    <3>1. q - 1 \in 1..n /\ q - 1 \in i..n /\ (q - 1) + 1 = q
      BY <1>1, <1>2, <2>1
    <3>2. d[q - 1] = e[q]
      BY <1>1, <3>1
    <3> QED
      BY <1>2, <2>1, <3>1, <3>2
  <2>2. CASE ~(q <= n + 1)
    <3>1. q - 1 = n + 1
      BY <1>1, <1>2, <2>2
    <3> QED
      BY <3>1
  <2> QED
    BY <2>1, <2>2
<1>4. ASSUME NEW y \in S PROVE q - 1 <= y
  <2>1. CASE y = n + 1
    BY <1>1, <1>2, <2>1
  <2>2. CASE y \in i..n /\ d[y] = DOT
    <3>1. y \in 1..n
      BY <1>1, <2>2
    <3>2. e[y + 1] = DOT
      BY <1>1, <2>2, <3>1
    <3>3. SUFFICES ASSUME ~(q - 1 <= y) PROVE FALSE
      OBVIOUS
    <3>4. y + 1 \in (i + 1)..(q - 1)
      BY <1>1, <1>2, <2>2, <3>3
    <3> QED
      BY <1>2, <3>2, <3>4
  <2> QED
    BY <2>1, <2>2
<1>5. S \in SUBSET Int
  BY <1>1
<1>6. LabelLength(d, i) = Min(S) - i
  BY DEF LabelLength
<1> HIDE DEF S
<1>7. Min(S) = q - 1
  BY <1>3, <1>4, <1>5, MinIs
<1> QED
  BY <1>6, <1>7

LEMMA FormatIs ==
  ASSUME NEW d \in Seq(Octet)
  PROVE  /\ DnsNameFormat(d)[Len(d) + 2] = 0
         /\ \A i \in 1..(Len(d) + 1) :
              DnsNameFormat(d)[i] = IF (<<DOT>> \o d)[i] = DOT THEN LabelLength(d, i)
                                    ELSE (<<DOT>> \o d)[i]
<1> DEFINE e == <<DOT>> \o d
           n == Len(d)
           x(i) == IF i = n + 2 THEN 0
                   ELSE IF i = 1 \/ d[i - 1] = DOT THEN LabelLength(d, i) ELSE d[i - 1]
<1>1. n \in Nat /\ e[1] = DOT /\ \A p \in 1..n : e[p + 1] = d[p]
  BY DotBefore
<1>2. DnsNameFormat(d) = [i \in 1..(n + 2) |-> x(i)]
  BY DEF DnsNameFormat
<1>3. \A i \in 1..(n + 2) : DnsNameFormat(d)[i] = x(i)
  BY <1>2
<1>4. n + 2 \in 1..(n + 2) /\ \A i \in 1..(n + 1) : i \in 1..(n + 2) /\ i # n + 2
  BY <1>1
<1> HIDE DEF e
<1>5. \A i \in 1..(n + 1) : i # 1 => e[i] = d[i - 1]
  <2> SUFFICES ASSUME NEW i \in 1..(n + 1), i # 1 PROVE e[i] = d[i - 1]
    OBVIOUS
  <2>1. i - 1 \in 1..n /\ (i - 1) + 1 = i
    BY <1>1
  <2> QED
    BY <1>1, <2>1
<1>6. ASSUME NEW i \in 1..(n + 1)
      PROVE  DnsNameFormat(d)[i] = IF e[i] = DOT THEN LabelLength(d, i) ELSE e[i]
  <2>1. CASE i = 1
    BY <1>1, <1>3, <1>4, <2>1
  <2>2. CASE i # 1
    BY <1>3, <1>4, <1>5, <2>2
  <2> QED
    BY <2>1, <2>2
<1>7. DnsNameFormat(d)[n + 2] = 0
  BY <1>3, <1>4
<1> QED
  BY <1>6, <1>7 DEF e

LEMMA CStringIs ==
  ASSUME NEW f, NEW n \in Nat, NEW w \in Seq(Octet), Len(w) = n,
         Len(f) \in Nat, n + 1 <= Len(f),
         \A i \in 1..n : f[i] = w[i] /\ w[i] # 0, f[n + 1] = 0
  PROVE  CString(f) = w \o <<0>>
<1> DEFINE S == {i \in 1..Len(f) : f[i] = 0}
           c == SubSeq(f, 1, n + 1)
<1>1. Min(S) = n + 1
  <2>1. S \in SUBSET Int /\ n + 1 \in S
    OBVIOUS
  <2>2. ASSUME NEW y \in S PROVE n + 1 <= y
    <3>1. SUFFICES ASSUME ~(n + 1 <= y) PROVE FALSE
      OBVIOUS
    <3>2. y \in 1..n /\ f[y] = 0
      BY <3>1
    <3> QED
      BY <3>2
  <2> HIDE DEF S
  <2> QED
    BY <2>1, <2>2, MinIs
<1>2. CString(f) = c
  BY <1>1 DEF CString
<1>3. 0 \in Octet /\ \A i \in 1..n : w[i] \in Octet
  <2>1. 0 \in Octet
    BY DEF Octet
  <2>2. \A i \in 1..n : w[i] \in Octet
    BY ElementOfSeq
  <2> QED
    BY <2>1, <2>2
<1>4. \A i \in 1..(n + 1) : f[i] \in Octet
  <2> SUFFICES ASSUME NEW i \in 1..(n + 1) PROVE f[i] \in Octet
    OBVIOUS
  <2>1. CASE i = n + 1
    BY <1>3, <2>1
  <2>2. CASE i # n + 1
    <3>1. i \in 1..n
      BY <2>2
    <3> QED
      BY <1>3, <3>1
  <2> QED
    BY <2>1, <2>2
<1>5. c \in Seq(Octet) /\ Len(c) = n + 1 /\ \A i \in 1..(n + 1) : c[i] = f[i]
  <2>1. 1 \in Int /\ n + 1 \in Int
    OBVIOUS
  <2>2. /\ c \in Seq(Octet)
        /\ Len(c) = IF 1 <= n + 1 THEN n + 1 - 1 + 1 ELSE 0
        /\ \A i \in 1..n + 1 - 1 + 1 : c[i] = f[1 + i - 1]
    BY <1>4, <2>1, SubSeqProperties
  <2> HIDE DEF c
  <2> QED
    BY <2>2
<1> DEFINE e == w \o (<<0>> \o << >>)
<1>6. <<0>> \in Seq(Octet) /\ <<0>> \o << >> = <<0>> /\ << >> \in Seq(Octet) /\ Len(<< >>) = 0
  BY <1>3, OctetSeq
<1>7. IsFollowed(e, w, 0, << >>)
  BY <1>3, <1>6, Followed
<1>8. e = w \o <<0>>
  BY <1>6
<1> HIDE DEF e, c
<1>9. e \in Seq(Octet) /\ Len(e) = n + 1 /\ e[n + 1] = 0 /\ \A i \in 1..n : e[i] = w[i]
  BY <1>6, <1>7 DEF IsFollowed
<1>10. \A i \in 1..(n + 1) : c[i] = e[i]
  <2> SUFFICES ASSUME NEW i \in 1..(n + 1) PROVE c[i] = e[i]
    OBVIOUS
  <2>1. i = n + 1 \/ i \in 1..n
    OBVIOUS
  <2> QED
    BY <1>5, <1>9, <2>1
<1>11. c = e
  BY <1>5, <1>9, <1>10, SeqEqual
<1> QED
  BY <1>2, <1>8, <1>11

\* What c_dns_pack makes of a domain is the name's labels and an end.
LEMMA NamePacked ==
  ASSUME NEW v \in Seq(Label), v # << >>, NEW d \in TextsOf(v)
  PROVE  CString(DnsNameFormat(d)) = Wire(v) \o <<0>>
<1> DEFINE t == TextOf(v)
           w == Wire(v)
           e == <<DOT>> \o t
           n == Len(w)
<1>1. t \in Seq(Octet) /\ Dotted(v) = e /\ w \in Seq(Octet) /\ Encodes(w, e)
  BY TextJoined, DottedType, WireEncodes
<1> HIDE DEF t, w
<1>2. Len(t) \in Nat /\ Len(e) = Len(t) + 1 /\ n = Len(t) + 1 /\ e \in Seq(Octet)
  BY <1>1, DotBefore DEF Encodes
<1>3. \A i \in 1..n : w[i] \in Nat /\ w[i] # 0
  <2>1. \A i \in 1..n : w[i] \in Octet
    BY <1>1, OctetSeq
  <2>2. \A x \in Octet : x \in Nat
    BY DEF Octet
  <2>3. n = Len(e)
    BY <1>2
  <2>4. \A i \in 1..n : w[i] # 0
    BY <1>1, <2>3 DEF Encodes
  <2> QED
    BY <2>1, <2>2, <2>4
<1>4. \A i \in 1..n : (e[i] = DOT => NextDot(e, i, i + 1 + w[i])) /\ (e[i] # DOT => w[i] = e[i])
  <2>1. n = Len(e)
    BY <1>2
  <2> QED
    BY <1>1, <2>1 DEF Encodes
<1>5. CASE d = t
  <2>1. ASSUME NEW i \in 1..n PROVE DnsNameFormat(t)[i] = w[i]
    <3>1. i \in 1..(Len(t) + 1) /\ i + 1 + w[i] \in Int
      BY <1>2, <1>3
    <3>2. DnsNameFormat(t)[i] = IF e[i] = DOT THEN LabelLength(t, i) ELSE e[i]
      BY <1>1, <3>1, FormatIs
    <3>3. e[i] = DOT => LabelLength(t, i) = (i + 1 + w[i]) - 1 - i
      BY <1>1, <1>4, <3>1, LabelLengthIs
    <3>4. (i + 1 + w[i]) - 1 - i = w[i]
      <4>1. \A j \in Int, x \in Nat : (j + 1 + x) - 1 - j = x
        OBVIOUS
      <4>2. i \in Int /\ w[i] \in Nat
        BY <1>2, <1>3
      <4> QED
        BY <4>1, <4>2, Zenon
    <3> QED
      BY <1>4, <3>2, <3>3, <3>4
  <2>2. DnsNameFormat(t)[n + 1] = 0
    <3>1. n + 1 = Len(t) + 2
      BY <1>2
    <3> QED
      BY <1>1, <3>1, FormatIs
  <2>3. Len(DnsNameFormat(t)) = n + 1
    <3>1. Len(DnsNameFormat(t)) = Len(t) + 2
      BY <1>2 DEF DnsNameFormat
    <3> QED
      BY <1>2, <3>1
  <2> DEFINE c == DnsNameFormat(t)
             k == Len(w)
  <2>8. /\ k \in Nat /\ Len(w) = k /\ Len(c) \in Nat /\ k + 1 <= Len(c)
        /\ \A i \in 1..k : c[i] = w[i] /\ w[i] # 0
        /\ c[k + 1] = 0
    BY <1>1, <1>2, <1>3, <1>5, <2>1, <2>2, <2>3
  <2> HIDE DEF c, k
  <2>9. CString(c) = w \o <<0>>
    BY <1>1, <2>8, CStringIs
  <2> QED
    BY <1>5, <2>9 DEF c, w
<1>6. CASE d = t \o <<DOT>>
  <2> DEFINE f == <<DOT>> \o d
  <2>1. /\ d \in Seq(Octet) /\ Len(d) = Len(t) + 1 /\ f = e \o <<DOT>>
        /\ f \in Seq(Octet) /\ Len(f) = n + 1
    <3>1. <<DOT>> \in Seq(Octet) /\ Len(<<DOT>>) = 1
      BY OctetSeq
    <3>2. d \in Seq(Octet) /\ Len(d) = Len(t) + 1
      BY <1>1, <1>6, <3>1, OctetSeq
    <3>3. f = e \o <<DOT>>
      BY <1>1, <1>6, <3>1, OctetAssociates
    <3> QED
      BY <1>2, <3>2, <3>3, DotBefore
  <2>2. f[n + 1] = DOT /\ \A i \in 1..n : f[i] = e[i]
    <3>1. <<DOT>> \in Seq(Octet) /\ <<DOT>> \o << >> = <<DOT>> /\ << >> \in Seq(Octet) /\ DOT \in Octet
      BY OctetSeq
    <3>2. IsFollowed(e \o (<<DOT>> \o << >>), e, DOT, << >>)
      BY <1>2, <3>1, Followed
    <3>3. IsFollowed(f, e, DOT, << >>)
      BY <2>1, <3>1, <3>2
    <3>4. Len(e) = n
      BY <1>2
    <3> QED
      BY <3>3, <3>4 DEF IsFollowed
  <2>3. \A q \in Int : q = n + 2 => NextDot(f, n + 1, q)
    BY <1>2, <2>1 DEF NextDot
  <2>4. ASSUME NEW i \in 1..n, e[i] = DOT PROVE NextDot(f, i, i + 1 + w[i])
    <3> DEFINE q == i + 1 + w[i]
    <3>1. NextDot(e, i, q) /\ Len(e) = n
      BY <1>2, <1>4, <2>4
    <3> HIDE DEF q, f, e
    <3>2. /\ q \in (i + 1)..(n + 1)
          /\ \A p \in (i + 1)..(q - 1) : e[p] # DOT
          /\ q <= n => e[q] = DOT
      BY <3>1 DEF NextDot
    <3>3. n \in Nat
      BY <1>2
    <3>4. q \in (i + 1)..(Len(f) + 1)
      BY <2>1, <3>2, <3>3
    <3>5. \A p \in (i + 1)..(q - 1) : p \in 1..n
      BY <3>2, <3>3
    <3>6. \A p \in (i + 1)..(q - 1) : f[p] # DOT
      BY <2>2, <3>2, <3>5
    <3>7. f[q] = DOT
      <4>1. CASE q = n + 1
        BY <2>2, <4>1
      <4>2. CASE q # n + 1
        <5>1. q \in 1..n
          BY <3>2, <3>3, <4>2
        <5> QED
          BY <2>2, <3>2, <5>1
      <4> QED
        BY <4>1, <4>2
    <3>8. NextDot(f, i, q)
      BY <3>4, <3>6, <3>7 DEF NextDot
    <3> QED
      BY <3>8 DEF q
  <2>5. ASSUME NEW i \in 1..n PROVE DnsNameFormat(d)[i] = w[i]
    <3>1. i \in 1..(Len(d) + 1) /\ i + 1 + w[i] \in Int
      BY <1>2, <1>3, <2>1
    <3>2. DnsNameFormat(d)[i] = IF f[i] = DOT THEN LabelLength(d, i) ELSE f[i]
      BY <2>1, <3>1, FormatIs
    <3>3. e[i] = DOT => LabelLength(d, i) = (i + 1 + w[i]) - 1 - i
      BY <2>1, <2>4, <3>1, LabelLengthIs
    <3>4. (i + 1 + w[i]) - 1 - i = w[i]
      <4>1. \A j \in Int, x \in Nat : (j + 1 + x) - 1 - j = x
        OBVIOUS
      <4>2. i \in Int /\ w[i] \in Nat
        BY <1>2, <1>3
      <4> QED
        BY <4>1, <4>2, Zenon
    <3> QED
      BY <1>4, <2>2, <3>2, <3>3, <3>4
  <2>6. DnsNameFormat(d)[n + 1] = 0
    <3>1. n + 1 = Len(d) + 1 /\ n + 1 \in 1..(Len(d) + 1)
      BY <1>2, <2>1
    <3>2. DnsNameFormat(d)[n + 1] = LabelLength(d, n + 1)
      BY <2>1, <2>2, <3>1, FormatIs
    <3>3. n + 2 \in Int /\ NextDot(f, n + 1, n + 2)
      BY <1>2, <2>3
    <3>4. LabelLength(d, n + 1) = (n + 2) - 1 - (n + 1)
      BY <2>1, <3>1, <3>3, LabelLengthIs
    <3> QED
      BY <1>2, <3>2, <3>4
  <2>7. Len(DnsNameFormat(d)) = n + 2
    <3>1. Len(DnsNameFormat(d)) = Len(d) + 2
      <4>1. Len(d) \in Nat
        BY <1>2, <2>1
      <4> QED
        BY <4>1 DEF DnsNameFormat
    <3> QED
      BY <1>2, <2>1, <3>1
  <2> DEFINE c == DnsNameFormat(d)
             k == Len(w)
  <2>8. /\ k \in Nat /\ Len(w) = k /\ Len(c) \in Nat /\ k + 1 <= Len(c)
        /\ \A i \in 1..k : c[i] = w[i] /\ w[i] # 0
        /\ c[k + 1] = 0
    BY <1>1, <1>2, <1>3, <2>5, <2>6, <2>7
  <2> HIDE DEF c, k
  <2>9. CString(c) = w \o <<0>>
    BY <1>1, <2>8, CStringIs
  <2> QED
    BY <2>9 DEF c, w
<1> QED
  BY <1>5, <1>6 DEF TextsOf, t

-----------------------------------------------------------------------------
(* Names in a message, and what reading them gives.                        *)

KnownName == [name : HostName, at : Nat, after : Nat]

\* v is written from o to after: it ends there, is a known name, or is a pointer
\* to one.
NameIn(m, K, o, v, after) ==
  /\ o \in HEADER_LENGTH..(after - 1) /\ after \in Nat /\ after <= End(m)
  /\ \/ v = << >> /\ Byte(m, o) = 0 /\ after = o + 1
     \/ \E k \in K : k.name = v /\ k.at = o /\ k.after = after
     \/ \E k \in K : k.name = v /\ Byte(m, o) = 192 /\ Byte(m, o + 1) = k.at /\ after = o + 2

\* Known names are where they are said to be.
FitsAt(m, K, k) ==
  /\ k.at \in HEADER_LENGTH..255 /\ k.after <= End(m)
  /\ Byte(m, k.at) = Len(k.name[1])
  /\ Bytes(m, k.at + 1, Len(k.name[1])) = k.name[1]
  /\ NameIn(m, K, k.at + 1 + Len(k.name[1]), Tail(k.name), k.after)
Fits(m, K) == K \subseteq KnownName /\ \A k \in K : FitsAt(m, K, k)

Reads(m, K, steps, o, v, after) ==
  /\ \E x \in Nat :
       /\ NamesOf(m)[steps][o] = [text |-> TextOf(v), offset |-> x, size |-> after - o]
       /\ v # << >> => \E k \in K : k.name = v /\ k.at = x
  /\ LabelsOf(m)[steps][o] = v

LEMMA EmptyText == TextOf(<< >>) = << >> /\ << >> \in Seq(Label)
<1>1. << >> \in Seq(Label)
  BY EmptySeq
<1>2. \A v \in Seq(Label) : v = << >> => TextOf(v) = << >>
  BY TextJoined
<1> QED
  BY <1>1, <1>2

LEMMA HostNameType ==
  ASSUME NEW v \in HostName
  PROVE  /\ v \in Seq(Label) /\ Len(v) \in 1..127 /\ v # << >>
         /\ v[1] \in Label /\ Len(v[1]) \in 1..63
         /\ Tail(v) \in Seq(Label) /\ Len(Tail(v)) = Len(v) - 1
<1>1. v \in Seq(Label) /\ Len(v) \in 1..127
  BY DEF HostName
<1>2. v # << >>
  <2>1. Len(<< >>) = 0 /\ Len(v) # 0
    <3>1. \A i \in 1..127 : i # 0
      OBVIOUS
    <3> QED
      BY <1>1, <3>1, EmptySeq, Zenon
  <2> QED
    BY <2>1, Zenon
<1>3. v[1] \in Label /\ Tail(v) \in Seq(Label) /\ Len(Tail(v)) = Len(v) - 1
  BY <1>1, <1>2, DottedHead
<1> QED
  BY <1>1, <1>2, <1>3, LabelType

\* A step that reads a label.
LEMMA ReadsLabel ==
  ASSUME NEW m, m.data \in Seq(Octet), NEW K, NEW k \in K, k \in KnownName,
         FitsAt(m, K, k), NEW steps \in Nat,
         Reads(m, K, steps, k.at + 1 + Len(k.name[1]), Tail(k.name), k.after)
  PROVE  Reads(m, K, steps + 1, k.at, k.name, k.after)
<1> DEFINE v == k.name
           o == k.at
           l == v[1]
           p == o + 1 + Len(l)
<1>1. v \in HostName /\ o \in Nat /\ k.after \in Nat
  BY DEF KnownName
<1>2. v \in Seq(Label) /\ v # << >> /\ Len(l) \in 1..63
  BY <1>1, HostNameType
<1> HIDE DEF v, o, l
<1>3. Byte(m, o) = Len(l) /\ Bytes(m, o + 1, Byte(m, o)) = l /\ p \in Nat
  BY <1>1, <1>2 DEF FitsAt, v, o, l
<1>4. Byte(m, o) # 0 /\ ~IsPointer(m, o) /\ ~(Byte(m, o) >= 192)
  <2>1. \A b \in 1..63 : b # 0 /\ b \div 64 # 3 /\ ~(b >= 192)
    OBVIOUS
  <2> QED
    BY <1>2, <1>3, <2>1 DEF IsPointer
<1>5. PICK x \in Nat :
        NamesOf(m)[steps][p] = [text |-> TextOf(Tail(v)), offset |-> x, size |-> k.after - p]
  BY DEF Reads, v, l, o
<1>6. LabelsOf(m)[steps][p] = Tail(v)
  BY DEF Reads, v, l, o
<1>7. k.after - p # -1 /\ k.after - p \in Int
  <2>1. p \in HEADER_LENGTH..(k.after - 1)
    BY DEF FitsAt, NameIn, v, l, o
  <2> QED
    BY <1>1, <1>3, <2>1
<1>8. TextOf(v) = Joined(l, TextOf(Tail(v)))
  BY <1>2, TextJoined DEF l
<1> HIDE DEF p
<1>9. NamesOf(m)[steps + 1][o] = [text |-> TextOf(v), offset |-> o, size |-> k.after - o]
  <2>1. NamesOf(m)[steps + 1][o] = Labelled(m, o, NamesOf(m)[steps][o + 1 + Byte(m, o)])
    BY <1>1, <1>4, NamesUnfold DEF Step
  <2>2. o + 1 + Byte(m, o) = p
    BY <1>3 DEF p
  <2>3. NamesOf(m)[steps + 1][o] =
          [text |-> Joined(l, TextOf(Tail(v))), offset |-> o,
           size |-> IF k.after - p = -1 THEN -1 ELSE 1 + Byte(m, o) + (k.after - p)]
    <3> DEFINE t == TextOf(Tail(v))
               z == k.after - p
               b == Byte(m, o)
    <3>1. NamesOf(m)[steps + 1][o] = Labelled(m, o, [text |-> t, offset |-> x, size |-> z])
      BY <1>5, <2>1, <2>2
    <3>2. Bytes(m, o + 1, b) = l
      BY <1>3
    <3> HIDE DEF t, z, b
    <3>3. Labelled(m, o, [text |-> t, offset |-> x, size |-> z]) =
            [[text |-> t, offset |-> x, size |-> z] EXCEPT
               !.text = Joined(l, @), !.offset = o, !.size = IF @ = -1 THEN -1 ELSE 1 + b + @]
      BY <3>2 DEF Labelled, b
    <3>4. Labelled(m, o, [text |-> t, offset |-> x, size |-> z]) =
            [text |-> Joined(l, t), offset |-> o, size |-> IF z = -1 THEN -1 ELSE 1 + b + z]
      BY <3>3
    <3> QED
      BY <3>1, <3>4 DEF t, z, b
  <2>4. 1 + Byte(m, o) + (k.after - p) = k.after - o
    <3>1. \A i, j \in Nat, b \in 1..63 : 1 + b + (i - (j + 1 + b)) = i - j
      OBVIOUS
    <3>2. 1 + Len(l) + (k.after - (o + 1 + Len(l))) = k.after - o
      BY <1>1, <1>2, <3>1, Zenon
    <3> QED
      BY <1>3, <3>2, Zenon DEF p
  <2> QED
    BY <1>7, <1>8, <2>3, <2>4
<1>10. LabelsOf(m)[steps + 1][o] = v
  <2>1. LabelsOf(m)[steps + 1][o] = <<l>> \o Tail(v)
    <3>1. LabelsOf(m)[steps + 1][o] = LabelStep(m, LabelsOf(m)[steps], o)
      BY <1>1, LabelsUnfold
    <3>2. o + 1 + Byte(m, o) = p
      BY <1>3 DEF p
    <3> QED
      BY <1>3, <1>4, <1>6, <3>1, <3>2 DEF LabelStep
  <2>2. v = <<l>> \o Tail(v)
    <3>1. Len(v) \in 1..127 /\ Tail(v) \in Seq(Label) /\ l \in Label
      BY <1>1, HostNameType DEF l
    <3>2. SubSeq(v, 1, Len(v)) = <<v[1]>> \o SubSeq(v, 1 + 1, Len(v))
      BY <1>2, <3>1, SubSeqRecursiveFirst
    <3>3. SubSeq(v, 1, Len(v)) = v /\ Tail(v) = SubSeq(v, 2, Len(v))
      BY <1>2, SubSeqFull, TailIsSubSeq
    <3> QED
      BY <3>2, <3>3 DEF l
  <2> QED
    BY <2>1, <2>2
<1> QED
  BY <1>1, <1>9, <1>10 DEF Reads, v, o

\* A step that follows a pointer.
LEMMA ReadsPointer ==
  ASSUME NEW m, m.data \in Seq(Octet), NEW K, NEW k \in K, k \in KnownName,
         FitsAt(m, K, k), NEW steps \in Nat, NEW o \in Nat,
         Byte(m, o) = 192, Byte(m, o + 1) = k.at,
         Reads(m, K, steps, k.at, k.name, k.after)
  PROVE  Reads(m, K, steps + 1, o, k.name, o + 2)
<1>1. k.at \in 0..255 /\ k.at <= End(m) /\ k.name # << >> /\ k.after \in Nat /\ End(m) \in Nat
  <2>1. k.at \in HEADER_LENGTH..255 /\ k.after <= End(m) /\ k.after \in Nat
    BY DEF FitsAt, KnownName
  <2>2. k.at + 1 + Len(k.name[1]) \in HEADER_LENGTH..(k.after - 1)
    BY DEF FitsAt, NameIn
  <2>3. Len(k.name[1]) \in 1..63 /\ k.name # << >> /\ End(m) \in Nat
    BY HostNameType, ByteType DEF KnownName
  <2>5. k.at \in Int /\ Len(k.name[1]) \in Int /\ k.after \in Int /\ End(m) \in Int
    BY <2>1, <2>3
  <2>6. k.at \in 12..255 /\ k.at + 1 + Len(k.name[1]) \in 12..(k.after - 1)
    BY <2>1, <2>2, Zenon DEF HEADER_LENGTH
  <2>7. k.at \in 0..255 /\ k.at <= End(m)
    <3> DEFINE a == k.at
               b == Len(k.name[1])
               c == k.after
               e == End(m)
    <3>1. /\ a \in Int /\ e \in Int /\ b \in Int /\ c \in Int
          /\ a \in 12..255 /\ a + 1 + b \in 12..(c - 1) /\ b \in 1..63 /\ c <= e
      BY <2>1, <2>3, <2>5, <2>6
    <3> HIDE DEF a, b, c, e
    <3>2. a \in 0..255 /\ a <= e
      BY <3>1
    <3> QED
      BY <3>2 DEF a, e
  <2> QED
    BY <2>1, <2>3, <2>7
<1>2. Byte(m, o) # 0 /\ IsPointer(m, o) /\ PointerAt(m, o) = k.at
  <2>1. 192 # 0 /\ 192 \div 64 = 3 /\ \A b \in 0..255 : (192 % 4) * 16 + b = b
    OBVIOUS
  <2>2. PointerAt(m, o) = (192 % 4) * 16 + k.at
    BY Zenon DEF PointerAt
  <2> QED
    BY <1>1, <2>1, <2>2, Zenon DEF IsPointer
<1>3. PICK x \in Nat :
        /\ NamesOf(m)[steps][k.at] = [text |-> TextOf(k.name), offset |-> x, size |-> k.after - k.at]
        /\ k.name # << >> => \E j \in K : j.name = k.name /\ j.at = x
  BY DEF Reads
<1>4. NamesOf(m)[steps + 1][o] = [NamesOf(m)[steps][k.at] EXCEPT !.size = PTR_LEN]
  <2>1. ~(PointerAt(m, o) > End(m))
    <3> DEFINE a == k.at
               e == End(m)
    <3>1. a \in 0..255 /\ a <= e /\ e \in Nat
      BY <1>1
    <3> HIDE DEF a, e
    <3>2. ~(a > e)
      BY <3>1
    <3> QED
      BY <1>2, <3>2 DEF a, e
  <2>2. NamesOf(m)[steps + 1][o] = Step(m, NamesOf(m)[steps], o)
    BY NamesUnfold
  <2> QED
    BY <1>2, <2>1, <2>2, Zenon DEF Step
<1>5. NamesOf(m)[steps + 1][o] = [text |-> TextOf(k.name), offset |-> x, size |-> PTR_LEN]
  BY <1>3, <1>4
<1>6. PTR_LEN = (o + 2) - o
  BY DEF PTR_LEN
<1>7. LabelsOf(m)[steps + 1][o] = k.name
  <2>1. (Byte(m, o) - 192) * 256 + Byte(m, o + 1) = k.at
    <3> DEFINE a == k.at
    <3>1. a \in 0..255
      BY <1>1
    <3> HIDE DEF a
    <3>2. (192 - 192) * 256 + a = a
      BY <3>1
    <3> QED
      BY <3>2 DEF a
  <2>2. LabelsOf(m)[steps + 1][o] = LabelsOf(m)[steps][k.at]
    <3>1. LabelsOf(m)[steps + 1][o] = LabelStep(m, LabelsOf(m)[steps], o)
      BY LabelsUnfold
    <3>2. Byte(m, o) >= 192 /\ Byte(m, o) # 0
      OBVIOUS
    <3> QED
      BY <2>1, <3>1, <3>2 DEF LabelStep
  <2> QED
    BY <2>2 DEF Reads
<1> QED
  BY <1>3, <1>5, <1>6, <1>7 DEF Reads

\* The end of a name.
LEMMA ReadsEnd ==
  ASSUME NEW m, m.data \in Seq(Octet), NEW K, NEW steps \in Nat, NEW o \in Nat, Byte(m, o) = 0
  PROVE  Reads(m, K, steps, o, << >>, o + 1)
<1>1. CASE steps = 0
  <2>1. NamesOf(m)[0][o] = NoName(o) /\ LabelsOf(m)[0][o] = << >>
    BY NamesUnfold, LabelsUnfold
  <2>2. TextOf(<< >>) = << >> /\ (o + 1) - o = 1
    BY EmptyText
  <2> QED
    BY <1>1, <2>1, <2>2 DEF Reads, NoName
<1>2. CASE steps # 0
  <2>1. steps - 1 \in Nat /\ (steps - 1) + 1 = steps
    BY <1>2
  <2>2. /\ NamesOf(m)[steps][o] = Step(m, NamesOf(m)[steps - 1], o)
        /\ LabelsOf(m)[steps][o] = LabelStep(m, LabelsOf(m)[steps - 1], o)
    <3>1. /\ NamesOf(m)[(steps - 1) + 1][o] = Step(m, NamesOf(m)[steps - 1], o)
          /\ LabelsOf(m)[(steps - 1) + 1][o] = LabelStep(m, LabelsOf(m)[steps - 1], o)
      BY <2>1, NamesUnfold, LabelsUnfold
    <3> QED
      BY <2>1, <3>1
  <2>3. NamesOf(m)[steps][o] = NoName(o) /\ LabelsOf(m)[steps][o] = << >>
    BY <2>2 DEF Step, LabelStep
  <2>4. TextOf(<< >>) = << >> /\ (o + 1) - o = 1
    BY EmptyText
  <2> QED
    BY <2>3, <2>4 DEF Reads, NoName
<1> QED
  BY <1>1, <1>2

LEMMA NameReads ==
  ASSUME NEW m, m.data \in Seq(Octet), NEW K, Fits(m, K)
  PROVE  \A n \in Nat, v \in Seq(Label), o, after, steps \in Nat :
           Len(v) = n /\ NameIn(m, K, o, v, after) /\ 2 * n + 1 <= steps
             => Reads(m, K, steps, o, v, after)
<1> DEFINE G == {n \in Nat : \A v \in Seq(Label), o, after, steps \in Nat :
                   Len(v) = n /\ NameIn(m, K, o, v, after) /\ 2 * n + 1 <= steps
                     => Reads(m, K, steps, o, v, after)}
<1>0. \A k \in K : k \in KnownName /\ FitsAt(m, K, k)
  BY DEF Fits
<1>1. 0 \in G
  <2> SUFFICES ASSUME NEW v \in Seq(Label), NEW o \in Nat, NEW after \in Nat, NEW steps \in Nat,
                      Len(v) = 0, NameIn(m, K, o, v, after)
               PROVE  Reads(m, K, steps, o, v, after)
    OBVIOUS
  <2>1. v = << >>
    BY EmptySeq
  <2>2. \A k \in K : k.name # v
    BY <1>0, <2>1, HostNameType DEF KnownName
  <2>3. Byte(m, o) = 0 /\ after = o + 1
    BY <2>2 DEF NameIn
  <2> QED
    BY <2>1, <2>3, ReadsEnd
<1>2. ASSUME NEW n \in Nat, n \in G PROVE n + 1 \in G
  <2>1. ASSUME NEW k \in K, Len(k.name) = n + 1, NEW steps \in Nat, 2 * n + 2 <= steps
        PROVE  Reads(m, K, steps, k.at, k.name, k.after)
    <3> DEFINE t == Tail(k.name)
               p == k.at + 1 + Len(k.name[1])
    <3>1. k \in KnownName /\ FitsAt(m, K, k) /\ k.name \in HostName /\ k.at \in Nat /\ k.after \in Nat
      BY <1>0 DEF KnownName
    <3>2. t \in Seq(Label) /\ Len(t) = Len(k.name) - 1 /\ Len(k.name[1]) \in 1..63
      BY <3>1, HostNameType
    <3>3. NameIn(m, K, p, t, k.after)
      BY <3>1 DEF FitsAt
    <3>4. steps - 1 \in Nat /\ 2 * n + 1 <= steps - 1 /\ (steps - 1) + 1 = steps
      BY <2>1
    <3>5. p \in Nat
      BY <3>1, <3>2
    <3>6. Len(t) = n
      BY <2>1, <3>2
    <3> HIDE DEF t, p
    <3>7. Reads(m, K, steps - 1, p, t, k.after)
      BY <1>2, <3>1, <3>2, <3>3, <3>4, <3>5, <3>6
    <3>8. Reads(m, K, (steps - 1) + 1, k.at, k.name, k.after)
      BY <3>1, <3>4, <3>7, ReadsLabel DEF t, p
    <3> QED
      BY <3>4, <3>8
  <2> SUFFICES ASSUME NEW v \in Seq(Label), NEW o \in Nat, NEW after \in Nat, NEW steps \in Nat,
                      Len(v) = n + 1, NameIn(m, K, o, v, after), 2 * (n + 1) + 1 <= steps
               PROVE  Reads(m, K, steps, o, v, after)
    OBVIOUS
  <2>2. v # << >>
    <3>1. Len(<< >>) = 0 /\ n + 1 # 0
      BY EmptySeq
    <3> QED
      BY <3>1, Zenon
  <2>3. CASE \E k \in K : k.name = v /\ k.at = o /\ k.after = after
    <3>1. 2 * n + 2 <= steps
      OBVIOUS
    <3> QED
      BY <2>1, <2>3, <3>1
  <2>4. CASE \E k \in K : k.name = v /\ Byte(m, o) = 192 /\ Byte(m, o + 1) = k.at /\ after = o + 2
    <3>1. PICK k \in K : k.name = v /\ Byte(m, o) = 192 /\ Byte(m, o + 1) = k.at /\ after = o + 2
      BY <2>4
    <3>2. steps - 1 \in Nat /\ 2 * n + 2 <= steps - 1 /\ (steps - 1) + 1 = steps
      OBVIOUS
    <3>3. Reads(m, K, steps - 1, k.at, k.name, k.after)
      BY <2>1, <3>1, <3>2
    <3>4. Reads(m, K, (steps - 1) + 1, o, k.name, o + 2)
      BY <1>0, <3>1, <3>2, <3>3, ReadsPointer
    <3> QED
      BY <3>1, <3>2, <3>4
  <2> QED
    BY <2>2, <2>3, <2>4 DEF NameIn
<1> QED
  BY <1>1, <1>2, Induction

\* get_name reads what is written, and so does anybody else.
LEMMA GetNameReads ==
  ASSUME NEW m, m.data \in Seq(Octet), NEW K, Fits(m, K), NEW v \in HostName,
         NEW o \in Nat, NEW after \in Nat, NameIn(m, K, o, v, after)
  PROVE  /\ GetName(m, o).text = TextOf(v) /\ GetName(m, o).size = after - o
         /\ GetName(m, o).size \in Nat /\ GetName(m, o).size # -1 /\ o + GetName(m, o).size = after
         /\ \E k \in K : k.name = v /\ k.at = GetName(m, o).offset
         /\ LabelsAt(m, o) = v
<1> DEFINE n == Len(v)
<1>1. v \in Seq(Label) /\ n \in 1..127 /\ v # << >>
  BY HostNameType
<1> HIDE DEF n
<1>2. n \in Nat /\ 2 * n + 1 <= MAX_STEPS /\ MAX_STEPS \in Nat
  BY <1>1 DEF MAX_STEPS
<1>3. Reads(m, K, MAX_STEPS, o, v, after)
  BY <1>1, <1>2, NameReads DEF n
<1>4. PICK x \in Nat :
       /\ NamesOf(m)[MAX_STEPS][o] = [text |-> TextOf(v), offset |-> x, size |-> after - o]
       /\ \E k \in K : k.name = v /\ k.at = x
  BY <1>1, <1>3 DEF Reads
<1>5. LabelsOf(m)[MAX_STEPS][o] = v
  BY <1>3 DEF Reads
<1>6. o \in HEADER_LENGTH..(after - 1)
  BY DEF NameIn
<1>7. after - o \in Nat /\ after - o # -1 /\ o + (after - o) = after
  BY <1>6 DEF HEADER_LENGTH
<1>8. GetName(m, o) = [text |-> TextOf(v), offset |-> x, size |-> after - o]
  BY <1>4, GetNameIs
<1> QED
  BY <1>4, <1>5, <1>7, <1>8, LabelsAtIs

\* The labels of what is written stop where the name ends.
Width(m, o) == IF IsPointer(m, o) THEN PTR_LEN ELSE 1
StopsBefore(m, steps, o, after) ==
  StopsOf(m)[steps][o] + Width(m, StopsOf(m)[steps][o]) = after

LEMMA StopsAtOnce ==
  ASSUME NEW m, m.data \in Seq(Octet), NEW o \in Nat, NEW steps \in Nat,
         Byte(m, o) = 0 \/ IsPointer(m, o)
  PROVE  StopsOf(m)[steps][o] = o
<1>1. CASE steps = 0
  BY <1>1, StopsUnfold DEF FirstStop
<1>2. CASE steps # 0
  <2>1. steps - 1 \in Nat /\ (steps - 1) + 1 = steps
    BY <1>2
  <2>2. StopsOf(m)[(steps - 1) + 1][o] = StopStep(m, StopsOf(m)[steps - 1], o)
    BY <2>1, StopsUnfold
  <2> QED
    BY <2>1, <2>2 DEF StopStep
<1> QED
  BY <1>1, <1>2

LEMMA NameStops ==
  ASSUME NEW m, m.data \in Seq(Octet), NEW K, Fits(m, K)
  PROVE  \A n \in Nat, v \in Seq(Label), o, after, steps \in Nat :
           Len(v) = n /\ NameIn(m, K, o, v, after) /\ n <= steps
             => StopsBefore(m, steps, o, after)
<1> DEFINE G == {n \in Nat : \A v \in Seq(Label), o, after, steps \in Nat :
                   Len(v) = n /\ NameIn(m, K, o, v, after) /\ n <= steps
                     => StopsBefore(m, steps, o, after)}
<1>0. \A k \in K : k \in KnownName /\ FitsAt(m, K, k)
  BY DEF Fits
<1>a. ASSUME NEW o \in Nat, NEW after \in Nat, NEW steps \in Nat,
             \/ Byte(m, o) = 0 /\ after = o + 1
             \/ Byte(m, o) = 192 /\ after = o + 2
      PROVE  StopsBefore(m, steps, o, after)
  <2>1. CASE Byte(m, o) = 0 /\ after = o + 1
    <3>1. ~IsPointer(m, o)
      <4>1. 0 \div 64 # 3
        OBVIOUS
      <4> QED
        BY <2>1, <4>1 DEF IsPointer
    <3>2. StopsOf(m)[steps][o] = o
      BY <2>1, StopsAtOnce
    <3> QED
      BY <2>1, <3>1, <3>2 DEF StopsBefore, Width
  <2>2. CASE Byte(m, o) = 192 /\ after = o + 2
    <3>1. IsPointer(m, o)
      <4>1. 192 \div 64 = 3
        OBVIOUS
      <4> QED
        BY <2>2, <4>1 DEF IsPointer
    <3>2. StopsOf(m)[steps][o] = o
      BY <3>1, StopsAtOnce
    <3> QED
      BY <2>2, <3>1, <3>2 DEF StopsBefore, Width, PTR_LEN
  <2> QED
    BY <1>a, <2>1, <2>2
<1>1. 0 \in G
  <2> SUFFICES ASSUME NEW v \in Seq(Label), NEW o \in Nat, NEW after \in Nat, NEW steps \in Nat,
                      Len(v) = 0, NameIn(m, K, o, v, after)
               PROVE  StopsBefore(m, steps, o, after)
    OBVIOUS
  <2>1. v = << >>
    BY EmptySeq
  <2>2. \A k \in K : k.name # v
    BY <1>0, <2>1, HostNameType DEF KnownName
  <2>3. Byte(m, o) = 0 /\ after = o + 1
    BY <2>2 DEF NameIn
  <2> QED
    BY <1>a, <2>3
<1>2. ASSUME NEW n \in Nat, n \in G PROVE n + 1 \in G
  <2> SUFFICES ASSUME NEW v \in Seq(Label), NEW o \in Nat, NEW after \in Nat, NEW steps \in Nat,
                      Len(v) = n + 1, NameIn(m, K, o, v, after), n + 1 <= steps
               PROVE  StopsBefore(m, steps, o, after)
    OBVIOUS
  <2>1. v # << >>
    <3>1. Len(<< >>) = 0 /\ n + 1 # 0
      BY EmptySeq
    <3> QED
      BY <3>1, Zenon
  <2>2. CASE \E k \in K : k.name = v /\ k.at = o /\ k.after = after
    <3>1. PICK k \in K : k.name = v /\ k.at = o /\ k.after = after
      BY <2>2
    <3> DEFINE t == Tail(v)
               p == o + 1 + Len(v[1])
    <3>2. FitsAt(m, K, k) /\ v \in HostName
      BY <1>0, <3>1 DEF KnownName
    <3>3. t \in Seq(Label) /\ Len(t) = Len(v) - 1 /\ Len(v[1]) \in 1..63
      BY <3>2, HostNameType
    <3>4. NameIn(m, K, p, t, after) /\ Byte(m, o) = Len(v[1])
      BY <3>1, <3>2 DEF FitsAt
    <3>5. steps - 1 \in Nat /\ n <= steps - 1 /\ (steps - 1) + 1 = steps
      OBVIOUS
    <3>6. p \in Nat /\ Len(t) = n
      <4>1. \A b \in 1..63 : o + 1 + b \in Nat
        OBVIOUS
      <4>2. (n + 1) - 1 = n
        OBVIOUS
      <4> QED
        BY <3>3, <4>1, <4>2, Zenon
    <3>7. Byte(m, o) # 0 /\ ~IsPointer(m, o) /\ ~(Byte(m, o) > 127)
      <4>1. \A b \in 1..63 : b # 0 /\ b \div 64 # 3 /\ ~(b > 127)
        OBVIOUS
      <4>2. Byte(m, o) \in 1..63
        BY <3>3, <3>4, Zenon
      <4> QED
        BY <4>1, <4>2, Zenon DEF IsPointer
    <3>8. o + 1 + Byte(m, o) = p
      BY <3>4
    <3> HIDE DEF t, p
    <3>9. StopsBefore(m, steps - 1, p, after)
      BY <1>2, <3>3, <3>4, <3>5, <3>6
    <3>10. StopsOf(m)[(steps - 1) + 1][o] = StopsOf(m)[steps - 1][p]
      <4>1. StopsOf(m)[(steps - 1) + 1][o] = StopStep(m, StopsOf(m)[steps - 1], o)
        BY <3>5, StopsUnfold
      <4> QED
        BY <3>7, <3>8, <4>1, Zenon DEF StopStep
    <3> QED
      BY <3>5, <3>9, <3>10 DEF StopsBefore
  <2>3. CASE \E k \in K : k.name = v /\ Byte(m, o) = 192 /\ Byte(m, o + 1) = k.at /\ after = o + 2
    BY <1>a, <2>3
  <2> QED
    BY <2>1, <2>2, <2>3 DEF NameIn
<1> QED
  BY <1>1, <1>2, Induction

\* So get_name does not fail there.
LEMMA NameIsRead ==
  ASSUME NEW m, m.data \in Seq(Octet), NEW K, Fits(m, K), NEW v \in HostName,
         NEW o \in Nat, NEW after \in Nat, NameIn(m, K, o, v, after)
  PROVE  TRUE \notin NameFails(m, o)
<1> DEFINE n == Len(v)
<1>1. v \in Seq(Label) /\ n \in 1..127
  BY HostNameType
<1> HIDE DEF n
<1>2. n \in Nat /\ n <= MAX_STEPS /\ MAX_STEPS \in Nat
  BY <1>1 DEF MAX_STEPS
<1>3. StopsBefore(m, MAX_STEPS, o, after)
  BY <1>1, <1>2, NameStops DEF n
<1>4. after <= End(m) /\ End(m) \in Nat
  BY ByteType DEF NameIn
<1>5. ~Strays(m, o)
  <2> DEFINE x == StopsOf(m)[MAX_STEPS][o] + Width(m, StopsOf(m)[MAX_STEPS][o])
  <2>1. x = after
    BY <1>3 DEF StopsBefore
  <2>2. Strays(m, o) <=> x > End(m)
    BY StraysIs DEF Width
  <2> HIDE DEF x
  <2> QED
    BY <1>4, <2>1, <2>2
<1>6. GetName(m, o).size # -1
  BY GetNameReads
<1> QED
  BY <1>5, <1>6 DEF NameFails

-----------------------------------------------------------------------------
(* What more bytes leave alone.                                            *)

Keeps(m, n) ==
  /\ End(m) \in Nat /\ End(n) \in Nat /\ End(m) <= End(n)
  /\ \A o \in Nat : o < End(m) => Byte(n, o) = Byte(m, o)

LEMMA LongerKeeps ==
  ASSUME NEW m, NEW n, m.data \in Seq(Octet), NEW x \in Seq(Octet), n.data = m.data \o x
  PROVE  /\ n.data \in Seq(Octet) /\ End(m) \in Nat /\ End(n) = End(m) + Len(x) /\ Len(x) \in Nat
         /\ Keeps(m, n)
         /\ \A j \in 1..Len(x) : Byte(n, End(m) + j - 1) = x[j]
<1> DEFINE a == Len(m.data)
           b == Len(x)
<1>1. a \in Nat /\ b \in Nat
  BY OctetSeq
<1>2. /\ n.data \in Seq(Octet) /\ Len(n.data) = a + b
      /\ \A i \in 1..a + b : n.data[i] = IF i <= a THEN m.data[i] ELSE x[i - a]
  <2>1. /\ m.data \o x \in Seq(Octet) /\ Len(m.data \o x) = a + b
        /\ \A i \in 1..a + b : (m.data \o x)[i] = IF i <= a THEN m.data[i] ELSE x[i - a]
    BY OctetSeq, OctetConcat, Zenon
  <2> QED
    BY <2>1
<1>3. End(m) = 12 + a /\ End(n) = 12 + a + b
  <2>1. End(m) = 12 + a /\ End(n) = 12 + (a + b)
    BY <1>2 DEF End, HEADER_LENGTH
  <2> QED
    BY <1>1, <2>1
<1> HIDE DEF a, b
<1>0. /\ \A o : Byte(m, o) = IF o \in 12..(12 + a - 1) THEN m.data[o - 12 + 1] ELSE 0
      /\ \A o : Byte(n, o) = IF o \in 12..(12 + a + b - 1) THEN n.data[o - 12 + 1] ELSE 0
  <2>1. ASSUME NEW o PROVE Byte(m, o) = IF o \in 12..(12 + a - 1) THEN m.data[o - 12 + 1] ELSE 0
    BY <1>1, <1>3 DEF Byte, HEADER_LENGTH
  <2>2. ASSUME NEW o PROVE Byte(n, o) = IF o \in 12..(12 + a + b - 1) THEN n.data[o - 12 + 1] ELSE 0
    <3>1. End(n) - 1 = 12 + a + b - 1
      BY <1>1, <1>3
    <3>2. Byte(n, o) = IF o \in 12..(End(n) - 1) THEN n.data[o - 12 + 1] ELSE 0
      BY DEF Byte, HEADER_LENGTH
    <3> QED
      BY <3>1, <3>2
  <2> QED
    BY <2>1, <2>2
<1>4. ASSUME NEW o \in Nat, o < 12 + a PROVE Byte(n, o) = Byte(m, o)
  <2>1. CASE o < 12
    <3>1. o \notin 12..(12 + a - 1) /\ o \notin 12..(12 + a + b - 1)
      BY <2>1
    <3> QED
      BY <1>0, <3>1, Zenon
  <2>2. CASE ~(o < 12)
    <3>1. o \in 12..(12 + a - 1) /\ o \in 12..(12 + a + b - 1)
      BY <1>1, <1>4, <2>2
    <3>2. o - 12 + 1 \in 1..(a + b) /\ o - 12 + 1 <= a
      BY <1>1, <1>4, <2>2
    <3>3. n.data[o - 12 + 1] = m.data[o - 12 + 1]
      BY <1>2, <3>2
    <3>4. Byte(n, o) = n.data[o - 12 + 1] /\ Byte(m, o) = m.data[o - 12 + 1]
      BY <1>0, <3>1, Zenon
    <3> QED
      BY <3>3, <3>4
  <2> QED
    BY <2>1, <2>2
<1>5. ASSUME NEW j \in 1..b PROVE Byte(n, 12 + a + j - 1) = x[j]
  <2> DEFINE o == 12 + a + j - 1
  <2>1. o \in 12..(12 + a + b - 1) /\ o - 12 + 1 = a + j
    BY <1>1
  <2>2. Byte(n, o) = n.data[a + j]
    BY <1>0, <2>1, Zenon
  <2>3. a + j \in 1..(a + b) /\ ~(a + j <= a) /\ (a + j) - a = j
    BY <1>1
  <2>4. n.data[a + j] = x[(a + j) - a]
    BY <1>2, <2>3, Zenon
  <2> QED
    BY <2>2, <2>3, <2>4
<1>6. Keeps(m, n)
  BY <1>1, <1>3, <1>4 DEF Keeps
<1>7. End(n) = End(m) + b /\ End(m) \in Nat
  BY <1>1, <1>3
<1>8. \A j \in 1..b : Byte(n, End(m) + j - 1) = x[j]
  BY <1>3, <1>5
<1> QED
  BY <1>1, <1>2, <1>6, <1>7, <1>8 DEF b

LEMMA NameKept ==
  ASSUME NEW m, NEW n, Keeps(m, n), NEW K, NEW L, K \subseteq L, NEW o, NEW v, NEW after,
         NameIn(m, K, o, v, after)
  PROVE  NameIn(n, L, o, v, after)
<1>1. o \in HEADER_LENGTH..(after - 1) /\ after \in Nat /\ after <= End(m)
  BY DEF NameIn
<1>2. o \in Nat /\ after <= End(n) /\ Byte(n, o) = Byte(m, o)
  BY <1>1 DEF Keeps, HEADER_LENGTH
<1>3. after = o + 2 => Byte(n, o + 1) = Byte(m, o + 1)
  BY <1>1 DEF Keeps, HEADER_LENGTH
<1> QED
  BY <1>1, <1>2, <1>3 DEF NameIn

LEMMA FitsKept ==
  ASSUME NEW m, NEW n, Keeps(m, n), NEW K, NEW L, K \subseteq L, Fits(m, K), NEW k \in K
  PROVE  FitsAt(n, L, k)
<1> DEFINE l == k.name[1]
           o == k.at
<1>1. k \in KnownName /\ FitsAt(m, K, k)
  BY DEF Fits
<1>2. Len(l) \in 1..63 /\ k.after \in Nat
  BY <1>1, HostNameType DEF KnownName
<1>3. /\ o \in HEADER_LENGTH..255 /\ k.after <= End(m)
      /\ Byte(m, o) = Len(l) /\ Bytes(m, o + 1, Len(l)) = l
      /\ NameIn(m, K, o + 1 + Len(l), Tail(k.name), k.after)
  BY <1>1 DEF FitsAt
<1>4. o + 1 + Len(l) < End(m)
  <2>1. o + 1 + Len(l) \in HEADER_LENGTH..(k.after - 1)
    BY <1>3 DEF NameIn
  <2> HIDE DEF o, l
  <2> QED
    BY <1>2, <1>3, <2>1 DEF Keeps, HEADER_LENGTH
<1> HIDE DEF l, o
<1>5. Byte(n, o) = Byte(m, o)
  <2>1. o \in Nat /\ End(m) \in Nat
    BY <1>3 DEF Keeps, HEADER_LENGTH
  <2>2. o < End(m)
    BY <1>2, <1>4, <2>1
  <2> QED
    BY <2>1, <2>2 DEF Keeps
<1>6. Bytes(n, o + 1, Len(l)) = Bytes(m, o + 1, Len(l))
  <2>1. \A i \in 1..Len(l) : Byte(n, o + 1 + i - 1) = Byte(m, o + 1 + i - 1)
    <3> SUFFICES ASSUME NEW i \in 1..Len(l)
                 PROVE  Byte(n, o + 1 + i - 1) = Byte(m, o + 1 + i - 1)
      OBVIOUS
    <3>1. o + 1 + i - 1 \in Nat /\ o + 1 + i - 1 < End(m)
      BY <1>2, <1>3, <1>4 DEF HEADER_LENGTH, Keeps
    <3> QED
      BY <3>1 DEF Keeps
  <2> QED
    BY <2>1 DEF Bytes
<1>7. NameIn(n, L, o + 1 + Len(l), Tail(k.name), k.after)
  BY <1>3, NameKept
<1>8. k.after <= End(n)
  BY <1>2, <1>3 DEF Keeps
<1> QED
  BY <1>3, <1>5, <1>6, <1>7, <1>8 DEF FitsAt, l, o

-----------------------------------------------------------------------------
(* Labels in what is written.                                              *)

LEMMA FirstOfFirst ==
  ASSUME NEW S, NEW u \in Seq(S), NEW n \in 0..Len(u), NEW k \in 0..n
  PROVE  SubSeq(SubSeq(u, 1, n), 1, k) = SubSeq(u, 1, k)
<1> DEFINE s == SubSeq(u, 1, n)
<1>1. Len(u) \in Nat
  BY LenProperties
<1>2. n \in Nat /\ k \in Nat /\ n <= Len(u) /\ k <= n /\ k <= Len(u)
  BY <1>1
<1>3. s \in Seq(S) /\ Len(s) = n /\ \A i \in 1..n : s[i] = u[i]
  BY <1>2, FirstProperties
<1> HIDE DEF s
<1>4. SubSeq(s, 1, k) \in Seq(S) /\ Len(SubSeq(s, 1, k)) = k /\ \A i \in 1..k : SubSeq(s, 1, k)[i] = s[i]
  <2>1. k <= Len(s)
    BY <1>2, <1>3
  <2> QED
    BY <1>2, <1>3, <2>1, FirstProperties
<1>5. SubSeq(u, 1, k) \in Seq(S) /\ Len(SubSeq(u, 1, k)) = k /\ \A i \in 1..k : SubSeq(u, 1, k)[i] = u[i]
  BY <1>2, FirstProperties
<1>6. \A i \in 1..k : SubSeq(s, 1, k)[i] = SubSeq(u, 1, k)[i]
  <2>1. \A i \in 1..k : i \in 1..n
    BY <1>2
  <2> QED
    BY <1>3, <1>4, <1>5, <2>1
<1>7. SubSeq(s, 1, k) = SubSeq(u, 1, k)
  BY <1>4, <1>5, <1>6, SeqEqual
<1> QED
  BY <1>7 DEF s

\* Label i of u is where what is written of the labels before it ends.
WireTo(u, i) == Len(Wire(SubSeq(u, 1, i)))
PlacedAt(u, i) ==
  /\ WireTo(u, i - 1) \in Nat /\ WireTo(u, i) = WireTo(u, i - 1) + 1 + Len(u[i])
  /\ WireTo(u, i) <= Len(Wire(u))
  /\ Wire(u)[WireTo(u, i - 1) + 1] = Len(u[i])
  /\ \A j \in 1..Len(u[i]) : Wire(u)[WireTo(u, i - 1) + 1 + j] = u[i][j]

LEMMA LabelsPlaced ==
  ASSUME NEW v \in Seq(Label)
  PROVE  \A i \in 1..Len(v) : PlacedAt(v, i)
<1> DEFINE G == {n \in Nat : \A u \in Seq(Label) : Len(u) = n => \A i \in 1..n : PlacedAt(u, i)}
<1>1. 0 \in G
  OBVIOUS
<1>2. ASSUME NEW n \in Nat, n \in G PROVE n + 1 \in G
  <2> SUFFICES ASSUME NEW u \in Seq(Label), Len(u) = n + 1, NEW i \in 1..(n + 1)
               PROVE  PlacedAt(u, i)
    OBVIOUS
  <2> DEFINE s == SubSeq(u, 1, n)
             l == u[n + 1]
             w == Wire(u)
             x == Wire(s)
  <2>1. s \in Seq(Label) /\ Len(s) = n /\ l \in Label /\ u = Append(s, l)
    BY FrontAndLast
  <2>2. \A k \in 0..n : SubSeq(s, 1, k) = SubSeq(u, 1, k)
    <3>1. n \in 0..Len(u)
      OBVIOUS
    <3> QED
      BY <3>1, FirstOfFirst
  <2>3. \A k \in 1..n : s[k] = u[k]
    BY FirstProperties
  <2>4. SubSeq(u, 1, n + 1) = u
    BY SubSeqFull
  <2> HIDE DEF s, l
  <2>5. w = x \o (<<Len(l)>> \o l) /\ x \in Seq(Octet) /\ w \in Seq(Octet) /\ l \in Seq(Octet)
        /\ Len(l) \in Octet /\ Len(l) \in 1..63
    <3>1. l \in Seq(Octet) /\ Len(l) \in Octet /\ Len(l) \in 1..63
      BY <2>1, LabelType DEF Octet
    <3>2. w = x \o (<<Len(l)>> \o l)
      BY <2>1, DottedAppend
    <3> QED
      BY <2>1, <3>1, <3>2, DottedType
  <2>6. IsFollowed(w, x, Len(l), l)
    BY <2>5, Followed
  <2> HIDE DEF w, x
  <2>7. /\ Len(w) = Len(x) + 1 + Len(l) /\ Len(x) \in Nat
        /\ \A k \in 1..Len(x) : w[k] = x[k]
        /\ w[Len(x) + 1] = Len(l)
        /\ \A j \in 1..Len(l) : w[Len(x) + 1 + j] = l[j]
    BY <2>5, <2>6, OctetSeq DEF IsFollowed
  <2>8. CASE i = n + 1
    <3>1. WireTo(u, i) = Len(w) /\ WireTo(u, i - 1) = Len(x) /\ u[i] = l
      <4>1. (n + 1) - 1 = n
        OBVIOUS
      <4>2. WireTo(u, n + 1) = Len(w)
        BY <2>4 DEF WireTo, w
      <4>3. WireTo(u, n) = Len(x)
        BY DEF WireTo, x, s
      <4> QED
        BY <2>8, <4>1, <4>2, <4>3 DEF l
    <3>2. Len(l) \in Nat /\ Len(w) <= Len(w)
      BY <2>5, <2>7
    <3>3. w = Wire(u)
      BY DEF w
    <3> DEFINE a == WireTo(u, i - 1)
               b == WireTo(u, i)
               q == u[i]
    <3>4. a = Len(x) /\ b = Len(w) /\ q = l
      BY <3>1
    <3> HIDE DEF a, b, q
    <3>5. /\ a \in Nat /\ b = a + 1 + Len(q) /\ b <= Len(w) /\ w[a + 1] = Len(q)
          /\ \A j \in 1..Len(q) : w[a + 1 + j] = q[j]
      BY <2>7, <3>2, <3>4
    <3> QED
      BY <3>3, <3>5 DEF PlacedAt, a, b, q
  <2>9. CASE i \in 1..n
    <3> DEFINE a == WireTo(s, i - 1)
               q == s[i]
    <3>1. PlacedAt(s, i)
      BY <1>2, <2>1, <2>9
    <3>2. WireTo(u, i) = WireTo(s, i) /\ WireTo(u, i - 1) = a /\ u[i] = q
      <4>1. i \in 0..n /\ i - 1 \in 0..n
        BY <2>9
      <4>2. SubSeq(s, 1, i) = SubSeq(u, 1, i) /\ SubSeq(s, 1, i - 1) = SubSeq(u, 1, i - 1)
        BY <2>2, <4>1
      <4> QED
        BY <2>3, <2>9, <4>2 DEF WireTo
    <3>3. /\ a \in Nat /\ WireTo(s, i) = a + 1 + Len(q) /\ WireTo(s, i) <= Len(x)
          /\ x[a + 1] = Len(q) /\ \A j \in 1..Len(q) : x[a + 1 + j] = q[j]
      BY <3>1 DEF PlacedAt, x
    <3>4. Len(q) \in 1..63
      <4>1. q \in Label
        BY <2>1, <2>9, ElementOfSeq
      <4> QED
        BY <4>1, LabelType
    <3> HIDE DEF a, q
    <3>5. a + 1 \in 1..Len(x) /\ \A j \in 1..Len(q) : a + 1 + j \in 1..Len(x)
      BY <2>7, <3>3, <3>4
    <3>6. w[a + 1] = Len(q) /\ \A j \in 1..Len(q) : w[a + 1 + j] = q[j]
      BY <2>7, <3>3, <3>5
    <3>7. WireTo(s, i) <= Len(w)
      BY <2>5, <2>7, <3>3, <3>4
    <3> QED
      BY <3>2, <3>3, <3>6, <3>7 DEF PlacedAt, w
  <2> QED
    BY <2>8, <2>9
<1>3. Nat \subseteq G
  BY <1>1, <1>2, Induction
<1>4. Len(v) \in Nat
  BY LenProperties
<1> QED
  BY <1>3, <1>4

LEMMA SuffixIs ==
  ASSUME NEW v \in Seq(Label), v # << >>
  PROVE  /\ Suffix(v, 1) = v /\ Suffix(v, Len(v) + 1) = << >>
         /\ \A i \in 1..Len(v) :
              /\ Suffix(v, i) \in Seq(Label) /\ Len(Suffix(v, i)) = Len(v) - i + 1
              /\ Suffix(v, i)[1] = v[i] /\ v[i] \in Label
              /\ Tail(Suffix(v, i)) = Suffix(v, i + 1)
<1>1. Len(v) \in Nat \ {0} /\ \A i \in 1..Len(v) : v[i] \in Label
  BY EmptySeq, ElementOfSeq
<1>2. Suffix(v, 1) = v
  BY SubSeqFull DEF Suffix
<1>3. Suffix(v, Len(v) + 1) = << >>
  BY <1>1, SubSeqEmpty DEF Suffix
<1>4. ASSUME NEW i \in 1..Len(v)
      PROVE  /\ Suffix(v, i) \in Seq(Label) /\ Len(Suffix(v, i)) = Len(v) - i + 1
             /\ Suffix(v, i)[1] = v[i]
  <2> DEFINE t == SubSeq(v, i, Len(v))
  <2>1. i \in Int /\ Len(v) \in Int /\ \A j \in i..Len(v) : v[j] \in Label
    BY <1>1
  <2>2. /\ t \in Seq(Label)
        /\ Len(t) = IF i <= Len(v) THEN Len(v) - i + 1 ELSE 0
        /\ \A j \in 1..Len(v) - i + 1 : t[j] = v[i + j - 1]
    BY <2>1, SubSeqProperties
  <2>3. Suffix(v, i) = t
    BY DEF Suffix
  <2> HIDE DEF t
  <2>4. Len(t) = Len(v) - i + 1 /\ 1 \in 1..Len(v) - i + 1 /\ i + 1 - 1 = i
    BY <1>1, <2>2
  <2>5. t[1] = v[i]
    BY <2>2, <2>4
  <2> QED
    BY <2>2, <2>3, <2>4, <2>5
<1>5. ASSUME NEW i \in 1..Len(v) PROVE Tail(Suffix(v, i)) = Suffix(v, i + 1)
  <2>1. Len(v) \in i..Len(v)
    BY <1>1
  <2> QED
    BY <2>1, HeadTailOfSubSeq DEF Suffix
<1> QED
  BY <1>1, <1>2, <1>3, <1>4, <1>5

LEMMA SuffixHost ==
  ASSUME NEW v \in HostName, NEW i \in 1..Len(v)
  PROVE  Suffix(v, i) \in HostName
<1>1. v \in Seq(Label) /\ Len(v) \in 1..127 /\ v # << >>
  BY HostNameType
<1>2. Suffix(v, i) \in Seq(Label) /\ Len(Suffix(v, i)) = Len(v) - i + 1
  BY <1>1, SuffixIs
<1>3. Len(v) - i + 1 \in 1..127
  <2> DEFINE n == Len(v)
  <2>1. n \in 1..127 /\ i \in 1..n
    BY <1>1
  <2> HIDE DEF n
  <2>2. n - i + 1 \in 1..127
    BY <2>1
  <2> QED
    BY <2>2 DEF n
<1> QED
  BY <1>2, <1>3 DEF HostName

\* A least number there is.
LEMMA MinIn ==
  ASSUME NEW S \in SUBSET Nat, NEW x \in S
  PROVE  Min(S) \in S
<1> DEFINE G == {n \in Nat : \A T \in SUBSET Nat : n \in T => \E z \in T : \A y \in T : z <= y}
           H == {n \in Nat : \A k \in 0..n : k \in G}
<1>1. 0 \in H
  <2>1. \A T \in SUBSET Nat : 0 \in T => \A y \in T : 0 <= y
    OBVIOUS
  <2>2. 0 \in G
    BY <2>1
  <2> QED
    BY <2>2
<1>2. ASSUME NEW n \in Nat, n \in H PROVE n + 1 \in H
  <2>1. n + 1 \in G
    <3> SUFFICES ASSUME NEW T \in SUBSET Nat, n + 1 \in T PROVE \E z \in T : \A y \in T : z <= y
      OBVIOUS
    <3>1. CASE \E k \in 0..n : k \in T
      <4>1. PICK k \in 0..n : k \in T
        BY <3>1
      <4>2. k \in G
        BY <1>2
      <4> QED
        BY <4>1, <4>2
    <3>2. CASE \A k \in 0..n : k \notin T
      <4>1. \A y \in T : n + 1 <= y
        BY <3>2
      <4> QED
        BY <4>1
    <3> QED
      BY <3>1, <3>2
  <2>2. ASSUME NEW k \in 0..(n + 1) PROVE k \in G
    <3>1. k \in 0..n \/ k = n + 1
      OBVIOUS
    <3> QED
      BY <1>2, <2>1, <3>1
  <2> HIDE DEF G
  <2> QED
    BY <2>2
<1>3. Nat \subseteq H
  BY <1>1, <1>2, Induction
<1>4. x \in G
  <2>1. x \in H /\ x \in 0..x
    BY <1>3
  <2> QED
    BY <2>1
<1>5. \E z \in S : \A y \in S : z <= y
  BY <1>4
<1> QED
  BY <1>5 DEF Min

-----------------------------------------------------------------------------
(* Drafts.                                                                 *)

Draft == [data : Seq(Nat), known : SUBSET KnownName, starts : Seq(Nat), records : Seq(Record)]

Stop(v, K, c) == KnownFrom(v, K, c)
KnownAs(K, v) == CHOOSE k \in K : k.name = v
NameEnd(v, K, c) ==
  IF Stop(v, K, c) > Len(v) THEN <<0>>
  ELSE <<192 + KnownAs(K, Suffix(v, Stop(v, K, c))).at \div 256,
         KnownAs(K, Suffix(v, Stop(v, K, c))).at % 256>>

LEMMA StopIs ==
  ASSUME NEW v \in HostName, NEW K, NEW c
  PROVE  /\ Stop(v, K, c) \in 1..(Len(v) + 1)
         /\ Stop(v, K, c) <= Len(v) =>
              /\ KnownAs(K, Suffix(v, Stop(v, K, c))) \in K
              /\ KnownAs(K, Suffix(v, Stop(v, K, c))).name = Suffix(v, Stop(v, K, c))
<1> DEFINE n == Len(v)
           A == {i \in 1..n : c /\ \E k \in K : k.name = Suffix(v, i)}
           S == A \cup {n + 1}
           t == Stop(v, K, c)
<1>1. n \in Nat
  BY HostNameType
<1>2. t = Min(S)
  BY DEF Stop, KnownFrom
<1>3. S \in SUBSET Nat /\ n + 1 \in S
  BY <1>1
<1> HIDE DEF S, t
<1>4. t \in S
  BY <1>2, <1>3, MinIn
<1>5. t \in 1..(n + 1)
  BY <1>1, <1>4 DEF S
<1>6. t <= n => \E k \in K : k.name = Suffix(v, t)
  <2>1. t <= n => t # n + 1
    BY <1>1, <1>5
  <2> QED
    BY <1>4, <2>1 DEF S
<1>7. t <= n => KnownAs(K, Suffix(v, t)) \in K /\ KnownAs(K, Suffix(v, t)).name = Suffix(v, t)
  BY <1>6 DEF KnownAs
<1> QED
  BY <1>5, <1>7 DEF t

LEMMA NameBytesIs ==
  ASSUME NEW v \in HostName, NEW K \in SUBSET KnownName, NEW c
  PROVE  /\ SubSeq(v, 1, Stop(v, K, c) - 1) \in Seq(Label)
         /\ Len(SubSeq(v, 1, Stop(v, K, c) - 1)) = Stop(v, K, c) - 1
         /\ NameBytes(v, K, c) = Wire(SubSeq(v, 1, Stop(v, K, c) - 1)) \o NameEnd(v, K, c)
         /\ NameBytes(v, K, c) \in Seq(Nat) /\ Len(NameBytes(v, K, c)) \in Nat
         /\ (\A k \in K : k.at \in 0..255) =>
              /\ NameEnd(v, K, c) \in Seq(Octet) /\ NameBytes(v, K, c) \in Seq(Octet)
              /\ Stop(v, K, c) > Len(v) => NameEnd(v, K, c) = <<0>> /\ Len(NameEnd(v, K, c)) = 1
              /\ Stop(v, K, c) <= Len(v) =>
                   NameEnd(v, K, c) = <<192, KnownAs(K, Suffix(v, Stop(v, K, c))).at>>
<1> DEFINE t == Stop(v, K, c)
           u == SubSeq(v, 1, t - 1)
           k == KnownAs(K, Suffix(v, t))
           e == NameEnd(v, K, c)
<1>1. v \in Seq(Label) /\ Len(v) \in Nat
  BY HostNameType
<1>2. t \in 1..(Len(v) + 1) /\ (t <= Len(v) => k \in K)
  BY StopIs
<1>3. e = IF t > Len(v) THEN <<0>> ELSE <<192 + k.at \div 256, k.at % 256>>
  BY DEF NameEnd
<1>4. NameBytes(v, K, c) = Wire(u) \o e
  <2>1. NameBytes(v, K, c) =
          Wire(SubSeq(v, 1, KnownFrom(v, K, c) - 1))
            \o IF KnownFrom(v, K, c) > Len(v) THEN <<0>>
               ELSE <<192 + (CHOOSE k0 \in K : k0.name = Suffix(v, KnownFrom(v, K, c))).at \div 256,
                      (CHOOSE k0 \in K : k0.name = Suffix(v, KnownFrom(v, K, c))).at % 256>>
    BY Zenon DEF NameBytes
  <2> QED
    BY <2>1, Zenon DEF NameEnd, KnownAs, Stop
<1> HIDE DEF t, k, e
<1>5. u \in Seq(Label) /\ Len(u) = t - 1
  <2>1. t - 1 \in Nat /\ t - 1 <= Len(v)
    BY <1>1, <1>2
  <2> QED
    BY <1>1, <2>1, FirstProperties
<1>6. Wire(u) \in Seq(Octet)
  BY <1>5, DottedType
<1>7. e \in Seq(Nat)
  <2>1. CASE t > Len(v)
    BY <1>3, <2>1
  <2>2. CASE ~(t > Len(v))
    <3>1. k \in K
      BY <1>1, <1>2, <2>2
    <3>2. k.at \in Nat
      BY <3>1 DEF KnownName
    <3>3. \A a \in Nat : <<192 + a \div 256, a % 256>> \in Seq(Nat)
      <4>1. \A a \in Nat : 192 + a \div 256 \in Nat /\ a % 256 \in Nat
        OBVIOUS
      <4> QED
        BY <4>1
    <3> QED
      BY <1>3, <2>2, <3>2, <3>3
  <2> QED
    BY <2>1, <2>2
<1>8. Wire(u) \o e \in Seq(Nat) /\ Len(Wire(u) \o e) \in Nat
  <2>1. Wire(u) \in Seq(Nat)
    <3>1. Octet \subseteq Nat
      BY DEF Octet
    <3> QED
      BY <1>6, <3>1, SeqMonotonic
  <2>2. \A a, b \in Seq(Nat) : a \o b \in Seq(Nat) /\ Len(a \o b) \in Nat
    BY ConcatProperties, LenProperties
  <2> QED
    BY <1>7, <2>1, <2>2
<1>9. ASSUME \A j \in K : j.at \in 0..255
      PROVE  /\ e \in Seq(Octet) /\ Wire(u) \o e \in Seq(Octet)
             /\ t > Len(v) => e = <<0>> /\ Len(e) = 1
             /\ t <= Len(v) => e = <<192, k.at>>
  <2>1. CASE t > Len(v)
    <3>1. e = <<0>>
      BY <1>3, <2>1
    <3>2. 0 \in Octet /\ ~(t <= Len(v))
      BY <1>1, <1>2, <2>1 DEF Octet
    <3>3. e \in Seq(Octet) /\ Len(e) = 1
      BY <3>1, <3>2
    <3>4. Wire(u) \o e \in Seq(Octet)
      BY <1>6, <3>3, OctetSeq
    <3> QED
      BY <3>1, <3>2, <3>3, <3>4
  <2>2. CASE ~(t > Len(v))
    <3>1. k \in K
      BY <1>1, <1>2, <2>2
    <3>2. k.at \in 0..255
      BY <1>9, <3>1
    <3>3. \A a \in 0..255 : 192 + a \div 256 = 192 /\ a % 256 = a
      OBVIOUS
    <3> DEFINE a == k.at
    <3>4. 192 + a \div 256 = 192 /\ a % 256 = a
      BY <3>2, <3>3
    <3>5. e = <<192 + a \div 256, a % 256>>
      BY <1>3, <2>2
    <3> HIDE DEF a
    <3>6. e = <<192, a>>
      BY <3>4, <3>5, Zenon
    <3>7. e = <<192, k.at>>
      BY <3>6 DEF a
    <3>8. \A i \in 0..255 : <<192, i>> \in Seq(0..255)
      OBVIOUS
    <3>9. e \in Seq(Octet)
      BY <3>2, <3>7, <3>8 DEF Octet
    <3>10. Wire(u) \o e \in Seq(Octet)
      BY <1>6, <3>9, OctetSeq
    <3> QED
      BY <2>2, <3>7, <3>9, <3>10
  <2> QED
    BY <2>1, <2>2
<1> QED
  BY <1>4, <1>5, <1>8, <1>9 DEF t, k, e

\* The names that are known after one more is written.
NewKnown(d, v, c, i) ==
  [name |-> Suffix(v, i), at |-> End(d) + WireTo(v, i - 1),
   after |-> End(d) + Len(NameBytes(v, d.known, c))]

LEMMA WithNameIs ==
  ASSUME NEW d \in Draft, NEW v \in HostName, NEW c
  PROVE  /\ WithName(d, v, c) \in Draft
         /\ WithName(d, v, c).data = d.data \o NameBytes(v, d.known, c)
         /\ WithName(d, v, c).known =
              d.known \cup {NewKnown(d, v, c, i) : i \in 1..(Stop(v, d.known, c) - 1)}
         /\ WithName(d, v, c).starts = d.starts /\ WithName(d, v, c).records = d.records
         /\ End(d) \in Nat /\ End(WithName(d, v, c)) \in Nat
         /\ End(d) <= End(WithName(d, v, c))
<1> DEFINE b == NameBytes(v, d.known, c)
           N == {NewKnown(d, v, c, i) : i \in 1..(Stop(v, d.known, c) - 1)}
           e == WithName(d, v, c)
<1>1. /\ d.data \in Seq(Nat) /\ d.known \in SUBSET KnownName
      /\ d.starts \in Seq(Nat) /\ d.records \in Seq(Record)
  BY DEF Draft
<1>2. b \in Seq(Nat) /\ Len(b) \in Nat /\ Stop(v, d.known, c) \in 1..(Len(v) + 1)
  BY <1>1, NameBytesIs, StopIs
<1>3. e = [d EXCEPT !.data = @ \o b, !.known = @ \cup N]
  BY Zenon DEF WithName, NewKnown, WireTo, Stop
<1>4. d.data \o b \in Seq(Nat) /\ Len(d.data \o b) = Len(d.data) + Len(b) /\ Len(d.data) \in Nat
  <2>1. \A x, y \in Seq(Nat) : x \o y \in Seq(Nat) /\ Len(x \o y) = Len(x) + Len(y) /\ Len(x) \in Nat
    BY ConcatProperties, LenProperties
  <2> QED
    BY <1>1, <1>2, <2>1
<1>5. End(d) \in Nat
  BY <1>4 DEF End, HEADER_LENGTH
<1>6. N \subseteq KnownName
  <2> SUFFICES ASSUME NEW i \in 1..(Stop(v, d.known, c) - 1)
               PROVE  NewKnown(d, v, c, i) \in KnownName
    OBVIOUS
  <2>1. v \in Seq(Label) /\ Len(v) \in Nat
    BY HostNameType
  <2>2. i \in 1..Len(v)
    BY <1>2, <2>1
  <2>3. Suffix(v, i) \in HostName
    BY <2>2, SuffixHost
  <2>4. WireTo(v, i - 1) \in Nat
    BY <2>1, <2>2, LabelsPlaced DEF PlacedAt
  <2>5. End(d) + WireTo(v, i - 1) \in Nat /\ End(d) + Len(b) \in Nat
    BY <1>2, <1>5, <2>4
  <2> QED
    BY <2>3, <2>5 DEF NewKnown, KnownName
<1> HIDE DEF N, b, e
<1>7. /\ e.data = d.data \o b /\ e.known = d.known \cup N /\ e.starts = d.starts
      /\ e.records = d.records /\ e \in Draft
  BY <1>1, <1>3, <1>4, <1>6 DEF Draft
<1>8. End(e) \in Nat /\ End(d) <= End(e)
  BY <1>2, <1>4, <1>7 DEF End, HEADER_LENGTH
<1> QED
  BY <1>5, <1>7, <1>8 DEF e, b, N

\* A draft in which names are known where they are.
Good(d) == d \in Draft /\ d.data \in Seq(Octet) /\ Fits(d, d.known)

LEMMA NameWritten ==
  ASSUME NEW d, Good(d), NEW v \in HostName, NEW c, End(WithName(d, v, c)) <= MAX_MESSAGE
  PROVE  /\ Good(WithName(d, v, c)) /\ Keeps(d, WithName(d, v, c))
         /\ d.known \subseteq WithName(d, v, c).known
         /\ NameIn(WithName(d, v, c), WithName(d, v, c).known, End(d), v, End(WithName(d, v, c)))
         /\ NameBytes(v, d.known, c) \in Seq(Octet)
<1> DEFINE K == d.known
           n == WithName(d, v, c)
           L == n.known
           b == NameBytes(v, K, c)
           t == Stop(v, K, c)
           u == SubSeq(v, 1, t - 1)
           w == Wire(u)
           x == NameEnd(v, K, c)
           k == KnownAs(K, Suffix(v, t))
           at(i) == End(d) + WireTo(v, i - 1)
<1>1. d \in Draft /\ d.data \in Seq(Octet) /\ Fits(d, K) /\ K \in SUBSET KnownName
  BY DEF Good, Draft
<1>2. v \in Seq(Label) /\ Len(v) \in 1..127 /\ v # << >>
  BY HostNameType
<1>3. /\ n \in Draft /\ n.data = d.data \o b
      /\ L = K \cup {NewKnown(d, v, c, i) : i \in 1..(t - 1)}
  BY <1>1, WithNameIs
<1>4. /\ t \in 1..(Len(v) + 1)
      /\ t <= Len(v) => k \in K /\ k.name = Suffix(v, t)
  BY StopIs
<1>5. \A j \in K : j.at \in 0..255
  <2>1. \A j \in K : j.at \in HEADER_LENGTH..255
    BY <1>1 DEF Fits, FitsAt
  <2>2. \A j \in HEADER_LENGTH..255 : j \in 0..255
    BY DEF HEADER_LENGTH
  <2> QED
    BY <2>1, <2>2
<1>6. /\ u \in Seq(Label) /\ Len(u) = t - 1 /\ b = w \o x
      /\ x \in Seq(Octet) /\ b \in Seq(Octet)
      /\ t > Len(v) => x = <<0>>
      /\ t <= Len(v) => x = <<192, k.at>>
  BY <1>1, <1>5, NameBytesIs
<1>7. w \in Seq(Octet) /\ Len(w) \in Nat /\ Len(b) = Len(w) + Len(x) /\ Len(x) \in 1..2
  <2>1. w \in Seq(Octet)
    BY <1>6, DottedType
  <2>2. Len(b) = Len(w) + Len(x) /\ Len(w) \in Nat
    BY <1>6, <2>1, OctetSeq
  <2>3. Len(x) \in 1..2
    <3>1. t > Len(v) \/ t <= Len(v)
      BY <1>2, <1>4
    <3>2. Len(<<0>>) = 1 /\ \A a : Len(<<192, a>>) = 2
      OBVIOUS
    <3> QED
      BY <1>6, <3>1, <3>2
  <2> QED
    BY <2>1, <2>2, <2>3
<1>8. /\ n.data \in Seq(Octet) /\ End(d) \in Nat /\ End(n) = End(d) + Len(b) /\ Len(b) \in Nat
      /\ Keeps(d, n)
      /\ \A j \in 1..Len(b) : Byte(n, End(d) + j - 1) = b[j]
  <2> HIDE DEF n, b
  <2>1. d.data \in Seq(Octet) /\ b \in Seq(Octet) /\ n.data = d.data \o b
    BY <1>1, <1>3, <1>6
  <2> QED
    BY <2>1, LongerKeeps
<1>9. /\ \A j \in 1..Len(w) : b[j] = w[j]
      /\ \A j \in 1..Len(x) : b[Len(w) + j] = x[j]
  <2>1. \A j \in 1..Len(w) + Len(x) : b[j] = IF j <= Len(w) THEN w[j] ELSE x[j - Len(w)]
    BY <1>6, <1>7, OctetConcat
  <2> HIDE DEF w, x, b
  <2>2. \A j \in 1..Len(w) : b[j] = w[j]
    BY <1>7, <2>1
  <2>3. ASSUME NEW j \in 1..Len(x) PROVE b[Len(w) + j] = x[j]
    <3>1. Len(w) + j \in 1..Len(w) + Len(x) /\ ~(Len(w) + j <= Len(w)) /\ (Len(w) + j) - Len(w) = j
      BY <1>7
    <3>2. b[Len(w) + j] = x[(Len(w) + j) - Len(w)]
      BY <2>1, <3>1, Zenon
    <3> QED
      BY <3>1, <3>2
  <2> QED
    BY <2>2, <2>3
<1>10. ASSUME NEW i \in 1..(t - 1)
       PROVE  /\ WireTo(v, i - 1) \in Nat /\ WireTo(v, i) = WireTo(v, i - 1) + 1 + Len(v[i])
              /\ WireTo(v, i) <= Len(w) /\ Len(v[i]) \in 1..63 /\ v[i] \in Seq(Octet)
              /\ w[WireTo(v, i - 1) + 1] = Len(v[i])
              /\ \A j \in 1..Len(v[i]) : w[WireTo(v, i - 1) + 1 + j] = v[i][j]
  <2>1. PlacedAt(u, i)
    BY <1>6, LabelsPlaced
  <2>2. t - 1 \in 0..Len(v) /\ i \in 0..(t - 1) /\ i - 1 \in 0..(t - 1)
    BY <1>2, <1>4
  <2>3. SubSeq(u, 1, i) = SubSeq(v, 1, i) /\ SubSeq(u, 1, i - 1) = SubSeq(v, 1, i - 1)
    BY <1>2, <2>2, FirstOfFirst
  <2>4. WireTo(u, i) = WireTo(v, i) /\ WireTo(u, i - 1) = WireTo(v, i - 1)
    BY <2>3 DEF WireTo
  <2>5. u[i] = v[i]
    <3>1. t - 1 \in Nat /\ t - 1 <= Len(v)
      BY <1>2, <1>4
    <3> QED
      BY <1>2, <3>1, FirstProperties
  <2>6. Len(v[i]) \in 1..63 /\ v[i] \in Seq(Octet)
    <3>1. i \in 1..Len(v)
      BY <1>2, <1>4
    <3> QED
      BY <1>2, <3>1, ElementOfSeq, LabelType
  <2> QED
    BY <2>1, <2>4, <2>5, <2>6 DEF PlacedAt
<1>11. WireTo(v, t - 1) = Len(w) /\ WireTo(v, 0) = 0
  <2>1. WireTo(v, t - 1) = Len(w)
    BY DEF WireTo
  <2>2. SubSeq(v, 1, 0) = << >>
    BY SubSeqEmpty
  <2> QED
    BY <2>1, <2>2, DottedEmpty, EmptySeq DEF WireTo
<1> HIDE DEF K, n, L, b, t, u, w, x, k
<1>12. ASSUME NEW i \in 1..(t - 1)
       PROVE  /\ NewKnown(d, v, c, i) \in L /\ NewKnown(d, v, c, i).name = Suffix(v, i)
              /\ NewKnown(d, v, c, i).at = at(i) /\ NewKnown(d, v, c, i).after = End(n)
  BY <1>3, <1>8 DEF NewKnown, b, K
<1> DEFINE z == End(d)
           f == End(n)
           g == Len(w)
           h == Len(x)
<1>13. z \in Nat /\ f \in Nat /\ g \in Nat /\ h \in 1..2 /\ f = z + g + h /\ Len(b) = g + h /\ z >= 12
  <2>1. HEADER_LENGTH <= End(d) /\ HEADER_LENGTH = 12
    BY <1>1, ByteType DEF HEADER_LENGTH
  <2>2. g \in Nat /\ h \in 1..2 /\ z \in Nat /\ f = z + Len(b) /\ Len(b) = g + h
    BY <1>7, <1>8
  <2> HIDE DEF z, f, g, h
  <2>3. f = z + g + h /\ f \in Nat
    BY <2>2
  <2> QED
    BY <2>1, <2>2, <2>3 DEF z
<1>14. \A i : at(i) = z + WireTo(v, i - 1)
  OBVIOUS
<1>15. /\ \A j \in 1..g : Byte(n, z + j - 1) = w[j]
      /\ \A j \in 1..h : Byte(n, z + (g + j) - 1) = x[j]
  <2>1. \A j \in 1..Len(b) : Byte(n, z + j - 1) = b[j]
    BY <1>8
  <2>2. (\A j \in 1..g : b[j] = w[j]) /\ (\A j \in 1..h : b[g + j] = x[j])
    BY <1>9
  <2> HIDE DEF z, f, g, h
  <2>3. \A j \in 1..g : j \in 1..Len(b)
    BY <1>13
  <2>4. \A j \in 1..h : g + j \in 1..Len(b)
    BY <1>13
  <2> QED
    BY <2>1, <2>2, <2>3, <2>4, Zenon
<1>16. ASSUME NEW i \in 1..(t - 1)
      PROVE  WireTo(v, i) <= g
  BY <1>10
<1>17. at(t) = z + g /\ at(1) = z
  BY <1>8, <1>11
<1> HIDE DEF z, f, g, h, at
<1>18. ASSUME NEW i \in 1..(t - 1)
       PROVE  /\ at(i) \in 12..(f - 1) /\ at(i + 1) = at(i) + 1 + Len(v[i])
              /\ Byte(n, at(i)) = Len(v[i]) /\ Bytes(n, at(i) + 1, Len(v[i])) = v[i]
  <2> DEFINE p == WireTo(v, i - 1)
             q == v[i]
             r == Len(q)
  <2>1. /\ p \in Nat /\ WireTo(v, i) = p + 1 + r /\ p + 1 + r <= g /\ r \in 1..63
        /\ q \in Seq(Octet) /\ w[p + 1] = r /\ \A j \in 1..r : w[p + 1 + j] = q[j]
    BY <1>10, <1>16
  <2>2. at(i) = z + p /\ at(i + 1) = z + WireTo(v, (i + 1) - 1) /\ (i + 1) - 1 = i
    BY <1>14
  <2> HIDE DEF p, r
  <2>0. p \in Nat /\ r \in 1..63 /\ p + 1 + r <= g
    BY <2>1
  <2>3. at(i) = z + p /\ at(i + 1) = z + (p + 1 + r)
    BY <2>1, <2>2
  <2>4. at(i) \in 12..(f - 1) /\ at(i + 1) = at(i) + 1 + r
    BY <1>13, <2>1, <2>3
  <2>5. Byte(n, at(i)) = r
    <3>1. p + 1 \in 1..g /\ z + (p + 1) - 1 = z + p
      BY <1>13, <2>0
    <3>2. Byte(n, z + (p + 1) - 1) = w[p + 1]
      BY <1>15, <3>1, Zenon
    <3> QED
      BY <2>1, <2>3, <3>1, <3>2
  <2>6. ASSUME NEW j \in 1..r PROVE Byte(n, at(i) + 1 + j - 1) = q[j]
    <3>1. p + 1 + j \in 1..g /\ z + (p + 1 + j) - 1 = (z + p) + 1 + j - 1
      BY <1>13, <2>0
    <3>2. Byte(n, z + (p + 1 + j) - 1) = w[p + 1 + j]
      BY <1>15, <3>1, Zenon
    <3> QED
      BY <2>1, <2>3, <3>1, <3>2
  <2>7. Bytes(n, at(i) + 1, r) = q
    <3>1. /\ Bytes(n, at(i) + 1, r) \in Seq(Octet) /\ Len(Bytes(n, at(i) + 1, r)) = r
          /\ \A j \in 1..r : Bytes(n, at(i) + 1, r)[j] = Byte(n, at(i) + 1 + j - 1)
      <4>1. at(i) + 1 \in Int /\ r \in Nat
        BY <2>1, <2>4
      <4> QED
        BY <1>8, <4>1, BytesType
    <3>2. \A j \in 1..r : Bytes(n, at(i) + 1, r)[j] = q[j]
      BY <2>6, <3>1
    <3>3. Len(q) = r
      BY DEF r
    <3> QED
      BY <2>1, <3>1, <3>2, <3>3, SeqEqual
  <2> QED
    BY <2>4, <2>5, <2>7 DEF r
<1>19. NameIn(n, L, at(t), Suffix(v, t), f)
  <2>1. at(t) \in HEADER_LENGTH..(f - 1) /\ f \in Nat /\ f <= f /\ f = at(t) + h
    BY <1>13, <1>17 DEF HEADER_LENGTH
  <2>2. \A j \in 1..h : Byte(n, at(t) + j - 1) = x[j]
    <3>1. \A j \in 1..h : z + (g + j) - 1 = at(t) + j - 1
      BY <1>13, <1>17
    <3> QED
      BY <1>15, <3>1
  <2>3. CASE t > Len(v)
    <3>1. t = Len(v) + 1
      BY <1>2, <1>4, <2>3 DEF t
    <3>2. Suffix(v, t) = << >>
      BY <1>2, <3>1, SuffixIs
    <3>3. x = <<0>>
      BY <1>6, <2>3
    <3>4. h = 1 /\ x[1] = 0
      BY <3>3 DEF h
    <3>5. Byte(n, at(t) + 1 - 1) = 0 /\ at(t) + 1 - 1 = at(t)
      <4>1. at(t) + 1 - 1 = at(t) /\ 1 \in 1..h
        BY <1>13, <1>17, <3>4
      <4> QED
        BY <2>2, <3>4, <4>1
    <3> QED
      BY <2>1, <3>2, <3>4, <3>5 DEF NameIn, f
  <2>4. CASE t <= Len(v)
    <3>1. k \in K /\ k.name = Suffix(v, t) /\ K \subseteq L
      BY <1>3, <1>4, <2>4
    <3>2. x = <<192, k.at>>
      BY <1>6, <2>4
    <3>3. h = 2 /\ x[1] = 192 /\ x[2] = k.at
      BY <3>2 DEF h
    <3>4. at(t) + 1 - 1 = at(t) /\ at(t) + 2 - 1 = at(t) + 1 /\ 1 \in 1..h /\ 2 \in 1..h
      BY <1>13, <1>17, <3>3
    <3>5. Byte(n, at(t)) = 192 /\ Byte(n, at(t) + 1) = k.at
      BY <2>2, <3>3, <3>4
    <3> QED
      BY <2>1, <3>1, <3>3, <3>5 DEF NameIn, f
  <2> QED
    <3>1. t > Len(v) \/ t <= Len(v)
      BY <1>2, <1>4 DEF t
    <3> QED
      BY <2>3, <2>4, <3>1
<1>20. ASSUME NEW i \in 1..t PROVE NameIn(n, L, at(i), Suffix(v, i), f)
  <2>1. CASE i = t
    BY <1>19, <2>1
  <2>2. CASE i # t
    <3>1. i \in 1..(t - 1)
      BY <1>4, <2>2 DEF t
    <3>2. at(i) \in HEADER_LENGTH..(f - 1) /\ f \in Nat /\ f <= f
      BY <1>18, <1>13, <3>1 DEF HEADER_LENGTH
    <3>3. \E j \in L : j.name = Suffix(v, i) /\ j.at = at(i) /\ j.after = f
      BY <1>12, <3>1 DEF f
    <3> QED
      BY <3>2, <3>3 DEF NameIn, f
  <2> QED
    BY <2>1, <2>2
<1>21. ASSUME NEW i \in 1..(t - 1) PROVE FitsAt(n, L, NewKnown(d, v, c, i))
  <2> DEFINE j == NewKnown(d, v, c, i)
  <2>1. j.name = Suffix(v, i) /\ j.at = at(i) /\ j.after = f
    BY <1>12 DEF f
  <2>2. i \in 1..Len(v) /\ i + 1 \in 1..t
    BY <1>2, <1>4 DEF t
  <2>3. j.name[1] = v[i] /\ Tail(j.name) = Suffix(v, i + 1)
    BY <1>2, <2>1, <2>2, SuffixIs
  <2>4. NameIn(n, L, at(i) + 1 + Len(v[i]), Suffix(v, i + 1), f)
    <3>1. NameIn(n, L, at(i + 1), Suffix(v, i + 1), f)
      BY <1>20, <2>2
    <3> QED
      BY <1>18, <3>1
  <2>5. at(i) \in HEADER_LENGTH..255 /\ f <= f
    <3>1. f <= 256
      BY DEF f, n, MAX_MESSAGE
    <3>2. at(i) \in 12..(f - 1)
      BY <1>18
    <3>3. \A y \in 12..(f - 1) : y \in 12..255
      BY <1>13, <3>1
    <3>4. f <= f
      BY <1>13
    <3> QED
      BY <3>2, <3>3, <3>4 DEF HEADER_LENGTH
  <2> HIDE DEF j
  <2> QED
    BY <1>18, <2>1, <2>3, <2>4, <2>5 DEF FitsAt, j, f
<1>22. \A j \in K : FitsAt(n, L, j)
  <2>1. K \subseteq L
    BY <1>3
  <2> QED
    BY <1>1, <1>8, <2>1, FitsKept
<1>23. Fits(n, L)
  <2>1. L \subseteq KnownName
    BY <1>3 DEF Draft, L
  <2>2. \A j \in L : FitsAt(n, L, j)
    BY <1>3, <1>21, <1>22
  <2> QED
    BY <2>1, <2>2 DEF Fits
<1>24. NameIn(n, L, End(d), v, End(n))
  <2>1. NameIn(n, L, at(1), Suffix(v, 1), f)
    <3>1. 1 \in 1..t
      BY <1>4 DEF t
    <3> QED
      BY <1>20, <3>1
  <2>2. at(1) = End(d)
    BY <1>17 DEF z
  <2>3. Suffix(v, 1) = v
    BY <1>2, SuffixIs
  <2> QED
    BY <2>1, <2>2, <2>3 DEF f
<1>25. K \subseteq L
  BY <1>3
<1> QED
  BY <1>3, <1>6, <1>8, <1>23, <1>24, <1>25 DEF Good, n, L, K, b

-----------------------------------------------------------------------------
(* Questions and records in a message.                                     *)

QuestionIn(m, K, o, q, next) ==
  \E e \in Nat :
    /\ NameIn(m, K, o, q.name, e)
    /\ Ntohs(m, e) = q.type /\ Ntohs(m, e + 2) = q.class
    /\ next = e + 4 /\ next <= End(m)

RecordIn(m, K, o, r, next) ==
  \E e \in Nat :
    /\ NameIn(m, K, o, r.owner, e)
    /\ Ntohs(m, e) = r.type /\ Ntohs(m, e + 2) = CLASS_IN
    /\ next \in Nat /\ Ntohs(m, e + 8) = next - (e + 10) /\ e + 10 <= next /\ next <= End(m)
    /\ r.type \notin NameTypes => Bytes(m, e + 10, next - (e + 10)) = r.data
    /\ r.type \in NameTypes => NameIn(m, K, e + 10, r.target, next)

LEMMA KeepsOn ==
  ASSUME NEW m, NEW n, NEW p, Keeps(m, n), Keeps(n, p)
  PROVE  Keeps(m, p)
<1>1. \A o \in Nat : o < End(m) => o < End(n)
  BY DEF Keeps
<1> QED
  BY <1>1 DEF Keeps

LEMMA NtohsKept ==
  ASSUME NEW m, NEW n, Keeps(m, n), NEW o \in Nat, o + 2 <= End(m)
  PROVE  Ntohs(n, o) = Ntohs(m, o)
<1>1. o < End(m) /\ o + 1 < End(m) /\ o + 1 \in Nat
  BY DEF Keeps
<1> QED
  BY <1>1 DEF Keeps, Ntohs

LEMMA BytesKept ==
  ASSUME NEW m, NEW n, Keeps(m, n), NEW o \in Nat, NEW k \in Nat, o + k <= End(m)
  PROVE  Bytes(n, o, k) = Bytes(m, o, k)
<1>1. \A i \in 1..k : Byte(n, o + i - 1) = Byte(m, o + i - 1)
  <2> SUFFICES ASSUME NEW i \in 1..k PROVE Byte(n, o + i - 1) = Byte(m, o + i - 1)
    OBVIOUS
  <2>1. o + i - 1 \in Nat /\ o + i - 1 < End(m)
    BY DEF Keeps
  <2> QED
    BY <2>1 DEF Keeps
<1> QED
  BY <1>1 DEF Bytes

LEMMA QuestionKept ==
  ASSUME NEW m, NEW n, Keeps(m, n), NEW K, NEW L, K \subseteq L, NEW o, NEW q, NEW next,
         QuestionIn(m, K, o, q, next)
  PROVE  QuestionIn(n, L, o, q, next)
<1>1. PICK e \in Nat :
        /\ NameIn(m, K, o, q.name, e)
        /\ Ntohs(m, e) = q.type /\ Ntohs(m, e + 2) = q.class
        /\ next = e + 4 /\ next <= End(m)
  BY DEF QuestionIn
<1>2. NameIn(n, L, o, q.name, e)
  BY <1>1, NameKept
<1>3. e + 2 \in Nat /\ e + 2 <= End(m) /\ e + 2 + 2 <= End(m) /\ next <= End(n)
  BY <1>1 DEF Keeps
<1>4. Ntohs(n, e) = Ntohs(m, e) /\ Ntohs(n, e + 2) = Ntohs(m, e + 2)
  BY <1>3, NtohsKept
<1> QED
  BY <1>1, <1>2, <1>3, <1>4 DEF QuestionIn

LEMMA RecordKept ==
  ASSUME NEW m, NEW n, Keeps(m, n), NEW K, NEW L, K \subseteq L, NEW o, NEW r, NEW next,
         RecordIn(m, K, o, r, next)
  PROVE  RecordIn(n, L, o, r, next)
<1>1. PICK e \in Nat :
        /\ NameIn(m, K, o, r.owner, e)
        /\ Ntohs(m, e) = r.type /\ Ntohs(m, e + 2) = CLASS_IN
        /\ next \in Nat /\ Ntohs(m, e + 8) = next - (e + 10) /\ e + 10 <= next /\ next <= End(m)
        /\ r.type \notin NameTypes => Bytes(m, e + 10, next - (e + 10)) = r.data
        /\ r.type \in NameTypes => NameIn(m, K, e + 10, r.target, next)
  BY DEF RecordIn
<1>2. NameIn(n, L, o, r.owner, e) /\ (r.type \in NameTypes => NameIn(n, L, e + 10, r.target, next))
  BY <1>1, NameKept
<1>3. /\ e + 2 \in Nat /\ e + 8 \in Nat /\ e + 2 <= End(m) /\ e + 2 + 2 <= End(m)
      /\ e + 8 + 2 <= End(m) /\ next <= End(n)
      /\ e + 10 \in Nat /\ next - (e + 10) \in Nat /\ (e + 10) + (next - (e + 10)) <= End(m)
  BY <1>1 DEF Keeps
<1>4. /\ Ntohs(n, e) = Ntohs(m, e) /\ Ntohs(n, e + 2) = Ntohs(m, e + 2)
      /\ Ntohs(n, e + 8) = Ntohs(m, e + 8)
  BY <1>3, NtohsKept
<1>5. Bytes(n, e + 10, next - (e + 10)) = Bytes(m, e + 10, next - (e + 10))
  BY <1>3, BytesKept
<1> QED
  BY <1>1, <1>2, <1>3, <1>4, <1>5 DEF RecordIn

\* A number of two bytes.
High(x) == x \div 256
Low(x) == x % 256

LEMMA SmallIsShort ==
  CLASS_IN \in Short /\ QTYPE_A \in Short /\ \A n \in 0..300 : n \in Short
<1>1. \A m, n \in Nat : n <= m => n \in 0..m
  OBVIOUS
<1>2. MAX_SHORT \in Nat /\ \A n \in 0..300 : n <= MAX_SHORT
  BY DEF MAX_SHORT
<1>3. \A n \in 0..300 : n \in Nat
  OBVIOUS
<1>4. \A n \in 0..300 : n \in Short
  BY <1>1, <1>2, <1>3, Zenon DEF Short
<1>5. CLASS_IN \in 0..300 /\ QTYPE_A \in 0..300
  BY DEF CLASS_IN, QTYPE_A
<1> QED
  BY <1>4, <1>5

LEMMA HalvesOf ==
  ASSUME NEW x \in Short
  PROVE  High(x) \in 0..255 /\ Low(x) \in 0..255 /\ 256 * High(x) + Low(x) = x
<1>1. \A y \in Nat : y = (y \div 256) * 256 + (y % 256)
  OBVIOUS
<1>2. \A y \in Nat : y % 256 \in 0..255
  OBVIOUS
<1>3. \A y \in Nat : y \div 256 \in Int
  OBVIOUS
<1>4. x \in Nat /\ x <= 65535
  BY DEF Short, MAX_SHORT
<1>5. x = High(x) * 256 + Low(x) /\ Low(x) \in 0..255 /\ High(x) \in Int
  BY <1>1, <1>4, <1>2, <1>3 DEF High, Low
<1>6. \A a1 \in Int, b1 \in 0..255 : a1 * 256 + b1 \in Nat /\ a1 * 256 + b1 <= 65535 => a1 \in 0..255
  OBVIOUS
<1>7. High(x) \in 0..255
  BY <1>5, <1>6, <1>4
<1>8. \A a1 \in Int, b1 \in 0..255 : a1 * 256 + b1 = 256 * a1 + b1
  OBVIOUS
<1>9. 256 * High(x) + Low(x) = x
  BY <1>5, <1>8
<1> QED
  BY <1>5, <1>7, <1>9

\* What is written at the end.
LEMMA ShortWritten ==
  ASSUME NEW m, NEW n, m.data \in Seq(Octet), NEW x \in Short, n.data = m.data \o Htons(x)
  PROVE  /\ n.data \in Seq(Octet) /\ Keeps(m, n) /\ End(m) \in Nat /\ End(n) = End(m) + 2
         /\ Ntohs(n, End(m)) = x
<1>1. High(x) \in Octet /\ Low(x) \in Octet /\ 256 * High(x) + Low(x) = x
  BY HalvesOf DEF Octet
<1>0. Htons(x) = <<High(x), Low(x)>>
  BY Zenon DEF Htons, High, Low
<1>2. /\ Htons(x) \in Seq(Octet) /\ Len(Htons(x)) = 2
      /\ Htons(x)[1] = High(x) /\ Htons(x)[2] = Low(x)
  BY <1>0, <1>1
<1>3. /\ n.data \in Seq(Octet) /\ End(m) \in Nat /\ End(n) = End(m) + Len(Htons(x))
      /\ Keeps(m, n)
      /\ \A j \in 1..Len(Htons(x)) : Byte(n, End(m) + j - 1) = Htons(x)[j]
  BY <1>2, LongerKeeps
<1>4. 1 \in 1..2 /\ 2 \in 1..2 /\ End(m) + 1 - 1 = End(m) /\ End(m) + 2 - 1 = End(m) + 1
  BY <1>3
<1>5. Byte(n, End(m)) = High(x) /\ Byte(n, End(m) + 1) = Low(x)
  BY <1>2, <1>3, <1>4
<1>6. Ntohs(n, End(m)) = x
  BY <1>1, <1>5 DEF Ntohs
<1>7. End(n) = End(m) + 2
  BY <1>2, <1>3
<1> QED
  BY <1>3, <1>6, <1>7

LEMMA BytesWritten ==
  ASSUME NEW m, NEW n, m.data \in Seq(Octet), NEW x \in Seq(Octet), n.data = m.data \o x
  PROVE  /\ n.data \in Seq(Octet) /\ Keeps(m, n) /\ End(m) \in Nat /\ End(n) = End(m) + Len(x)
         /\ Bytes(n, End(m), Len(x)) = x
<1>1. /\ n.data \in Seq(Octet) /\ End(m) \in Nat /\ End(n) = End(m) + Len(x) /\ Len(x) \in Nat
      /\ Keeps(m, n)
      /\ \A j \in 1..Len(x) : Byte(n, End(m) + j - 1) = x[j]
  BY LongerKeeps
<1>2. /\ Bytes(n, End(m), Len(x)) \in Seq(Octet) /\ Len(Bytes(n, End(m), Len(x))) = Len(x)
      /\ \A j \in 1..Len(x) : Bytes(n, End(m), Len(x))[j] = Byte(n, End(m) + j - 1)
  <2>1. End(m) \in Int /\ Len(x) \in Nat
    BY <1>1
  <2> QED
    BY <1>1, <2>1, BytesType
<1>3. Bytes(n, End(m), Len(x)) = x
  BY <1>1, <1>2, SeqEqual
<1> QED
  BY <1>1, <1>3

\* What a record has between its name and its data.
HeadIs(m, n, t, z, l) ==
  /\ m.data \in Seq(Octet) /\ z \in Seq(Octet) /\ Len(z) = 4
  /\ n.data = m.data \o Htons(t) \o Htons(CLASS_IN) \o z \o Htons(l)

LEMMA HeadWritten ==
  ASSUME NEW m, NEW n, NEW t \in Short, NEW l \in Short, NEW z, HeadIs(m, n, t, z, l)
  PROVE  /\ n.data \in Seq(Octet) /\ Keeps(m, n) /\ End(m) \in Nat /\ End(n) = End(m) + 10
         /\ Ntohs(n, End(m)) = t /\ Ntohs(n, End(m) + 2) = CLASS_IN /\ Ntohs(n, End(m) + 8) = l
<1> DEFINE a == [data |-> m.data \o Htons(t)]
           b == [data |-> a.data \o Htons(CLASS_IN)]
           c == [data |-> b.data \o z]
<1>0. m.data \in Seq(Octet) /\ z \in Seq(Octet) /\ Len(z) = 4
  BY DEF HeadIs
<1>1. /\ a.data = m.data \o Htons(t) /\ b.data = a.data \o Htons(CLASS_IN) /\ c.data = b.data \o z
      /\ n.data = c.data \o Htons(l)
  BY DEF HeadIs
<1> HIDE DEF a, b, c
<1>2. /\ a.data \in Seq(Octet) /\ Keeps(m, a) /\ End(m) \in Nat /\ End(a) = End(m) + 2
      /\ Ntohs(a, End(m)) = t
  BY <1>0, <1>1, ShortWritten
<1>3. CLASS_IN \in Short
  BY SmallIsShort
<1>4. b.data \in Seq(Octet) /\ Keeps(a, b) /\ End(b) = End(a) + 2 /\ Ntohs(b, End(a)) = CLASS_IN
  BY <1>1, <1>2, <1>3, ShortWritten
<1>5. c.data \in Seq(Octet) /\ Keeps(b, c) /\ End(c) = End(b) + 4
  BY <1>0, <1>1, <1>4, BytesWritten
<1>6. n.data \in Seq(Octet) /\ Keeps(c, n) /\ End(n) = End(c) + 2 /\ Ntohs(n, End(c)) = l
  BY <1>1, <1>5, ShortWritten
<1>7. Keeps(b, n) /\ Keeps(a, n) /\ Keeps(m, n)
  BY <1>2, <1>4, <1>5, <1>6, KeepsOn
<1>8. /\ End(a) = End(m) + 2 /\ End(b) = End(m) + 4 /\ End(c) = End(m) + 8 /\ End(n) = End(m) + 10
      /\ End(m) + 2 \in Nat /\ End(m) + 2 <= End(a) /\ End(m) + 2 + 2 <= End(b)
  BY <1>2, <1>4, <1>5, <1>6
<1>9. Ntohs(n, End(m)) = t
  BY <1>2, <1>7, <1>8, NtohsKept
<1>10. Ntohs(n, End(m) + 2) = CLASS_IN
  BY <1>4, <1>7, <1>8, NtohsKept
<1>11. Ntohs(n, End(m) + 8) = l
  BY <1>6, <1>8
<1> QED
  BY <1>2, <1>6, <1>7, <1>8, <1>9, <1>10, <1>11

LEMMA GoodLonger ==
  ASSUME NEW d, Good(d), NEW e \in Draft, e.data \in Seq(Octet), e.known = d.known, Keeps(d, e)
  PROVE  Good(e)
<1>1. Fits(d, d.known)
  BY DEF Good
<1>2. \A k \in d.known : FitsAt(e, d.known, k)
  BY <1>1, FitsKept
<1> QED
  BY <1>1, <1>2 DEF Good, Fits

-----------------------------------------------------------------------------
(* A question and a record in a draft.                                     *)

\* A draft whose data is longer is a draft.
LEMMA HtonsIs ==
  ASSUME NEW x \in Nat
  PROVE  Htons(x) \in Seq(Nat) /\ Len(Htons(x)) = 2
<1>1. \A y \in Nat : y \div 256 \in Nat
  OBVIOUS
<1>2. \A y \in Nat : y % 256 \in Nat
  OBVIOUS
<1>3. \A a, b \in Nat : <<a, b>> \in Seq(Nat) /\ Len(<<a, b>>) = 2
  OBVIOUS
<1> QED
  BY <1>1, <1>2, <1>3, Zenon DEF Htons

LEMMA LongerEnd ==
  ASSUME NEW m, NEW n, m.data \in Seq(Nat), NEW x \in Seq(Nat), n.data = m.data \o x
  PROVE  /\ n.data \in Seq(Nat) /\ End(m) \in Nat /\ End(n) = End(m) + Len(x) /\ Len(x) \in Nat
         /\ End(n) \in Nat /\ End(m) <= End(n)
<1>1. \A a, b \in Seq(Nat) : a \o b \in Seq(Nat) /\ Len(a \o b) = Len(a) + Len(b) /\ Len(a) \in Nat
  BY ConcatProperties, LenProperties
<1>2. n.data \in Seq(Nat) /\ Len(n.data) = Len(m.data) + Len(x) /\ Len(m.data) \in Nat /\ Len(x) \in Nat
  BY <1>1
<1> QED
  BY <1>2 DEF End, HEADER_LENGTH

LEMMA ShortsLonger ==
  ASSUME NEW m, NEW n, m.data \in Seq(Nat), NEW s \in Nat, NEW t \in Nat,
         n.data = m.data \o Htons(s) \o Htons(t)
  PROVE  n.data \in Seq(Nat) /\ End(n) \in Nat /\ End(m) <= End(n)
<1> DEFINE a == [data |-> m.data \o Htons(s)]
<1>1. a.data = m.data \o Htons(s) /\ n.data = a.data \o Htons(t)
  OBVIOUS
<1> HIDE DEF a
<1>2. a.data \in Seq(Nat) /\ End(a) \in Nat /\ End(m) \in Nat /\ End(m) <= End(a)
  BY <1>1, HtonsIs, LongerEnd
<1>3. n.data \in Seq(Nat) /\ End(n) \in Nat /\ End(a) <= End(n)
  BY <1>1, <1>2, HtonsIs, LongerEnd
<1> QED
  BY <1>2, <1>3

LEMMA QuestionTyped ==
  ASSUME NEW q \in Question
  PROVE  q.name \in HostName /\ q.type \in Short /\ q.class \in Short
BY DEF Question

LEMMA ShortIsNat == \A x \in Short : x \in Nat
BY DEF Short, MAX_SHORT

LEMMA QuestionDraft ==
  ASSUME NEW d \in Draft, NEW q \in Question, NEW c
  PROVE  /\ WithQuestion(d, q, c) \in Draft
         /\ WithQuestion(d, q, c).data =
              WithName(d, q.name, c).data \o Htons(q.type) \o Htons(q.class)
         /\ WithQuestion(d, q, c).known = WithName(d, q.name, c).known
         /\ WithQuestion(d, q, c).starts = Append(d.starts, End(d))
         /\ WithQuestion(d, q, c).records = d.records
         /\ End(d) \in Nat /\ End(WithQuestion(d, q, c)) \in Nat
         /\ End(d) <= End(WithName(d, q.name, c))
         /\ End(WithName(d, q.name, c)) \in Nat
         /\ End(WithName(d, q.name, c)) <= End(WithQuestion(d, q, c))
<1> DEFINE n == WithName(d, q.name, c)
           e == WithQuestion(d, q, c)
           s == Append(d.starts, End(d))
<1>1. q.name \in HostName /\ q.type \in Nat /\ q.class \in Nat
  BY QuestionTyped, ShortIsNat
<1>2. /\ n \in Draft /\ n.starts = d.starts /\ n.records = d.records
      /\ End(d) \in Nat /\ End(n) \in Nat /\ End(d) <= End(n)
  BY <1>1, WithNameIs
<1>3. e = [n EXCEPT !.data = @ \o Htons(q.type) \o Htons(q.class), !.starts = Append(@, End(d))]
  BY DEF WithQuestion
<1> HIDE DEF n, e
<1>4. /\ n.data \in Seq(Nat) /\ n.known \in SUBSET KnownName /\ d.starts \in Seq(Nat)
      /\ d.records \in Seq(Record)
  BY <1>2 DEF Draft
<1>5. s \in Seq(Nat)
  BY <1>2, <1>4, AppendProperties
<1> HIDE DEF s
<1>6. /\ e.data = n.data \o Htons(q.type) \o Htons(q.class) /\ e.known = n.known
      /\ e.starts = s /\ e.records = d.records
      /\ e = [data |-> e.data, known |-> e.known, starts |-> e.starts, records |-> e.records]
  BY <1>2, <1>3 DEF s, Draft
<1>7. e.data \in Seq(Nat) /\ End(e) \in Nat /\ End(n) <= End(e)
  BY <1>1, <1>4, <1>6, ShortsLonger
<1>8. e \in Draft
  BY <1>4, <1>5, <1>6, <1>7 DEF Draft
<1> QED
  BY <1>2, <1>6, <1>7, <1>8 DEF n, e, s

LEMMA QuestionWritten ==
  ASSUME NEW d, Good(d), NEW q \in Question, NEW c, End(WithQuestion(d, q, c)) <= MAX_MESSAGE
  PROVE  /\ Good(WithQuestion(d, q, c)) /\ Keeps(d, WithQuestion(d, q, c))
         /\ d.known \subseteq WithQuestion(d, q, c).known
         /\ QuestionIn(WithQuestion(d, q, c), WithQuestion(d, q, c).known, End(d), q,
                       End(WithQuestion(d, q, c)))
<1> DEFINE n == WithName(d, q.name, c)
           e == WithQuestion(d, q, c)
           a == [data |-> n.data \o Htons(q.type)]
<1>1. q.name \in HostName /\ q.type \in Short /\ q.class \in Short /\ d \in Draft
  BY QuestionTyped DEF Good
<1>2. /\ e \in Draft /\ e.data = n.data \o Htons(q.type) \o Htons(q.class)
      /\ e.known = n.known /\ End(e) \in Nat /\ End(n) \in Nat /\ End(n) <= End(e)
  BY <1>1, QuestionDraft
<1>3. End(n) <= MAX_MESSAGE
  BY <1>2 DEF MAX_MESSAGE
<1>4. /\ Good(n) /\ Keeps(d, n) /\ d.known \subseteq n.known
      /\ NameIn(n, n.known, End(d), q.name, End(n))
  BY <1>1, <1>3, NameWritten
<1>5. a.data = n.data \o Htons(q.type) /\ e.data = a.data \o Htons(q.class)
  BY <1>2
<1> HIDE DEF n, e, a
<1>6. n.data \in Seq(Octet)
  BY <1>4 DEF Good
<1>7. a.data \in Seq(Octet) /\ Keeps(n, a) /\ End(a) = End(n) + 2 /\ Ntohs(a, End(n)) = q.type
  BY <1>1, <1>5, <1>6, ShortWritten
<1>8. e.data \in Seq(Octet) /\ Keeps(a, e) /\ End(e) = End(a) + 2 /\ Ntohs(e, End(a)) = q.class
  BY <1>1, <1>5, <1>7, ShortWritten
<1>9. Keeps(n, e) /\ Keeps(d, e)
  BY <1>4, <1>7, <1>8, KeepsOn
<1>10. Ntohs(e, End(n)) = q.type
  <2>1. End(n) + 2 <= End(a)
    BY <1>2, <1>7
  <2> QED
    BY <1>2, <1>7, <1>8, <2>1, NtohsKept
<1>11. Good(e)
  BY <1>2, <1>4, <1>8, <1>9, GoodLonger
<1>12. NameIn(e, e.known, End(d), q.name, End(n))
  BY <1>2, <1>4, <1>9, NameKept
<1>13. End(e) = End(n) + 4 /\ End(a) = End(n) + 2 /\ End(e) <= End(e)
  BY <1>2, <1>7, <1>8
<1>14. Ntohs(e, End(n) + 2) = q.class
  BY <1>8, <1>13
<1>15. QuestionIn(e, e.known, End(d), q, End(e))
  BY <1>2, <1>10, <1>12, <1>13, <1>14 DEF QuestionIn
<1> QED
  BY <1>2, <1>4, <1>9, <1>11, <1>15 DEF e

\* What WithRecord writes: the owner, then the type and the length of the
\* data, then the data.
RecordData(d, r, c) ==
  IF r.type \in NameTypes THEN NameBytes(r.target, WithName(d, r.owner, c).known, c) ELSE r.data
RecordHead(d, r, c) ==
  [WithName(d, r.owner, c) EXCEPT
     !.data = @ \o Htons(r.type) \o Htons(CLASS_IN) \o <<0, 0, 0, 9>>
                \o Htons(Len(RecordData(d, r, c)))]
RecordWhole(d, r, c) ==
  IF r.type \in NameTypes THEN WithName(RecordHead(d, r, c), r.target, c)
  ELSE [RecordHead(d, r, c) EXCEPT !.data = @ \o RecordData(d, r, c)]

LEMMA TypesAre == NameTypes \subseteq Short /\ QTYPE_A \in Short \ NameTypes
  BY SmallIsShort DEF NameTypes, QTYPE_CNAME, QTYPE_A

LEMMA RecordTyped ==
  ASSUME NEW r \in Record
  PROVE  /\ r.owner \in HostName /\ r.type \in Short
         /\ r.type \notin NameTypes => r.data \in Seq(Octet)
         /\ r.type = QTYPE_A => Len(r.data) = 4
         /\ r.type \in NameTypes => r.target \in HostName
<1>1. \A n \in Nat : \A a \in [1..n -> Octet] : a \in Seq(Octet) /\ Len(a) = n
  OBVIOUS
<1>2. CASE r \in [owner : HostName, type : NameTypes, target : HostName]
  BY <1>2, TypesAre
<1>3. CASE r \in [owner : HostName, type : {QTYPE_A}, data : [1..4 -> 0..255]]
  <2>1. r.owner \in HostName /\ r.type = QTYPE_A /\ r.data \in [1..4 -> 0..255]
    BY <1>3
  <2>2. r.data \in Seq(Octet) /\ Len(r.data) = 4
    BY <1>1, <2>1 DEF Octet
  <2> QED
    BY <2>1, <2>2, TypesAre
<1>4. CASE r \in [owner : HostName, type : Short \ (NameTypes \cup {QTYPE_A}), data : Seq(0..255)]
  BY <1>4 DEF Octet
<1> QED
  BY <1>2, <1>3, <1>4 DEF Record

LEMMA OctetsAreNat == Seq(Octet) \subseteq Seq(Nat)
<1>1. Octet \subseteq Nat
  BY DEF Octet
<1> QED
  BY <1>1, SeqMonotonic

LEMMA HeadLonger ==
  ASSUME NEW m, NEW n, m.data \in Seq(Nat), NEW t \in Nat, NEW l \in Nat,
         n.data = m.data \o Htons(t) \o Htons(CLASS_IN) \o <<0, 0, 0, 9>> \o Htons(l)
  PROVE  n.data \in Seq(Nat) /\ End(n) \in Nat /\ End(m) <= End(n)
<1> DEFINE a == [data |-> m.data \o Htons(t) \o Htons(CLASS_IN)]
           b == [data |-> a.data \o <<0, 0, 0, 9>>]
<1>1. /\ a.data = m.data \o Htons(t) \o Htons(CLASS_IN) /\ b.data = a.data \o <<0, 0, 0, 9>>
      /\ n.data = b.data \o Htons(l)
  OBVIOUS
<1>2. CLASS_IN \in Nat /\ <<0, 0, 0, 9>> \in Seq(Nat)
  BY DEF CLASS_IN
<1> HIDE DEF a, b
<1>3. a.data \in Seq(Nat) /\ End(a) \in Nat /\ End(m) <= End(a)
  BY <1>1, <1>2, ShortsLonger
<1>4. b.data \in Seq(Nat) /\ End(b) \in Nat /\ End(a) <= End(b)
  BY <1>1, <1>2, <1>3, LongerEnd
<1>5. n.data \in Seq(Nat) /\ End(n) \in Nat /\ End(b) <= End(n)
  BY <1>1, <1>4, HtonsIs, LongerEnd
<1>6. End(m) \in Nat
  <2>1. Len(m.data) \in Nat
    BY LenProperties
  <2> QED
    BY <2>1 DEF End, HEADER_LENGTH
<1> QED
  BY <1>3, <1>4, <1>5, <1>6

LEMMA RecordDraft ==
  ASSUME NEW d \in Draft, NEW r \in Record, NEW c
  PROVE  /\ WithRecord(d, r, c) \in Draft
         /\ WithName(d, r.owner, c) \in Draft /\ RecordHead(d, r, c) \in Draft
         /\ RecordWhole(d, r, c) \in Draft
         /\ RecordHead(d, r, c).data =
              WithName(d, r.owner, c).data \o Htons(r.type) \o Htons(CLASS_IN) \o <<0, 0, 0, 9>>
                \o Htons(Len(RecordData(d, r, c)))
         /\ RecordHead(d, r, c).known = WithName(d, r.owner, c).known
         /\ RecordWhole(d, r, c).data = RecordHead(d, r, c).data \o RecordData(d, r, c)
         /\ r.type \notin NameTypes => RecordWhole(d, r, c).known = RecordHead(d, r, c).known
         /\ WithRecord(d, r, c).data = RecordWhole(d, r, c).data
         /\ WithRecord(d, r, c).known = RecordWhole(d, r, c).known
         /\ WithRecord(d, r, c).starts = Append(d.starts, End(d))
         /\ WithRecord(d, r, c).records = Append(d.records, r)
         /\ End(d) \in Nat /\ End(WithName(d, r.owner, c)) \in Nat
         /\ End(RecordHead(d, r, c)) \in Nat /\ End(WithRecord(d, r, c)) \in Nat
         /\ End(d) <= End(WithName(d, r.owner, c))
         /\ End(WithName(d, r.owner, c)) <= End(RecordHead(d, r, c))
         /\ End(RecordHead(d, r, c)) <= End(WithRecord(d, r, c))
<1> DEFINE n == WithName(d, r.owner, c)
           x == RecordData(d, r, c)
           h == RecordHead(d, r, c)
           w == RecordWhole(d, r, c)
           e == WithRecord(d, r, c)
           s == Append(d.starts, End(d))
           p == Append(d.records, r)
<1>1. /\ r.owner \in HostName /\ r.type \in Nat
      /\ r.type \notin NameTypes => r.data \in Seq(Octet)
      /\ r.type \in NameTypes => r.target \in HostName
  BY RecordTyped, ShortIsNat
<1>2. /\ n \in Draft /\ n.starts = d.starts /\ n.records = d.records
      /\ End(d) \in Nat /\ End(n) \in Nat /\ End(d) <= End(n)
  BY <1>1, WithNameIs
<1>3. h = [n EXCEPT !.data = @ \o Htons(r.type) \o Htons(CLASS_IN) \o <<0, 0, 0, 9>> \o Htons(Len(x))]
  BY DEF RecordHead
<1>4. w = IF r.type \in NameTypes THEN WithName(h, r.target, c) ELSE [h EXCEPT !.data = @ \o x]
  BY DEF RecordWhole
<1>5. e = [w EXCEPT !.starts = Append(@, End(d)), !.records = Append(@, r)]
  BY Zenon DEF WithRecord, RecordHead, RecordWhole, RecordData
<1>6. /\ r.type \notin NameTypes => x = r.data
      /\ r.type \in NameTypes => x = NameBytes(r.target, n.known, c)
  BY DEF RecordData
<1> HIDE DEF n, x, h, w, e
<1>7. /\ n.data \in Seq(Nat) /\ n.known \in SUBSET KnownName /\ d.starts \in Seq(Nat)
      /\ d.records \in Seq(Record)
  BY <1>2 DEF Draft
<1>8. x \in Seq(Nat) /\ Len(x) \in Nat
  <2>1. x \in Seq(Nat)
    <3>1. r.type \in NameTypes => NameBytes(r.target, n.known, c) \in Seq(Nat)
      BY <1>1, <1>7, NameBytesIs
    <3> QED
      BY <1>1, <1>6, <3>1, OctetsAreNat
  <2> QED
    BY <2>1, LenProperties
<1>9. /\ h.data = n.data \o Htons(r.type) \o Htons(CLASS_IN) \o <<0, 0, 0, 9>> \o Htons(Len(x))
      /\ h.known = n.known /\ h.starts = d.starts /\ h.records = d.records
      /\ h = [data |-> h.data, known |-> h.known, starts |-> h.starts, records |-> h.records]
  BY <1>2, <1>3 DEF Draft
<1>10. h.data \in Seq(Nat) /\ End(h) \in Nat /\ End(n) <= End(h)
  BY <1>1, <1>7, <1>8, <1>9, HeadLonger
<1>11. h \in Draft
  BY <1>7, <1>9, <1>10 DEF Draft
<1>12. /\ w.data = h.data \o x /\ w \in Draft /\ w.starts = d.starts /\ w.records = d.records
       /\ r.type \notin NameTypes => w.known = h.known
       /\ End(w) \in Nat /\ End(h) <= End(w)
  <2>1. CASE r.type \notin NameTypes
    <3>1. w = [h EXCEPT !.data = @ \o x]
      BY <1>4, <2>1
    <3>2. /\ w.data = h.data \o x /\ w.known = h.known /\ w.starts = h.starts
          /\ w.records = h.records
          /\ w = [data |-> w.data, known |-> w.known, starts |-> w.starts, records |-> w.records]
      BY <1>11, <3>1 DEF Draft
    <3>3. w.data \in Seq(Nat) /\ End(w) \in Nat /\ End(h) <= End(w)
      BY <1>8, <1>10, <3>2, LongerEnd
    <3>4. w \in Draft
      BY <1>7, <1>9, <3>2, <3>3 DEF Draft
    <3> QED
      BY <1>9, <3>2, <3>3, <3>4
  <2>2. CASE r.type \in NameTypes
    <3>1. w = WithName(h, r.target, c) /\ x = NameBytes(r.target, h.known, c)
      BY <1>4, <1>6, <1>9, <2>2
    <3> QED
      BY <1>1, <1>9, <1>11, <2>2, <3>1, WithNameIs
  <2> QED
    BY <2>1, <2>2
<1>13. s \in Seq(Nat) /\ p \in Seq(Record)
  BY <1>2, <1>7, AppendProperties
<1> HIDE DEF s, p
<1>14. /\ e.data = w.data /\ e.known = w.known /\ e.starts = s /\ e.records = p /\ e \in Draft
  BY <1>5, <1>12, <1>13 DEF Draft, s, p
<1>15. End(e) = End(w)
  BY <1>14 DEF End
<1> QED
  BY <1>2, <1>9, <1>10, <1>11, <1>12, <1>14, <1>15 DEF n, x, h, w, e, s, p

LEMMA RecordWritten ==
  ASSUME NEW d, Good(d), NEW r \in Record, NEW c, End(WithRecord(d, r, c)) <= MAX_MESSAGE
  PROVE  /\ Good(WithRecord(d, r, c)) /\ Keeps(d, WithRecord(d, r, c))
         /\ d.known \subseteq WithRecord(d, r, c).known
         /\ RecordIn(WithRecord(d, r, c), WithRecord(d, r, c).known, End(d), r,
                     End(WithRecord(d, r, c)))
<1> DEFINE n == WithName(d, r.owner, c)
           x == RecordData(d, r, c)
           h == RecordHead(d, r, c)
           w == RecordWhole(d, r, c)
           e == WithRecord(d, r, c)
<1>0. d \in Draft
  BY DEF Good
<1>1. /\ r.owner \in HostName /\ r.type \in Short
      /\ r.type \notin NameTypes => r.data \in Seq(Octet)
      /\ r.type \in NameTypes => r.target \in HostName
  BY RecordTyped
<1>2. /\ e \in Draft /\ n \in Draft /\ h \in Draft /\ w \in Draft
      /\ h.data = n.data \o Htons(r.type) \o Htons(CLASS_IN) \o <<0, 0, 0, 9>> \o Htons(Len(x))
      /\ h.known = n.known /\ w.data = h.data \o x
      /\ r.type \notin NameTypes => w.known = h.known
      /\ e.data = w.data /\ e.known = w.known
      /\ End(d) \in Nat /\ End(n) \in Nat /\ End(h) \in Nat /\ End(e) \in Nat
      /\ End(d) <= End(n) /\ End(n) <= End(h) /\ End(h) <= End(e)
  BY <1>0, RecordDraft, Zenon
<1>3. /\ r.type \notin NameTypes => x = r.data
      /\ r.type \in NameTypes => x = NameBytes(r.target, h.known, c) /\ w = WithName(h, r.target, c)
  BY <1>2, Zenon DEF RecordData, RecordWhole
<1>4. End(n) <= MAX_MESSAGE /\ End(h) <= MAX_MESSAGE
  <2> HIDE DEF n, h, e
  <2>1. End(e) <= MAX_MESSAGE
    BY DEF e
  <2> QED
    BY <1>2, <2>1 DEF MAX_MESSAGE
<1>5. /\ Good(n) /\ Keeps(d, n) /\ d.known \subseteq n.known
      /\ NameIn(n, n.known, End(d), r.owner, End(n))
  BY <1>1, <1>4, NameWritten
<1>6. End(e) <= MAX_MESSAGE
  OBVIOUS
<1> HIDE DEF n, x, h, w, e
<1>7. End(w) = End(e) /\ n.data \in Seq(Octet)
  BY <1>2, <1>5 DEF End, Good
<1>8. x \in Seq(Nat) /\ Len(x) \in Nat /\ End(e) = End(h) + Len(x)
  <2>1. h.data \in Seq(Nat) /\ h.known \in SUBSET KnownName
    BY <1>2 DEF Draft
  <2>2. x \in Seq(Nat)
    <3>1. r.type \in NameTypes => NameBytes(r.target, h.known, c) \in Seq(Nat)
      BY <1>1, <2>1, NameBytesIs
    <3> QED
      BY <1>1, <1>3, <3>1, OctetsAreNat
  <2> QED
    BY <1>2, <1>7, <2>1, <2>2, LongerEnd
<1>9. Len(x) \in Short
  <2>1. /\ End(h) \in Nat /\ End(e) \in Nat /\ Len(x) \in Nat /\ End(e) = End(h) + Len(x)
        /\ End(e) <= 256
    BY <1>2, <1>6, <1>8, Zenon DEF MAX_MESSAGE
  <2>2. \A i, j, k \in Nat : j = i + k /\ j <= 256 => k \in 0..300
    OBVIOUS
  <2>3. Len(x) \in 0..300
    BY <2>1, <2>2, Zenon
  <2> QED
    BY <2>3, SmallIsShort
<1>10. /\ h.data \in Seq(Octet) /\ Keeps(n, h) /\ End(h) = End(n) + 10
       /\ Ntohs(h, End(n)) = r.type /\ Ntohs(h, End(n) + 2) = CLASS_IN
       /\ Ntohs(h, End(n) + 8) = Len(x)
  <2>1. <<0, 0, 0, 9>> \in Seq(Octet) /\ Len(<<0, 0, 0, 9>>) = 4
    <3>1. 0 \in Octet /\ 9 \in Octet
      BY DEF Octet
    <3>2. \A a, b \in Octet : <<a, a, a, b>> \in Seq(Octet) /\ Len(<<a, a, a, b>>) = 4
      OBVIOUS
    <3> QED
      BY <3>1, <3>2
  <2> DEFINE z == <<0, 0, 0, 9>>
  <2>2. h.data = n.data \o Htons(r.type) \o Htons(CLASS_IN) \o z \o Htons(Len(x))
    BY <1>2, Zenon
  <2>3. z \in Seq(Octet) /\ Len(z) = 4
    BY <2>1, Zenon
  <2> HIDE DEF z
  <2>4. HeadIs(n, h, r.type, z, Len(x))
    BY <1>7, <2>2, <2>3, Zenon DEF HeadIs
  <2> QED
    BY <1>1, <1>9, <2>4, HeadWritten, Zenon
<1>11. Good(h)
  BY <1>2, <1>5, <1>10, GoodLonger
<1>12. /\ Good(w) /\ Keeps(h, w) /\ h.known \subseteq w.known
       /\ r.type \notin NameTypes => Bytes(w, End(h), Len(x)) = r.data
       /\ r.type \in NameTypes => NameIn(w, w.known, End(h), r.target, End(w))
  <2>1. CASE r.type \notin NameTypes
    <3>1. x \in Seq(Octet) /\ x = r.data /\ w.known = h.known
      BY <1>1, <1>2, <1>3, <2>1
    <3>2. /\ w.data \in Seq(Octet) /\ Keeps(h, w) /\ Bytes(w, End(h), Len(x)) = x
      BY <1>2, <1>10, <3>1, BytesWritten
    <3>3. Good(w)
      BY <1>2, <1>11, <3>1, <3>2, GoodLonger
    <3> QED
      BY <2>1, <3>1, <3>2, <3>3
  <2>2. CASE r.type \in NameTypes
    <3>1. w = WithName(h, r.target, c) /\ r.target \in HostName /\ End(w) <= MAX_MESSAGE
      BY <1>1, <1>3, <1>6, <1>7, <2>2
    <3>2. /\ Good(w) /\ Keeps(h, w) /\ h.known \subseteq w.known
          /\ NameIn(w, w.known, End(h), r.target, End(w))
      BY <1>11, <3>1, NameWritten
    <3> QED
      BY <2>2, <3>2
  <2> QED
    BY <2>1, <2>2
<1>13. Keeps(w, e) /\ w.data \in Seq(Octet)
  <2>1. \A o : Byte(e, o) = Byte(w, o)
    BY <1>2 DEF Byte, End
  <2> QED
    BY <1>2, <1>7, <1>12, <2>1 DEF Keeps, Good
<1>14. Good(e)
  BY <1>2, <1>12, <1>13, GoodLonger
<1>15. Keeps(h, e) /\ Keeps(n, e) /\ Keeps(d, e) /\ d.known \subseteq e.known /\ n.known \subseteq e.known
  <2>1. Keeps(h, e)
    BY <1>12, <1>13, KeepsOn
  <2>2. Keeps(n, e)
    BY <1>10, <2>1, KeepsOn
  <2>3. Keeps(d, e)
    BY <1>5, <2>2, KeepsOn
  <2> QED
    BY <1>2, <1>5, <1>12, <2>1, <2>2, <2>3
<1>16. NameIn(e, e.known, End(d), r.owner, End(n))
  BY <1>5, <1>15, NameKept
<1> DEFINE o == End(n)
           l == Len(x)
           f == End(e)
<1>17. o \in Nat /\ l \in Nat /\ f = o + 10 + l /\ End(h) = o + 10 /\ f - (o + 10) = l
  <2>1. o \in Nat /\ l \in Nat /\ End(h) = o + 10 /\ f = End(h) + l
    BY <1>2, <1>8, <1>10, Zenon
  <2> HIDE DEF o, l, f
  <2> QED
    BY <2>1
<1>18. /\ Ntohs(e, o) = r.type /\ Ntohs(e, o + 2) = CLASS_IN /\ Ntohs(e, o + 8) = l
  <2>1. /\ o + 2 \in Nat /\ o + 8 \in Nat /\ o + 2 <= End(h) /\ (o + 2) + 2 <= End(h)
        /\ (o + 8) + 2 <= End(h)
    BY <1>17
  <2> QED
    BY <1>10, <1>15, <1>17, <2>1, NtohsKept
<1>19. /\ r.type \notin NameTypes => Bytes(e, o + 10, f - (o + 10)) = r.data
       /\ r.type \in NameTypes => NameIn(e, e.known, o + 10, r.target, f)
  <2>1. Bytes(e, End(h), l) = Bytes(w, End(h), l)
    <3>1. End(h) + l <= End(w) /\ End(h) \in Nat
      BY <1>2, <1>7, <1>8
    <3> QED
      BY <1>13, <1>17, <3>1, BytesKept
  <2>2. r.type \in NameTypes => NameIn(e, e.known, End(h), r.target, End(w))
    BY <1>2, <1>12, <1>13, NameKept
  <2> QED
    BY <1>7, <1>12, <1>17, <2>1, <2>2
<1>20. RecordIn(e, e.known, End(d), r, f)
  <2>1. f \in Nat /\ o + 10 <= f /\ f <= End(e) /\ Ntohs(e, o + 8) = f - (o + 10)
    <3>1. Ntohs(e, o + 8) = l /\ f = End(e)
      BY <1>18
    <3> HIDE DEF o, l, f
    <3>2. f \in Nat /\ o + 10 <= f /\ f <= f
      BY <1>17
    <3> QED
      BY <1>17, <3>1, <3>2
  <2> HIDE DEF f, l
  <2> QED
    BY <1>16, <1>17, <1>18, <1>19, <2>1 DEF RecordIn
<1> QED
  BY <1>14, <1>15, <1>20 DEF e, f

-----------------------------------------------------------------------------
(* A whole message: its questions, then its answers, each where the one    *)
(* before it ends.                                                         *)

\* An answer to AAAA is of type A, and longer.
AnyAddress == {a \in Seq(Octet) : Len(a) \in {4, 16}}
Reply == Record \cup [owner : HostName, type : {QTYPE_A}, data : AnyAddress]

StartOf(m, starts, i) == IF i <= Len(starts) THEN starts[i] ELSE End(m)
Layout(m, K, qs, rs, starts) ==
  /\ m.data \in Seq(Octet) /\ Fits(m, K)
  /\ qs \in Seq(Question) /\ rs \in Seq(Reply) /\ starts \in Seq(Nat)
  /\ Len(starts) = Len(qs) + Len(rs)
  /\ StartOf(m, starts, 1) = HEADER_LENGTH
  /\ \A i \in 1..Len(qs) :
       QuestionIn(m, K, StartOf(m, starts, i), qs[i], StartOf(m, starts, i + 1))
  /\ \A i \in 1..Len(rs) :
       RecordIn(m, K, StartOf(m, starts, Len(qs) + i), rs[i], StartOf(m, starts, Len(qs) + i + 1))

\* One more begins where the message has ended.
LEMMA StartsLonger ==
  ASSUME NEW m, NEW n, NEW starts \in Seq(Nat), End(m) \in Nat
  PROVE  /\ Append(starts, End(m)) \in Seq(Nat) /\ Len(Append(starts, End(m))) = Len(starts) + 1
         /\ Len(starts) \in Nat
         /\ \A i \in 1..(Len(starts) + 1) :
              StartOf(n, Append(starts, End(m)), i) = StartOf(m, starts, i)
         /\ StartOf(m, starts, Len(starts) + 1) = End(m)
         /\ StartOf(n, Append(starts, End(m)), Len(starts) + 2) = End(n)
<1> DEFINE s == Append(starts, End(m))
           l == Len(starts)
<1>1. /\ s \in Seq(Nat) /\ Len(s) = l + 1 /\ l \in Nat
      /\ \A i \in 1..l : s[i] = starts[i]
      /\ s[l + 1] = End(m)
  BY AppendProperties, LenProperties
<1> HIDE DEF s
<1>2. ASSUME NEW i \in 1..(l + 1) PROVE StartOf(n, s, i) = StartOf(m, starts, i)
  <2>1. CASE i = l + 1
    BY <1>1, <2>1 DEF StartOf
  <2>2. CASE i # l + 1
    <3>1. i \in 1..l
      BY <1>1, <2>2
    <3> QED
      BY <1>1, <3>1 DEF StartOf
  <2> QED
    BY <2>1, <2>2
<1>3. StartOf(m, starts, l + 1) = End(m)
  BY <1>1 DEF StartOf
<1>4. StartOf(n, s, l + 2) = End(n)
  BY <1>1 DEF StartOf
<1> QED
  BY <1>1, <1>2, <1>3, <1>4 DEF s

LEMMA LayoutQuestion ==
  ASSUME NEW m, NEW n, NEW K, NEW L, NEW qs, NEW starts, NEW q \in Question,
         Layout(m, K, qs, << >>, starts), n.data \in Seq(Octet), Fits(n, L), K \subseteq L,
         Keeps(m, n), QuestionIn(n, L, End(m), q, End(n))
  PROVE  Layout(n, L, Append(qs, q), << >>, Append(starts, End(m)))
<1> DEFINE s == Append(starts, End(m))
           l == Len(starts)
           p == Append(qs, q)
<1>1. /\ qs \in Seq(Question) /\ starts \in Seq(Nat) /\ << >> \in Seq(Reply)
      /\ Len(starts) = Len(qs) + Len(<< >>) /\ StartOf(m, starts, 1) = HEADER_LENGTH
      /\ \A i \in 1..Len(qs) :
           QuestionIn(m, K, StartOf(m, starts, i), qs[i], StartOf(m, starts, i + 1))
  BY DEF Layout
<1>2. l = Len(qs) /\ l \in Nat /\ Len(<< >>) = 0
  <2>1. Len(qs) \in Nat /\ Len(<< >>) = 0
    BY <1>1, LenProperties, EmptySeq
  <2> QED
    BY <1>1, <2>1
<1>3. /\ s \in Seq(Nat) /\ Len(s) = l + 1
      /\ \A i \in 1..(l + 1) : StartOf(n, s, i) = StartOf(m, starts, i)
      /\ StartOf(m, starts, l + 1) = End(m) /\ StartOf(n, s, l + 2) = End(n)
  <2>1. End(m) \in Nat
    BY DEF Keeps
  <2> QED
    BY <1>1, <2>1, StartsLonger
<1>4. /\ p \in Seq(Question) /\ Len(p) = l + 1
      /\ \A i \in 1..l : p[i] = qs[i]
      /\ p[l + 1] = q
  BY <1>1, <1>2, AppendProperties
<1> HIDE DEF s, p, l
<1>5. ASSUME NEW i \in 1..(l + 1)
      PROVE  QuestionIn(n, L, StartOf(n, s, i), p[i], StartOf(n, s, i + 1))
  <2>1. CASE i = l + 1
    <3>1. i \in 1..(l + 1) /\ i + 1 = l + 2
      BY <1>2, <2>1
    <3>2. StartOf(n, s, i) = End(m) /\ p[i] = q /\ StartOf(n, s, i + 1) = End(n)
      BY <1>3, <1>4, <2>1, <3>1
    <3> QED
      BY <3>2
  <2>2. CASE i # l + 1
    <3>1. i \in 1..l /\ i + 1 \in 1..(l + 1) /\ i \in 1..Len(qs)
      BY <1>2, <2>2
    <3>2. QuestionIn(m, K, StartOf(m, starts, i), qs[i], StartOf(m, starts, i + 1))
      BY <1>1, <3>1
    <3>3. /\ StartOf(n, s, i) = StartOf(m, starts, i) /\ p[i] = qs[i]
          /\ StartOf(n, s, i + 1) = StartOf(m, starts, i + 1)
      BY <1>3, <1>4, <3>1
    <3> QED
      BY <3>2, <3>3, QuestionKept
  <2> QED
    BY <2>1, <2>2
<1>6. StartOf(n, s, 1) = HEADER_LENGTH
  <2>1. 1 \in 1..(l + 1)
    BY <1>2
  <2> QED
    BY <1>1, <1>3, <2>1
<1>7. Len(s) = Len(p) + Len(<< >>) /\ \A i \in 1..Len(<< >>) : FALSE
  BY <1>2, <1>3, <1>4
<1>8. \A i \in 1..Len(p) : QuestionIn(n, L, StartOf(n, s, i), p[i], StartOf(n, s, i + 1))
  BY <1>4, <1>5
<1>9. \A r : \A i \in 1..Len(<< >>) :
        RecordIn(n, L, StartOf(n, s, Len(p) + i), r[i], StartOf(n, s, Len(p) + i + 1))
  BY <1>7
<1>10. Layout(n, L, p, << >>, s)
  BY <1>1, <1>3, <1>4, <1>6, <1>7, <1>8, <1>9, Zenon DEF Layout
<1> QED
  BY <1>10 DEF s, p

LEMMA LayoutRecord ==
  ASSUME NEW m, NEW n, NEW K, NEW L, NEW qs, NEW rs, NEW starts, NEW r \in Reply,
         Layout(m, K, qs, rs, starts), n.data \in Seq(Octet), Fits(n, L), K \subseteq L,
         Keeps(m, n), RecordIn(n, L, End(m), r, End(n))
  PROVE  Layout(n, L, qs, Append(rs, r), Append(starts, End(m)))
<1> DEFINE s == Append(starts, End(m))
           l == Len(starts)
           a == Len(qs)
           b == Len(rs)
           p == Append(rs, r)
<1>1. /\ qs \in Seq(Question) /\ starts \in Seq(Nat) /\ rs \in Seq(Reply)
      /\ l = a + b /\ StartOf(m, starts, 1) = HEADER_LENGTH
      /\ \A i \in 1..a :
           QuestionIn(m, K, StartOf(m, starts, i), qs[i], StartOf(m, starts, i + 1))
      /\ \A i \in 1..b :
           RecordIn(m, K, StartOf(m, starts, a + i), rs[i], StartOf(m, starts, a + i + 1))
  BY DEF Layout
<1>2. a \in Nat /\ b \in Nat /\ l \in Nat
  BY <1>1, LenProperties
<1>3. /\ s \in Seq(Nat) /\ Len(s) = l + 1
      /\ \A i \in 1..(l + 1) : StartOf(n, s, i) = StartOf(m, starts, i)
      /\ StartOf(m, starts, l + 1) = End(m) /\ StartOf(n, s, l + 2) = End(n)
  <2>1. End(m) \in Nat
    BY DEF Keeps
  <2> QED
    BY <1>1, <2>1, StartsLonger
<1>4. /\ p \in Seq(Reply) /\ Len(p) = b + 1
      /\ \A i \in 1..b : p[i] = rs[i]
      /\ p[b + 1] = r
  BY <1>1, <1>2, AppendProperties
<1> HIDE DEF s, p, l, a, b
<1>5. ASSUME NEW i \in 1..(b + 1)
      PROVE  RecordIn(n, L, StartOf(n, s, a + i), p[i], StartOf(n, s, a + i + 1))
  <2>1. CASE i = b + 1
    <3>1. a + i = l + 1 /\ a + i + 1 = l + 2 /\ a + i \in 1..(l + 1)
      BY <1>1, <1>2, <2>1
    <3>2. StartOf(n, s, a + i) = End(m) /\ p[i] = r /\ StartOf(n, s, a + i + 1) = End(n)
      BY <1>3, <1>4, <2>1, <3>1
    <3> QED
      BY <3>2
  <2>2. CASE i # b + 1
    <3>1. i \in 1..b /\ a + i \in 1..(l + 1) /\ a + i + 1 \in 1..(l + 1)
      BY <1>1, <1>2, <2>2
    <3>2. RecordIn(m, K, StartOf(m, starts, a + i), rs[i], StartOf(m, starts, a + i + 1))
      BY <1>1, <3>1
    <3>3. /\ StartOf(n, s, a + i) = StartOf(m, starts, a + i) /\ p[i] = rs[i]
          /\ StartOf(n, s, a + i + 1) = StartOf(m, starts, a + i + 1)
      BY <1>3, <1>4, <3>1
    <3> QED
      BY <3>2, <3>3, RecordKept
  <2> QED
    BY <2>1, <2>2
<1>6. ASSUME NEW i \in 1..a
      PROVE  QuestionIn(n, L, StartOf(n, s, i), qs[i], StartOf(n, s, i + 1))
  <2>1. i \in 1..(l + 1) /\ i + 1 \in 1..(l + 1)
    BY <1>1, <1>2
  <2>2. QuestionIn(m, K, StartOf(m, starts, i), qs[i], StartOf(m, starts, i + 1))
    BY <1>1
  <2>3. StartOf(n, s, i) = StartOf(m, starts, i) /\ StartOf(n, s, i + 1) = StartOf(m, starts, i + 1)
    BY <1>3, <2>1
  <2> QED
    BY <2>2, <2>3, QuestionKept
<1>7. StartOf(n, s, 1) = HEADER_LENGTH
  <2>1. 1 \in 1..(l + 1)
    BY <1>2
  <2> QED
    BY <1>1, <1>3, <2>1
<1>8. Len(s) = Len(qs) + Len(p)
  BY <1>1, <1>2, <1>3, <1>4 DEF a
<1>9. \A i \in 1..Len(p) : RecordIn(n, L, StartOf(n, s, Len(qs) + i), p[i], StartOf(n, s, Len(qs) + i + 1))
  BY <1>4, <1>5 DEF a
<1>10. \A i \in 1..Len(qs) : QuestionIn(n, L, StartOf(n, s, i), qs[i], StartOf(n, s, i + 1))
  BY <1>6 DEF a
<1>11. Layout(n, L, qs, p, s)
  BY <1>1, <1>3, <1>4, <1>7, <1>8, <1>9, <1>10, Zenon DEF Layout
<1> QED
  BY <1>11 DEF s, p

-----------------------------------------------------------------------------
(* Reading them.                                                           *)

LEMMA QuestionReads ==
  ASSUME NEW m, NEW K, m.data \in Seq(Octet), Fits(m, K), NEW q \in Question,
         NEW o, NEW next, QuestionIn(m, K, o, q, next)
  PROVE  /\ o \in Nat /\ next \in Nat /\ o <= next /\ next <= End(m)
         /\ GetName(m, o).size \in Nat /\ GetName(m, o).size # -1
         /\ o + GetName(m, o).size + QUESTION_BASE = next
         /\ LabelsAt(m, o) = q.name
         /\ QuestionAt(m, o).domain = TextOf(q.name)
         /\ QuestionAt(m, o).type = q.type /\ QuestionAt(m, o).class = q.class
         /\ \E k \in K : k.name = q.name /\ k.at = QuestionAt(m, o).offset
<1>1. PICK e \in Nat :
        /\ NameIn(m, K, o, q.name, e)
        /\ Ntohs(m, e) = q.type /\ Ntohs(m, e + 2) = q.class
        /\ next = e + 4 /\ next <= End(m)
  BY DEF QuestionIn
<1>2. o \in HEADER_LENGTH..(e - 1)
  BY <1>1 DEF NameIn
<1>3. o \in Nat /\ o <= e /\ next \in Nat /\ o <= next
  BY <1>1, <1>2 DEF HEADER_LENGTH
<1>4. q.name \in HostName
  BY QuestionTyped
<1> DEFINE g == GetName(m, o)
<1>5. /\ g.text = TextOf(q.name) /\ g.size \in Nat /\ g.size # -1 /\ o + g.size = e
      /\ \E k \in K : k.name = q.name /\ k.at = g.offset
      /\ LabelsAt(m, o) = q.name
  <2> DEFINE v == q.name
  <2>1. v \in HostName /\ NameIn(m, K, o, v, e) /\ o \in Nat
    BY <1>1, <1>3, <1>4
  <2> HIDE DEF v
  <2>2. /\ g.text = TextOf(v) /\ g.size \in Nat /\ g.size # -1 /\ o + g.size = e
        /\ LabelsAt(m, o) = v
    BY <2>1, GetNameReads
  <2>3. \E k \in K : k.name = v /\ k.at = g.offset
    BY <2>1, GetNameReads
  <2> QED
    BY <2>2, <2>3 DEF v
<1>6. QuestionAt(m, o) =
        [domain |-> g.text, offset |-> g.offset, type |-> Ntohs(m, o + g.size),
         class |-> Ntohs(m, o + g.size + 2)]
  BY DEF QuestionAt
<1> HIDE DEF g
<1>7. o + g.size + QUESTION_BASE = next
  BY <1>1, <1>3, <1>5 DEF QUESTION_BASE
<1>8. QuestionAt(m, o) = [domain |-> g.text, offset |-> g.offset, type |-> q.type, class |-> q.class]
  BY <1>1, <1>5, <1>6
<1> QED
  BY <1>1, <1>3, <1>5, <1>7, <1>8 DEF g

LEMMA ReplyTyped ==
  ASSUME NEW r \in Reply
  PROVE  /\ r.owner \in HostName /\ r.type \in Short
         /\ r.type = QTYPE_A => r.data \in AnyAddress
         /\ r.type \in NameTypes => r.target \in HostName
<1>1. CASE r \in Record
  <2>1. \A a : a \in Seq(Octet) /\ Len(a) = 4 => a \in AnyAddress
    BY DEF AnyAddress
  <2> QED
    BY <1>1, <2>1, RecordTyped, TypesAre
<1>2. CASE r \in [owner : HostName, type : {QTYPE_A}, data : AnyAddress]
  <2>1. QTYPE_A \in Short \ NameTypes
    BY TypesAre
  <2> QED
    BY <1>2, <2>1
<1> QED
  BY <1>1, <1>2 DEF Reply

\* The answer a is the record r, and the next one starts at next.
AnswerReads(m, a, r, next) ==
  /\ a.rdata + a.length = next
  /\ a.name = TextOf(r.owner) /\ a.type = r.type /\ a.class = CLASS_IN
  /\ r.type \notin NameTypes => Bytes(m, a.rdata, a.length) = r.data

LEMMA RecordReads ==
  ASSUME NEW m, NEW K, m.data \in Seq(Octet), Fits(m, K), NEW r \in Reply,
         NEW o, NEW next, RecordIn(m, K, o, r, next)
  PROVE  /\ o \in Nat /\ next \in Nat /\ o <= next /\ next <= End(m)
         /\ TRUE \in Failures(m, o) => r.type \notin NameTypes \cup {QTYPE_A}
         /\ AnswerReads(m, AnswerAt(m, o), r, next)
<1>1. PICK e \in Nat :
        /\ NameIn(m, K, o, r.owner, e)
        /\ Ntohs(m, e) = r.type /\ Ntohs(m, e + 2) = CLASS_IN
        /\ next \in Nat /\ Ntohs(m, e + 8) = next - (e + 10) /\ e + 10 <= next /\ next <= End(m)
        /\ r.type \notin NameTypes => Bytes(m, e + 10, next - (e + 10)) = r.data
        /\ r.type \in NameTypes => NameIn(m, K, e + 10, r.target, next)
  BY DEF RecordIn
<1>2. o \in HEADER_LENGTH..(e - 1)
  BY <1>1 DEF NameIn
<1>3. o \in Nat /\ o <= e /\ o <= next
  BY <1>1, <1>2 DEF HEADER_LENGTH
<1>4. r.owner \in HostName /\ (r.type \in NameTypes => r.target \in HostName)
  BY ReplyTyped
<1> DEFINE g == GetName(m, o)
           a == AnswerAt(m, o)
<1>5. g.text = TextOf(r.owner) /\ g.size \in Nat /\ g.size # -1 /\ o + g.size = e
  BY <1>1, <1>3, <1>4, GetNameReads
<1>6. a = [name |-> g.text, type |-> Ntohs(m, o + g.size), class |-> Ntohs(m, o + g.size + 2),
           length |-> Ntohs(m, o + g.size + 8), rdata |-> o + g.size + RDATA_HEADER]
  BY DEF AnswerAt, AnswerFrom
<1> HIDE DEF g, a
<1>7. a = [name |-> g.text, type |-> r.type, class |-> CLASS_IN,
           length |-> next - (e + 10), rdata |-> e + 10]
  BY <1>1, <1>5, <1>6 DEF RDATA_HEADER
<1>8. a.rdata + a.length = next
  BY <1>1, <1>7
<1>9. ASSUME r.type \in NameTypes PROVE TRUE \notin NameFails(m, a.rdata)
  <2>1. a.rdata = e + 10 /\ e + 10 \in Nat
    BY <1>7
  <2>2. r.target \in HostName /\ NameIn(m, K, e + 10, r.target, next) /\ next \in Nat
    BY <1>1, <1>4, <1>9
  <2>3. TRUE \notin NameFails(m, e + 10)
    BY <2>1, <2>2, NameIsRead
  <2> QED
    BY <2>1, <2>3
<1>10. TRUE \in Failures(m, o) => r.type \notin NameTypes \cup {QTYPE_A}
  <2>1. g.size # -1 /\ a.type = r.type /\ a.class = CLASS_IN
    BY <1>5, <1>7
  <2>2. Failures(m, o) =
          IF r.type = QTYPE_A \/ r.type = QTYPE_CNAME THEN {FALSE} ELSE NameFails(m, a.rdata)
    BY <2>1 DEF Failures, Is, g, a
  <2> SUFFICES ASSUME r.type \in NameTypes \cup {QTYPE_A} PROVE TRUE \notin Failures(m, o)
    OBVIOUS
  <2>3. CASE r.type = QTYPE_A \/ r.type = QTYPE_CNAME
    <3>1. Failures(m, o) = {FALSE}
      BY <2>2, <2>3
    <3> QED
      BY <3>1
  <2>4. CASE ~(r.type = QTYPE_A \/ r.type = QTYPE_CNAME)
    <3>1. Failures(m, o) = NameFails(m, a.rdata)
      BY <2>2, <2>4
    <3> QED
      BY <1>9, <2>4, <3>1
  <2> QED
    BY <2>3, <2>4
<1>11. AnswerReads(m, a, r, next)
  BY <1>1, <1>5, <1>7, <1>8 DEF AnswerReads
<1> QED
  BY <1>1, <1>3, <1>8, <1>10, <1>11 DEF a

-----------------------------------------------------------------------------
(* The questions of a query, one after the other.                          *)

LEMMA OneMore ==
  ASSUME NEW S, NEW s \in Seq(S), NEW n \in Nat, n + 1 <= Len(s)
  PROVE  /\ SubSeq(s, 1, n) \in Seq(S) /\ Len(SubSeq(s, 1, n)) = n
         /\ SubSeq(s, 1, n + 1) \in Seq(S) /\ Len(SubSeq(s, 1, n + 1)) = n + 1
         /\ s[n + 1] \in S
         /\ SubSeq(s, 1, n + 1) = Append(SubSeq(s, 1, n), s[n + 1])
<1> DEFINE u == SubSeq(s, 1, n + 1)
<1>1. Len(s) \in Nat /\ n + 1 \in Nat /\ n <= Len(s) /\ n + 1 \in 0..Len(s) /\ n \in 0..(n + 1)
      /\ n + 1 \in 1..(n + 1)
  BY LenProperties
<1>2. u \in Seq(S) /\ Len(u) = n + 1 /\ u[n + 1] = s[n + 1]
  BY <1>1, FirstProperties
<1>3. SubSeq(u, 1, n) = SubSeq(s, 1, n)
  BY <1>1, FirstOfFirst
<1> HIDE DEF u
<1>4. /\ SubSeq(u, 1, n) \in Seq(S) /\ Len(SubSeq(u, 1, n)) = n /\ u[n + 1] \in S
      /\ u = Append(SubSeq(u, 1, n), u[n + 1])
  BY <1>2, FrontAndLast
<1> QED
  BY <1>2, <1>3, <1>4 DEF u

DraftOf(qs, c, n, f) ==
  f = [i \in 0..n |-> IF i = 0 THEN Blank ELSE WithQuestion(f[i - 1], qs[i], c)]

LEMMA DraftExists ==
  ASSUME NEW qs, NEW c, NEW n \in Nat
  PROVE  \E f : DraftOf(qs, c, n, f)
<1> DEFINE G == {k \in Nat : \E f : DraftOf(qs, c, k, f)}
<1>1. 0 \in G
  <2> DEFINE f == [i \in 0..0 |-> Blank]
  <2>1. DraftOf(qs, c, 0, f)
    BY DEF DraftOf
  <2> QED
    BY <2>1
<1>2. ASSUME NEW k \in Nat, k \in G PROVE k + 1 \in G
  <2>1. PICK f : DraftOf(qs, c, k, f)
    BY <1>2
  <2> DEFINE h == [i \in 0..(k + 1) |-> IF i = k + 1 THEN WithQuestion(f[k], qs[k + 1], c) ELSE f[i]]
  <2>2. ASSUME NEW i \in 0..(k + 1)
        PROVE  h[i] = IF i = 0 THEN Blank ELSE WithQuestion(h[i - 1], qs[i], c)
    <3>1. CASE i = k + 1
      <4>1. i # 0 /\ i - 1 = k /\ k \in 0..(k + 1) /\ k # k + 1
        BY <3>1
      <4>2. h[i] = WithQuestion(f[k], qs[k + 1], c) /\ h[k] = f[k]
        BY <3>1, <4>1
      <4> HIDE DEF h
      <4> QED
        BY <3>1, <4>1, <4>2
    <3>2. CASE i # k + 1
      <4>1. i \in 0..k
        BY <3>2
      <4>2. f[i] = IF i = 0 THEN Blank ELSE WithQuestion(f[i - 1], qs[i], c)
        BY <2>1, <4>1 DEF DraftOf
      <4>3. h[i] = f[i] /\ (i # 0 => h[i - 1] = f[i - 1])
        BY <3>2, <4>1
      <4> HIDE DEF h
      <4> QED
        BY <4>2, <4>3
    <3> QED
      BY <3>1, <3>2
  <2>3. h = [i \in 0..(k + 1) |-> h[i]]
    OBVIOUS
  <2> HIDE DEF h
  <2>4. h = [i \in 0..(k + 1) |-> IF i = 0 THEN Blank ELSE WithQuestion(h[i - 1], qs[i], c)]
    BY <2>2, <2>3
  <2>5. DraftOf(qs, c, k + 1, h)
    BY <2>4 DEF DraftOf
  <2> QED
    BY <2>5
<1>3. n \in G
  BY <1>1, <1>2, Induction
<1> QED
  BY <1>3

LEMMA DraftsAre ==
  ASSUME NEW S, NEW qs \in Seq(S), NEW c
  PROVE  \E f : /\ f[0] = Blank
                /\ \A i \in 1..Len(qs) : f[i] = WithQuestion(f[i - 1], qs[i], c)
                /\ WithQuestions(qs, c) = f[Len(qs)]
<1> DEFINE f == CHOOSE g : g = [i \in 0..Len(qs) |->
                                  IF i = 0 THEN Blank ELSE WithQuestion(g[i - 1], qs[i], c)]
<1>1. Len(qs) \in Nat
  BY LenProperties
<1>2. WithQuestions(qs, c) = f[Len(qs)]
  BY Zenon DEF WithQuestions
<1>3. \E g : g = [i \in 0..Len(qs) |-> IF i = 0 THEN Blank ELSE WithQuestion(g[i - 1], qs[i], c)]
  <2>1. \E g : DraftOf(qs, c, Len(qs), g)
    BY <1>1, DraftExists
  <2> QED
    BY <2>1, Zenon DEF DraftOf
<1>4. f = [i \in 0..Len(qs) |-> IF i = 0 THEN Blank ELSE WithQuestion(f[i - 1], qs[i], c)]
  BY <1>3, Zenon
<1> HIDE DEF f
<1>5. f[0] = Blank
  BY <1>1, <1>4
<1>6. \A i \in 1..Len(qs) : f[i] = WithQuestion(f[i - 1], qs[i], c)
  BY <1>1, <1>4
<1> QED
  BY <1>2, <1>5, <1>6

LEMMA BlankIs ==
  /\ Good(Blank) /\ End(Blank) = HEADER_LENGTH /\ Blank.records = << >> /\ Blank.known = {}
  /\ Blank.starts = << >> /\ Layout(Blank, Blank.known, << >>, << >>, Blank.starts)
<1>1. /\ Blank.data = << >> /\ Blank.known = {} /\ Blank.starts = << >> /\ Blank.records = << >>
      /\ Blank = [data |-> << >>, known |-> {}, starts |-> << >>, records |-> << >>]
  BY DEF Blank
<1>2. Len(<< >>) = 0 /\ \A S : << >> \in Seq(S)
  BY EmptySeq
<1>3. End(Blank) = HEADER_LENGTH /\ HEADER_LENGTH \in Nat
  BY <1>1, <1>2 DEF End, HEADER_LENGTH
<1>4. Blank \in Draft
  BY <1>1, <1>2 DEF Draft
<1>5. Fits(Blank, Blank.known)
  BY <1>1 DEF Fits
<1>6. Blank.data \in Seq(Octet)
  BY <1>1, <1>2
<1>7. Good(Blank)
  BY <1>4, <1>5, <1>6 DEF Good
<1>8. StartOf(Blank, << >>, 1) = HEADER_LENGTH
  BY <1>2, <1>3 DEF StartOf
<1>9. \A i \in 1..Len(<< >>) : FALSE
  BY <1>2
<1>10. Len(<< >>) = Len(<< >>) + Len(<< >>)
  BY <1>2
<1>11. Layout(Blank, Blank.known, << >>, << >>, << >>)
  BY <1>2, <1>5, <1>6, <1>8, <1>9, <1>10, Zenon DEF Layout
<1> QED
  BY <1>1, <1>3, <1>7, <1>11

LEMMA QuestionsWritten ==
  ASSUME NEW qs \in Seq(Question), NEW c
  PROVE  /\ WithQuestions(qs, c) \in Draft /\ WithQuestions(qs, c).records = << >>
         /\ End(WithQuestions(qs, c)) \in Nat
         /\ Len(WithQuestions(qs, c).starts) = Len(qs)
         /\ End(WithQuestions(qs, c)) <= MAX_MESSAGE =>
              /\ Good(WithQuestions(qs, c))
              /\ Layout(WithQuestions(qs, c), WithQuestions(qs, c).known, qs, << >>,
                        WithQuestions(qs, c).starts)
<1>1. PICK f : /\ f[0] = Blank
               /\ \A i \in 1..Len(qs) : f[i] = WithQuestion(f[i - 1], qs[i], c)
               /\ WithQuestions(qs, c) = f[Len(qs)]
  BY DraftsAre
<1> DEFINE P(n) == /\ f[n] \in Draft /\ f[n].records = << >> /\ End(f[n]) \in Nat
                   /\ Len(f[n].starts) = n
                   /\ End(f[n]) <= MAX_MESSAGE =>
                        /\ Good(f[n])
                        /\ Layout(f[n], f[n].known, SubSeq(qs, 1, n), << >>, f[n].starts)
           G == {n \in Nat : n <= Len(qs) => P(n)}
<1>2. 0 \in G
  <2>1. SubSeq(qs, 1, 0) = << >>
    BY SubSeqEmpty
  <2>2. End(Blank) \in Nat /\ Blank \in Draft /\ Len(<< >>) = 0
    BY BlankIs, EmptySeq DEF HEADER_LENGTH, Good
  <2>3. P(0)
    BY <1>1, <2>1, <2>2, BlankIs
  <2> HIDE DEF P
  <2> QED
    BY <2>3
<1>3. ASSUME NEW n \in Nat, n \in G PROVE n + 1 \in G
  <2>1. SUFFICES ASSUME n + 1 <= Len(qs) PROVE P(n + 1)
    OBVIOUS
  <2>2. Len(qs) \in Nat /\ n <= Len(qs) /\ n + 1 \in 1..Len(qs) /\ (n + 1) - 1 = n
    BY <2>1, LenProperties
  <2> DEFINE d == f[n]
             q == qs[n + 1]
             e == f[n + 1]
             s == SubSeq(qs, 1, n)
  <2>3. /\ d \in Draft /\ d.records = << >> /\ Len(d.starts) = n
        /\ End(d) <= MAX_MESSAGE => Good(d) /\ Layout(d, d.known, s, << >>, d.starts)
    BY <1>3, <2>2
  <2>4. e = WithQuestion(d, q, c)
    BY <1>1, <2>2
  <2>5. q \in Question /\ SubSeq(qs, 1, n + 1) = Append(s, q) /\ s \in Seq(Question)
    BY <2>1, OneMore
  <2> HIDE DEF d, q, e, s
  <2>6. /\ e \in Draft /\ e.starts = Append(d.starts, End(d)) /\ e.records = d.records
        /\ End(d) \in Nat /\ End(e) \in Nat
        /\ End(d) <= End(WithName(d, q.name, c)) /\ End(WithName(d, q.name, c)) \in Nat
        /\ End(WithName(d, q.name, c)) <= End(e)
    BY <2>3, <2>4, <2>5, QuestionDraft
  <2>7. Len(e.starts) = n + 1
    BY <2>3, <2>6, AppendProperties DEF Draft
  <2>8. ASSUME End(e) <= MAX_MESSAGE
        PROVE  Good(e) /\ Layout(e, e.known, Append(s, q), << >>, e.starts)
    <3>1. End(d) <= MAX_MESSAGE
      BY <2>6, <2>8 DEF MAX_MESSAGE
    <3>2. Good(d) /\ Layout(d, d.known, s, << >>, d.starts)
      BY <2>3, <3>1
    <3>3. /\ Good(e) /\ Keeps(d, e) /\ d.known \subseteq e.known
          /\ QuestionIn(e, e.known, End(d), q, End(e))
      BY <2>4, <2>5, <2>8, <3>2, QuestionWritten
    <3>4. Layout(e, e.known, Append(s, q), << >>, Append(d.starts, End(d)))
      BY <2>5, <3>2, <3>3, LayoutQuestion DEF Good
    <3> QED
      BY <2>6, <3>3, <3>4
  <2>9. P(n + 1)
    BY <2>3, <2>5, <2>6, <2>7, <2>8 DEF e
  <2> QED
    BY <2>9
<1>4. Len(qs) \in Nat
  BY LenProperties
<1>5. P(Len(qs))
  <2> HIDE DEF P
  <2>1. Nat \subseteq G
    BY <1>2, <1>3, Induction
  <2> QED
    BY <1>4, <2>1
<1>6. SubSeq(qs, 1, Len(qs)) = qs
  BY SubSeqFull
<1> QED
  BY <1>1, <1>5, <1>6

-----------------------------------------------------------------------------
(* The packed query; lists of what is asked for and of addresses.          *)

\* Nothing is known yet: the name is written in full.
LEMMA PackIsDraft ==
  ASSUME NEW v \in HostName, NEW d \in TextsOf(v), NEW c, NEW q \in Question,
         q.name = v, q.type = QTYPE_A, q.class = CLASS_IN
  PROVE  Pack(d, QTYPE_A).data = WithQuestions(<<q>>, c).data
<1>1. v \in Seq(Label) /\ v # << >> /\ Len(v) \in 1..127
  BY HostNameType
<1>2. CString(DnsNameFormat(d)) = Wire(v) \o <<0>>
  BY <1>1, NamePacked
<1>3. Pack(d, QTYPE_A).data = (Wire(v) \o <<0>>) \o Htons(QTYPE_A) \o Htons(CLASS_IN)
  BY <1>2 DEF Pack
<1>4. <<q>> \in Seq(Question) /\ Len(<<q>>) = 1 /\ <<q>>[1] = q
  OBVIOUS
<1>5. WithQuestions(<<q>>, c) = WithQuestion(Blank, q, c)
  <2>1. PICK f : /\ f[0] = Blank
                 /\ \A i \in 1..Len(<<q>>) : f[i] = WithQuestion(f[i - 1], <<q>>[i], c)
                 /\ WithQuestions(<<q>>, c) = f[Len(<<q>>)]
    BY <1>4, DraftsAre
  <2>2. 1 \in 1..1 /\ 1 - 1 = 0
    OBVIOUS
  <2> QED
    BY <1>4, <2>1, <2>2
<1>6. Blank \in Draft /\ Blank.known = {} /\ Blank.data = << >>
  BY BlankIs DEF Good, Blank
<1>7. WithQuestion(Blank, q, c).data = WithName(Blank, v, c).data \o Htons(QTYPE_A) \o Htons(CLASS_IN)
  BY <1>6, QuestionDraft
<1>8. WithName(Blank, v, c).data = << >> \o NameBytes(v, {}, c)
  <2>1. WithName(Blank, v, c).data = Blank.data \o NameBytes(v, Blank.known, c)
    BY <1>6, WithNameIs
  <2> QED
    BY <1>6, <2>1, Zenon
<1>9. NameBytes(v, {}, c) = Wire(v) \o <<0>> /\ NameBytes(v, {}, c) \in Seq(Octet)
  <2>1. Stop(v, {}, c) \in 1..(Len(v) + 1) /\ ~(Stop(v, {}, c) <= Len(v))
    BY StopIs
  <2>2. Stop(v, {}, c) - 1 = Len(v) /\ Stop(v, {}, c) > Len(v)
    BY <1>1, <2>1
  <2>3. {} \in SUBSET KnownName /\ \A k \in {} : k.at \in 0..255
    OBVIOUS
  <2>4. /\ NameBytes(v, {}, c) = Wire(SubSeq(v, 1, Stop(v, {}, c) - 1)) \o NameEnd(v, {}, c)
        /\ NameEnd(v, {}, c) = <<0>> /\ NameBytes(v, {}, c) \in Seq(Octet)
    BY <2>2, <2>3, NameBytesIs
  <2>5. SubSeq(v, 1, Len(v)) = v
    BY <1>1, SubSeqFull
  <2> QED
    BY <2>2, <2>4, <2>5
<1>10. << >> \o NameBytes(v, {}, c) = NameBytes(v, {}, c)
  BY <1>9, OctetSeq
<1> QED
  BY <1>3, <1>5, <1>7, <1>8, <1>9, <1>10

-----------------------------------------------------------------------------

AskedOf(qs) == [i \in 1..Len(qs) |-> IF Asked(qs[i]) THEN <<qs[i]>> ELSE << >>]
AddressesOf(rs) == [i \in 1..Len(rs) |-> IF rs[i].type = QTYPE_A THEN <<rs[i].data>> ELSE << >>]

LEMMA AskedLonger ==
  ASSUME NEW qs \in Seq(Question), NEW q \in Question
  PROVE  /\ AskedIn(qs) \in Seq(Question)
         /\ AskedIn(Append(qs, q)) = IF Asked(q) THEN Append(AskedIn(qs), q) ELSE AskedIn(qs)
<1> DEFINE p == Append(qs, q)
           n == Len(qs)
           t == AskedOf(qs)
           v == AskedOf(p)
<1>1. /\ p \in Seq(Question) /\ Len(p) = n + 1 /\ n \in Nat /\ p[n + 1] = q
      /\ \A i \in 1..n : p[i] = qs[i]
  BY AppendProperties, LenProperties
<1>2. \A x \in Question : <<x>> \in Seq(Question)
  OBVIOUS
<1>3. << >> \in Seq(Question)
  BY EmptySeq
<1>4. t \in Seq(Seq(Question)) /\ Len(t) = n
  <2>1. \A i \in 1..n : qs[i] \in Question
    BY <1>1, ElementOfSeq
  <2>2. t \in [1..n -> Seq(Question)]
    BY <1>2, <1>3, <2>1 DEF AskedOf
  <2> HIDE DEF t, n
  <2> QED
    BY <1>1, <2>2, LenProperties
<1>5. v \in Seq(Seq(Question)) /\ Len(v) = n + 1
  <2>1. \A i \in 1..(n + 1) : p[i] \in Question
    BY <1>1, ElementOfSeq
  <2>2. v \in [1..(n + 1) -> Seq(Question)]
    BY <1>1, <1>2, <1>3, <2>1 DEF AskedOf
  <2> HIDE DEF v, n
  <2> QED
    BY <1>1, <2>2, LenProperties
<1>6. (\A i \in 1..n : v[i] = t[i]) /\ v[n + 1] = IF Asked(q) THEN <<q>> ELSE << >>
  BY <1>1 DEF AskedOf
<1>7. AskedIn(qs) = FlattenSeq(t) /\ AskedIn(p) = FlattenSeq(v)
  BY Zenon DEF AskedIn, AskedOf
<1> HIDE DEF t, v, p, n
<1>8. FlattenSeq(t) \in Seq(Question) /\ FlattenSeq(v) = FlattenSeq(t) \o v[n + 1]
  BY <1>1, <1>4, <1>5, <1>6, FlattenLonger
<1>9. AskedIn(p) = IF Asked(q) THEN Append(AskedIn(qs), q) ELSE AskedIn(qs)
  <2>1. CASE Asked(q)
    BY <1>6, <1>7, <1>8, <2>1, AppendIsConcat
  <2>2. CASE ~Asked(q)
    BY <1>6, <1>7, <1>8, <2>2, ConcatEmptySeq
  <2> QED
    BY <2>1, <2>2
<1> QED
  BY <1>7, <1>8, <1>9 DEF p

LEMMA AddressesLonger ==
  ASSUME NEW rs \in Seq(Reply), NEW r \in Reply
  PROVE  /\ AddressesIn(rs) \in Seq(AnyAddress)
         /\ AddressesIn(Append(rs, r)) =
              IF r.type = QTYPE_A THEN Append(AddressesIn(rs), r.data) ELSE AddressesIn(rs)
<1> DEFINE p == Append(rs, r)
           n == Len(rs)
           t == AddressesOf(rs)
           v == AddressesOf(p)
<1>1. /\ p \in Seq(Reply) /\ Len(p) = n + 1 /\ n \in Nat /\ p[n + 1] = r
      /\ \A i \in 1..n : p[i] = rs[i]
  BY AppendProperties, LenProperties
<1>2. \A x \in AnyAddress : <<x>> \in Seq(AnyAddress)
  OBVIOUS
<1>3. << >> \in Seq(AnyAddress)
  BY EmptySeq
<1>4. \A x \in Reply : x.type = QTYPE_A => <<x.data>> \in Seq(AnyAddress)
  BY <1>2, ReplyTyped
<1>5. t \in Seq(Seq(AnyAddress)) /\ Len(t) = n
  <2>1. \A i \in 1..n : rs[i] \in Reply
    BY <1>1, ElementOfSeq
  <2>2. t \in [1..n -> Seq(AnyAddress)]
    BY <1>4, <1>3, <2>1 DEF AddressesOf
  <2> HIDE DEF t, n
  <2> QED
    BY <1>1, <2>2, LenProperties
<1>6. v \in Seq(Seq(AnyAddress)) /\ Len(v) = n + 1
  <2>1. \A i \in 1..(n + 1) : p[i] \in Reply
    BY <1>1, ElementOfSeq
  <2>2. v \in [1..(n + 1) -> Seq(AnyAddress)]
    BY <1>1, <1>4, <1>3, <2>1 DEF AddressesOf
  <2> HIDE DEF v, n
  <2> QED
    BY <1>1, <2>2, LenProperties
<1>7. (\A i \in 1..n : v[i] = t[i]) /\ v[n + 1] = IF r.type = QTYPE_A THEN <<r.data>> ELSE << >>
  BY <1>1 DEF AddressesOf
<1>8. AddressesIn(rs) = FlattenSeq(t) /\ AddressesIn(p) = FlattenSeq(v)
  BY Zenon DEF AddressesIn, AddressesOf
<1> HIDE DEF t, v, p, n
<1>9. FlattenSeq(t) \in Seq(AnyAddress) /\ FlattenSeq(v) = FlattenSeq(t) \o v[n + 1]
  BY <1>1, <1>5, <1>6, <1>7, FlattenLonger
<1>10. AddressesIn(p) = IF r.type = QTYPE_A THEN Append(AddressesIn(rs), r.data) ELSE AddressesIn(rs)
  <2>1. CASE r.type = QTYPE_A
    <3>1. r.data \in AnyAddress
      BY <2>1, ReplyTyped
    <3> QED
      BY <1>7, <1>8, <1>9, <2>1, <3>1, AppendIsConcat
  <2>2. CASE r.type # QTYPE_A
    BY <1>7, <1>8, <1>9, <2>2, ConcatEmptySeq
  <2> QED
    BY <2>1, <2>2
<1> QED
  BY <1>8, <1>9, <1>10 DEF p

LEMMA NoneOfNone == AskedIn(<< >>) = << >> /\ AddressesIn(<< >>) = << >>
<1>1. Len(<< >>) = 0
  BY EmptySeq
<1>2. AskedOf(<< >>) = << >> /\ AddressesOf(<< >>) = << >>
  BY <1>1 DEF AskedOf, AddressesOf
<1>3. AskedIn(<< >>) = FlattenSeq(AskedOf(<< >>)) /\ AddressesIn(<< >>) = FlattenSeq(AddressesOf(<< >>))
  BY Zenon DEF AskedIn, AskedOf, AddressesIn, AddressesOf
<1> QED
  BY <1>2, <1>3, FlattenEmpty

LEMMA AskedType ==
  ASSUME NEW qs \in Seq(Question)
  PROVE  AskedIn(qs) \in Seq(Question) /\ Len(AskedIn(qs)) \in Nat
<1>1. CASE qs = << >>
  BY <1>1, NoneOfNone, EmptySeq
<1>2. CASE qs # << >>
  <2>1. 1 \in 1..Len(qs)
    <3>1. Len(qs) \in Nat \ {0}
      BY <1>2, EmptySeq
    <3> QED
      BY <3>1
  <2>2. qs[1] \in Question
    BY <2>1, ElementOfSeq
  <2>3. AskedIn(qs) \in Seq(Question)
    BY <2>2, AskedLonger
  <2> QED
    BY <2>3, LenProperties
<1> QED
  BY <1>1, <1>2

LEMMA AddressesType ==
  ASSUME NEW rs \in Seq(Reply)
  PROVE  AddressesIn(rs) \in Seq(AnyAddress)
<1>1. CASE rs = << >>
  BY <1>1, NoneOfNone, EmptySeq
<1>2. CASE rs # << >>
  <2>1. Len(rs) \in Nat \ {0}
    BY <1>2, EmptySeq
  <2>2. 1 \in 1..Len(rs)
    BY <2>1
  <2>3. rs[1] \in Reply
    BY <2>2, ElementOfSeq
  <2> QED
    BY <2>3, AddressesLonger
<1> QED
  BY <1>1, <1>2

\* Of records that are all addresses, every one.
LEMMA AllAddresses ==
  ASSUME NEW rs \in Seq(Reply), \A i \in 1..Len(rs) : rs[i].type = QTYPE_A
  PROVE  AddressesIn(rs) = [i \in 1..Len(rs) |-> rs[i].data]
<1> DEFINE F(n) == SubSeq(rs, 1, n)
           a(n) == AddressesIn(F(n))
           G == {n \in Nat : n <= Len(rs) =>
                   /\ a(n) \in Seq(AnyAddress) /\ Len(a(n)) = n
                   /\ \A i \in 1..n : a(n)[i] = rs[i].data}
<1>1. Len(rs) \in Nat
  BY LenProperties
<1>2. 0 \in G
  <2>1. a(0) = << >>
    <3>1. SubSeq(rs, 1, 0) = << >>
      BY SubSeqEmpty
    <3> QED
      BY <3>1, NoneOfNone
  <2>2. a(0) \in Seq(AnyAddress) /\ Len(a(0)) = 0
    BY <2>1, EmptySeq
  <2> HIDE DEF a
  <2> QED
    BY <2>2
<1>3. ASSUME NEW n \in Nat, n \in G PROVE n + 1 \in G
  <2>1. SUFFICES ASSUME n + 1 <= Len(rs)
                 PROVE  /\ a(n + 1) \in Seq(AnyAddress) /\ Len(a(n + 1)) = n + 1
                        /\ \A i \in 1..(n + 1) : a(n + 1)[i] = rs[i].data
    OBVIOUS
  <2>2. n <= Len(rs) /\ n + 1 \in 1..Len(rs)
    BY <1>1, <2>1
  <2>3. F(n) \in Seq(Reply) /\ rs[n + 1] \in Reply /\ F(n + 1) = Append(F(n), rs[n + 1])
    BY <2>1, OneMore
  <2>4. /\ a(n) \in Seq(AnyAddress) /\ Len(a(n)) = n
        /\ \A i \in 1..n : a(n)[i] = rs[i].data
    BY <1>3, <2>2
  <2>5. rs[n + 1].type = QTYPE_A
    BY <2>2
  <2>6. a(n + 1) = Append(a(n), rs[n + 1].data) /\ rs[n + 1].data \in AnyAddress
    BY <2>3, <2>5, AddressesLonger, ReplyTyped
  <2> DEFINE b == a(n)
             x == rs[n + 1].data
  <2>7. a(n + 1) = Append(b, x) /\ b \in Seq(AnyAddress) /\ x \in AnyAddress /\ Len(b) = n
    BY <2>4, <2>6
  <2>8. \A i \in 1..n : b[i] = rs[i].data
    BY <2>4
  <2> HIDE DEF a, b, x
  <2>9. /\ Append(b, x) \in Seq(AnyAddress) /\ Len(Append(b, x)) = n + 1
        /\ \A i \in 1..n : Append(b, x)[i] = b[i]
        /\ Append(b, x)[n + 1] = x
    BY <2>7, AppendProperties
  <2>10. a(n + 1) \in Seq(AnyAddress) /\ Len(a(n + 1)) = n + 1
    BY <2>7, <2>9
  <2>11. \A i \in 1..n : a(n + 1)[i] = rs[i].data
    BY <2>7, <2>8, <2>9
  <2>12. a(n + 1)[n + 1] = rs[n + 1].data
    BY <2>7, <2>9 DEF x
  <2> QED
    BY <2>10, <2>11, <2>12
<1>4. Len(rs) \in G
  BY <1>1, <1>2, <1>3, Induction
<1>5. a(Len(rs)) = AddressesIn(rs)
  BY SubSeqFull
<1> DEFINE x == AddressesIn(rs)
           n == Len(rs)
<1>6. x \in Seq(AnyAddress) /\ Len(x) = n /\ \A i \in 1..n : x[i] = rs[i].data
  BY <1>1, <1>4, <1>5
<1>7. x \in [1..n -> AnyAddress]
  BY <1>6, LenProperties
<1> HIDE DEF x, n
<1>8. x = [i \in 1..n |-> rs[i].data]
  BY <1>6, <1>7
<1> QED
  BY <1>8 DEF x, n

-----------------------------------------------------------------------------
(* The same data elsewhere; where things start; an answer of our own.      *)

LEMMA SameData ==
  ASSUME NEW m, NEW n, m.data \in Seq(Octet), n.data = m.data
  PROVE  End(m) \in Nat /\ End(n) = End(m) /\ Keeps(m, n)
<1>1. End(m) \in Nat
  BY ByteType
<1>2. End(n) = End(m)
  BY DEF End
<1>3. \A o : Byte(n, o) = Byte(m, o)
  BY <1>2 DEF Byte
<1> QED
  BY <1>1, <1>2, <1>3 DEF Keeps

LEMMA LayoutSame ==
  ASSUME NEW m, NEW n, n.data = m.data, NEW K, NEW qs, NEW rs, NEW starts,
         Layout(m, K, qs, rs, starts)
  PROVE  Layout(n, K, qs, rs, starts)
<1>1. /\ m.data \in Seq(Octet) /\ Fits(m, K)
      /\ qs \in Seq(Question) /\ rs \in Seq(Reply) /\ starts \in Seq(Nat)
      /\ Len(starts) = Len(qs) + Len(rs)
      /\ StartOf(m, starts, 1) = HEADER_LENGTH
      /\ \A i \in 1..Len(qs) :
           QuestionIn(m, K, StartOf(m, starts, i), qs[i], StartOf(m, starts, i + 1))
      /\ \A i \in 1..Len(rs) :
           RecordIn(m, K, StartOf(m, starts, Len(qs) + i), rs[i], StartOf(m, starts, Len(qs) + i + 1))
  BY DEF Layout
<1>2. Keeps(m, n) /\ End(n) = End(m)
  BY <1>1, SameData
<1>3. \A i : StartOf(n, starts, i) = StartOf(m, starts, i)
  BY <1>2 DEF StartOf
<1>4. Fits(n, K)
  <2>1. \A k \in K : FitsAt(n, K, k)
    BY <1>1, <1>2, FitsKept
  <2> QED
    BY <1>1, <2>1 DEF Fits
<1>5. \A i \in 1..Len(qs) :
        QuestionIn(n, K, StartOf(n, starts, i), qs[i], StartOf(n, starts, i + 1))
  <2> SUFFICES ASSUME NEW i \in 1..Len(qs)
               PROVE  QuestionIn(n, K, StartOf(n, starts, i), qs[i], StartOf(n, starts, i + 1))
    OBVIOUS
  <2>1. QuestionIn(m, K, StartOf(m, starts, i), qs[i], StartOf(m, starts, i + 1))
    BY <1>1
  <2>2. QuestionIn(n, K, StartOf(m, starts, i), qs[i], StartOf(m, starts, i + 1))
    BY <1>2, <2>1, QuestionKept
  <2> QED
    BY <1>3, <2>2
<1>6. \A i \in 1..Len(rs) :
        RecordIn(n, K, StartOf(n, starts, Len(qs) + i), rs[i], StartOf(n, starts, Len(qs) + i + 1))
  <2> SUFFICES ASSUME NEW i \in 1..Len(rs)
               PROVE  RecordIn(n, K, StartOf(n, starts, Len(qs) + i), rs[i],
                               StartOf(n, starts, Len(qs) + i + 1))
    OBVIOUS
  <2>1. RecordIn(m, K, StartOf(m, starts, Len(qs) + i), rs[i], StartOf(m, starts, Len(qs) + i + 1))
    BY <1>1
  <2>2. RecordIn(n, K, StartOf(m, starts, Len(qs) + i), rs[i], StartOf(m, starts, Len(qs) + i + 1))
    BY <1>2, <2>1, RecordKept
  <2> QED
    BY <1>3, <2>2
<1> QED
  BY <1>1, <1>3, <1>4, <1>5, <1>6, Zenon DEF Layout

LEMMA StartsWithin ==
  ASSUME NEW m, NEW K, NEW qs, NEW rs, NEW starts, Layout(m, K, qs, rs, starts),
         NEW i \in 1..(Len(starts) + 1)
  PROVE  StartOf(m, starts, i) \in Nat /\ StartOf(m, starts, i) <= End(m)
<1> DEFINE a == Len(qs)
           b == Len(rs)
           l == Len(starts)
<1>1. /\ m.data \in Seq(Octet) /\ Fits(m, K) /\ l = a + b
      /\ qs \in Seq(Question) /\ rs \in Seq(Reply)
      /\ \A j \in 1..a :
           QuestionIn(m, K, StartOf(m, starts, j), qs[j], StartOf(m, starts, j + 1))
      /\ \A j \in 1..b :
           RecordIn(m, K, StartOf(m, starts, a + j), rs[j], StartOf(m, starts, a + j + 1))
  BY DEF Layout
<1>2. a \in Nat /\ b \in Nat /\ End(m) \in Nat
  BY <1>1, LenProperties, ByteType
<1>3. i \in 1..(l + 1)
  OBVIOUS
<1> HIDE DEF a, b, l
<1>4. CASE i \in 1..a
  <2>1. QuestionIn(m, K, StartOf(m, starts, i), qs[i], StartOf(m, starts, i + 1)) /\ qs[i] \in Question
    BY <1>1, <1>4, ElementOfSeq DEF a
  <2>2. /\ StartOf(m, starts, i) \in Nat /\ StartOf(m, starts, i + 1) \in Nat
        /\ StartOf(m, starts, i) <= StartOf(m, starts, i + 1) /\ StartOf(m, starts, i + 1) <= End(m)
    BY <1>1, <2>1, QuestionReads
  <2> QED
    BY <1>2, <2>2
<1>5. CASE i \in (a + 1)..(a + b)
  <2>1. i - a \in 1..b /\ a + (i - a) = i /\ a + (i - a) + 1 = i + 1
    BY <1>2, <1>5
  <2>2. RecordIn(m, K, StartOf(m, starts, i), rs[i - a], StartOf(m, starts, i + 1)) /\ rs[i - a] \in Reply
    BY <1>1, <2>1, ElementOfSeq DEF b
  <2>3. /\ StartOf(m, starts, i) \in Nat /\ StartOf(m, starts, i + 1) \in Nat
        /\ StartOf(m, starts, i) <= StartOf(m, starts, i + 1) /\ StartOf(m, starts, i + 1) <= End(m)
    BY <1>1, <2>2, RecordReads
  <2> QED
    BY <1>2, <2>3
<1>6. CASE i = l + 1
  <2>1. StartOf(m, starts, i) = End(m)
    BY <1>1, <1>2, <1>6 DEF StartOf, l
  <2> QED
    BY <1>2, <2>1
<1>7. i \in 1..a \/ i \in (a + 1)..(a + b) \/ i = l + 1
  BY <1>1, <1>2, <1>3
<1> QED
  BY <1>4, <1>5, <1>6, <1>7

AnswerBytes(o, x) ==
  <<192, o>> \o Htons(QTYPE_A) \o Htons(CLASS_IN) \o <<0, 0, 0, 0>> \o Htons(Len(x)) \o x
LEMMA AnswerIs ==
  ASSUME NEW g, NEW x, g.offset \in 0..255
  PROVE  InetAnswer(g, x) = AnswerBytes(g.offset, x)
<1>1. \A a \in 0..255 : 192 + a \div 256 = 192 /\ a % 256 = a
  OBVIOUS
<1>2. 192 + g.offset \div 256 = 192 /\ g.offset % 256 = g.offset
  BY <1>1
<1> QED
  BY <1>2, Zenon DEF InetAnswer, AnswerBytes

\* One piece after the other, at the end of m.
Lengthens(m, s, t) == s \in Seq(Octet) /\ t \in Seq(Octet) /\ m \o s = t

LEMMA PieceJoins ==
  ASSUME NEW m \in Seq(Octet), NEW a \in Seq(Octet), NEW s, NEW t, Lengthens(m, s, t)
  PROVE  Lengthens(m, s \o a, t \o a)
<1>1. s \in Seq(Octet) /\ t \in Seq(Octet) /\ m \o s = t
  BY DEF Lengthens
<1>2. s \o a \in Seq(Octet) /\ t \o a \in Seq(Octet)
  BY <1>1, OctetSeq
<1>3. m \o (s \o a) = (m \o s) \o a
  BY <1>1, OctetAssociates
<1> QED
  BY <1>1, <1>2, <1>3 DEF Lengthens

LEMMA PiecesJoin ==
  ASSUME NEW m \in Seq(Octet), NEW p \in Seq(Octet), NEW a \in Seq(Octet), NEW b \in Seq(Octet),
         NEW z \in Seq(Octet), NEW l \in Seq(Octet), NEW x \in Seq(Octet)
  PROVE  Lengthens(m, p \o a \o b \o z \o l \o x, (m \o p) \o a \o b \o z \o l \o x)
<1>1. Lengthens(m, p, m \o p)
  BY OctetSeq DEF Lengthens
<1>2. Lengthens(m, p \o a, (m \o p) \o a)
  BY <1>1, PieceJoins
<1>3. Lengthens(m, p \o a \o b, (m \o p) \o a \o b)
  BY <1>2, PieceJoins
<1>4. Lengthens(m, p \o a \o b \o z, (m \o p) \o a \o b \o z)
  BY <1>3, PieceJoins
<1>5. Lengthens(m, p \o a \o b \o z \o l, (m \o p) \o a \o b \o z \o l)
  BY <1>4, PieceJoins
<1> QED
  BY <1>5, PieceJoins

LEMMA OwnAnswerWritten ==
  ASSUME NEW m, NEW n, m.data \in Seq(Octet), NEW K, Fits(m, K), NEW k \in K, NEW g, g.offset = k.at,
         NEW x \in AnyAddress, n.data = m.data \o InetAnswer(g, x)
  PROVE  /\ InetAnswer(g, x) \in Seq(Octet) /\ n.data \in Seq(Octet) /\ Keeps(m, n)
         /\ RecordIn(n, K, End(m), [owner |-> k.name, type |-> QTYPE_A, data |-> x], End(n))
<1> DEFINE p == <<192, k.at>>
           z == <<0, 0, 0, 0>>
           l == Len(x)
           b == [data |-> m.data \o p]
           h == [data |-> b.data \o Htons(QTYPE_A) \o Htons(CLASS_IN) \o z \o Htons(l)]
           r == [owner |-> k.name, type |-> QTYPE_A, data |-> x]
<1>1. k.at \in 0..255 /\ k.at \in Octet
  <2>1. k.at \in HEADER_LENGTH..255
    BY DEF Fits, FitsAt
  <2>2. \A j \in HEADER_LENGTH..255 : j \in 0..255
    BY DEF HEADER_LENGTH
  <2> QED
    BY <2>1, <2>2 DEF Octet
<1>2. x \in Seq(Octet) /\ l \in Short /\ l \in Nat
  <2>1. x \in Seq(Octet) /\ l \in {4, 16}
    BY DEF AnyAddress
  <2>2. \A i \in {4, 16} : i \in 0..300 /\ i \in Nat
    OBVIOUS
  <2> HIDE DEF l
  <2> QED
    BY <2>1, <2>2, SmallIsShort
<1>3. p \in Seq(Octet) /\ Len(p) = 2 /\ p[1] = 192 /\ p[2] = k.at
  <2>1. 192 \in Octet
    BY DEF Octet
  <2>2. \A a, c \in Octet :
          <<a, c>> \in Seq(Octet) /\ Len(<<a, c>>) = 2 /\ <<a, c>>[1] = a /\ <<a, c>>[2] = c
    OBVIOUS
  <2> QED
    BY <1>1, <2>1, <2>2
<1>4. z \in Seq(Octet) /\ Len(z) = 4
  <2>1. 0 \in Octet
    BY DEF Octet
  <2>2. \A a \in Octet : <<a, a, a, a>> \in Seq(Octet) /\ Len(<<a, a, a, a>>) = 4
    OBVIOUS
  <2> QED
    BY <2>1, <2>2
<1>5. \A y \in Short : Htons(y) \in Seq(Octet)
  <2> SUFFICES ASSUME NEW y \in Short PROVE Htons(y) \in Seq(Octet)
    OBVIOUS
  <2>1. High(y) \in Octet /\ Low(y) \in Octet
    BY HalvesOf DEF Octet
  <2>2. Htons(y) = <<High(y), Low(y)>>
    BY Zenon DEF Htons, High, Low
  <2> QED
    BY <2>1, <2>2
<1>6. QTYPE_A \in Short /\ CLASS_IN \in Short
  BY SmallIsShort
<1>7. InetAnswer(g, x) = p \o Htons(QTYPE_A) \o Htons(CLASS_IN) \o z \o Htons(l) \o x
  <2>1. g.offset = k.at /\ g.offset \in 0..255
    BY <1>1
  <2>2. InetAnswer(g, x) = AnswerBytes(g.offset, x)
    BY <2>1, AnswerIs
  <2>3. InetAnswer(g, x) = AnswerBytes(k.at, x)
    BY <2>1, <2>2
  <2> QED
    BY <2>3, Zenon DEF AnswerBytes
<1>8. /\ InetAnswer(g, x) \in Seq(Octet)
      /\ n.data = (m.data \o p) \o Htons(QTYPE_A) \o Htons(CLASS_IN) \o z \o Htons(l) \o x
  <2>1. Htons(QTYPE_A) \in Seq(Octet) /\ Htons(CLASS_IN) \in Seq(Octet) /\ Htons(l) \in Seq(Octet)
    BY <1>2, <1>5, <1>6, Zenon
  <2> HIDE DEF p, z, l
  <2>2. Lengthens(m.data, p \o Htons(QTYPE_A) \o Htons(CLASS_IN) \o z \o Htons(l) \o x,
                  (m.data \o p) \o Htons(QTYPE_A) \o Htons(CLASS_IN) \o z \o Htons(l) \o x)
    <3>1. ASSUME NEW s \in Seq(Octet), NEW t \in Seq(Octet), NEW u \in Seq(Octet)
          PROVE  Lengthens(m.data, p \o s \o t \o z \o u \o x,
                           (m.data \o p) \o s \o t \o z \o u \o x)
      <4>1. p \in Seq(Octet) /\ z \in Seq(Octet) /\ x \in Seq(Octet)
        BY <1>2, <1>3, <1>4
      <4> QED
        BY <4>1, PiecesJoin
    <3> QED
      BY <2>1, <3>1, Zenon
  <2> QED
    BY <1>7, <2>2 DEF Lengthens
<1>9. /\ b.data = m.data \o p /\ n.data = h.data \o x
      /\ h.data = b.data \o Htons(QTYPE_A) \o Htons(CLASS_IN) \o z \o Htons(l)
  BY <1>8
<1> HIDE DEF p, z, b, h, l
<1>10. /\ b.data \in Seq(Octet) /\ Keeps(m, b) /\ End(m) \in Nat /\ End(b) = End(m) + 2
       /\ \A j \in 1..2 : Byte(b, End(m) + j - 1) = p[j]
  <2>1. /\ b.data \in Seq(Octet) /\ Keeps(m, b) /\ End(m) \in Nat /\ End(b) = End(m) + Len(p)
        /\ \A j \in 1..Len(p) : Byte(b, End(m) + j - 1) = p[j]
    <3>1. p \in Seq(Octet) /\ b.data = m.data \o p
      BY <1>3, <1>9
    <3> QED
      BY <3>1, LongerKeeps
  <2> QED
    BY <1>3, <2>1
<1>11. HeadIs(b, h, QTYPE_A, z, l)
  BY <1>4, <1>9, <1>10, Zenon DEF HeadIs
<1>12. /\ h.data \in Seq(Octet) /\ Keeps(b, h) /\ End(h) = End(b) + 10
       /\ Ntohs(h, End(b)) = QTYPE_A /\ Ntohs(h, End(b) + 2) = CLASS_IN /\ Ntohs(h, End(b) + 8) = l
  BY <1>2, <1>6, <1>11, HeadWritten, Zenon
<1>13. /\ n.data \in Seq(Octet) /\ Keeps(h, n) /\ End(n) = End(h) + l /\ Bytes(n, End(h), l) = x
  BY <1>2, <1>9, <1>12, BytesWritten DEF l
<1>14. Keeps(b, n) /\ Keeps(m, n)
  BY <1>10, <1>12, <1>13, KeepsOn
<1> DEFINE o == End(m)
           e == End(b)
           f == End(n)
<1>15. /\ o \in Nat /\ e = o + 2 /\ f = e + 10 + l /\ End(h) = e + 10 /\ e \in Nat /\ f \in Nat
       /\ f - (e + 10) = l /\ o >= 12
  <2>1. /\ o \in Nat /\ e = o + 2 /\ End(h) = e + 10 /\ f = End(h) + l /\ l \in Nat
    BY <1>2, <1>10, <1>12, <1>13
  <2>2. o >= 12
    BY ByteType DEF HEADER_LENGTH
  <2> HIDE DEF o, e, f
  <2> QED
    BY <2>1, <2>2
<1>16. NameIn(b, K, o, k.name, e)
  <2>1. Byte(b, o) = 192 /\ Byte(b, o + 1) = k.at
    <3>1. 1 \in 1..2 /\ 2 \in 1..2 /\ o + 1 - 1 = o /\ o + 2 - 1 = o + 1
      BY <1>15
    <3> QED
      BY <1>3, <1>10, <3>1
  <2>2. o \in HEADER_LENGTH..(e - 1) /\ e \in Nat /\ e <= End(b) /\ e = o + 2
    BY <1>15 DEF HEADER_LENGTH
  <2> HIDE DEF o, e
  <2> QED
    BY <2>1, <2>2 DEF NameIn
<1>17. NameIn(n, K, o, k.name, e)
  BY <1>14, <1>16, NameKept
<1>18. /\ Ntohs(n, e) = QTYPE_A /\ Ntohs(n, e + 2) = CLASS_IN /\ Ntohs(n, e + 8) = l
  <2>1. e + 2 \in Nat /\ e + 8 \in Nat /\ e + 2 <= End(h) /\ (e + 2) + 2 <= End(h) /\ (e + 8) + 2 <= End(h)
    <3>1. End(h) = e + 10 /\ e \in Nat
      BY <1>15
    <3> HIDE DEF e
    <3> QED
      BY <3>1
  <2> QED
    BY <1>12, <1>13, <1>15, <2>1, NtohsKept
<1>19. Bytes(n, e + 10, f - (e + 10)) = x
  BY <1>13, <1>15
<1>20. r.owner = k.name /\ r.type = QTYPE_A /\ r.data = x
  OBVIOUS
<1>21. f \in Nat /\ Ntohs(n, e + 8) = f - (e + 10) /\ e + 10 <= f /\ f <= End(n)
  <2>1. Ntohs(n, e + 8) = l /\ f = End(n)
    BY <1>18
  <2> HIDE DEF o, e, f
  <2>2. f \in Nat /\ e + 10 <= f /\ f <= f
    BY <1>2, <1>15
  <2> QED
    BY <1>15, <2>1, <2>2
<1>22. RecordIn(n, K, o, r, f)
  <2> HIDE DEF o, e, f, r
  <2> QED
    BY <1>15, <1>17, <1>18, <1>19, <1>20, <1>21, TypesAre DEF RecordIn
<1> QED
  BY <1>8, <1>13, <1>14, <1>22

-----------------------------------------------------------------------------
(* The inductive invariant.                                                *)

QueryDraft == WithQuestions(questions, compress)
TheQuery == [qr |-> "query", rcode |-> 0, questions |-> Len(questions), answers |-> 0,
             data |-> QueryDraft.data]

\* What our own answers say, and what answers there are.
Generated ==
  [i \in 1..Len(AskedIn(questions)) |->
     [owner |-> AskedIn(questions)[i].name, type |-> QTYPE_A,
      data |-> OwnAddress(AskedIn(questions)[i])]]
Answering == IF written = Blank THEN Generated ELSE written.records

\* The query is the draft of its questions, whoever has packed it.
QueryAsks ==
  /\ questions \in Seq(Question) /\ End(QueryDraft) <= MAX_MESSAGE
  /\ domain # << >> =>
       \E v \in HostName : /\ domain \in TextsOf(v)
                           /\ questions = <<[name |-> v, type |-> QTYPE_A, class |-> CLASS_IN]>>
  /\ query = IF state = "asking" THEN NoMessage ELSE TheQuery
  /\ state = "asking" => domain # << >> /\ message = NoMessage
  /\ state \in {"asking", "waiting", "parsing"} \cup Ended
  /\ armed \in {{"READ"}, {"WRITE"}} /\ lost \in BOOLEAN

\* A name server writes questions and records one after the other.
ServerLays ==
  written # Blank =>
    /\ Good(written) /\ End(written) <= MAX_MESSAGE /\ ~gen.begun
    /\ Layout(written, written.known, questions, written.records, written.starts)

\* What c_dns_gen_inet_response has heard of a question: its pointer leads to a
\* name that is known.
HeardOf(g, q) ==
  /\ g = [domain |-> TextOf(q.name), offset |-> g.offset, type |-> q.type, class |-> q.class]
  /\ \E k \in QueryDraft.known : k.name = q.name /\ k.at = g.offset
Hearing == [domain : Seq(Octet), offset : Nat, type : Short, class : Short]

\* It has read the first questions, and its answers follow the questions.
GenReads ==
  /\ gen = [begun |-> gen.begun, read |-> gen.read, at |-> gen.at, domains |-> gen.domains,
            data |-> gen.data]
  /\ gen.read \in 0..Len(questions)
  /\ gen.at = StartOf(QueryDraft, QueryDraft.starts, gen.read + 1)
  /\ gen.domains \in Seq(Hearing)
  /\ Len(gen.domains) = Len(AskedIn(SubSeq(questions, 1, gen.read)))
  /\ \A i \in 1..Len(gen.domains) : HeardOf(gen.domains[i], AskedIn(SubSeq(questions, 1, gen.read))[i])
GenLays ==
  /\ gen.data \in Seq(Seq(Octet)) /\ Len(gen.data) <= Len(gen.domains)
  /\ gen.data # << >> => gen.read = Len(questions)
  /\ \E starts :
       Layout([data |-> QueryDraft.data \o FlattenSeq(gen.data)], QueryDraft.known, questions,
              SubSeq(Generated, 1, Len(gen.data)), starts)

\* The message is an error or answers, and is read where something starts.
MessageLays(K, starts) ==
  /\ Layout(message, K, questions, Answering, starts)
  /\ written # Blank => starts = written.starts
  /\ got.at = StartOf(message, starts, got.questions + got.answers + 1)
Unread == got = NotRead /\ host = NoHost
ErrorCame == message.rcode # 0 /\ written = Blank /\ ~gen.begun /\ Unread /\ message.data \in Seq(Octet)
AnswerCame ==
  /\ message.rcode = 0 /\ message.questions = Len(questions) /\ message.answers = Len(Answering)
  /\ got.answers <= Len(Answering)
  /\ \E K, starts : MessageLays(K, starts)
MessageIs ==
  /\ message = NoMessage => Unread
  /\ message # NoMessage => message.qr = "response" /\ (ErrorCame \/ AnswerCame)

\* What has been read is in the hostent.
HostReads ==
  /\ got \in [questions : 0..Len(questions), answers : Nat, at : Nat]
  /\ got.answers > 0 => got.questions = Len(questions)
  /\ host = [name |-> host.name, addrs |-> host.addrs]
  /\ host.addrs = AddressesIn(SubSeq(Answering, 1, got.answers))
  /\ host.name = IF got.answers = 0 THEN << >> ELSE TextOf(Answering[1].owner)
StateFollows ==
  /\ state \in {"parsing", "connecting", "failed"} => message # NoMessage
  /\ state \in {"parsing", "connecting"} => message.rcode = 0
  /\ state = "connecting" =>
       /\ got.questions = Len(questions) /\ got.answers = Len(Answering)
       /\ host.addrs # << >>
  /\ state = "failed" => ErrorCame \/ AddressesIn(Answering) = << >> \/ StopsAtData(Answering)

ResolverInv ==
  QueryAsks /\ ServerLays /\ GenReads /\ GenLays /\ MessageIs /\ HostReads /\ StateFollows

-----------------------------------------------------------------------------
(* It holds at first.                                                      *)

\* The draft of a query.
LEMMA DraftLays ==
  ASSUME QueryAsks
  PROVE  /\ questions \in Seq(Question) /\ Len(questions) \in Nat
         /\ QueryDraft \in Draft /\ Good(QueryDraft) /\ QueryDraft.data \in Seq(Octet)
         /\ End(QueryDraft) \in Nat /\ Len(QueryDraft.starts) = Len(questions)
         /\ Layout(QueryDraft, QueryDraft.known, questions, << >>, QueryDraft.starts)
<1>1. questions \in Seq(Question) /\ End(QueryDraft) <= MAX_MESSAGE
  BY DEF QueryAsks
<1>2. /\ QueryDraft \in Draft /\ Good(QueryDraft) /\ End(QueryDraft) \in Nat
      /\ Len(QueryDraft.starts) = Len(questions)
      /\ Layout(QueryDraft, QueryDraft.known, questions, << >>, QueryDraft.starts)
  BY <1>1, QuestionsWritten DEF QueryDraft
<1> QED
  BY <1>1, <1>2, LenProperties DEF Good

LEMMA QuestionForName ==
  ASSUME NEW v \in HostName
  PROVE  [name |-> v, type |-> QTYPE_A, class |-> CLASS_IN] \in Question
BY SmallIsShort DEF Question

LEMMA QueryInitAsks ==
  ASSUME QueryInit
  PROVE  QueryAsks
<1>1. Domains \subseteq HostName /\ Queries \subseteq Seq(Question)
  BY ResolverAssumption
<1>2. /\ End(QueryDraft) <= MAX_MESSAGE /\ armed = {"WRITE"} /\ message = NoMessage /\ lost = FALSE
  BY DEF QueryInit, QueryDraft
<1>3. CASE \E name \in Domains :
             /\ domain \in TextsOf(name)
             /\ questions = <<[name |-> name, type |-> QTYPE_A, class |-> CLASS_IN]>>
             /\ query = NoMessage /\ state = "asking"
  <2>1. PICK v \in Domains :
          /\ domain \in TextsOf(v)
          /\ questions = <<[name |-> v, type |-> QTYPE_A, class |-> CLASS_IN]>>
          /\ query = NoMessage /\ state = "asking"
    BY <1>3
  <2>2. v \in HostName
    BY <1>1
  <2>3. questions \in Seq(Question)
    <3>1. \A q \in Question : <<q>> \in Seq(Question)
      OBVIOUS
    <3> QED
      BY <2>1, <2>2, <3>1, QuestionForName
  <2>4. domain # << >>
    <3>1. TextOf(v) \in Seq(Octet) /\ TextOf(v) # << >> /\ v \in Seq(Label) /\ v # << >>
      BY <2>2, HostNameType, TextJoined
    <3>2. Len(TextOf(v) \o <<DOT>>) = Len(TextOf(v)) + 1 /\ Len(TextOf(v)) \in Nat
      BY <3>1, OctetSeq
    <3>3. TextOf(v) \o <<DOT>> # << >>
      <4>1. Len(<< >>) = 0
        BY OctetSeq
      <4> QED
        BY <3>2, <4>1
    <3> QED
      BY <2>1, <3>1, <3>3 DEF TextsOf
  <2> QED
    BY <1>2, <2>1, <2>2, <2>3, <2>4 DEF QueryAsks
<1>4. CASE /\ domain = << >>
           /\ questions \in Queries
           /\ query = [qr |-> "query", rcode |-> 0, questions |-> Len(questions), answers |-> 0,
                        data |-> WithQuestions(questions, compress).data]
           /\ state = "waiting"
  <2>1. questions \in Seq(Question) /\ query = TheQuery /\ state # "asking"
    BY <1>1, <1>4 DEF TheQuery, QueryDraft
  <2> QED
    BY <1>2, <1>4, <2>1 DEF QueryAsks
<1> QED
  BY <1>3, <1>4 DEF QueryInit

LEMMA ResolverBegins ==
  ASSUME QueryInit
  PROVE  ResolverInv
<1>1. QueryAsks
  BY QueryInitAsks
<1>2. /\ message = NoMessage /\ got = NotRead /\ host = NoHost /\ gen = NotBegun /\ written = Blank
      /\ state \in {"asking", "waiting"}
  BY DEF QueryInit
<1>3. /\ questions \in Seq(Question) /\ Len(questions) \in Nat /\ QueryDraft.data \in Seq(Octet)
      /\ Layout(QueryDraft, QueryDraft.known, questions, << >>, QueryDraft.starts)
  BY <1>1, DraftLays
<1>4. \A s : SubSeq(s, 1, 0) = << >>
  BY SubSeqEmpty
<1>5. Len(<< >>) = 0 /\ \A S : << >> \in Seq(S)
  BY EmptySeq
<1>6. ServerLays
  BY <1>2 DEF ServerLays
<1>7. GenReads
  <2>1. /\ gen = [begun |-> gen.begun, read |-> gen.read, at |-> gen.at, domains |-> gen.domains,
                  data |-> gen.data]
        /\ gen.read = 0 /\ gen.at = HEADER_LENGTH /\ gen.domains = << >>
    BY <1>2 DEF NotBegun
  <2>2. StartOf(QueryDraft, QueryDraft.starts, 1) = HEADER_LENGTH
    BY <1>3 DEF Layout
  <2>3. AskedIn(SubSeq(questions, 1, 0)) = << >>
    BY <1>4, NoneOfNone
  <2>4. gen.read \in 0..Len(questions) /\ gen.read + 1 = 1
    BY <1>3, <2>1
  <2> QED
    BY <1>5, <2>1, <2>2, <2>3, <2>4 DEF GenReads
<1>8. GenLays
  <2>1. gen.data = << >> /\ gen.domains = << >>
    BY <1>2 DEF NotBegun
  <2>2. QueryDraft.data \o << >> = QueryDraft.data
    BY <1>3, OctetSeq
  <2> DEFINE m == [data |-> QueryDraft.data \o FlattenSeq(gen.data)]
  <2>3. m.data = QueryDraft.data
    BY <2>1, <2>2, FlattenEmpty
  <2>4. SubSeq(Generated, 1, Len(gen.data)) = << >>
    BY <1>4, <1>5, <2>1
  <2> HIDE DEF m
  <2>5. Layout(m, QueryDraft.known, questions, << >>, QueryDraft.starts)
    BY <1>3, <2>3, LayoutSame
  <2>6. \E starts : Layout(m, QueryDraft.known, questions, SubSeq(Generated, 1, Len(gen.data)), starts)
    BY <2>4, <2>5
  <2>7. Len(gen.data) <= Len(gen.domains) /\ gen.data \in Seq(Seq(Octet))
    BY <1>5, <2>1
  <2> QED
    BY <2>1, <2>6, <2>7 DEF GenLays, m
<1>9. MessageIs
  BY <1>2 DEF MessageIs, Unread
<1>10. HostReads
  <2>1. got.questions = 0 /\ got.answers = 0 /\ got.at = HEADER_LENGTH
        /\ got = [questions |-> 0, answers |-> 0, at |-> HEADER_LENGTH]
    BY <1>2 DEF NotRead
  <2>2. host = [name |-> host.name, addrs |-> host.addrs]
        /\ host.addrs = << >> /\ host.name = << >>
    BY <1>2 DEF NoHost
  <2>3. AddressesIn(SubSeq(Answering, 1, 0)) = << >>
    BY <1>4, NoneOfNone
  <2>4. 0 \in 0..Len(questions) /\ HEADER_LENGTH \in Nat
    BY <1>3 DEF HEADER_LENGTH
  <2> QED
    BY <2>1, <2>2, <2>3, <2>4 DEF HostReads
<1>11. StateFollows
  BY <1>2 DEF StateFollows
<1> QED
  BY <1>1, <1>6, <1>7, <1>8, <1>9, <1>10, <1>11 DEF ResolverInv

-----------------------------------------------------------------------------
(* What a step leaves alone.                                               *)

LEMMA Fixed ==
  ASSUME UNCHANGED <<asked, compress>> \/ UNCHANGED <<questions, compress>>
  PROVE  /\ questions' = questions /\ compress' = compress
         /\ QueryDraft' = QueryDraft /\ TheQuery' = TheQuery /\ Generated' = Generated
<1>1. questions' = questions /\ compress' = compress
  BY DEF asked
<1>2. QueryDraft' = QueryDraft
  BY <1>1 DEF QueryDraft
<1>3. TheQuery' = TheQuery
  BY <1>1, <1>2 DEF TheQuery
<1>4. Generated' = Generated
  BY <1>1 DEF Generated
<1> QED
  BY <1>1, <1>2, <1>3, <1>4

LEMMA AsksKept ==
  ASSUME QueryAsks, UNCHANGED <<asked, compress, armed>>, state # "asking",
         state' \in {"waiting", "parsing"} \cup Ended, lost' \in BOOLEAN
  PROVE  QueryAsks'
<1>1. questions' = questions /\ QueryDraft' = QueryDraft /\ TheQuery' = TheQuery
  BY Fixed
<1>2. domain' = domain /\ query' = query /\ armed' = armed
  BY DEF asked
<1>3. state' # "asking" /\ state' \in {"asking", "waiting", "parsing"} \cup Ended
  BY DEF Ended
<1> QED
  BY <1>1, <1>2, <1>3 DEF QueryAsks

LEMMA ServerKept ==
  ASSUME ServerLays, UNCHANGED <<asked, compress, written, gen>>
  PROVE  ServerLays'
BY Fixed DEF ServerLays

LEMMA GenKept ==
  ASSUME GenReads, GenLays, UNCHANGED <<asked, compress, gen>>
  PROVE  GenReads' /\ GenLays'
<1>1. questions' = questions /\ QueryDraft' = QueryDraft /\ Generated' = Generated /\ gen' = gen
  BY Fixed
<1> QED
  BY <1>1 DEF GenReads, GenLays, HeardOf

LEMMA MessageKept ==
  ASSUME MessageIs, HostReads, UNCHANGED <<asked, compress, message, got, host, written, gen>>
  PROVE  MessageIs' /\ HostReads' /\ Answering' = Answering
<1>1. /\ questions' = questions /\ Generated' = Generated /\ message' = message /\ got' = got
      /\ host' = host /\ written' = written
  BY Fixed
<1>2. Answering' = Answering
  BY <1>1 DEF Answering
<1>3. \A K, starts : MessageLays(K, starts) => MessageLays(K, starts)'
  BY <1>1, <1>2 DEF MessageLays
<1>4. MessageIs'
  BY <1>1, <1>2, <1>3 DEF MessageIs, Unread, ErrorCame, AnswerCame
<1>5. HostReads'
  BY <1>1, <1>2 DEF HostReads
<1> QED
  BY <1>2, <1>4, <1>5

-----------------------------------------------------------------------------
(* Sending the query.                                                      *)

LEMMA DnsWriteKeeps ==
  ASSUME ResolverInv, DnsWrite
  PROVE  ResolverInv'
<1>1. /\ state = "asking" /\ query' = Pack(domain, QTYPE_A) /\ armed' = {"READ"} /\ state' = "waiting"
      /\ UNCHANGED <<domain, questions, message, got, host, gen, written, compress, lost>>
  BY DEF DnsWrite, Sent, answerer
<1>2. QueryAsks /\ ServerLays /\ GenReads /\ GenLays /\ MessageIs /\ HostReads
  BY DEF ResolverInv
<1>3. /\ QueryDraft' = QueryDraft /\ TheQuery' = TheQuery /\ Generated' = Generated
  BY <1>1, Fixed
<1>4. PICK v \in HostName :
        /\ domain \in TextsOf(v)
        /\ questions = <<[name |-> v, type |-> QTYPE_A, class |-> CLASS_IN]>>
  BY <1>1, <1>2 DEF QueryAsks
<1>5. Pack(domain, QTYPE_A) = TheQuery
  <2> DEFINE q == [name |-> v, type |-> QTYPE_A, class |-> CLASS_IN]
  <2>1. q \in Question /\ q.name = v /\ q.type = QTYPE_A /\ q.class = CLASS_IN
    BY QuestionForName
  <2>2. questions = <<q>>
    BY <1>4
  <2> HIDE DEF q
  <2>3. Pack(domain, QTYPE_A).data = QueryDraft.data
    <3>1. Pack(domain, QTYPE_A).data = WithQuestions(<<q>>, compress).data
      BY <1>4, <2>1, PackIsDraft
    <3> QED
      BY <2>2, <3>1 DEF QueryDraft
  <2>4. Len(questions) = 1
    BY <2>2
  <2>5. Pack(domain, QTYPE_A) = [qr |-> "query", rcode |-> 0, questions |-> 1, answers |-> 0,
                                 data |-> Pack(domain, QTYPE_A).data]
    BY DEF Pack
  <2> QED
    BY <2>3, <2>4, <2>5, Zenon DEF TheQuery
<1>6. QueryAsks'
  <2>1. /\ questions' \in Seq(Question) /\ End(QueryDraft') <= MAX_MESSAGE
        /\ domain' # << >> =>
             \E u \in HostName :
               /\ domain' \in TextsOf(u)
               /\ questions' = <<[name |-> u, type |-> QTYPE_A, class |-> CLASS_IN]>>
    BY <1>1, <1>2, <1>3 DEF QueryAsks
  <2>2. query' = TheQuery' /\ state' # "asking" /\ state' \in {"asking", "waiting", "parsing"} \cup Ended
    BY <1>1, <1>3, <1>5
  <2>3. armed' \in {{"READ"}, {"WRITE"}} /\ lost' \in BOOLEAN
    BY <1>1, <1>2 DEF QueryAsks
  <2> QED
    BY <2>1, <2>2, <2>3 DEF QueryAsks
<1>7. ServerLays'
  BY <1>1, <1>2 DEF ServerLays
<1>8. GenReads' /\ GenLays'
  BY <1>1, <1>2, <1>3 DEF GenReads, GenLays, HeardOf
<1>9. Answering' = Answering
  BY <1>1, <1>3 DEF Answering
<1>10. MessageIs'
  <2>1. \A K, starts : MessageLays(K, starts) => MessageLays(K, starts)'
    BY <1>1, <1>9 DEF MessageLays
  <2> QED
    BY <1>1, <1>2, <1>9, <2>1 DEF MessageIs, Unread, ErrorCame, AnswerCame
<1>11. HostReads'
  BY <1>1, <1>2, <1>9 DEF HostReads
<1>12. StateFollows'
  BY <1>1 DEF StateFollows
<1> QED
  BY <1>6, <1>7, <1>8, <1>10, <1>11, <1>12 DEF ResolverInv

\* Steps of which the state is all that changes.
LEMMA OnlyState ==
  ASSUME ResolverInv, state # "asking", state' \in {"waiting", "parsing"} \cup Ended,
         lost' \in BOOLEAN, StateFollows',
         UNCHANGED <<asked, compress, armed, written, gen, message, got, host>>
  PROVE  ResolverInv'
<1>1. QueryAsks /\ ServerLays /\ GenReads /\ GenLays /\ MessageIs /\ HostReads
  BY DEF ResolverInv
<1> QED
  BY <1>1, AsksKept, ServerKept, GenKept, MessageKept DEF ResolverInv

LEMMA LoseKeeps ==
  ASSUME ResolverInv, Lose
  PROVE  ResolverInv'
<1>1. StateFollows'
  BY DEF Lose, StateFollows
<1>2. UNCHANGED <<asked, compress, armed, written, gen, message, got, host>> /\ lost' \in BOOLEAN
      /\ state' = "waiting" /\ state = "waiting"
  BY DEF Lose, answerer
<1> QED
  BY <1>1, <1>2, OnlyState

LEMMA RecvFailsKeeps ==
  ASSUME ResolverInv, RecvFails
  PROVE  ResolverInv'
<1>1. StateFollows'
  BY DEF RecvFails, StateFollows
<1>2. lost \in BOOLEAN
  BY DEF ResolverInv, QueryAsks
<1>3. UNCHANGED <<asked, compress, armed, written, gen, message, got, host>> /\ lost' = lost
      /\ state' = "unheard" /\ state = "waiting"
  BY DEF RecvFails, answerer
<1> QED
  BY <1>1, <1>2, <1>3, OnlyState DEF Ended

LEMMA DnsReadKeeps ==
  ASSUME ResolverInv, DnsRead
  PROVE  ResolverInv'
<1>1. /\ state = "waiting" /\ message # NoMessage
      /\ state' = IF message.qr # "response" \/ message.rcode # 0 THEN "failed" ELSE "parsing"
      /\ UNCHANGED <<asked, compress, armed, written, gen, message, got, host, lost>>
  BY DEF DnsRead, answerer
<1>2. message.qr = "response" /\ (ErrorCame \/ AnswerCame) /\ lost \in BOOLEAN
  BY <1>1 DEF ResolverInv, MessageIs, QueryAsks
<1>3. message.rcode # 0 => ErrorCame'
  BY <1>1, <1>2 DEF ErrorCame, AnswerCame, Unread
<1>4. StateFollows'
  BY <1>1, <1>2, <1>3 DEF StateFollows
<1>5. state' \in {"waiting", "parsing"} \cup Ended /\ lost' \in BOOLEAN
  BY <1>1, <1>2 DEF Ended
<1> QED
  BY <1>1, <1>4, <1>5, OnlyState

\* What a message that is read holds.
LEMMA WhenRead ==
  ASSUME ResolverInv, state = "parsing"
  PROVE  /\ AnswerCame /\ message # NoMessage /\ message.rcode = 0 /\ message.qr = "response"
         /\ lost \in BOOLEAN /\ questions \in Seq(Question) /\ Len(questions) \in Nat
         /\ Answering \in Seq(Reply) /\ Len(Answering) \in Nat
         /\ message.answers = Len(Answering) /\ message.questions = Len(questions)
<1>1. message # NoMessage /\ message.rcode = 0
  BY DEF ResolverInv, StateFollows
<1>2. AnswerCame /\ message.qr = "response"
  BY <1>1 DEF ResolverInv, MessageIs, ErrorCame
<1>3. lost \in BOOLEAN /\ questions \in Seq(Question)
  BY DEF ResolverInv, QueryAsks
<1>4. Answering \in Seq(Reply) /\ message.answers = Len(Answering) /\ message.questions = Len(questions)
  BY <1>2 DEF AnswerCame, MessageLays, Layout
<1> QED
  BY <1>1, <1>2, <1>3, <1>4, LenProperties

LEMMA NoAnswerKeeps ==
  ASSUME ResolverInv, NoAnswer
  PROVE  ResolverInv'
<1>1. /\ state = "parsing" /\ message.answers = 0 /\ state' = "failed"
      /\ UNCHANGED <<asked, compress, armed, written, gen, message, got, host, lost>>
  BY DEF NoAnswer, answerer
<1>2. /\ Answering \in Seq(Reply) /\ message.answers = Len(Answering) /\ lost \in BOOLEAN
      /\ message # NoMessage
  BY <1>1, WhenRead
<1>3. AddressesIn(Answering') = << >>
  <2>1. Answering = << >>
    BY <1>1, <1>2, EmptySeq
  <2>2. Answering' = Answering
    BY <1>1, Fixed DEF Answering
  <2> QED
    BY <2>1, <2>2, NoneOfNone
<1>4. StateFollows'
  BY <1>1, <1>2, <1>3 DEF StateFollows
<1> QED
  BY <1>1, <1>2, <1>4, OnlyState DEF Ended

LEMMA ParseFirstIpKeeps ==
  ASSUME ResolverInv, ParseFirstIp
  PROVE  ResolverInv'
<1>1. /\ state = "parsing" /\ message.answers > 0 /\ got.answers = message.answers
      /\ state' = IF host.addrs = << >> THEN "failed" ELSE "connecting"
      /\ UNCHANGED <<asked, compress, armed, written, gen, message, got, host, lost>>
  BY DEF ParseFirstIp, answerer
<1>2. /\ Answering \in Seq(Reply) /\ message.answers = Len(Answering) /\ lost \in BOOLEAN
      /\ message # NoMessage /\ message.rcode = 0
  BY <1>1, WhenRead
<1>3. /\ got.questions = Len(questions)
      /\ host.addrs = AddressesIn(SubSeq(Answering, 1, got.answers))
  BY <1>1 DEF ResolverInv, HostReads
<1>4. host.addrs = AddressesIn(Answering)
  <2>1. SubSeq(Answering, 1, Len(Answering)) = Answering
    BY <1>2, SubSeqFull
  <2> QED
    BY <1>1, <1>2, <1>3, <2>1
<1>5. Answering' = Answering /\ questions' = questions
  BY <1>1, Fixed DEF Answering
<1>6. StateFollows'
  <2>1. message' # NoMessage /\ message'.rcode = 0
    BY <1>1, <1>2 DEF NoMessage
  <2>2. state' = "connecting" =>
          /\ got'.questions = Len(questions') /\ got'.answers = Len(Answering')
          /\ host'.addrs # << >>
    BY <1>1, <1>2, <1>3, <1>5
  <2>3. state' = "failed" => AddressesIn(Answering') = << >>
    BY <1>1, <1>4, <1>5
  <2> QED
    BY <2>1, <2>2, <2>3 DEF StateFollows
<1>7. state' \in {"waiting", "parsing"} \cup Ended
  BY <1>1 DEF Ended
<1> QED
  BY <1>1, <1>2, <1>6, <1>7, OnlyState

-----------------------------------------------------------------------------
(* A name server answers.                                                  *)

\* While there is no message nothing is read, whatever the answer will be.
LEMMA NothingRead ==
  ASSUME ResolverInv, message = NoMessage, UNCHANGED <<asked, compress, message, got, host>>
  PROVE  MessageIs' /\ HostReads'
<1>1. Unread /\ questions' = questions /\ message' = NoMessage /\ got' = NotRead /\ host' = NoHost
  BY Fixed DEF ResolverInv, MessageIs, Unread
<1>2. MessageIs'
  BY <1>1 DEF MessageIs, Unread
<1>3. /\ got'.questions = 0 /\ got'.answers = 0
      /\ got' = [questions |-> 0, answers |-> 0, at |-> HEADER_LENGTH]
  BY <1>1 DEF NotRead
<1>4. host' = [name |-> host'.name, addrs |-> host'.addrs]
      /\ host'.addrs = << >> /\ host'.name = << >>
  BY <1>1 DEF NoHost
<1>5. AddressesIn(SubSeq(Answering', 1, 0)) = << >>
  <2>1. \A s : SubSeq(s, 1, 0) = << >>
    BY SubSeqEmpty
  <2> QED
    BY <2>1, NoneOfNone
<1>6. 0 \in 0..Len(questions') /\ HEADER_LENGTH \in Nat
  <2>1. questions \in Seq(Question)
    BY DEF ResolverInv, QueryAsks
  <2>2. Len(questions) \in Nat
    BY <2>1, LenProperties
  <2> QED
    BY <1>1, <2>2 DEF HEADER_LENGTH
<1>7. HostReads'
  BY <1>3, <1>4, <1>5, <1>6 DEF HostReads
<1> QED
  BY <1>2, <1>7

LEMMA ServerWritesKeeps ==
  ASSUME ResolverInv, ServerWrites
  PROVE  ResolverInv'
<1>1. /\ ~gen.begun /\ state = "waiting" /\ message = NoMessage
      /\ UNCHANGED <<asked, message, armed, state, got, host, gen, compress, lost>>
  BY DEF ServerWrites, CanAnswer
<1>2. QueryAsks /\ ServerLays /\ GenReads /\ GenLays /\ lost \in BOOLEAN
  BY DEF ResolverInv, QueryAsks
<1>3. questions' = questions /\ compress' = compress /\ QueryDraft' = QueryDraft
  BY <1>1, Fixed
<1>4. /\ Good(written') /\ End(written') <= MAX_MESSAGE
      /\ Layout(written', written'.known, questions, written'.records, written'.starts)
  <2>1. CASE written' = WithQuestions(questions, compress)
    <3>1. written' = QueryDraft
      BY <2>1 DEF QueryDraft
    <3>2. /\ Good(QueryDraft)
          /\ Layout(QueryDraft, QueryDraft.known, questions, << >>, QueryDraft.starts)
      BY <1>2, DraftLays
    <3>3. End(QueryDraft) <= MAX_MESSAGE /\ questions \in Seq(Question)
      BY <1>2 DEF QueryAsks
    <3>4. QueryDraft.records = << >>
      BY <3>3, QuestionsWritten DEF QueryDraft
    <3> QED
      BY <3>1, <3>2, <3>3, <3>4
  <2>2. CASE /\ written # Blank
             /\ \E r \in Records : written' = WithRecord(written, r, compress)
             /\ End(written') <= MAX_MESSAGE
    <3>1. PICK r \in Records : written' = WithRecord(written, r, compress)
      BY <2>2
    <3>2. r \in Record /\ r \in Reply
      BY ResolverAssumption DEF Reply
    <3> DEFINE n == WithRecord(written, r, compress)
               k == written.known
               s == written.starts
               t == written.records
    <3>3. /\ Good(written) /\ written \in Draft /\ Layout(written, k, questions, t, s)
      BY <1>2, <2>2 DEF ServerLays, Good
    <3>4. End(n) <= MAX_MESSAGE
      BY <2>2, <3>1
    <3>5. /\ Good(n) /\ Keeps(written, n) /\ k \subseteq n.known
          /\ RecordIn(n, n.known, End(written), r, End(n))
      BY <3>2, <3>3, <3>4, RecordWritten
    <3>6. n.starts = Append(s, End(written)) /\ n.records = Append(t, r)
      BY <3>2, <3>3, RecordDraft
    <3> HIDE DEF n, k, s, t
    <3>7. n.data \in Seq(Octet) /\ Fits(n, n.known)
      BY <3>5 DEF Good
    <3>8. Layout(n, n.known, questions, Append(t, r), Append(s, End(written)))
      BY <3>2, <3>3, <3>5, <3>7, LayoutRecord
    <3>9. written' = n
      BY <3>1 DEF n
    <3> QED
      BY <3>4, <3>5, <3>6, <3>8, <3>9
  <2> QED
    BY <2>1, <2>2 DEF ServerWrites
<1>5. ServerLays'
  BY <1>1, <1>3, <1>4 DEF ServerLays
<1>6. QueryAsks'
  BY <1>1, <1>2, AsksKept
<1>7. GenReads' /\ GenLays'
  BY <1>1, <1>2, GenKept
<1>8. MessageIs' /\ HostReads'
  BY <1>1, NothingRead
<1>9. StateFollows'
  BY <1>1 DEF StateFollows
<1> QED
  BY <1>5, <1>6, <1>7, <1>8, <1>9 DEF ResolverInv

\* What is read first lies where the first question or answer is.
LEMMA ReadsFirst ==
  ASSUME NEW K, NEW starts, Layout(message', K, questions, Answering', starts),
         questions' = questions, got' = NotRead, written' # Blank => starts = written'.starts
  PROVE  \E L, t : MessageLays(L, t)'
<1>1. StartOf(message', starts, 1) = HEADER_LENGTH
  BY DEF Layout
<1>2. got'.at = HEADER_LENGTH /\ got'.questions + got'.answers + 1 = 1
  BY DEF NotRead
<1>3. MessageLays(K, starts)'
  BY <1>1, <1>2 DEF MessageLays
<1> QED
  BY <1>3

LEMMA ServerAnswersKeeps ==
  ASSUME ResolverInv, ServerAnswers
  PROVE  ResolverInv'
<1>1. /\ ~gen.begun /\ state = "waiting" /\ message = NoMessage
      /\ UNCHANGED <<asked, armed, state, got, host, gen, written, compress, lost>>
  BY DEF ServerAnswers, CanAnswer, answerer
<1>2. QueryAsks /\ ServerLays /\ GenReads /\ GenLays /\ HostReads /\ MessageIs /\ lost \in BOOLEAN
  BY DEF ResolverInv, QueryAsks
<1>3. questions' = questions /\ QueryDraft' = QueryDraft /\ Generated' = Generated
  BY <1>1, Fixed
<1>4. Unread /\ Unread' /\ got' = NotRead
  BY <1>1, <1>2 DEF MessageIs, Unread
<1>5. Answering' = Answering
  BY <1>1, <1>3 DEF Answering
<1>6. query = TheQuery
  BY <1>1, <1>2 DEF QueryAsks
<1>7. /\ query = [qr |-> "query", rcode |-> 0, questions |-> Len(questions), answers |-> 0,
                  data |-> QueryDraft.data]
      /\ QueryDraft.data \in Seq(Octet)
  BY <1>2, <1>6, DraftLays DEF TheQuery
<1>8. MessageIs'
  <2>1. CASE \E rcode \in Rcodes :
               written = Blank /\ message' = [query EXCEPT !.qr = "response", !.rcode = rcode]
    <3>1. PICK rcode \in Rcodes :
            written = Blank /\ message' = [query EXCEPT !.qr = "response", !.rcode = rcode]
      BY <2>1
    <3>2. rcode # 0
      BY ResolverAssumption
    <3>3. message'.qr = "response" /\ message'.rcode = rcode /\ message'.data = QueryDraft.data
      BY <1>7, <3>1
    <3>4. ErrorCame'
      BY <1>1, <1>4, <1>7, <3>1, <3>2, <3>3 DEF ErrorCame
    <3> QED
      BY <3>3, <3>4 DEF MessageIs, NoMessage
  <2>2. CASE /\ written # Blank
             /\ message' = [query EXCEPT !.qr = "response", !.answers = Len(written.records),
                                         !.data = written.data]
    <3>1. /\ message' = [qr |-> "response", rcode |-> 0, questions |-> Len(questions),
                         answers |-> Len(written.records), data |-> written.data]
      BY <1>7, <2>2
    <3>2. Layout(written, written.known, questions, written.records, written.starts)
      BY <1>2, <2>2 DEF ServerLays
    <3>3. Layout(message', written.known, questions, written.records, written.starts)
      BY <3>1, <3>2, LayoutSame
    <3>4. Answering = written.records
      BY <2>2 DEF Answering
    <3>5. \E L, t : MessageLays(L, t)'
      <4>1. Layout(message', written.known, questions, Answering', written.starts)
        BY <1>5, <3>3, <3>4
      <4> QED
        BY <1>1, <1>3, <1>4, <4>1, ReadsFirst
    <3>6. got'.answers <= Len(Answering')
      <4>1. written.records \in Seq(Reply)
        BY <3>2 DEF Layout
      <4>2. Len(written.records) \in Nat
        BY <4>1, LenProperties
      <4> QED
        BY <1>4, <1>5, <3>4, <4>2 DEF NotRead
    <3>7. AnswerCame'
      BY <1>3, <1>5, <3>1, <3>4, <3>5, <3>6 DEF AnswerCame
    <3> QED
      BY <3>1, <3>7 DEF MessageIs, NoMessage
  <2> QED
    BY <2>1, <2>2 DEF ServerAnswers
<1>9. HostReads'
  BY <1>1, <1>2, <1>3, <1>5 DEF HostReads
<1>10. QueryAsks'
  BY <1>1, <1>2, AsksKept
<1>11. ServerLays' /\ GenReads' /\ GenLays'
  BY <1>1, <1>2, ServerKept, GenKept
<1>12. StateFollows'
  BY <1>1 DEF StateFollows
<1> QED
  BY <1>8, <1>9, <1>10, <1>11, <1>12 DEF ResolverInv

-----------------------------------------------------------------------------
(* c_dns_gen_inet_response reads questions, ...                            *)

\* The query in front of it is the draft of its questions.
LEMMA QueryLays ==
  ASSUME ResolverInv, state # "asking"
  PROVE  /\ query = TheQuery /\ query.questions = Len(questions) /\ query.data = QueryDraft.data
         /\ questions \in Seq(Question) /\ Len(questions) \in Nat
         /\ Layout(query, QueryDraft.known, questions, << >>, QueryDraft.starts)
         /\ query.data \in Seq(Octet) /\ Fits(query, QueryDraft.known)
         /\ \A i : StartOf(query, QueryDraft.starts, i) = StartOf(QueryDraft, QueryDraft.starts, i)
<1>1. QueryAsks
  BY DEF ResolverInv
<1>2. query = TheQuery
  BY <1>1 DEF QueryAsks
<1>3. query.questions = Len(questions) /\ query.data = QueryDraft.data
  BY <1>2 DEF TheQuery
<1>4. /\ questions \in Seq(Question) /\ Len(questions) \in Nat /\ QueryDraft.data \in Seq(Octet)
      /\ Layout(QueryDraft, QueryDraft.known, questions, << >>, QueryDraft.starts)
  BY <1>1, DraftLays
<1>5. Layout(query, QueryDraft.known, questions, << >>, QueryDraft.starts)
  BY <1>3, <1>4, LayoutSame
<1>6. End(query) = End(QueryDraft)
  BY <1>3 DEF End
<1> QED
  BY <1>2, <1>3, <1>4, <1>5, <1>6 DEF Layout, StartOf

\* What it hears of a question.
LEMMA QuestionHeard ==
  ASSUME ResolverInv, state # "asking", NEW i \in 1..Len(questions), NEW o,
         o = StartOf(QueryDraft, QueryDraft.starts, i)
  PROVE  /\ questions[i] \in Question
         /\ GetName(query, o).size # -1
         /\ o + GetName(query, o).size + QUESTION_BASE = StartOf(QueryDraft, QueryDraft.starts, i + 1)
         /\ HeardOf(QuestionAt(query, o), questions[i]) /\ QuestionAt(query, o) \in Hearing
         /\ Answers(QuestionAt(query, o)) <=> Asked(questions[i])
<1> DEFINE q == questions[i]
           K == QueryDraft.known
           s == QueryDraft.starts
           g == QuestionAt(query, o)
           next == StartOf(QueryDraft, s, i + 1)
<1>1. /\ questions \in Seq(Question)
      /\ Layout(query, K, questions, << >>, s)
      /\ query.data \in Seq(Octet) /\ Fits(query, K)
      /\ StartOf(query, s, i) = o /\ StartOf(query, s, i + 1) = next
  BY QueryLays
<1>2. q \in Question
  BY <1>1, ElementOfSeq
<1>3. QuestionIn(query, K, o, q, next)
  BY <1>1 DEF Layout
<1>4. g = [domain |-> g.domain, offset |-> g.offset, type |-> g.type, class |-> g.class]
  BY DEF QuestionAt
<1>5. q.name \in HostName /\ q.type \in Short /\ q.class \in Short
  BY <1>2, QuestionTyped
<1> HIDE DEF q, K, s, g, next
<1>6. /\ GetName(query, o).size # -1 /\ o + GetName(query, o).size + QUESTION_BASE = next
      /\ g.domain = TextOf(q.name) /\ g.type = q.type /\ g.class = q.class
      /\ \E k \in K : k.name = q.name /\ k.at = g.offset
  BY <1>1, <1>2, <1>3, QuestionReads DEF g
<1>7. HeardOf(g, q)
  BY <1>4, <1>6 DEF HeardOf, K
<1>8. g.offset \in Nat /\ g.domain \in Seq(Octet)
  <2>1. g.offset \in Nat
    <3>1. K \subseteq KnownName
      BY <1>1 DEF Fits
    <3>2. \A k \in KnownName : k.at \in Nat
      BY DEF KnownName
    <3> QED
      BY <1>6, <3>1, <3>2
  <2>2. q.name \in Seq(Label) /\ q.name # << >>
    BY <1>5, HostNameType
  <2>3. TextOf(q.name) \in Seq(Octet)
    BY <2>2, TextJoined
  <2> QED
    BY <1>6, <2>1, <2>3
<1>9. g \in Hearing
  <2> DEFINE a == g.domain
             b == g.offset
             c == g.type
             d == g.class
  <2>1. a \in Seq(Octet) /\ b \in Nat /\ c \in Short /\ d \in Short
    BY <1>5, <1>6, <1>8
  <2>2. g = [domain |-> a, offset |-> b, type |-> c, class |-> d]
    BY <1>4
  <2> HIDE DEF a, b, c, d
  <2> QED
    BY <2>1, <2>2 DEF Hearing
<1>10. Answers(g) <=> Asked(q)
  BY <1>6 DEF Answers, Asked
<1> QED
  BY <1>2, <1>6, <1>7, <1>9, <1>10 DEF q, s, g, next

LEMMA GenQuestionKeeps ==
  ASSUME ResolverInv, GenQuestion
  PROVE  ResolverInv'
<1> DEFINE n == gen.read
           i == n + 1
           q == questions[n + 1]
           g == QuestionAt(query, gen.at)
           size == GetName(query, gen.at).size
           old == AskedIn(SubSeq(questions, 1, n))
           new == AskedIn(SubSeq(questions, 1, n + 1))
<1>1. /\ state = "waiting" /\ message = NoMessage /\ written = Blank
      /\ query.qr = "query" /\ n < query.questions
      /\ UNCHANGED <<asked, message, armed, state, got, host, written, compress>>
      /\ IF size = -1 THEN lost' = TRUE /\ gen' = gen
         ELSE /\ gen' = [gen EXCEPT !.begun = TRUE, !.read = @ + 1,
                                    !.at = @ + size + QUESTION_BASE,
                                    !.domains = IF Answers(g) THEN Append(@, g) ELSE @]
              /\ lost' = lost
  BY DEF GenQuestion
<1>2. QueryAsks /\ GenReads /\ GenLays /\ lost \in BOOLEAN
  BY DEF ResolverInv, QueryAsks
<1>3. /\ questions \in Seq(Question) /\ Len(questions) \in Nat /\ query.questions = Len(questions)
  BY <1>1, QueryLays
<1>4. /\ gen = [begun |-> gen.begun, read |-> gen.read, at |-> gen.at, domains |-> gen.domains,
                data |-> gen.data]
      /\ n \in 0..Len(questions)
      /\ gen.at = StartOf(QueryDraft, QueryDraft.starts, i)
      /\ gen.domains \in Seq(Hearing)
      /\ Len(gen.domains) = Len(old)
      /\ \A j \in 1..Len(gen.domains) : HeardOf(gen.domains[j], old[j])
  BY <1>2 DEF GenReads
<1>5. n \in Nat /\ i \in 1..Len(questions) /\ n + 1 <= Len(questions) /\ n # Len(questions)
  BY <1>1, <1>3, <1>4
<1>6. /\ q \in Question /\ size # -1
      /\ gen.at + size + QUESTION_BASE = StartOf(QueryDraft, QueryDraft.starts, i + 1)
      /\ HeardOf(g, q) /\ g \in Hearing /\ (Answers(g) <=> Asked(q))
  BY <1>1, <1>4, <1>5, QuestionHeard
<1>7. /\ gen' = [begun |-> TRUE, read |-> i,
                 at |-> StartOf(QueryDraft, QueryDraft.starts, i + 1),
                 domains |-> IF Answers(g) THEN Append(gen.domains, g) ELSE gen.domains,
                 data |-> gen.data]
      /\ lost' = lost
  <2> HIDE DEF g, size
  <2>1. gen' = [gen EXCEPT !.begun = TRUE, !.read = @ + 1,
                           !.at = @ + size + QUESTION_BASE,
                           !.domains = IF Answers(g) THEN Append(@, g) ELSE @]
        /\ lost' = lost
    BY <1>1, <1>6
  <2> QED
    BY <1>4, <1>6, <2>1
<1>8. new = IF Asked(q) THEN Append(old, q) ELSE old
  <2>1. /\ SubSeq(questions, 1, n) \in Seq(Question)
        /\ SubSeq(questions, 1, n + 1) = Append(SubSeq(questions, 1, n), q)
    BY <1>3, <1>5, OneMore
  <2> QED
    BY <1>6, <2>1, AskedLonger
<1>9. old \in Seq(Question) /\ Len(old) \in Nat
  <2>1. SubSeq(questions, 1, n) \in Seq(Question)
    BY <1>3, <1>5, OneMore
  <2> QED
    BY <2>1, AskedType
<1>10. questions' = questions /\ QueryDraft' = QueryDraft /\ Generated' = Generated
  BY <1>1, Fixed
<1>11. /\ gen'.domains \in Seq(Hearing) /\ Len(gen'.domains) = Len(new)
       /\ \A j \in 1..Len(gen'.domains) : HeardOf(gen'.domains[j], new[j])
       /\ Len(gen.domains) <= Len(gen'.domains)
  <2> DEFINE ds == gen.domains
             es == gen'.domains
  <2>1. es = IF Asked(q) THEN Append(ds, g) ELSE ds
    BY <1>6, <1>7
  <2>2. /\ ds \in Seq(Hearing) /\ Len(ds) = Len(old) /\ g \in Hearing /\ q \in Question
        /\ \A j \in 1..Len(ds) : HeardOf(ds[j], old[j])
    BY <1>4, <1>6
  <2>3. HeardOf(g, q)
    BY <1>6
  <2> HIDE DEF ds, es, old, new, g, q
  <2>4. CASE Asked(q)
    <3>1. /\ es \in Seq(Hearing) /\ Len(es) = Len(ds) + 1 /\ es[Len(ds) + 1] = g
          /\ \A j \in 1..Len(ds) : es[j] = ds[j]
      BY <2>1, <2>2, <2>4, AppendProperties
    <3>2. /\ Len(new) = Len(old) + 1 /\ new[Len(old) + 1] = q
          /\ \A j \in 1..Len(old) : new[j] = old[j]
      BY <1>8, <1>9, <2>2, <2>4, AppendProperties
    <3>3. ASSUME NEW j \in 1..Len(es) PROVE HeardOf(es[j], new[j])
      <4>1. CASE j = Len(old) + 1
        BY <2>2, <2>3, <3>1, <3>2, <4>1
      <4>2. CASE j # Len(old) + 1
        <5>1. j \in 1..Len(old) /\ j \in 1..Len(ds)
          BY <1>9, <2>2, <3>1, <4>2
        <5> QED
          BY <2>2, <3>1, <3>2, <5>1
      <4> QED
        BY <4>1, <4>2
    <3> QED
      BY <1>9, <2>2, <3>1, <3>2, <3>3 DEF ds, es
  <2>5. CASE ~Asked(q)
    <3>1. es = ds /\ new = old
      BY <1>8, <2>1, <2>5
    <3> QED
      BY <1>9, <2>2, <3>1 DEF ds, es
  <2> QED
    BY <2>4, <2>5
<1> HIDE DEF q, g, size, old
<1>12. GenReads'
  <2>1. /\ gen' = [begun |-> gen'.begun, read |-> gen'.read, at |-> gen'.at,
                   domains |-> gen'.domains, data |-> gen'.data]
        /\ gen'.read = i /\ gen'.at = StartOf(QueryDraft, QueryDraft.starts, i + 1)
    BY <1>7
  <2>2. gen'.read \in 0..Len(questions) /\ gen'.read + 1 = i + 1
    BY <1>5, <2>1
  <2>3. new = AskedIn(SubSeq(questions, 1, gen'.read))
    BY <2>1
  <2> HIDE DEF new, i
  <2>4. /\ Len(gen'.domains) = Len(AskedIn(SubSeq(questions, 1, gen'.read)))
        /\ \A j \in 1..Len(gen'.domains) :
             HeardOf(gen'.domains[j], AskedIn(SubSeq(questions, 1, gen'.read))[j])
    BY <1>11, <2>3
  <2>6. gen'.at = StartOf(QueryDraft, QueryDraft.starts, gen'.read + 1)
    BY <2>1, <2>2
  <2>7. /\ gen'.read \in 0..Len(questions')
        /\ gen'.at = StartOf(QueryDraft', QueryDraft'.starts, gen'.read + 1)
        /\ Len(gen'.domains) = Len(AskedIn(SubSeq(questions', 1, gen'.read)))
        /\ gen'.domains \in Seq(Hearing)
    BY <1>10, <1>11, <2>2, <2>4, <2>6
  <2>8. \A j \in 1..Len(gen'.domains) :
          /\ gen'.domains[j] =
               [domain |-> TextOf(AskedIn(SubSeq(questions', 1, gen'.read))[j].name),
                offset |-> gen'.domains[j].offset,
                type |-> AskedIn(SubSeq(questions', 1, gen'.read))[j].type,
                class |-> AskedIn(SubSeq(questions', 1, gen'.read))[j].class]
          /\ \E k \in QueryDraft'.known :
               /\ k.name = AskedIn(SubSeq(questions', 1, gen'.read))[j].name
               /\ k.at = gen'.domains[j].offset
    BY <1>10, <2>4 DEF HeardOf
  <2> QED
    BY <2>1, <2>7, <2>8 DEF GenReads, HeardOf
<1>13. GenLays'
  <2>1. gen.data = << >> /\ gen'.data = << >>
    BY <1>2, <1>5, <1>7 DEF GenLays
  <2>2. gen.data \in Seq(Seq(Octet)) /\ Len(gen.data) <= Len(gen.domains)
        /\ Len(gen.domains) \in Nat /\ Len(gen'.domains) \in Nat /\ Len(gen.data) \in Nat
    <3>1. gen.data \in Seq(Seq(Octet)) /\ Len(gen.data) <= Len(gen.domains)
      BY <1>2 DEF GenLays
    <3> QED
      BY <3>1, <1>4, <1>11, LenProperties
  <2>3. Len(gen'.data) <= Len(gen'.domains)
    BY <1>11, <2>1, <2>2
  <2>4. \E starts :
          Layout([data |-> QueryDraft.data \o FlattenSeq(gen.data)], QueryDraft.known, questions,
                 SubSeq(Generated, 1, Len(gen.data)), starts)
    BY <1>2 DEF GenLays
  <2> QED
    BY <1>10, <2>1, <2>2, <2>3, <2>4 DEF GenLays
<1>14. QueryAsks'
  BY <1>1, <1>2, <1>7, AsksKept
<1>15. ServerLays'
  BY <1>1 DEF ServerLays
<1>16. MessageIs' /\ HostReads'
  BY <1>1, NothingRead
<1>17. StateFollows'
  BY <1>1 DEF StateFollows
<1> QED
  BY <1>12, <1>13, <1>14, <1>15, <1>16, <1>17 DEF ResolverInv

-----------------------------------------------------------------------------
(* ... and answers them.                                                   *)

LEMMA GeneratedIs ==
  ASSUME questions \in Seq(Question)
  PROVE  /\ Len(Generated) = Len(AskedIn(questions)) /\ Len(Generated) \in Nat
         /\ Generated \in Seq({Generated[i] : i \in 1..Len(Generated)})
         /\ \A i \in 1..Len(Generated) :
              Generated[i] = [owner |-> AskedIn(questions)[i].name, type |-> QTYPE_A,
                              data |-> OwnAddress(AskedIn(questions)[i])]
<1> DEFINE asks == AskedIn(questions)
           l == Len(asks)
           e(i) == [owner |-> asks[i].name, type |-> QTYPE_A, data |-> OwnAddress(asks[i])]
           S == {Generated[i] : i \in 1..Len(Generated)}
<1>1. l \in Nat
  BY AskedType
<1>2. Generated = [i \in 1..l |-> e(i)]
  BY DEF Generated
<1> HIDE DEF asks, l
<1>3. Generated \in Seq({e(i) : i \in 1..l}) /\ Len(Generated) = l
      /\ \A i \in 1..l : Generated[i] = e(i)
  <2>1. Generated \in [1..l -> {e(i) : i \in 1..l}]
    BY <1>2
  <2> HIDE DEF e
  <2>2. \A T : \A f \in [1..l -> T] : f \in Seq(T) /\ Len(f) = l
    BY <1>1
  <2>3. \A i \in 1..l : Generated[i] = e(i)
    BY <1>2
  <2> QED
    BY <2>1, <2>2, <2>3
<1>4. {e(i) : i \in 1..l} = S
  <2> HIDE DEF e
  <2> QED
    BY <1>3
<1> HIDE DEF S
<1>5. Generated \in Seq(S)
  BY <1>3, <1>4
<1> QED
  BY <1>1, <1>3, <1>5 DEF asks, l, S

\* What our callbacks know are addresses.
LEMMA OwnAddressType ==
  ASSUME NEW q \in Question, TextOf(q.name) \in DOMAIN Hosts
  PROVE  OwnAddress(q) \in AnyAddress
<1>1. Hosts[TextOf(q.name)] \in Address
  BY ResolverAssumption
<1>2. ASSUME NEW l \in Nat, NEW S, NEW f \in [1..l -> S] PROVE f \in Seq(S) /\ Len(f) = l
  OBVIOUS
<1>3. 4 \in Nat /\ 16 \in Nat
  OBVIOUS
<1>4. /\ Hosts[TextOf(q.name)].ipv4 \in [1..4 -> Octet]
      /\ Hosts[TextOf(q.name)].ipv6 \in [1..16 -> Octet]
  BY <1>1, Zenon DEF Address, Octet
<1>5. /\ Hosts[TextOf(q.name)].ipv4 \in AnyAddress
      /\ Hosts[TextOf(q.name)].ipv6 \in AnyAddress
  <2>1. \A a : a \in Seq(Octet) /\ (Len(a) = 4 \/ Len(a) = 16) => a \in AnyAddress
    BY DEF AnyAddress
  <2>2. /\ Hosts[TextOf(q.name)].ipv4 \in Seq(Octet) /\ Len(Hosts[TextOf(q.name)].ipv4) = 4
        /\ Hosts[TextOf(q.name)].ipv6 \in Seq(Octet) /\ Len(Hosts[TextOf(q.name)].ipv6) = 16
    BY <1>2, <1>3, <1>4, Zenon
  <2> QED
    BY <2>1, <2>2, Zenon
<1> QED
  BY <1>5, Zenon DEF OwnAddress

\* All questions are heard.
LEMMA AllHeard ==
  ASSUME ResolverInv, gen.read = Len(questions)
  PROVE  /\ questions \in Seq(Question) /\ AskedIn(questions) \in Seq(Question)
         /\ gen.domains \in Seq(Hearing) /\ Len(gen.domains) \in Nat
         /\ Len(gen.domains) = Len(AskedIn(questions))
         /\ \A i \in 1..Len(gen.domains) : HeardOf(gen.domains[i], AskedIn(questions)[i])
         /\ gen.data \in Seq(Seq(Octet)) /\ Len(gen.data) \in Nat /\ Len(gen.data) <= Len(gen.domains)
<1>1. questions \in Seq(Question) /\ GenReads /\ GenLays
  BY DEF ResolverInv, QueryAsks
<1>2. SubSeq(questions, 1, gen.read) = questions
  BY <1>1, SubSeqFull
<1>3. /\ gen.domains \in Seq(Hearing) /\ Len(gen.domains) = Len(AskedIn(questions))
      /\ \A i \in 1..Len(gen.domains) : HeardOf(gen.domains[i], AskedIn(questions)[i])
  BY <1>1, <1>2 DEF GenReads
<1>4. gen.data \in Seq(Seq(Octet)) /\ Len(gen.data) <= Len(gen.domains)
  BY <1>1 DEF GenLays
<1> QED
  BY <1>1, <1>3, <1>4, AskedType, LenProperties

\* One more answer to what was heard.
LEMMA OwnAnswerLays ==
  ASSUME NEW d \in Seq(Octet), NEW t \in Seq(Seq(Octet)), NEW K, NEW qs, NEW rs, NEW starts,
         Layout([data |-> d \o FlattenSeq(t)], K, qs, rs, starts),
         NEW k \in K, NEW g, g.offset = k.at, NEW x \in AnyAddress, k.name \in HostName
  PROVE  /\ Append(t, InetAnswer(g, x)) \in Seq(Seq(Octet))
         /\ Len(Append(t, InetAnswer(g, x))) = Len(t) + 1
         /\ \E s : Layout([data |-> d \o FlattenSeq(Append(t, InetAnswer(g, x)))], K, qs,
                          Append(rs, [owner |-> k.name, type |-> QTYPE_A, data |-> x]), s)
<1> DEFINE a == InetAnswer(g, x)
           m == [data |-> d \o FlattenSeq(t)]
           n == [data |-> m.data \o a]
           p == [data |-> d \o FlattenSeq(Append(t, a))]
           r == [owner |-> k.name, type |-> QTYPE_A, data |-> x]
<1>1. m.data = d \o FlattenSeq(t) /\ n.data = m.data \o a /\ p.data = d \o FlattenSeq(Append(t, a))
  OBVIOUS
<1>2. r \in Reply
  BY DEF Reply
<1> HIDE DEF a, m, n, p, r
<1>3. Layout(m, K, qs, rs, starts)
  BY DEF m
<1>4. m.data \in Seq(Octet) /\ Fits(m, K)
  BY <1>3 DEF Layout
<1>5. /\ a \in Seq(Octet) /\ n.data \in Seq(Octet) /\ Keeps(m, n)
      /\ RecordIn(n, K, End(m), r, End(n))
  <2>1. n.data = m.data \o InetAnswer(g, x)
    BY <1>1 DEF a
  <2>2. /\ InetAnswer(g, x) \in Seq(Octet) /\ n.data \in Seq(Octet) /\ Keeps(m, n)
        /\ RecordIn(n, K, End(m), [owner |-> k.name, type |-> QTYPE_A, data |-> x], End(n))
    BY <1>4, <2>1, OwnAnswerWritten
  <2> QED
    BY <2>2 DEF a, r
<1>6. Fits(n, K)
  BY <1>4, <1>5, FitsKept DEF Fits
<1>7. Layout(n, K, qs, Append(rs, r), Append(starts, End(m)))
  BY <1>2, <1>3, <1>5, <1>6, LayoutRecord
<1>8. p.data = n.data
  <2>1. FlattenSeq(t) \in Seq(Octet) /\ FlattenSeq(Append(t, a)) = FlattenSeq(t) \o a
    BY <1>5, FlattenAppend
  <2>2. (d \o FlattenSeq(t)) \o a = d \o (FlattenSeq(t) \o a)
    BY <1>5, <2>1, OctetAssociates
  <2>3. p.data = d \o (FlattenSeq(t) \o a)
    BY <1>1, <2>1
  <2>4. n.data = (d \o FlattenSeq(t)) \o a
    BY <1>1
  <2> QED
    BY <2>2, <2>3, <2>4
<1>9. Layout(p, K, qs, Append(rs, r), Append(starts, End(m)))
  BY <1>7, <1>8, LayoutSame
<1>10. Append(t, a) \in Seq(Seq(Octet)) /\ Len(Append(t, a)) = Len(t) + 1
  BY <1>5, AppendProperties
<1> QED
  BY <1>9, <1>10 DEF a, p, r

LEMMA GenAnswerKeeps ==
  ASSUME ResolverInv, GenAnswer
  PROVE  ResolverInv'
<1> DEFINE n == Len(gen.data)
           g == gen.domains[n + 1]
           x == AddressOf(Hosts, g)
<1>1. /\ state = "waiting" /\ message = NoMessage
      /\ gen.read = query.questions /\ gen.begun /\ n < Len(gen.domains)
      /\ UNCHANGED <<asked, message, armed, state, got, host, written, compress>>
      /\ \/ lost' = TRUE /\ gen' = gen
         \/ /\ g.domain \in DOMAIN Hosts
            /\ gen' = [gen EXCEPT !.data = Append(@, InetAnswer(g, x))]
            /\ lost' = lost
  BY DEF GenAnswer, GenDone
<1>2. QueryAsks /\ ServerLays /\ GenReads /\ GenLays /\ lost \in BOOLEAN
  BY DEF ResolverInv, QueryAsks
<1>3. gen.read = Len(questions)
  BY <1>1, QueryLays
<1>4. written = Blank
  BY <1>1, <1>2 DEF ServerLays
<1>5. StateFollows'
  BY <1>1 DEF StateFollows
<1>6. CASE lost' = TRUE /\ gen' = gen
  BY <1>1, <1>5, <1>6, OnlyState
<1>7. CASE /\ g.domain \in DOMAIN Hosts
           /\ gen' = [gen EXCEPT !.data = Append(@, InetAnswer(g, x))]
           /\ lost' = lost
  <2> DEFINE q == AskedIn(questions)[n + 1]
             K == QueryDraft.known
  <2>1. /\ questions \in Seq(Question) /\ AskedIn(questions) \in Seq(Question)
        /\ gen.domains \in Seq(Hearing) /\ Len(gen.domains) \in Nat
        /\ Len(gen.domains) = Len(AskedIn(questions))
        /\ \A i \in 1..Len(gen.domains) : HeardOf(gen.domains[i], AskedIn(questions)[i])
        /\ gen.data \in Seq(Seq(Octet)) /\ n \in Nat
    BY <1>3, AllHeard
  <2>2. n + 1 \in 1..Len(gen.domains) /\ n + 1 \in 1..Len(AskedIn(questions)) /\ n + 1 <= Len(gen.domains)
    BY <1>1, <2>1
  <2>3. q \in Question /\ HeardOf(g, q)
    BY <2>1, <2>2, ElementOfSeq
  <2>4. PICK k \in K : k.name = q.name /\ k.at = g.offset
    BY <2>3 DEF HeardOf
  <2>5. g.domain = TextOf(q.name) /\ g.type = q.type /\ k.name \in HostName
    <3>1. g.domain = TextOf(q.name) /\ g.type = q.type
      <4> DEFINE o == g.offset
      <4>1. g = [domain |-> TextOf(q.name), offset |-> o, type |-> q.type, class |-> q.class]
        BY <2>3 DEF HeardOf
      <4> HIDE DEF o, g, q
      <4> QED
        BY <4>1
    <3> QED
      BY <2>3, <2>4, <3>1, QuestionTyped
  <2>6. x = OwnAddress(q)
    BY <2>5 DEF AddressOf, OwnAddress
  <2>7. x \in AnyAddress
    BY <1>7, <2>3, <2>5, <2>6, OwnAddressType
  <2>8. PICK starts :
          Layout([data |-> QueryDraft.data \o FlattenSeq(gen.data)], K, questions,
                 SubSeq(Generated, 1, n), starts)
    BY <1>2 DEF GenLays
  <2>9. QueryDraft.data \in Seq(Octet)
    BY <1>2, DraftLays
  <2>10. SubSeq(Generated, 1, n + 1) =
           Append(SubSeq(Generated, 1, n), [owner |-> k.name, type |-> QTYPE_A, data |-> x])
    <3>1. /\ Len(Generated) = Len(AskedIn(questions))
          /\ Generated \in Seq({Generated[i] : i \in 1..Len(Generated)})
          /\ \A i \in 1..Len(Generated) :
               Generated[i] = [owner |-> AskedIn(questions)[i].name, type |-> QTYPE_A,
                               data |-> OwnAddress(AskedIn(questions)[i])]
      BY <2>1, GeneratedIs
    <3> DEFINE S == {Generated[i] : i \in 1..Len(Generated)}
    <3>2. Generated \in Seq(S) /\ n + 1 <= Len(Generated) /\ n \in Nat
      BY <2>1, <2>2, <3>1
    <3>3. Generated[n + 1] = [owner |-> k.name, type |-> QTYPE_A, data |-> x]
      BY <2>2, <2>4, <2>6, <3>1
    <3> HIDE DEF S, x, n
    <3>4. SubSeq(Generated, 1, n + 1) = Append(SubSeq(Generated, 1, n), Generated[n + 1])
      BY <3>2, OneMore
    <3> QED
      BY <3>3, <3>4
  <2> HIDE DEF K, x, q, g
  <2>11. /\ Append(gen.data, InetAnswer(g, x)) \in Seq(Seq(Octet))
         /\ Len(Append(gen.data, InetAnswer(g, x))) = n + 1
         /\ \E s : Layout([data |-> QueryDraft.data \o FlattenSeq(Append(gen.data, InetAnswer(g, x)))],
                          K, questions, SubSeq(Generated, 1, n + 1), s)
    <3> DEFINE r == [owner |-> k.name, type |-> QTYPE_A, data |-> x]
               rs == SubSeq(Generated, 1, n)
    <3>1. k \in K /\ g.offset = k.at /\ k.name \in HostName
      BY <2>4, <2>5
    <3>2. Layout([data |-> QueryDraft.data \o FlattenSeq(gen.data)], K, questions, rs, starts)
      BY <2>8
    <3> HIDE DEF rs
    <3>3. /\ Append(gen.data, InetAnswer(g, x)) \in Seq(Seq(Octet))
          /\ Len(Append(gen.data, InetAnswer(g, x))) = n + 1
          /\ \E s : Layout([data |-> QueryDraft.data \o FlattenSeq(Append(gen.data, InetAnswer(g, x)))],
                           K, questions, Append(rs, r), s)
      BY <2>1, <2>7, <2>9, <3>1, <3>2, OwnAnswerLays
    <3> QED
      BY <2>10, <3>3 DEF rs
  <2>12. gen' = [begun |-> gen.begun, read |-> gen.read, at |-> gen.at, domains |-> gen.domains,
                 data |-> Append(gen.data, InetAnswer(g, x))]
    <3>1. gen = [begun |-> gen.begun, read |-> gen.read, at |-> gen.at, domains |-> gen.domains,
                 data |-> gen.data]
      BY <1>2 DEF GenReads
    <3>2. gen' = [gen EXCEPT !.data = Append(@, InetAnswer(g, x))]
      BY <1>7 DEF g, x
    <3> QED
      BY <3>1, <3>2
  <2>13. questions' = questions /\ QueryDraft' = QueryDraft /\ Generated' = Generated
    BY <1>1, Fixed
  <2>14. GenReads'
    <3>1. /\ gen' = [begun |-> gen'.begun, read |-> gen'.read, at |-> gen'.at,
                     domains |-> gen'.domains, data |-> gen'.data]
          /\ gen'.read = gen.read /\ gen'.at = gen.at /\ gen'.domains = gen.domains
      BY <2>12
    <3> QED
      BY <1>2, <2>13, <3>1 DEF GenReads, HeardOf
  <2>15. GenLays'
    <3>1. /\ gen'.data = Append(gen.data, InetAnswer(g, x)) /\ gen'.domains = gen.domains
          /\ gen'.read = gen.read
      BY <2>12
    <3>2. /\ gen'.data \in Seq(Seq(Octet)) /\ Len(gen'.data) = n + 1
          /\ \E s : Layout([data |-> QueryDraft.data \o FlattenSeq(gen'.data)],
                           K, questions, SubSeq(Generated, 1, Len(gen'.data)), s)
      BY <2>11, <3>1
    <3>3. Len(gen'.data) <= Len(gen'.domains)
      BY <2>2, <3>1, <3>2
    <3> QED
      BY <1>3, <2>13, <3>1, <3>2, <3>3 DEF GenLays, K
  <2>16. QueryAsks'
    BY <1>1, <1>2, <1>7, AsksKept
  <2>17. ServerLays'
    BY <1>1, <1>4 DEF ServerLays
  <2>18. MessageIs' /\ HostReads'
    BY <1>1, NothingRead
  <2> QED
    BY <1>5, <2>14, <2>15, <2>16, <2>17, <2>18 DEF ResolverInv
<1> QED
  BY <1>1, <1>6, <1>7

LEMMA GenReturnsKeeps ==
  ASSUME ResolverInv, GenReturns
  PROVE  ResolverInv'
<1> DEFINE K == QueryDraft.known
<1>1. /\ state = "waiting" /\ message = NoMessage
      /\ gen.read = query.questions /\ gen.begun /\ Len(gen.data) = Len(gen.domains)
      /\ message' = [query EXCEPT !.qr = "response", !.answers = Len(gen.domains),
                                  !.data = SubSeq(@, 1, gen.at - HEADER_LENGTH)
                                             \o FlattenSeq(gen.data)]
      /\ UNCHANGED <<asked, armed, state, got, host, gen, written, compress, lost>>
  BY DEF GenReturns, GenDone, answerer
<1>2. /\ QueryAsks /\ ServerLays /\ GenReads /\ GenLays /\ HostReads /\ MessageIs
      /\ lost \in BOOLEAN
  BY DEF ResolverInv, QueryAsks
<1>3. /\ query = TheQuery /\ query.data = QueryDraft.data /\ query.questions = Len(questions)
      /\ questions \in Seq(Question) /\ Len(questions) \in Nat
  BY <1>1, QueryLays
<1>4. /\ QueryDraft.data \in Seq(Octet) /\ Len(QueryDraft.starts) = Len(questions)
  BY <1>2, DraftLays
<1>5. written = Blank
  BY <1>1, <1>2 DEF ServerLays
<1>6. questions' = questions /\ QueryDraft' = QueryDraft /\ Generated' = Generated
  BY <1>1, Fixed
<1>7. Answering = Generated /\ Answering' = Generated
  BY <1>1, <1>5, <1>6 DEF Answering
<1>8. /\ Len(gen.domains) = Len(Generated) /\ Len(Generated) \in Nat
      /\ Generated \in Seq({Generated[i] : i \in 1..Len(Generated)})
  BY <1>1, <1>3, AllHeard, GeneratedIs
<1>9. SubSeq(query.data, 1, gen.at - HEADER_LENGTH) = QueryDraft.data
  <2>1. gen.at = StartOf(QueryDraft, QueryDraft.starts, Len(questions) + 1)
    BY <1>1, <1>2, <1>3 DEF GenReads
  <2>2. gen.at = End(QueryDraft)
    BY <1>3, <1>4, <2>1 DEF StartOf
  <2>3. Len(QueryDraft.data) \in Nat
    BY <1>4, LenProperties
  <2>4. gen.at - HEADER_LENGTH = Len(QueryDraft.data)
    BY <2>2, <2>3 DEF End, HEADER_LENGTH
  <2> QED
    BY <1>3, <1>4, <2>4, SubSeqFull
<1>10. message' = [qr |-> "response", rcode |-> 0, questions |-> Len(questions),
                   answers |-> Len(Generated), data |-> QueryDraft.data \o FlattenSeq(gen.data)]
  <2> DEFINE d == QueryDraft.data \o FlattenSeq(gen.data)
             l == Len(Generated)
             z == query.data
             c == Len(questions)
  <2>1. query = [qr |-> "query", rcode |-> 0, questions |-> c, answers |-> 0, data |-> z]
    BY <1>3 DEF TheQuery
  <2>2. message' = [query EXCEPT !.qr = "response", !.answers = l, !.data = d]
    BY <1>1, <1>8, <1>9
  <2> HIDE DEF d, l, z, c
  <2>3. message' = [qr |-> "response", rcode |-> 0, questions |-> c, answers |-> l, data |-> d]
    BY <2>1, <2>2
  <2> QED
    BY <2>3 DEF d, l, c
<1>11. \E starts : Layout(message', K, questions, Generated, starts)
  <2>1. PICK starts :
          Layout([data |-> QueryDraft.data \o FlattenSeq(gen.data)], K, questions,
                 SubSeq(Generated, 1, Len(gen.data)), starts)
    BY <1>2 DEF GenLays
  <2>2. SubSeq(Generated, 1, Len(gen.data)) = Generated
    BY <1>1, <1>8, SubSeqFull
  <2> DEFINE m == [data |-> QueryDraft.data \o FlattenSeq(gen.data)]
  <2>3. message'.data = m.data
    BY <1>10
  <2> HIDE DEF m
  <2>4. Layout(m, K, questions, Generated, starts)
    BY <2>1, <2>2 DEF m
  <2>5. Layout(message', K, questions, Generated, starts)
    BY <2>3, <2>4, LayoutSame
  <2> QED
    BY <2>5
<1>12. Unread /\ got' = NotRead
  BY <1>1, <1>2 DEF MessageIs, Unread
<1>13. AnswerCame'
  <2>1. PICK starts : Layout(message', K, questions, Generated, starts)
    BY <1>11
  <2>2. written' = Blank
    BY <1>1, <1>5
  <2>3. Layout(message', K, questions, Answering', starts)
    BY <1>7, <2>1
  <2>4. \E L, t : MessageLays(L, t)'
    BY <1>6, <1>12, <2>2, <2>3, ReadsFirst
  <2>5. got'.answers <= Len(Answering')
    BY <1>7, <1>8, <1>12 DEF NotRead
  <2>6. /\ message'.rcode = 0 /\ message'.questions = Len(questions')
        /\ message'.answers = Len(Answering')
    BY <1>6, <1>7, <1>10
  <2> QED
    BY <2>4, <2>5, <2>6 DEF AnswerCame
<1>14. MessageIs'
  <2>1. message'.qr = "response"
    BY <1>10
  <2>2. message' # NoMessage
    BY <2>1 DEF NoMessage
  <2> QED
    BY <1>13, <2>1, <2>2 DEF MessageIs
<1>15. HostReads'
  BY <1>1, <1>2, <1>6, <1>7 DEF HostReads
<1>16. QueryAsks'
  BY <1>1, <1>2, AsksKept
<1>17. ServerLays' /\ GenReads' /\ GenLays'
  BY <1>1, <1>2, ServerKept, GenKept
<1>18. StateFollows'
  BY <1>1 DEF StateFollows
<1> QED
  BY <1>14, <1>15, <1>16, <1>17, <1>18 DEF ResolverInv

-----------------------------------------------------------------------------
(* c_dns_parse_a reads on.                                                 *)

LEMMA CursorIs ==
  ASSUME ResolverInv, state = "parsing"
  PROVE  /\ got = [questions |-> got.questions, answers |-> got.answers, at |-> got.at]
         /\ got.questions \in 0..Len(questions) /\ got.answers \in Nat /\ got.at \in Nat
         /\ got.questions < Len(questions) => got.answers = 0
         /\ got.answers <= Len(Answering)
<1>1. /\ got \in [questions : 0..Len(questions), answers : Nat, at : Nat]
      /\ got.answers > 0 => got.questions = Len(questions)
  BY DEF ResolverInv, HostReads
<1>2. got.answers <= Len(Answering) /\ Len(questions) \in Nat
  BY WhenRead DEF AnswerCame
<1> QED
  BY <1>1, <1>2

\* The cursor goes on to where the next question or answer starts.
LEMMA CursorGoesOn ==
  ASSUME ResolverInv, state = "parsing", state' = "parsing", lost' = lost,
         UNCHANGED <<asked, message, armed, gen, written, compress>>,
         NEW q \in Nat, NEW n \in Nat, NEW o,
         got' = [questions |-> q, answers |-> n, at |-> o],
         q <= Len(questions), n <= Len(Answering), n > 0 => q = Len(questions),
         \E K, starts : MessageLays(K, starts) /\ o = StartOf(message, starts, q + n + 1),
         host' = [name |-> host'.name, addrs |-> host'.addrs],
         host'.addrs = AddressesIn(SubSeq(Answering, 1, n)),
         host'.name = IF n = 0 THEN << >> ELSE TextOf(Answering[1].owner)
  PROVE  ResolverInv'
<1>1. QueryAsks /\ ServerLays /\ GenReads /\ GenLays
  BY DEF ResolverInv
<1>2. /\ message # NoMessage /\ message.rcode = 0 /\ message.qr = "response" /\ lost \in BOOLEAN
      /\ message.answers = Len(Answering) /\ message.questions = Len(questions)
      /\ Len(questions) \in Nat
  BY WhenRead
<1>3. /\ questions' = questions /\ Generated' = Generated /\ message' = message /\ written' = written
  BY Fixed
<1>4. Answering' = Answering
  BY <1>3 DEF Answering
<1>5. PICK K, starts : MessageLays(K, starts) /\ o = StartOf(message, starts, q + n + 1)
  OBVIOUS
<1>6. got'.questions = q /\ got'.answers = n /\ got'.at = o
  OBVIOUS
<1>7. o \in Nat
  <2>1. Layout(message, K, questions, Answering, starts)
    BY <1>5 DEF MessageLays
  <2>2. /\ Len(starts) = Len(questions) + Len(Answering) /\ Len(Answering) \in Nat
    <3>1. Answering \in Seq(Reply) /\ Len(starts) = Len(questions) + Len(Answering)
      BY <2>1 DEF Layout
    <3> QED
      BY <3>1, LenProperties
  <2> DEFINE i == q + n + 1
  <2>3. i \in 1..(Len(starts) + 1)
    BY <1>2, <2>2
  <2> HIDE DEF i
  <2>4. StartOf(message, starts, i) \in Nat
    BY <2>1, <2>3, StartsWithin
  <2> QED
    BY <1>5, <2>4 DEF i
<1>8. MessageIs'
  <2>1. MessageLays(K, starts)'
    BY <1>3, <1>4, <1>5, <1>6 DEF MessageLays
  <2>2. AnswerCame'
    BY <1>2, <1>3, <1>4, <1>6, <2>1 DEF AnswerCame
  <2> QED
    BY <1>2, <1>3, <2>2 DEF MessageIs
<1>9. HostReads'
  <2>1. got' \in [questions : 0..Len(questions), answers : Nat, at : Nat]
    BY <1>2, <1>7
  <2>2. /\ n > 0 => got'.questions = Len(questions)
        /\ host'.addrs = AddressesIn(SubSeq(Answering, 1, got'.answers))
        /\ host'.name = IF got'.answers = 0 THEN << >> ELSE TextOf(Answering[1].owner)
    BY <1>6
  <2> QED
    BY <1>3, <1>4, <1>6, <2>1, <2>2 DEF HostReads
<1>10. StateFollows'
  BY <1>2, <1>3 DEF StateFollows
<1>11. QueryAsks'
  BY <1>1, <1>2, AsksKept
<1>12. ServerLays' /\ GenReads' /\ GenLays'
  BY <1>1, ServerKept, GenKept
<1> QED
  BY <1>8, <1>9, <1>10, <1>11, <1>12 DEF ResolverInv

LEMMA ParseQuestionKeeps ==
  ASSUME ResolverInv, ParseQuestion
  PROVE  ResolverInv'
<1> DEFINE size == GetName(message, got.at).size
           i == got.questions + 1
<1>1. /\ state = "parsing" /\ got.questions < message.questions
      /\ IF size = -1 THEN TRUE
         ELSE /\ got' = [got EXCEPT !.questions = @ + 1, !.at = @ + size + QUESTION_BASE]
              /\ state' = state
      /\ UNCHANGED <<asked, message, armed, host, gen, written, compress>> /\ lost' = lost
  BY DEF ParseQuestion, answerer
<1>2. /\ AnswerCame /\ questions \in Seq(Question) /\ Len(questions) \in Nat
      /\ message.questions = Len(questions) /\ Len(Answering) \in Nat
  BY <1>1, WhenRead
<1>3. /\ got = [questions |-> got.questions, answers |-> got.answers, at |-> got.at]
      /\ got.questions \in 0..Len(questions) /\ got.answers = 0 /\ got.at \in Nat
  BY <1>1, <1>2, CursorIs
<1>4. i \in 1..Len(questions) /\ got.questions + got.answers + 1 = i /\ i \in Nat /\ i <= Len(questions)
      /\ i + 0 + 1 = i + 1
  BY <1>1, <1>2, <1>3
<1>5. PICK K, starts : MessageLays(K, starts)
  BY <1>2 DEF AnswerCame
<1>6. Layout(message, K, questions, Answering, starts) /\ got.at = StartOf(message, starts, i)
  BY <1>4, <1>5 DEF MessageLays
<1>7. /\ message.data \in Seq(Octet) /\ Fits(message, K) /\ questions[i] \in Question
      /\ QuestionIn(message, K, got.at, questions[i], StartOf(message, starts, i + 1))
  BY <1>2, <1>4, <1>6, ElementOfSeq DEF Layout
<1>8. size # -1 /\ got.at + size + QUESTION_BASE = StartOf(message, starts, i + 1)
  <2> DEFINE q == questions[i]
             next == StartOf(message, starts, i + 1)
             o == got.at
  <2> HIDE DEF q, next, o, i
  <2>1. q \in Question /\ QuestionIn(message, K, o, q, next)
    BY <1>7 DEF q, next, o
  <2>2. GetName(message, o).size # -1 /\ o + GetName(message, o).size + QUESTION_BASE = next
    BY <1>7, <2>1, QuestionReads
  <2> QED
    BY <2>2 DEF o, next
<1>9. got' = [questions |-> i, answers |-> 0, at |-> StartOf(message, starts, i + 0 + 1)]
  <2> DEFINE next == StartOf(message, starts, i + 1)
  <2> HIDE DEF next, size
  <2>1. got' = [got EXCEPT !.questions = @ + 1, !.at = @ + size + QUESTION_BASE]
    BY <1>1, <1>8
  <2>2. got.at + size + QUESTION_BASE = next
    BY <1>8 DEF next
  <2>3. got' = [questions |-> i, answers |-> 0, at |-> next]
    BY <1>3, <2>1, <2>2
  <2> QED
    BY <1>4, <2>3 DEF next
<1>10. /\ host' = [name |-> host'.name, addrs |-> host'.addrs]
       /\ host'.addrs = AddressesIn(SubSeq(Answering, 1, 0)) /\ host'.name = << >>
  BY <1>1, <1>3 DEF ResolverInv, HostReads
<1>11. state' = "parsing" /\ 0 <= Len(Answering)
  BY <1>1, <1>2, <1>8
<1> DEFINE o == StartOf(message, starts, i + 0 + 1)
<1>12. \E L, s : MessageLays(L, s) /\ o = StartOf(message, s, i + 0 + 1)
  BY <1>5
<1> HIDE DEF o, i
<1>13. got' = [questions |-> i, answers |-> 0, at |-> o]
  BY <1>9 DEF o
<1> QED
  BY <1>1, <1>4, <1>10, <1>11, <1>12, <1>13, CursorGoesOn

\* What is noted of an answer.
LEMMA NotedOf ==
  ASSUME NEW h, h = [name |-> h.name, addrs |-> h.addrs], NEW m, NEW a, a.class = CLASS_IN
  PROVE  /\ Noted(h, m, a) = [name |-> Noted(h, m, a).name, addrs |-> Noted(h, m, a).addrs]
         /\ Noted(h, m, a).name = IF h.name = << >> THEN a.name ELSE h.name
         /\ Noted(h, m, a).addrs =
              IF a.type = QTYPE_A THEN Append(h.addrs, Bytes(m, a.rdata, a.length)) ELSE h.addrs
<1> DEFINE b == Bytes(m, a.rdata, a.length)
           x == IF h.name = << >> THEN a.name ELSE h.name
           named == [h EXCEPT !.name = x]
           y == Append(h.addrs, b)
<1>1. named = [name |-> x, addrs |-> h.addrs]
  <2> HIDE DEF x
  <2> QED
    OBVIOUS
<1>2. Noted(h, m, a) = IF Is(a, QTYPE_A) THEN [named EXCEPT !.addrs = Append(@, b)] ELSE named
  BY DEF Noted
<1> HIDE DEF b, x, named
<1>3. [named EXCEPT !.addrs = Append(@, b)] = [name |-> x, addrs |-> y]
  <2>1. Append(named.addrs, b) = y
    BY <1>1
  <2> HIDE DEF y
  <2>2. [named EXCEPT !.addrs = y] = [name |-> x, addrs |-> y]
    BY <1>1
  <2> QED
    BY <2>1, <2>2, Zenon
<1>4. Is(a, QTYPE_A) <=> a.type = QTYPE_A
  BY DEF Is
<1> DEFINE w == Noted(h, m, a)
           u == h.addrs
<1> HIDE DEF w, y, u
<1>5. w = IF a.type = QTYPE_A THEN [name |-> x, addrs |-> y] ELSE [name |-> x, addrs |-> u]
  BY <1>1, <1>2, <1>3, <1>4 DEF w, u
<1>6. /\ w = [name |-> w.name, addrs |-> w.addrs]
      /\ w.name = x
      /\ w.addrs = IF a.type = QTYPE_A THEN y ELSE u
  BY <1>5
<1> QED
  BY <1>6 DEF w, x, y, u, b

LEMMA ParseAnswerKeeps ==
  ASSUME ResolverInv, ParseAnswer
  PROVE  ResolverInv'
<1> DEFINE a == AnswerAt(message, got.at)
           n == got.answers
           l == Len(questions)
           r == Answering[n + 1]
<1>1. /\ state = "parsing" /\ got.questions = message.questions /\ n < message.answers
      /\ \/ /\ TRUE \in Failures(message, got.at)
            /\ state' = "failed" /\ UNCHANGED <<got, host>>
         \/ /\ host' = Noted(host, message, a)
            /\ got' = [got EXCEPT !.answers = @ + 1, !.at = a.rdata + a.length]
            /\ state' = state
      /\ UNCHANGED <<asked, message, armed, gen, written, compress>> /\ lost' = lost
  BY DEF ParseAnswer, answerer
<1>2. /\ AnswerCame /\ l \in Nat /\ Answering \in Seq(Reply) /\ Len(Answering) \in Nat
      /\ message.questions = l /\ message.answers = Len(Answering)
  BY <1>1, WhenRead
<1>3. /\ got = [questions |-> got.questions, answers |-> n, at |-> got.at]
      /\ got.questions = l /\ n \in Nat /\ got.at \in Nat
  BY <1>1, <1>2, CursorIs
<1>4. /\ n + 1 \in 1..Len(Answering) /\ n + 1 \in Nat /\ n + 1 <= Len(Answering)
      /\ got.questions + got.answers + 1 = l + (n + 1)
  BY <1>1, <1>2, <1>3
<1>5. PICK K, starts : MessageLays(K, starts)
  BY <1>2 DEF AnswerCame
<1>6. Layout(message, K, questions, Answering, starts) /\ got.at = StartOf(message, starts, l + (n + 1))
  BY <1>4, <1>5 DEF MessageLays
<1> DEFINE next == StartOf(message, starts, l + (n + 1) + 1)
<1>7. /\ message.data \in Seq(Octet) /\ Fits(message, K) /\ r \in Reply
      /\ RecordIn(message, K, got.at, r, next)
  BY <1>2, <1>4, <1>6, ElementOfSeq DEF Layout
<1>8. TRUE \in Failures(message, got.at) => r.type \notin NameTypes \cup {QTYPE_A}
  BY <1>7, RecordReads
<1>a. /\ a.rdata + a.length = next
      /\ a.name = TextOf(r.owner) /\ a.type = r.type /\ a.class = CLASS_IN
      /\ r.type \notin NameTypes => Bytes(message, a.rdata, a.length) = r.data
  <2> DEFINE o == got.at
  <2> HIDE DEF o, r, next
  <2>1. r \in Reply /\ RecordIn(message, K, o, r, next)
    BY <1>7 DEF o
  <2>2. AnswerReads(message, AnswerAt(message, o), r, next)
    BY <1>7, <2>1, RecordReads
  <2>3. AnswerReads(message, a, r, next)
    BY <2>2 DEF o
  <2> QED
    BY <2>3 DEF AnswerReads
<1>c. CASE TRUE \in Failures(message, got.at) /\ state' = "failed" /\ UNCHANGED <<got, host>>
  <2>1. StopsAtData(Answering)
    <3>1. r.type \notin NameTypes \cup {QTYPE_A}
      BY <1>8, <1>c
    <3>2. n < Len(Answering)
      BY <1>1, <1>2
    <3> QED
      BY <3>1, <3>2 DEF StopsAtData
  <2>2. Answering' = Answering
    BY <1>1, Fixed DEF Answering
  <2>3. StopsAtData(Answering)'
    BY <1>c, <2>1, <2>2 DEF StopsAtData
  <2>4. message' = message /\ message # NoMessage
    BY <1>1, WhenRead
  <2>5. StateFollows'
    BY <1>c, <2>3, <2>4 DEF StateFollows
  <2>6. lost' \in BOOLEAN
    BY <1>1, WhenRead
  <2> QED
    BY <1>1, <1>c, <2>5, <2>6, OnlyState DEF Ended
<1> SUFFICES ASSUME host' = Noted(host, message, a), state' = "parsing",
                    got' = [got EXCEPT !.answers = @ + 1, !.at = a.rdata + a.length]
             PROVE  ResolverInv'
  BY <1>1, <1>c
<1>9. /\ host' = Noted(host, message, a) /\ state' = "parsing"
      /\ got' = [got EXCEPT !.answers = @ + 1, !.at = a.rdata + a.length]
  OBVIOUS
<1> HIDE DEF a, r, next
<1>10. got' = [questions |-> l, answers |-> n + 1, at |-> next]
  <2> HIDE DEF l
  <2>1. got' = [got EXCEPT !.answers = @ + 1, !.at = next]
    BY <1>a, <1>9
  <2> QED
    BY <1>3, <2>1
<1>11. /\ host = [name |-> host.name, addrs |-> host.addrs]
       /\ host.addrs = AddressesIn(SubSeq(Answering, 1, n))
       /\ host.name = IF n = 0 THEN << >> ELSE TextOf(Answering[1].owner)
  BY DEF ResolverInv, HostReads
<1>12. /\ host' = [name |-> host'.name, addrs |-> host'.addrs]
       /\ host'.name = IF host.name = << >> THEN TextOf(r.owner) ELSE host.name
       /\ host'.addrs = IF r.type = QTYPE_A THEN Append(host.addrs, r.data) ELSE host.addrs
  <2> DEFINE w == Noted(host, message, a)
  <2>1. /\ w = [name |-> w.name, addrs |-> w.addrs]
        /\ w.name = IF host.name = << >> THEN a.name ELSE host.name
        /\ w.addrs = IF a.type = QTYPE_A THEN Append(host.addrs, Bytes(message, a.rdata, a.length))
                     ELSE host.addrs
    BY <1>a, <1>11, NotedOf
  <2>3. r.type = QTYPE_A => Bytes(message, a.rdata, a.length) = r.data
    BY <1>a, TypesAre
  <2> HIDE DEF w
  <2>2. host' = w
    BY <1>9 DEF w
  <2> QED
    BY <1>a, <2>1, <2>2, <2>3
<1>13. host'.addrs = AddressesIn(SubSeq(Answering, 1, n + 1))
  <2>1. /\ SubSeq(Answering, 1, n) \in Seq(Reply)
        /\ SubSeq(Answering, 1, n + 1) = Append(SubSeq(Answering, 1, n), r)
    BY <1>2, <1>3, <1>4, OneMore DEF r
  <2>2. AddressesIn(Append(SubSeq(Answering, 1, n), r)) =
          IF r.type = QTYPE_A THEN Append(AddressesIn(SubSeq(Answering, 1, n)), r.data)
          ELSE AddressesIn(SubSeq(Answering, 1, n))
    BY <1>7, <2>1, AddressesLonger
  <2> QED
    BY <1>11, <1>12, <2>1, <2>2
<1>14. host'.name = TextOf(Answering[1].owner)
  <2>1. CASE n = 0
    <3>1. r = Answering[1]
      BY <2>1 DEF r
    <3> QED
      BY <1>11, <1>12, <2>1, <3>1
  <2>2. CASE n # 0
    <3>1. 1 \in 1..Len(Answering)
      BY <1>2, <1>4
    <3>2. Answering[1] \in Reply
      BY <1>2, <3>1, ElementOfSeq
    <3>3. Answering[1].owner \in HostName
      BY <3>2, ReplyTyped
    <3>4. Answering[1].owner \in Seq(Label) /\ Answering[1].owner # << >>
      BY <3>3, HostNameType
    <3>5. TextOf(Answering[1].owner) # << >>
      BY <3>4, TextJoined
    <3> QED
      BY <1>11, <1>12, <2>2, <3>5
  <2> QED
    BY <2>1, <2>2
<1>15. /\ l \in Nat /\ n + 1 \in Nat /\ l <= Len(questions) /\ n + 1 <= Len(Answering)
       /\ (n + 1 > 0 => l = Len(questions)) /\ n + 1 # 0
  BY <1>2, <1>3, <1>4
<1>16. \E L, s : MessageLays(L, s) /\ next = StartOf(message, s, l + (n + 1) + 1)
  BY <1>5 DEF next
<1> DEFINE k == n + 1
<1>17. /\ k \in Nat /\ k <= Len(Answering) /\ k # 0
       /\ got' = [questions |-> l, answers |-> k, at |-> next]
       /\ host'.addrs = AddressesIn(SubSeq(Answering, 1, k))
       /\ host'.name = IF k = 0 THEN << >> ELSE TextOf(Answering[1].owner)
       /\ \E L, s : MessageLays(L, s) /\ next = StartOf(message, s, l + k + 1)
  BY <1>10, <1>13, <1>14, <1>15, <1>16
<1> HIDE DEF k, n
<1> QED
  BY <1>1, <1>9, <1>12, <1>15, <1>17, CursorGoesOn

-----------------------------------------------------------------------------
(* The invariant holds, and what follows.                                  *)

LEMMA StuttersKeep ==
  ASSUME ResolverInv, UNCHANGED queryVars
  PROVE  ResolverInv'
<1>1. UNCHANGED <<asked, compress, armed, written, gen, message, got, host, state, lost>>
  BY DEF queryVars, answerer
<1>2. domain' = domain /\ questions' = questions /\ query' = query
  BY <1>1 DEF asked
<1>3. /\ QueryDraft' = QueryDraft /\ TheQuery' = TheQuery
  BY <1>1, Fixed
<1>4. QueryAsks /\ ServerLays /\ GenReads /\ GenLays /\ MessageIs /\ HostReads /\ StateFollows
  BY DEF ResolverInv
<1>5. ServerLays' /\ GenReads' /\ GenLays' /\ MessageIs' /\ HostReads' /\ Answering' = Answering
  BY <1>1, <1>4, ServerKept, GenKept, MessageKept
<1>6. QueryAsks'
  BY <1>1, <1>2, <1>3, <1>4 DEF QueryAsks
<1>7. StateFollows'
  <2>1. state' = "failed" => ErrorCame' \/ AddressesIn(Answering') = << >> \/ StopsAtData(Answering)'
    BY <1>1, <1>4, <1>5 DEF StateFollows, ErrorCame, Unread, StopsAtData
  <2> QED
    BY <1>1, <1>2, <1>4, <1>5, <2>1 DEF StateFollows
<1> QED
  BY <1>5, <1>6, <1>7 DEF ResolverInv

LEMMA ResolverStep ==
  ASSUME ResolverInv, [QueryNext]_queryVars
  PROVE  ResolverInv'
<1>1. CASE DnsWrite
  BY <1>1, DnsWriteKeeps
<1>2. CASE DnsWriteFails
  BY <1>2, StuttersKeep DEF DnsWriteFails
<1>3. CASE Lose
  BY <1>3, LoseKeeps
<1>4. CASE ServerWrites
  BY <1>4, ServerWritesKeeps
<1>5. CASE ServerAnswers
  BY <1>5, ServerAnswersKeeps
<1>6. CASE GenQuestion
  BY <1>6, GenQuestionKeeps
<1>7. CASE GenAnswer
  BY <1>7, GenAnswerKeeps
<1>8. CASE GenReturns
  BY <1>8, GenReturnsKeeps
<1>9. CASE RecvFails
  BY <1>9, RecvFailsKeeps
<1>10. CASE DnsRead
  BY <1>10, DnsReadKeeps
<1>11. CASE ParseQuestion
  BY <1>11, ParseQuestionKeeps
<1>12. CASE NoAnswer
  BY <1>12, NoAnswerKeeps
<1>13. CASE ParseAnswer
  BY <1>13, ParseAnswerKeeps
<1>14. CASE ParseFirstIp
  BY <1>14, ParseFirstIpKeeps
<1>15. CASE UNCHANGED queryVars
  BY <1>15, StuttersKeep
<1> QED
  BY <1>1, <1>2, <1>3, <1>4, <1>5, <1>6, <1>7, <1>8, <1>9, <1>10, <1>11, <1>12, <1>13, <1>14, <1>15
     DEF QueryNext, GenAnswers, Parse

\* Whatever names are asked for and whatever records, addresses and errors they
\* are answered with: what has been sent, written and read of a query is what it
\* should be (dns.c over c_dns.c).
THEOREM ResolverInvariant == QuerySpec => []ResolverInv
<1>1. QueryInit => ResolverInv
  BY ResolverBegins
<1>2. ResolverInv /\ [QueryNext]_queryVars => ResolverInv'
  BY ResolverStep
<1> QED
  BY <1>1, <1>2, PTL DEF QuerySpec

LEMMA InvAsksForDomain ==
  ASSUME ResolverInv
  PROVE  AsksForDomain
<1> SUFFICES ASSUME domain # << >>, query # NoMessage
             PROVE  LabelsAt(query, HEADER_LENGTH) = questions[1].name
  BY DEF AsksForDomain
<1>1. QueryAsks /\ state # "asking"
  BY DEF ResolverInv, QueryAsks
<1>2. PICK v \in HostName : questions = <<[name |-> v, type |-> QTYPE_A, class |-> CLASS_IN]>>
  BY <1>1 DEF QueryAsks
<1>3. 1 \in 1..Len(questions)
  BY <1>2
<1> DEFINE q == questions[1]
           K == QueryDraft.known
           s == QueryDraft.starts
           next == StartOf(query, s, 1 + 1)
<1>4. /\ Layout(query, K, questions, << >>, s) /\ query.data \in Seq(Octet) /\ Fits(query, K)
      /\ questions \in Seq(Question)
  BY <1>1, QueryLays
<1>5. q \in Question /\ StartOf(query, s, 1) = HEADER_LENGTH
  BY <1>3, <1>4, ElementOfSeq DEF Layout
<1>6. QuestionIn(query, K, HEADER_LENGTH, q, next)
  BY <1>3, <1>4, <1>5 DEF Layout
<1> HIDE DEF q, K, s, next
<1>7. LabelsAt(query, HEADER_LENGTH) = q.name
  BY <1>4, <1>5, <1>6, QuestionReads
<1> QED
  BY <1>7 DEF q

\* How far the message is read.
LEMMA WhereRead ==
  ASSUME ResolverInv, AnswerCame
  PROVE  /\ Answering \in Seq(Reply) /\ Len(Answering) \in Nat
         /\ got.answers \in 0..Len(Answering)
         /\ \E K, starts :
              /\ Layout(message, K, questions, Answering, starts)
              /\ starts \in Seq(Nat) /\ Len(starts) = Len(questions) + Len(Answering)
              /\ got.questions + got.answers + 1 \in 1..(Len(starts) + 1)
              /\ written # Blank => starts = written.starts
              /\ got.at = StartOf(message, starts, got.questions + got.answers + 1)
<1>1. questions \in Seq(Question)
  BY DEF ResolverInv, QueryAsks
<1>2. PICK K, starts : MessageLays(K, starts)
  BY DEF AnswerCame
<1>3. /\ Layout(message, K, questions, Answering, starts)
      /\ written # Blank => starts = written.starts
      /\ got.at = StartOf(message, starts, got.questions + got.answers + 1)
  BY <1>2 DEF MessageLays
<1>4. Answering \in Seq(Reply) /\ starts \in Seq(Nat) /\ Len(starts) = Len(questions) + Len(Answering)
  BY <1>3 DEF Layout
<1>5. Len(questions) \in Nat /\ Len(Answering) \in Nat
  BY <1>1, <1>4, LenProperties
<1>6. got.questions \in 0..Len(questions) /\ got.answers \in Nat /\ got.answers <= Len(Answering)
  BY DEF ResolverInv, HostReads, AnswerCame
<1>7. got.answers \in 0..Len(Answering) /\ got.questions + got.answers + 1 \in 1..(Len(starts) + 1)
  BY <1>4, <1>5, <1>6
<1> QED
  BY <1>3, <1>4, <1>5, <1>7

LEMMA InvQueryTypeOK ==
  ASSUME ResolverInv
  PROVE  QueryTypeOK
<1>1. QueryAsks /\ MessageIs /\ HostReads
  BY DEF ResolverInv
<1>2. /\ state \in {"asking", "waiting", "parsing"} \cup Ended
      /\ armed \in {{"READ"}, {"WRITE"}} /\ lost \in BOOLEAN
      /\ query = IF state = "asking" THEN NoMessage ELSE TheQuery
  BY <1>1 DEF QueryAsks
<1>3. query.qr = (IF state = "asking" THEN "none" ELSE "query") /\ NoMessage.qr = "none"
  BY <1>2 DEF NoMessage, TheQuery
<1>4. state # "asking" => query # NoMessage
  BY <1>3
<1>5. message.qr \in {"none", "response"}
  BY <1>1, <1>3 DEF MessageIs
<1>6. got.questions \in 0..Len(questions) /\ got.answers \in Nat /\ got.at \in Nat
  BY <1>1 DEF HostReads
<1>7. \A i \in 1..Len(host.addrs) : host.addrs[i] \in Seq(Octet) /\ Len(host.addrs[i]) \in {4, 16}
  <2>1. CASE Unread
    <3>1. host.addrs = << >> /\ Len(<< >>) = 0
      BY <2>1, EmptySeq DEF Unread, NoHost
    <3> QED
      BY <3>1
  <2>2. CASE AnswerCame
    <3>1. Answering \in Seq(Reply) /\ got.answers \in 0..Len(Answering)
      BY <2>2, WhereRead
    <3>2. SubSeq(Answering, 1, got.answers) \in Seq(Reply)
      BY <3>1, FirstProperties
    <3>3. host.addrs \in Seq(AnyAddress)
      <4>1. host.addrs = AddressesIn(SubSeq(Answering, 1, got.answers))
        BY <1>1 DEF HostReads
      <4>2. \A rs \in Seq(Reply) : AddressesIn(rs) \in Seq(AnyAddress)
        BY AddressesType
      <4> QED
        BY <3>2, <4>1, <4>2
    <3>4. \A i \in 1..Len(host.addrs) : host.addrs[i] \in AnyAddress
      BY <3>3, ElementOfSeq
    <3> QED
      BY <3>4, Zenon DEF AnyAddress
  <2> QED
    BY <1>1, <2>1, <2>2 DEF MessageIs, ErrorCame
<1>8. {query.qr, message.qr} \subseteq {"none", "query", "response"}
  BY <1>3, <1>5
<1> QED
  BY <1>2, <1>4, <1>6, <1>7, <1>8, Zenon DEF QueryTypeOK, Octet

LEMMA InvReadsInStep ==
  ASSUME ResolverInv
  PROVE  ReadsInStep
<1> DEFINE i == got.questions + got.answers
<1>1. QueryTypeOK /\ QueryAsks /\ ServerLays /\ MessageIs /\ HostReads /\ StateFollows
  BY InvQueryTypeOK DEF ResolverInv
<1>2. message # NoMessage => got.at <= End(message)
  <2>1. CASE ErrorCame
    <3>1. got.at = HEADER_LENGTH /\ message.data \in Seq(Octet)
      BY <2>1 DEF ErrorCame, Unread, NotRead
    <3>2. Len(message.data) \in Nat
      BY <3>1, LenProperties
    <3> QED
      BY <3>1, <3>2 DEF End, HEADER_LENGTH
  <2>2. CASE AnswerCame
    <3>1. PICK K, starts :
            /\ Layout(message, K, questions, Answering, starts)
            /\ i + 1 \in 1..(Len(starts) + 1)
            /\ got.at = StartOf(message, starts, i + 1)
      BY <2>2, WhereRead
    <3> HIDE DEF i
    <3> QED
      BY <3>1, StartsWithin
  <2> QED
    BY <1>1, <2>1, <2>2 DEF MessageIs
<1>3. i < Len(written.starts) => got.at = written.starts[i + 1]
  <2>1. CASE written = Blank
    <3>1. Len(written.starts) = 0
      BY <2>1, EmptySeq DEF Blank
    <3>2. got.questions \in Nat /\ got.answers \in Nat
      <4>1. questions \in Seq(Question)
        BY <1>1 DEF QueryAsks
      <4>2. Len(questions) \in Nat
        BY <4>1, LenProperties
      <4> QED
        BY <1>1, <4>2 DEF QueryTypeOK
    <3> QED
      BY <3>1, <3>2
  <2>2. CASE written # Blank /\ message = NoMessage
    <3>1. i = 0 /\ got.at = HEADER_LENGTH
      BY <1>1, <2>2 DEF MessageIs, Unread, NotRead
    <3>2. written.starts \in Seq(Nat) /\ StartOf(written, written.starts, 1) = HEADER_LENGTH
      BY <1>1, <2>2 DEF ServerLays, Layout
    <3>3. Len(written.starts) \in Nat
      BY <3>2, LenProperties
    <3> HIDE DEF i
    <3> QED
      BY <3>1, <3>2, <3>3 DEF StartOf
  <2>3. CASE written # Blank /\ message # NoMessage
    <3>1. AnswerCame
      BY <1>1, <2>3 DEF MessageIs, ErrorCame
    <3>2. /\ written.starts \in Seq(Nat) /\ i + 1 \in 1..(Len(written.starts) + 1)
          /\ got.at = StartOf(message, written.starts, i + 1)
      BY <2>3, <3>1, WhereRead
    <3>3. Len(written.starts) \in Nat
      BY <3>2, LenProperties
    <3>4. i \in Int
      BY <1>1 DEF QueryTypeOK
    <3> HIDE DEF i
    <3> QED
      BY <3>2, <3>3, <3>4 DEF StartOf
  <2> QED
    BY <2>1, <2>2, <2>3
<1>4. state = "connecting" => got.at = End(message)
  <2> SUFFICES ASSUME state = "connecting" PROVE got.at = End(message)
    OBVIOUS
  <2>1. AnswerCame /\ got.questions = Len(questions) /\ got.answers = Len(Answering)
    BY <1>1 DEF StateFollows, MessageIs, ErrorCame
  <2>2. PICK starts :
          /\ Len(starts) = Len(questions) + Len(Answering) /\ starts \in Seq(Nat)
          /\ got.at = StartOf(message, starts, i + 1)
    BY <2>1, WhereRead
  <2>3. Len(starts) \in Nat /\ i = Len(starts)
    BY <2>1, <2>2, LenProperties
  <2> HIDE DEF i
  <2> QED
    BY <2>2, <2>3 DEF StartOf
<1> QED
  BY <1>1, <1>2, <1>3, <1>4 DEF ReadsInStep

LEMMA InvAddressesRight ==
  ASSUME ResolverInv
  PROVE  AddressesRight
<1> DEFINE rs == written.records
           t == SubSeq(rs, 1, got.answers)
<1> SUFFICES ASSUME rs # << >>
             PROVE  /\ host.addrs = AddressesIn(t)
                    /\ t # << >> => host.name = TextOf(t[1].owner)
                    /\ state = "failed" => AddressesIn(rs) = << >> \/ StopsAtData(rs)
  BY DEF AddressesRight
<1>1. written # Blank
  BY DEF Blank
<1>2. Answering = rs
  BY <1>1 DEF Answering
<1>3. ServerLays /\ MessageIs /\ HostReads /\ StateFollows
  BY DEF ResolverInv
<1>4. host.addrs = AddressesIn(t)
  BY <1>2, <1>3 DEF HostReads
<1>5. t # << >> => host.name = TextOf(t[1].owner)
  <2> SUFFICES ASSUME t # << >> PROVE host.name = TextOf(t[1].owner)
    OBVIOUS
  <2>1. \A s : SubSeq(s, 1, 0) = << >>
    BY SubSeqEmpty
  <2>2. got.answers # 0
    BY <2>1
  <2>3. AnswerCame
    BY <1>3, <2>2 DEF MessageIs, ErrorCame, Unread, NotRead
  <2>4. rs \in Seq(Reply) /\ got.answers \in 0..Len(rs) /\ Len(rs) \in Nat
    BY <1>2, <2>3, WhereRead
  <2>5. 1 \in 1..got.answers
    BY <2>2, <2>4
  <2>6. t[1] = rs[1]
    BY <2>4, <2>5, FirstProperties
  <2>7. host.name = TextOf(rs[1].owner)
    BY <1>2, <1>3, <2>2 DEF HostReads
  <2> QED
    BY <2>6, <2>7
<1>6. state = "failed" => AddressesIn(rs) = << >> \/ StopsAtData(rs)
  BY <1>1, <1>2, <1>3 DEF StateFollows, ErrorCame
<1> QED
  BY <1>4, <1>5, <1>6

LEMMA InvGeneratedIsRead ==
  ASSUME ResolverInv
  PROVE  GeneratedIsRead
<1> DEFINE asks == AskedIn(questions)
<1> SUFFICES ASSUME gen.begun, state \in {"connecting", "failed"}
             PROVE  /\ state = "connecting" => host.addrs = [i \in 1..Len(asks) |-> OwnAddress(asks[i])]
                    /\ state = "failed" => asks = << >>
  BY DEF GeneratedIsRead
<1>1. ServerLays /\ MessageIs /\ HostReads /\ StateFollows
  BY DEF ResolverInv
<1>6. written = Blank
  BY <1>1 DEF ServerLays
<1>7. Answering = Generated
  BY <1>6 DEF Answering
<1>8. questions \in Seq(Question)
  BY DEF ResolverInv, QueryAsks
<1>9. /\ Len(Generated) = Len(asks)
      /\ \A i \in 1..Len(asks) : Generated[i].type = QTYPE_A /\ Generated[i].data = OwnAddress(asks[i])
  <2>1. /\ Len(Generated) = Len(asks)
        /\ \A i \in 1..Len(Generated) :
             Generated[i] = [owner |-> asks[i].name, type |-> QTYPE_A, data |-> OwnAddress(asks[i])]
    BY <1>8, GeneratedIs
  <2>2. ASSUME NEW i \in 1..Len(asks)
        PROVE  Generated[i].type = QTYPE_A /\ Generated[i].data = OwnAddress(asks[i])
    <3> DEFINE o == asks[i].name
               x == OwnAddress(asks[i])
               r == Generated[i]
    <3>1. r = [owner |-> o, type |-> QTYPE_A, data |-> x]
      BY <2>1
    <3> HIDE DEF o, x, r
    <3>2. r.type = QTYPE_A /\ r.data = x
      BY <3>1
    <3> QED
      BY <3>2 DEF r, x
  <2> QED
    BY <2>1, <2>2
<1>2. AnswerCame
  BY <1>1 DEF StateFollows, MessageIs, ErrorCame
<1>3. Generated \in Seq(Reply) /\ asks \in Seq(Question)
  BY <1>2, <1>7, <1>8, WhereRead, AskedType
<1>10. AddressesIn(Generated) = [i \in 1..Len(Generated) |-> Generated[i].data]
  BY <1>3, <1>9, AllAddresses
<1> HIDE DEF asks
<1>4. ASSUME state = "connecting"
      PROVE  host.addrs = [i \in 1..Len(asks) |-> OwnAddress(asks[i])]
  <2>1. AnswerCame /\ got.answers = Len(Answering)
    BY <1>1, <1>4 DEF StateFollows, MessageIs, ErrorCame
  <2>2. host.addrs = AddressesIn(SubSeq(Answering, 1, got.answers))
    BY <1>1 DEF HostReads
  <2>3. SubSeq(Answering, 1, Len(Answering)) = Answering
    BY <1>3, <1>7, SubSeqFull
  <2> QED
    BY <1>7, <1>9, <1>10, <2>1, <2>2, <2>3
<1>5. ASSUME state = "failed" PROVE asks = << >>
  <2>1. AddressesIn(Generated) = << >> \/ StopsAtData(Generated)
    BY <1>1, <1>5, <1>7 DEF StateFollows, ErrorCame
  <2>2. ~StopsAtData(Generated)
    <3>1. got.answers \in Nat
      BY <1>1 DEF HostReads
    <3> SUFFICES ASSUME got.answers < Len(Generated)
                 PROVE  Generated[got.answers + 1].type = QTYPE_A
      BY DEF StopsAtData
    <3>2. Len(Generated) \in Nat
      BY <1>3, LenProperties
    <3>3. got.answers + 1 \in 1..Len(Generated)
      BY <3>1, <3>2
    <3> QED
      BY <1>9, <3>3
  <2>3. Len(asks) = 0
    <3>1. Len(AddressesIn(Generated)) = 0
      BY <2>1, <2>2, EmptySeq
    <3>2. Len(Generated) \in Nat
      BY <1>3, LenProperties
    <3> QED
      BY <1>9, <1>10, <3>1, <3>2
  <2> QED
    BY <1>3, <2>3, EmptySeq
<1> QED
  BY <1>4, <1>5

\* What c_dns_pack writes, read as anybody else reads it, asks for the name the
\* caller gave, with or without a final dot.
THEOREM QueryAsksForDomain == QuerySpec => []AsksForDomain
BY ResolverInvariant, InvAsksForDomain, PTL

\* c_dns_parse_a goes from question to question and from record to record as they
\* were written, however names are compressed, and ends at the end of the message.
THEOREM AnswerReadInStep == QuerySpec => []ReadsInStep
BY ResolverInvariant, InvReadsInStep, PTL

\* The hostent that c_dns_parse_a makes holds the addresses of the answer, all of
\* them and in order, and reading fails only for an answer that has none or at a
\* record whose data is no name.
THEOREM HostAddressesRight == QuerySpec => []AddressesRight
BY ResolverInvariant, InvAddressesRight, PTL

\* c_dns_parse_a reads every answer of c_dns_gen_inet_response in which there is an
\* address, and finds the addresses that the callbacks know for the names asked for.
THEOREM OwnAnswersAreRead == QuerySpec => []GeneratedIsRead
BY ResolverInvariant, InvGeneratedIsRead, PTL
=============================================================================

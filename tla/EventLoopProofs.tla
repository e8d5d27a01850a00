--------------------------- MODULE EventLoopProofs ---------------------------
(***************************************************************************)
(* Proofs about EventLoop, for any descriptors, any number of objects, any *)
(* batch and any depth of callbacks.  The only thing asked of the          *)
(* constants is NoStdin: no event is made of descriptor 0, which           *)
(* DocketEvent_free neither unregisters nor closes.                        *)
(***************************************************************************)
EXTENDS EventLoop, SequenceTheorems, TLAPS

NoStdin == 0 \notin Fd

\* An event whose name is being resolved, or whose connection is on its way, has
\* told the application nothing yet.
Untold ==
  \A e \in EventId : event[e].live =>
    /\ event[e].dns # NULL => told[e] = 0
    /\ event[e].fd # NoFd /\ ~event[e].connected => told[e] = 0

\* The inductive invariant of object lifetimes.  Its parts need each other:
\* what is served comes from the registries, what is freed through a registry
\* takes its DNS event with it, dead memory is never written to, and the event
\* a report leads to has not been told about if it is not connected.
Lifetimes == TypeOK /\ RegistryLive /\ DnsLinked /\ ToldOnce /\ Untold

\* What a step that leaves the registries alone tells: nothing, or that a
\* connection is established, which it then knows.
TellsConnected ==
  \A e \in EventId :
    \/ told'[e] = told[e]
    \/ /\ event[e].live /\ event[e].fd # NoFd /\ ~event[e].connected
       /\ event'[e].connected /\ event'[e].dns = NULL /\ told'[e] <= told[e] + 1

\* What the handlers between two callbacks leave of the events: they set and
\* clear ev bits, `pending` and `connected`, of live events only.
SameObjects ==
  /\ event' \in [EventId -> EventType]
  /\ \A e \in EventId :
       /\ event'[e].live = event[e].live
       /\ event'[e].fd = event[e].fd
       /\ event'[e].dns = event[e].dns
       /\ event[e].connected => event'[e].connected
       /\ ~event[e].live => event'[e] = event[e]

\* The variables of the kernel and of control keep their types.
ControlType ==
  /\ filters' \in [Fd -> SUBSET READ_WRITE]
  /\ stack' \in Seq(FrameType)

OtherType ==
  /\ file' \in [Fd -> {"closed", "stdin", "listener", "unbound", "dns", "socket"}]
  /\ listeners' \subseteq Fd
  /\ told' \in [EventId -> 0..2]
  /\ batch' \in Seq([fd : Fd, filter : READ_WRITE])

-----------------------------------------------------------------------------
(* Types of the helpers.                                                    *)

LEMMA FrameTyped ==
  ASSUME NEW at \in {"main", "app", "read", "eof", "close", "connect", "force"},
         NEW fd \in Fd \cup {NoFd}, NEW e \in EventId \cup {NULL},
         NEW ev \in SUBSET READ_WRITE
  PROVE  Frame(at, fd, e, ev) \in FrameType
BY DEF Frame, FrameType

LEMMA FramesTyped ==
  ASSUME NEW fd \in Fd \cup {NoFd}, NEW e \in EventId, NEW ev \in SUBSET READ_WRITE
  PROVE  /\ App \in FrameType /\ Main \in FrameType
         /\ ReadFrame(fd) \in FrameType /\ EofFrame(fd) \in FrameType
         /\ CloseFrame(fd) \in FrameType /\ ConnectFrame(fd) \in FrameType
         /\ ForceFrame(e, ev) \in FrameType
BY DEF App, Main, ReadFrame, EofFrame, CloseFrame, ConnectFrame, ForceFrame,
       Frame, FrameType, READ_WRITE, NoFd

LEMMA PushTyped ==
  ASSUME NEW st \in Seq(FrameType), NEW f \in FrameType
  PROVE  Append(st, f) \in Seq(FrameType)
BY AppendProperties

LEMMA StackTyped ==
  ASSUME stack \in Seq(FrameType), stack # << >>
  PROVE  Caller \in Seq(FrameType) /\ Top \in FrameType /\ Len(stack) \in Nat \ {0}
<1>1. Len(stack) \in Nat \ {0}
  BY EmptySeq
<1>2. Top \in FrameType
  BY <1>1, ElementOfSeq DEF Top
<1>3. \A i \in 1..(Len(stack) - 1) : stack[i] \in FrameType
  BY <1>1, ElementOfSeq
<1>4. Caller \in Seq(FrameType)
  BY <1>1, <1>3, SubSeqProperties DEF Caller
<1> QED BY <1>1, <1>2, <1>4

LEMMA UpdateTyped ==
  ASSUME NEW armed \in [Fd -> SUBSET READ_WRITE], NEW fd \in Fd \cup {NoFd},
         NEW ev \in SUBSET READ_WRITE
  PROVE  Update(armed, fd, ev) \in [Fd -> SUBSET READ_WRITE]
BY DEF Update, Applied, Open

-----------------------------------------------------------------------------
(* The handlers between two callbacks.                                      *)

\* r stands for the record of event e in the middle of a handler.
Working(e, r) ==
  /\ r \in EventType
  /\ event[e].live /\ r.live
  /\ r.fd = event[e].fd /\ r.dns = event[e].dns
  /\ event[e].connected => r.connected

LEMMA WorkingStored ==
  ASSUME TypeOK, NEW e \in EventId, NEW r, Working(e, r),
         event' = [event EXCEPT ![e] = r]
  PROVE  SameObjects
BY DEF TypeOK, Working, SameObjects

LEMMA WorkingEv ==
  ASSUME NEW e \in EventId, NEW r, Working(e, r), NEW ev \in SUBSET READ_WRITE,
         NEW more \in BOOLEAN
  PROVE  /\ Working(e, [r EXCEPT !.ev = ev])
         /\ Working(e, [r EXCEPT !.pending = more])
         /\ Working(e, [r EXCEPT !.pending = more, !.ev = ev])
BY DEF Working, EventType

LEMMA WriteDataSafe ==
  ASSUME TypeOK, NEW e \in EventId, NEW r, Working(e, r),
         NEW armed \in [Fd -> SUBSET READ_WRITE], NEW st \in Seq(FrameType),
         WriteData(e, r, armed, st)
  PROVE  SameObjects /\ ControlType
<1>1. r \in EventType /\ r.ev \in SUBSET READ_WRITE /\ r.fd \in Fd \cup {NoFd}
  BY DEF Working, EventType
<1>2. Append(st, App) \in Seq(FrameType)
  BY PushTyped, FrameTyped, <1>1 DEF App, NoFd, READ_WRITE
<1>3. Append(Append(st, CloseFrame(r.fd)), App) \in Seq(FrameType)
  BY PushTyped, FrameTyped, <1>1 DEF App, CloseFrame, NoFd, READ_WRITE
<1>4. CASE SendAll(e, r, armed, st)
  BY <1>2, <1>4, WorkingEv, WorkingStored DEF SendAll, WriteDone, ControlType
<1>5. CASE SendAgain(e, r, armed, st)
  <2>1. r.ev \ {"WRITE"} \in SUBSET READ_WRITE
    BY <1>1
  <2> QED BY <1>1, <1>2, <1>5, <2>1, WorkingEv, WorkingStored, UpdateTyped
          DEF SendAgain, WriteDone, ControlType
<1>6. CASE SendFails(e, r, armed, st)
  <2>1. {} \in SUBSET READ_WRITE
    OBVIOUS
  <2> QED BY <1>3, <1>6, <2>1, WorkingEv, WorkingStored
          DEF SendFails, CloseInternal, ControlType
<1>7. CASE NothingToSend(e, r, armed, st)
  BY <1>2, <1>7, WorkingStored DEF NothingToSend, WriteDone, ControlType
<1>8. CASE WriteDisabled(e, r, armed, st)
  <2>1. r.ev \cup {"WRITE"} \in SUBSET READ_WRITE
    BY <1>1 DEF READ_WRITE
  <2> QED BY <1>1, <1>2, <1>8, <2>1, WorkingEv, WorkingStored, UpdateTyped
          DEF WriteDisabled, WriteDone, ControlType
<1> QED BY <1>4, <1>5, <1>6, <1>7, <1>8 DEF WriteData

LEMMA ReadTurnSafe ==
  ASSUME TypeOK, NEW e \in EventId, NEW r, Working(e, r),
         NEW st \in Seq(FrameType), ReadTurn(e, r, st)
  PROVE  SameObjects /\ ControlType
<1>1. r \in EventType /\ r.ev \in SUBSET READ_WRITE /\ r.fd \in Fd \cup {NoFd}
  BY DEF Working, EventType
<1>2. /\ Append(Append(st, ReadFrame(r.fd)), App) \in Seq(FrameType)
      /\ Append(Append(st, EofFrame(r.fd)), App) \in Seq(FrameType)
      /\ Append(Append(st, CloseFrame(r.fd)), App) \in Seq(FrameType)
  BY PushTyped, FrameTyped, <1>1
     DEF App, ReadFrame, EofFrame, CloseFrame, NoFd, READ_WRITE
<1>3. filters \in [Fd -> SUBSET READ_WRITE]
  BY DEF TypeOK
<1>4. CASE ReadSome(e, r, st)
  BY <1>2, <1>3, <1>4, WorkingStored DEF ReadSome, ControlType
<1>5. CASE ReadAgain(e, r, st)
  <2>1. r.ev \cup {"WRITE"} \in SUBSET READ_WRITE
    BY <1>1 DEF READ_WRITE
  <2> QED BY <1>3, <1>5, <2>1, WorkingEv, WriteDataSafe DEF ReadAgain
<1>6. CASE ReadEndLeft(e, r, st)
  BY <1>2, <1>3, <1>6, WorkingStored DEF ReadEndLeft, ControlType
<1>7. CASE ReadEnd(e, r, st)
  <2>1. {} \in SUBSET READ_WRITE
    OBVIOUS
  <2> QED BY <1>2, <1>3, <1>7, <2>1, WorkingEv, WorkingStored
          DEF ReadEnd, CloseInternal, ControlType
<1> QED BY <1>4, <1>5, <1>6, <1>7 DEF ReadTurn

LEMMA OnEventReadSafe ==
  ASSUME TypeOK, NEW e \in EventId, event[e].live,
         NEW st \in Seq(FrameType), OnEventRead(e, st)
  PROVE  SameObjects /\ ControlType
<1> DEFINE r == [event[e] EXCEPT !.ev = @ \ {"WRITE"}]
<1>1. Working(e, event[e]) /\ event[e].ev \in SUBSET READ_WRITE
  BY DEF Working, TypeOK, EventType
<1>2. r = [event[e] EXCEPT !.ev = event[e].ev \ {"WRITE"}]
      /\ event[e].ev \ {"WRITE"} \in SUBSET READ_WRITE
  BY <1>1
<1>3. Working(e, r)
  BY <1>1, <1>2, WorkingEv
<1>4. CASE ReadDisabled(e, r, st)
  <2>1. r.ev \in SUBSET READ_WRITE /\ r.fd \in Fd \cup {NoFd}
        /\ filters \in [Fd -> SUBSET READ_WRITE]
    BY <1>3 DEF Working, EventType, TypeOK
  <2> HIDE DEF r
  <2> QED BY <1>3, <1>4, <2>1, WorkingStored, UpdateTyped DEF ReadDisabled, ControlType
<1>5. CASE ReadTurn(e, r, st)
  <2> HIDE DEF r
  <2> QED BY <1>3, <1>5, ReadTurnSafe
<1> QED BY <1>4, <1>5 DEF OnEventRead

LEMMA OnEventWriteSafe ==
  ASSUME TypeOK, NEW e \in EventId, NEW r, Working(e, r),
         NEW st \in Seq(FrameType), OnEventWrite(e, r, st)
  PROVE  SameObjects /\ ControlType
<1> DEFINE armed == Update(filters, r.fd, r.ev \ {"WRITE"})
           q == [r EXCEPT !.ev = @ \cup {"WRITE"}]
<1>1. r.ev \in SUBSET READ_WRITE /\ r.fd \in Fd \cup {NoFd}
      /\ filters \in [Fd -> SUBSET READ_WRITE]
  BY DEF Working, EventType, TypeOK
<1>2. armed \in [Fd -> SUBSET READ_WRITE]
  BY <1>1, UpdateTyped
<1>3. Working(e, q)
  <2>1. r.ev \cup {"WRITE"} \in SUBSET READ_WRITE
    BY <1>1 DEF READ_WRITE
  <2> QED BY <2>1, WorkingEv
<1>4. \/ event' = [event EXCEPT ![e] = q] /\ filters' = armed /\ stack' = st
      \/ WriteData(e, q, armed, st)
  BY DEF OnEventWrite
<1> HIDE DEF armed, q
<1> QED BY <1>2, <1>3, <1>4, WorkingStored, WriteDataSafe DEF ControlType

-----------------------------------------------------------------------------
(* Lifetimes is inductive: first the steps that leave the registries alone, *)
(* then freeing, then the steps that register or unregister.                *)

LEMMA QuietStep ==
  ASSUME Lifetimes, SameObjects, ControlType, OtherType, TellsConnected,
         UNCHANGED <<events, dns_events, dns>>
  PROVE  Lifetimes'
<1>0. events' = events /\ dns_events' = dns_events /\ dns' = dns
  OBVIOUS
<1>1. TypeOK'
  BY <1>0 DEF Lifetimes, TypeOK, SameObjects, ControlType, OtherType
<1>2. RegistryLive'
  <2> SUFFICES ASSUME NEW fd \in Fd
               PROVE  /\ events[fd] # NULL =>
                           event'[events[fd]].live /\ event'[events[fd]].fd = fd
                      /\ dns_events[fd] # NULL =>
                           dns[dns_events[fd]].live /\ dns[dns_events[fd]].fd = fd
    BY <1>0 DEF RegistryLive
  <2>1. events[fd] # NULL => events[fd] \in EventId
    BY DEF Lifetimes, TypeOK
  <2> QED BY <2>1 DEF Lifetimes, RegistryLive, SameObjects
<1>3. DnsLinked'
  <2>1. ASSUME NEW x \in DnsId, dns[x].live
        PROVE  /\ dns[x].event # NULL
               /\ event'[dns[x].event].live
               /\ event'[dns[x].event].dns = x
    <3>1. dns[x].event # NULL => dns[x].event \in EventId
      BY DEF Lifetimes, TypeOK, DnsType
    <3> QED BY <2>1, <3>1 DEF Lifetimes, DnsLinked, SameObjects
  <2>2. ASSUME NEW x \in EventId, event'[x].live, event'[x].dns # NULL
        PROVE  /\ dns[event'[x].dns].live
               /\ dns[event'[x].dns].event = x
               /\ event'[x].fd = NoFd
    BY <2>2 DEF Lifetimes, DnsLinked, SameObjects
  <2> QED BY <1>0, <2>1, <2>2 DEF DnsLinked
<1>4. told \in [EventId -> 0..2] /\ told' \in [EventId -> 0..2]
  BY DEF Lifetimes, TypeOK, OtherType
<1>5. ToldOnce'
  <2> SUFFICES ASSUME NEW x \in EventId PROVE told'[x] <= 1
    BY DEF ToldOnce
  <2>1. told[x] <= 1 /\ told[x] \in 0..2 /\ told'[x] \in 0..2
    BY <1>4 DEF Lifetimes, ToldOnce
  <2>2. CASE told'[x] = told[x]
    BY <2>1, <2>2
  <2>3. CASE /\ event[x].live /\ event[x].fd # NoFd /\ ~event[x].connected
             /\ told'[x] <= told[x] + 1
    <3>1. told[x] = 0
      BY <2>3 DEF Lifetimes, Untold
    <3> QED BY <2>1, <2>3, <3>1
  <2> QED BY <2>2, <2>3 DEF TellsConnected
<1>6. Untold'
  BY DEF Lifetimes, Untold, SameObjects, TellsConnected
<1> QED BY <1>1, <1>2, <1>3, <1>5, <1>6 DEF Lifetimes

LEMMA FreeEventSafe ==
  ASSUME NoStdin, Lifetimes, NEW e \in EventId, event[e].live, FreeEvent(e),
         UNCHANGED <<listeners, batch, told>>, stack' \in Seq(FrameType)
  PROVE  Lifetimes'
<1> DEFINE d == event[e].dns
           fd == event[e].fd
<1>1. /\ d \in DnsId \cup {NULL} /\ fd \in Fd \cup {NoFd}
      /\ fd \in Fd => fd > 0
      /\ fd \notin Fd => ~(fd > 0)
  <2>1. event[e] \in EventType
    BY DEF Lifetimes, TypeOK
  <2>2. d \in DnsId \cup {NULL} /\ fd \in Fd \cup {NoFd}
    BY <2>1 DEF EventType
  <2> HIDE DEF d, fd
  <2>3. fd \in Fd => fd \in Nat /\ fd # 0
    BY LoopAssumption DEF NoStdin
  <2>4. fd \notin Fd => fd = -1
    BY <2>2 DEF NoFd
  <2> QED BY <2>2, <2>3, <2>4
<1>2. /\ event' = [event EXCEPT ![e] = Freed]
      /\ events' = IF fd > 0 THEN [events EXCEPT ![fd] = NULL] ELSE events
      /\ d # NULL => /\ dns' = [dns EXCEPT ![d] = FreedDns]
                     /\ dns_events' = [dns_events EXCEPT ![dns[d].fd] = NULL]
      /\ d = NULL => dns' = dns /\ dns_events' = dns_events
  BY DEF FreeEvent, RemoveEvent, RemoveDnsEvent
<1>3. /\ file' \in [Fd -> {"closed", "stdin", "listener", "unbound", "dns", "socket"}]
      /\ filters' \in [Fd -> SUBSET READ_WRITE]
  BY DEF FreeEvent, Closing, Lifetimes, TypeOK
<1>4. d # NULL => dns[d].live /\ dns[d].event = e /\ fd = NoFd
  BY DEF Lifetimes, DnsLinked
<1>5. NULL \notin DnsId /\ NULL \notin EventId
  BY LoopAssumption
<1> HIDE DEF d, fd
<1>6. Freed \in EventType /\ FreedDns \in DnsType /\ ~Freed.live /\ ~FreedDns.live
  BY DEF Freed, FreedDns, EventType, DnsType
<1>7. TypeOK'
  BY <1>1, <1>2, <1>3, <1>6 DEF Lifetimes, TypeOK
<1>8. RegistryLive'
  <2> SUFFICES ASSUME NEW g \in Fd
               PROVE  /\ events'[g] # NULL =>
                           event'[events'[g]].live /\ event'[events'[g]].fd = g
                      /\ dns_events'[g] # NULL =>
                           dns'[dns_events'[g]].live /\ dns'[dns_events'[g]].fd = g
    BY DEF RegistryLive
  <2>1. ASSUME events'[g] # NULL
        PROVE  event'[events'[g]].live /\ event'[events'[g]].fd = g
    <3>1. events[g] # NULL /\ events'[g] = events[g] /\ (fd > 0 => g # fd)
      BY <1>1, <1>2, <2>1 DEF Lifetimes, TypeOK
    <3>2. event[events[g]].live /\ event[events[g]].fd = g /\ events[g] \in EventId
      BY <3>1 DEF Lifetimes, RegistryLive, TypeOK
    <3>3. events[g] # e
      BY <1>1, <3>1, <3>2 DEF fd
    <3> QED BY <1>2, <3>1, <3>2, <3>3 DEF Lifetimes, TypeOK
  <2>2. ASSUME dns_events'[g] # NULL
        PROVE  dns'[dns_events'[g]].live /\ dns'[dns_events'[g]].fd = g
    <3>1. dns_events[g] # NULL /\ dns_events'[g] = dns_events[g]
          /\ (d # NULL => g # dns[d].fd)
      BY <1>2, <2>2 DEF Lifetimes, TypeOK
    <3>2. dns[dns_events[g]].live /\ dns[dns_events[g]].fd = g /\ dns_events[g] \in DnsId
      BY <3>1 DEF Lifetimes, RegistryLive, TypeOK
    <3>3. d # NULL => dns_events[g] # d
      BY <3>1, <3>2
    <3> QED BY <1>2, <3>1, <3>2, <3>3 DEF Lifetimes, TypeOK
  <2> QED BY <2>1, <2>2
<1>9. DnsLinked'
  <2>1. ASSUME NEW x \in DnsId, dns'[x].live
        PROVE  /\ dns'[x].event # NULL
               /\ event'[dns'[x].event].live
               /\ event'[dns'[x].event].dns = x
    <3>1. x # d /\ dns'[x] = dns[x] /\ dns[x].live
      BY <1>1, <1>2, <1>5, <1>6, <2>1 DEF Lifetimes, TypeOK
    <3>2. /\ dns[x].event # NULL /\ dns[x].event \in EventId
          /\ event[dns[x].event].live /\ event[dns[x].event].dns = x
      BY <3>1 DEF Lifetimes, DnsLinked, TypeOK, DnsType
    <3>3. dns[x].event # e
      BY <3>1, <3>2 DEF d
    <3> QED BY <1>2, <3>1, <3>2, <3>3 DEF Lifetimes, TypeOK
  <2>2. ASSUME NEW x \in EventId, event'[x].live, event'[x].dns # NULL
        PROVE  /\ dns'[event'[x].dns].live
               /\ dns'[event'[x].dns].event = x
               /\ event'[x].fd = NoFd
    <3>1. x # e /\ event'[x] = event[x]
      BY <1>2, <1>6, <2>2 DEF Lifetimes, TypeOK
    <3>2. /\ dns[event[x].dns].live /\ dns[event[x].dns].event = x
          /\ event[x].fd = NoFd /\ event[x].dns \in DnsId
      BY <2>2, <3>1 DEF Lifetimes, DnsLinked, TypeOK, EventType
    <3>3. event[x].dns # d
      BY <1>4, <2>2, <3>1, <3>2
    <3> QED BY <1>1, <1>2, <3>1, <3>2, <3>3 DEF Lifetimes, TypeOK
  <2> QED BY <2>1, <2>2 DEF DnsLinked
<1>10. ToldOnce' /\ Untold'
  <2>1. told' = told
    OBVIOUS
  <2>2. \A x \in EventId : event'[x].live => event'[x] = event[x]
    BY <1>2, <1>6 DEF Lifetimes, TypeOK
  <2> QED BY <2>1, <2>2 DEF Lifetimes, ToldOnce, Untold
<1> QED BY <1>7, <1>8, <1>9, <1>10 DEF Lifetimes

LEMMA NewEventSafe ==
  ASSUME Lifetimes, ControlType, OtherType,
         NEW e \in EventId, ~event[e].live, NEW fd \in Fd, NEW c \in BOOLEAN,
         event' = [event EXCEPT ![e] = NewEvent(fd, c)],
         events' = Registered(fd, e),
         told' = [told EXCEPT ![e] = IF c THEN 1 ELSE 0],
         UNCHANGED <<dns_events, dns>>
  PROVE  Lifetimes'
<1> DEFINE new == NewEvent(fd, c)
<1>1. /\ new \in EventType /\ new.live /\ new.fd = fd /\ new.dns = NULL
      /\ new.connected = c
  BY DEF NewEvent, EventType, READ_WRITE
<1>2. events' = [events EXCEPT ![fd] = e]
  BY DEF Registered
<1> HIDE DEF new
<1>3. event' = [event EXCEPT ![e] = new]
  BY DEF new
<1>4. TypeOK'
  BY <1>1, <1>2, <1>3 DEF Lifetimes, TypeOK, ControlType, OtherType
<1>5. RegistryLive'
  <2> SUFFICES ASSUME NEW g \in Fd
               PROVE  /\ events'[g] # NULL =>
                           event'[events'[g]].live /\ event'[events'[g]].fd = g
                      /\ dns_events[g] # NULL =>
                           dns[dns_events[g]].live /\ dns[dns_events[g]].fd = g
    BY DEF RegistryLive
  <2>1. CASE g = fd
    BY <1>1, <1>2, <1>3, <2>1 DEF Lifetimes, TypeOK, RegistryLive
  <2>2. CASE g # fd
    <3>1. events'[g] = events[g] /\ (events[g] # NULL => events[g] \in EventId)
      BY <1>2, <2>2 DEF Lifetimes, TypeOK
    <3>2. events[g] # NULL => events[g] # e
      BY DEF Lifetimes, RegistryLive
    <3> QED BY <1>3, <3>1, <3>2 DEF Lifetimes, TypeOK, RegistryLive
  <2> QED BY <2>1, <2>2
<1>6. DnsLinked'
  <2>1. ASSUME NEW x \in DnsId, dns[x].live
        PROVE  /\ dns[x].event # NULL
               /\ event'[dns[x].event].live
               /\ event'[dns[x].event].dns = x
    <3>1. /\ dns[x].event # NULL /\ dns[x].event \in EventId
          /\ event[dns[x].event].live /\ event[dns[x].event].dns = x
      BY <2>1 DEF Lifetimes, DnsLinked, TypeOK, DnsType
    <3> QED BY <1>3, <3>1 DEF Lifetimes, TypeOK
  <2>2. ASSUME NEW x \in EventId, event'[x].live, event'[x].dns # NULL
        PROVE  /\ dns[event'[x].dns].live
               /\ dns[event'[x].dns].event = x
               /\ event'[x].fd = NoFd
    <3>1. x # e /\ event'[x] = event[x]
      BY <1>1, <1>3, <2>2 DEF Lifetimes, TypeOK
    <3> QED BY <2>2, <3>1 DEF Lifetimes, DnsLinked
  <2> QED BY <2>1, <2>2 DEF DnsLinked
<1>7. ToldOnce'
  BY DEF Lifetimes, TypeOK, ToldOnce
<1>8. Untold'
  <2> SUFFICES ASSUME NEW x \in EventId, event'[x].live
               PROVE  /\ event'[x].dns # NULL => told'[x] = 0
                      /\ event'[x].fd # NoFd /\ ~event'[x].connected => told'[x] = 0
    BY DEF Untold
  <2>1. CASE x = e
    <3>1. event'[x] = new
      BY <1>3, <2>1 DEF Lifetimes, TypeOK
    <3>2. ~c => told'[x] = 0
      BY <2>1 DEF Lifetimes, TypeOK
    <3> QED BY <1>1, <3>1, <3>2
  <2>2. CASE x # e
    <3>1. event'[x] = event[x] /\ told'[x] = told[x]
      BY <1>3, <2>2 DEF Lifetimes, TypeOK
    <3> QED BY <3>1 DEF Lifetimes, Untold
  <2> QED BY <2>1, <2>2
<1> QED BY <1>4, <1>5, <1>6, <1>7, <1>8 DEF Lifetimes

LEMMA AppConnectHostnameSafe ==
  ASSUME Lifetimes, AppConnectHostname
  PROVE  Lifetimes'
<1>0. PICK fd \in Fd, e \in EventId, d \in DnsId :
       /\ ~event[e].live /\ ~dns[d].live
       /\ file' = [file EXCEPT ![fd] = "dns"]
       /\ filters' = [filters EXCEPT ![fd] = READ_WRITE]
       /\ event' = [event EXCEPT ![e] = [NewEvent(NoFd, FALSE) EXCEPT !.dns = d]]
       /\ dns' = [dns EXCEPT ![d] = [live |-> TRUE, fd |-> fd, event |-> e]]
       /\ dns_events' = [dns_events EXCEPT ![fd] = d]
       /\ told' = [told EXCEPT ![e] = 0]
  BY DEF AppConnectHostname
<1> DEFINE ne == [NewEvent(NoFd, FALSE) EXCEPT !.dns = d]
           nd == [live |-> TRUE, fd |-> fd, event |-> e]
<1>1. /\ ne \in EventType /\ ne.live /\ ne.fd = NoFd /\ ne.dns = d
      /\ nd \in DnsType /\ nd.live /\ nd.fd = fd /\ nd.event = e
  BY DEF NewEvent, EventType, DnsType, READ_WRITE
<1>2. d # NULL /\ e # NULL
  BY LoopAssumption
<1>3. UNCHANGED <<listeners, events, batch, stack>>
  BY DEF AppConnectHostname
<1> HIDE DEF ne, nd
<1>4. /\ event' = [event EXCEPT ![e] = ne] /\ dns' = [dns EXCEPT ![d] = nd]
      /\ dns_events' = [dns_events EXCEPT ![fd] = d]
      /\ ~event[e].live /\ ~dns[d].live
  BY <1>0 DEF ne, nd
<1>5. TypeOK'
  <2>1. /\ file' \in [Fd -> {"closed", "stdin", "listener", "unbound", "dns", "socket"}]
        /\ filters' \in [Fd -> SUBSET READ_WRITE]
        /\ told' \in [EventId -> 0..2]
    BY <1>0 DEF Lifetimes, TypeOK
  <2>2. /\ event' \in [EventId -> EventType]
        /\ \A x \in EventId : ~event'[x].live => event'[x] = Freed
        /\ dns' \in [DnsId -> DnsType]
        /\ dns_events' \in [Fd -> DnsId \cup {NULL}]
    BY <1>1, <1>4 DEF Lifetimes, TypeOK
  <2> QED BY <1>3, <2>1, <2>2 DEF Lifetimes, TypeOK
<1>6. RegistryLive'
  <2> SUFFICES ASSUME NEW g \in Fd
               PROVE  /\ events[g] # NULL =>
                           event'[events[g]].live /\ event'[events[g]].fd = g
                      /\ dns_events'[g] # NULL =>
                           dns'[dns_events'[g]].live /\ dns'[dns_events'[g]].fd = g
    BY <1>3 DEF RegistryLive
  <2>1. ASSUME events[g] # NULL
        PROVE  event'[events[g]].live /\ event'[events[g]].fd = g
    <3>1. events[g] \in EventId /\ event[events[g]].live /\ event[events[g]].fd = g
      BY <2>1 DEF Lifetimes, TypeOK, RegistryLive
    <3> QED BY <1>4, <3>1 DEF Lifetimes, TypeOK
  <2>2. ASSUME dns_events'[g] # NULL
        PROVE  dns'[dns_events'[g]].live /\ dns'[dns_events'[g]].fd = g
    BY <1>1, <1>4, <2>2 DEF Lifetimes, TypeOK, RegistryLive
  <2> QED BY <2>1, <2>2
<1>7. DnsLinked'
  <2>1. ASSUME NEW x \in DnsId, dns'[x].live
        PROVE  /\ dns'[x].event # NULL
               /\ event'[dns'[x].event].live
               /\ event'[dns'[x].event].dns = x
    <3>1. CASE x = d
      BY <1>1, <1>2, <1>4, <3>1 DEF Lifetimes, TypeOK
    <3>2. CASE x # d
      <4>1. dns'[x] = dns[x] /\ dns[x].live
        BY <1>4, <2>1, <3>2 DEF Lifetimes, TypeOK
      <4>2. /\ dns[x].event # NULL /\ dns[x].event \in EventId
            /\ event[dns[x].event].live /\ event[dns[x].event].dns = x
        BY <4>1 DEF Lifetimes, DnsLinked, TypeOK, DnsType
      <4> QED BY <1>4, <4>1, <4>2 DEF Lifetimes, TypeOK
    <3> QED BY <3>1, <3>2
  <2>2. ASSUME NEW x \in EventId, event'[x].live, event'[x].dns # NULL
        PROVE  /\ dns'[event'[x].dns].live
               /\ dns'[event'[x].dns].event = x
               /\ event'[x].fd = NoFd
    <3>1. CASE x = e
      BY <1>1, <1>4, <3>1 DEF Lifetimes, TypeOK
    <3>2. CASE x # e
      <4>1. event'[x] = event[x]
        BY <1>4, <3>2 DEF Lifetimes, TypeOK
      <4>2. /\ dns[event[x].dns].live /\ dns[event[x].dns].event = x
            /\ event[x].fd = NoFd
        BY <2>2, <4>1 DEF Lifetimes, DnsLinked
      <4>3. event[x].dns \in DnsId
        BY <2>2, <4>1 DEF Lifetimes, TypeOK, EventType
      <4> QED BY <1>4, <4>1, <4>2, <4>3 DEF Lifetimes, TypeOK
    <3> QED BY <3>1, <3>2
  <2> QED BY <2>1, <2>2 DEF DnsLinked
<1>8. ToldOnce' /\ Untold'
  <2>1. told'[e] = 0
    BY <1>0 DEF Lifetimes, TypeOK
  <2>2. \A x \in EventId : x # e => told'[x] = told[x] /\ event'[x] = event[x]
    BY <1>0, <1>4 DEF Lifetimes, TypeOK
  <2> QED BY <2>1, <2>2 DEF Lifetimes, ToldOnce, Untold
<1> QED BY <1>5, <1>6, <1>7, <1>8 DEF Lifetimes

\* What devent_dns_write and devent_dns_read do when they are done with a name:
\* the DNS event d is freed, its event e keeps its place or gets one.
LEMMA DnsGone ==
  ASSUME Lifetimes, ControlType, OtherType,
         NEW d \in DnsId, dns[d].live, NEW e \in EventId, dns[d].event = e,
         NEW q \in EventType, q.live, q.dns = NULL,
         event' = [event EXCEPT ![e] = q],
         dns' = [dns EXCEPT ![d] = FreedDns],
         dns_events' = RemoveDnsEvent(dns[d].fd),
         \/ q.fd = event[e].fd /\ events' = events /\ told' = Report(e)
         \/ q.fd \in Fd /\ events' = Registered(q.fd, e) /\ told' = told
  PROVE  Lifetimes'
<1>1. /\ event[e].live /\ event[e].dns = d /\ event[e].fd = NoFd
      /\ FreedDns \in DnsType /\ ~FreedDns.live /\ d # NULL /\ e # NULL
  BY LoopAssumption DEF Lifetimes, DnsLinked, FreedDns, DnsType
<1>2. NoFd \notin Fd
  BY LoopAssumption DEF NoFd
<1>3. TypeOK'
  <2>1. /\ event' \in [EventId -> EventType]
        /\ \A x \in EventId : ~event'[x].live => event'[x] = Freed
        /\ dns' \in [DnsId -> DnsType]
    BY <1>1 DEF Lifetimes, TypeOK
  <2>2. dns_events' \in [Fd -> DnsId \cup {NULL}]
    BY DEF Lifetimes, TypeOK, RemoveDnsEvent
  <2>3. events' \in [Fd -> EventId \cup {NULL}]
    BY DEF Lifetimes, TypeOK, Registered
  <2> QED BY <2>1, <2>2, <2>3 DEF TypeOK, ControlType, OtherType
<1>4. RegistryLive'
  <2> SUFFICES ASSUME NEW g \in Fd
               PROVE  /\ events'[g] # NULL =>
                           event'[events'[g]].live /\ event'[events'[g]].fd = g
                      /\ dns_events'[g] # NULL =>
                           dns'[dns_events'[g]].live /\ dns'[dns_events'[g]].fd = g
    BY DEF RegistryLive
  <2>1. events[g] # e
    BY <1>1, <1>2 DEF Lifetimes, RegistryLive, TypeOK
  <2>2. ASSUME events'[g] # NULL, events'[g] = events[g]
        PROVE  event'[events'[g]].live /\ event'[events'[g]].fd = g
    <3>1. events[g] \in EventId /\ event[events[g]].live /\ event[events[g]].fd = g
      BY <2>2 DEF Lifetimes, TypeOK, RegistryLive
    <3> QED BY <2>1, <2>2, <3>1 DEF Lifetimes, TypeOK
  <2>3. ASSUME events'[g] # events[g]
        PROVE  event'[events'[g]].live /\ event'[events'[g]].fd = g
    <3>1. g = q.fd /\ events'[g] = e
      BY <2>3 DEF Lifetimes, TypeOK, Registered
    <3> QED BY <3>1 DEF Lifetimes, TypeOK
  <2>4. ASSUME dns_events'[g] # NULL
        PROVE  dns'[dns_events'[g]].live /\ dns'[dns_events'[g]].fd = g
    <3>1. dns_events'[g] = dns_events[g] /\ g # dns[d].fd
      BY <2>4 DEF Lifetimes, TypeOK, RemoveDnsEvent
    <3>2. /\ dns_events[g] \in DnsId
          /\ dns[dns_events[g]].live /\ dns[dns_events[g]].fd = g
      BY <2>4, <3>1 DEF Lifetimes, TypeOK, RegistryLive
    <3> QED BY <3>1, <3>2 DEF Lifetimes, TypeOK
  <2> QED BY <2>2, <2>3, <2>4
<1>5. DnsLinked'
  <2>1. ASSUME NEW x \in DnsId, dns'[x].live
        PROVE  /\ dns'[x].event # NULL
               /\ event'[dns'[x].event].live
               /\ event'[dns'[x].event].dns = x
    <3>1. x # d /\ dns'[x] = dns[x] /\ dns[x].live
      BY <1>1, <2>1 DEF Lifetimes, TypeOK
    <3>2. /\ dns[x].event # NULL /\ dns[x].event \in EventId
          /\ event[dns[x].event].live /\ event[dns[x].event].dns = x
      BY <3>1 DEF Lifetimes, DnsLinked, TypeOK, DnsType
    <3>3. dns[x].event # e
      BY <1>1, <3>1, <3>2
    <3> QED BY <3>1, <3>2, <3>3 DEF Lifetimes, TypeOK
  <2>2. ASSUME NEW x \in EventId, event'[x].live, event'[x].dns # NULL
        PROVE  /\ dns'[event'[x].dns].live
               /\ dns'[event'[x].dns].event = x
               /\ event'[x].fd = NoFd
    <3>1. x # e /\ event'[x] = event[x]
      BY <2>2 DEF Lifetimes, TypeOK
    <3>2. /\ dns[event[x].dns].live /\ dns[event[x].dns].event = x
          /\ event[x].fd = NoFd /\ event[x].dns \in DnsId
      BY <2>2, <3>1 DEF Lifetimes, DnsLinked, TypeOK, EventType
    <3>3. event[x].dns # d
      BY <3>1, <3>2
    <3> QED BY <3>1, <3>2, <3>3 DEF Lifetimes, TypeOK
  <2> QED BY <2>1, <2>2 DEF DnsLinked
<1>6. ToldOnce' /\ Untold'
  <2>1. told[e] = 0
    BY <1>1 DEF Lifetimes, Untold
  <2>2. /\ told'[e] <= 1
        /\ q.fd # NoFd => told'[e] = 0
        /\ \A x \in EventId : x # e => told'[x] = told[x]
    <3>1. CASE q.fd = event[e].fd /\ told' = Report(e)
      BY <1>1, <2>1, <3>1 DEF Report, Lifetimes, TypeOK
    <3>2. CASE told' = told
      BY <2>1, <3>2
    <3> QED BY <3>1, <3>2
  <2>3. event'[e] = q /\ \A x \in EventId : x # e => event'[x] = event[x]
    BY DEF Lifetimes, TypeOK
  <2> QED BY <2>2, <2>3 DEF Lifetimes, ToldOnce, Untold
<1> QED BY <1>3, <1>4, <1>5, <1>6 DEF Lifetimes

LEMMA ServingTyped ==
  ASSUME TypeOK, NEW fd, NEW filter, Serving(fd, filter)
  PROVE  /\ fd \in Fd /\ filter \in READ_WRITE /\ stack = << >>
         /\ batch' \in Seq([fd : Fd, filter : READ_WRITE])
         /\ batch' = Tail(batch)
<1>1. /\ Head(batch) \in [fd : Fd, filter : READ_WRITE]
      /\ Tail(batch) \in Seq([fd : Fd, filter : READ_WRITE])
  BY HeadTailProperties DEF Serving, TypeOK
<1>2. Head(batch).fd = fd /\ Head(batch).filter = filter
  BY DEF Serving
<1> QED BY <1>1, <1>2 DEF Serving

LEMMA ServedDns ==
  ASSUME Lifetimes, NEW fd \in Fd, dns_events[fd] # NULL
  PROVE  LET d == dns_events[fd]
             e == dns[d].event
         IN  /\ d \in DnsId /\ dns[d].live /\ dns[d].fd = fd
             /\ e \in EventId /\ event[e].live /\ event[e].fd = NoFd
             /\ event[e] \in EventType /\ event[e].dns = d
<1>1. /\ dns_events[fd] \in DnsId
      /\ dns[dns_events[fd]].live /\ dns[dns_events[fd]].fd = fd
  BY DEF Lifetimes, TypeOK, RegistryLive
<1>2. dns[dns_events[fd]].event \in EventId
  BY <1>1 DEF Lifetimes, TypeOK, DnsType, DnsLinked
<1> QED BY <1>1, <1>2, LoopAssumption DEF Lifetimes, DnsLinked, TypeOK

LEMMA ClosingTyped ==
  ASSUME TypeOK, NEW fds, Closing(fds)
  PROVE  /\ file' \in [Fd -> {"closed", "stdin", "listener", "unbound", "dns", "socket"}]
         /\ filters' \in [Fd -> SUBSET READ_WRITE]
BY DEF Closing, TypeOK

LEMMA AppTyped == App \in FrameType
BY FrameTyped DEF App, NoFd, READ_WRITE

LEMMA ReportTyped ==
  ASSUME Lifetimes, NEW e \in EventId
  PROVE  Report(e) \in [EventId -> 0..2]
<1>1. told \in [EventId -> 0..2]
  BY DEF Lifetimes, TypeOK
<1> QED BY <1>1 DEF Report

LEMMA DnsFailsSafe ==
  ASSUME Lifetimes, NEW fd, NEW filter, DnsFails(fd, filter)
  PROVE  Lifetimes'
<1> DEFINE d == dns_events[fd]
           e == dns[d].event
           q == [event[e] EXCEPT !.dns = NULL]
<1>1. /\ fd \in Fd /\ stack = << >> /\ dns_events[fd] # NULL
      /\ batch' \in Seq([fd : Fd, filter : READ_WRITE])
  BY ServingTyped DEF Lifetimes, DnsFails
<1>2. /\ d \in DnsId /\ dns[d].live /\ e \in EventId /\ event[e].live
      /\ event[e] \in EventType
  BY <1>1, ServedDns
<1>3. /\ event' = Unlinked(e)
      /\ dns' = [dns EXCEPT ![d] = FreedDns]
      /\ dns_events' = RemoveDnsEvent(dns[d].fd)
      /\ Closing({dns[d].fd})
      /\ told' = Report(e)
      /\ stack' = Append(stack, App)
      /\ UNCHANGED <<listeners, events>>
  BY DEF DnsFails
<1>4. q \in EventType /\ q.live /\ q.dns = NULL /\ q.fd = event[e].fd
  BY <1>2 DEF EventType
<1>5. event' = [event EXCEPT ![e] = q]
  BY <1>3 DEF Unlinked
<1>6. ControlType
  BY <1>3, ClosingTyped, AppTyped, PushTyped DEF ControlType, Lifetimes, TypeOK
<1>7. told' \in [EventId -> 0..2]
  BY <1>2, <1>3, ReportTyped
<1>8. OtherType
  BY <1>1, <1>3, <1>7, ClosingTyped DEF OtherType, Lifetimes, TypeOK
<1>9. dns[d].event = e /\ events' = events
  BY <1>3
<1> HIDE DEF d, e, q
<1> QED BY <1>2, <1>3, <1>4, <1>5, <1>6, <1>8, <1>9, DnsGone

LEMMA DnsConnectSafe ==
  ASSUME Lifetimes, NEW fd, NEW started \in BOOLEAN, DnsConnect(fd, started)
  PROVE  Lifetimes'
<1> DEFINE d == dns_events[fd]
           e == dns[d].event
<1>1. /\ fd \in Fd /\ stack = << >> /\ dns_events[fd] # NULL
      /\ batch' \in Seq([fd : Fd, filter : READ_WRITE])
  BY ServingTyped DEF Lifetimes, DnsConnect
<1>2. /\ d \in DnsId /\ dns[d].live /\ e \in EventId /\ event[e].live
      /\ event[e] \in EventType
  BY <1>1, ServedDns
<1>3. PICK new \in Fd :
        /\ file' = [f \in Fd |-> CASE f = dns[d].fd -> "closed"
                                   [] f = new /\ started -> "socket"
                                   [] OTHER -> file[f]]
        /\ filters' = [f \in Fd |-> CASE f = dns[d].fd -> {}
                                      [] f = new /\ started -> READ_WRITE
                                      [] OTHER -> filters[f]]
        /\ event' = [event EXCEPT ![e] = WithFd(event[e], new, started)]
        /\ events' = Registered(new, e)
        /\ dns' = [dns EXCEPT ![d] = FreedDns]
        /\ dns_events' = RemoveDnsEvent(dns[d].fd)
  BY DEF DnsConnect
<1> DEFINE q == WithFd(event[e], new, started)
<1>4. q \in EventType /\ q.live /\ q.dns = NULL /\ q.fd = new
  BY <1>2 DEF WithFd, EventType, READ_WRITE
<1>5. event' = [event EXCEPT ![e] = q]
  BY <1>3
<1>6. UNCHANGED <<listeners, stack, told>>
  BY DEF DnsConnect
<1>7. ControlType /\ OtherType
  <2>1. /\ file \in [Fd -> {"closed", "stdin", "listener", "unbound", "dns", "socket"}]
        /\ filters \in [Fd -> SUBSET READ_WRITE]
    BY DEF Lifetimes, TypeOK
  <2>2. file' \in [Fd -> {"closed", "stdin", "listener", "unbound", "dns", "socket"}]
    BY <1>3, <2>1
  <2>3. filters' \in [Fd -> SUBSET READ_WRITE]
    BY <1>3, <2>1
  <2> QED BY <1>1, <1>6, <2>2, <2>3 DEF ControlType, OtherType, Lifetimes, TypeOK
<1>8. dns[d].event = e
  OBVIOUS
<1>9. dns' = [dns EXCEPT ![d] = FreedDns] /\ dns_events' = RemoveDnsEvent(dns[d].fd)
      /\ events' = Registered(q.fd, e) /\ q.fd \in Fd /\ told' = told
  BY <1>3, <1>4, <1>6
<1> HIDE DEF d, e, q
<1> QED BY <1>2, <1>4, <1>5, <1>7, <1>8, <1>9, DnsGone

LEMMA SameEvent ==
  ASSUME TypeOK, event' = event
  PROVE  SameObjects
BY DEF TypeOK, SameObjects

\* A pointer or a report that leads to an event leads to a live one.
LEMMA FoundEvent ==
  ASSUME Lifetimes, NEW fd, Find(fd) # NULL
  PROVE  /\ Find(fd) \in EventId /\ event[Find(fd)].live
         /\ Working(Find(fd), event[Find(fd)])
         /\ event[Find(fd)].ev \in SUBSET READ_WRITE
<1>1. fd \in Fd /\ Find(fd) = events[fd]
  BY DEF Find
<1>2. events[fd] \in EventId /\ event[events[fd]].live
  BY <1>1 DEF Lifetimes, TypeOK, RegistryLive
<1>3. event[events[fd]] \in EventType
  BY <1>2 DEF Lifetimes, TypeOK
<1> QED BY <1>1, <1>2, <1>3 DEF Working, EventType

-----------------------------------------------------------------------------
(* The application.                                                         *)

LEMMA AppListenSafe ==
  ASSUME Lifetimes, AppListen
  PROVE  Lifetimes' /\ SameObjects
<1>1. SameObjects
  BY SameEvent DEF AppListen, Lifetimes
<1>2. ControlType /\ OtherType
  BY DEF AppListen, Lifetimes, TypeOK, ControlType, OtherType
<1>3. UNCHANGED <<events, dns_events, dns>> /\ TellsConnected
  BY DEF AppListen, TellsConnected
<1> QED BY <1>1, <1>2, <1>3, QuietStep

LEMMA AppListenFailsSafe ==
  ASSUME Lifetimes, AppListenFails
  PROVE  Lifetimes' /\ SameObjects
<1>1. SameObjects
  BY SameEvent DEF AppListenFails, Lifetimes
<1>2. ControlType /\ OtherType
  BY DEF AppListenFails, Lifetimes, TypeOK, ControlType, OtherType, objects
<1>3. UNCHANGED <<events, dns_events, dns>> /\ TellsConnected
  BY DEF AppListenFails, TellsConnected, objects
<1> QED BY <1>1, <1>2, <1>3, QuietStep

LEMMA AppConnectSafe ==
  ASSUME Lifetimes, AppConnect
  PROVE  Lifetimes'
<1>0. PICK fd \in Fd :
       /\ file' = [file EXCEPT ![fd] = "socket"]
       /\ filters' = [filters EXCEPT ![fd] = READ_WRITE]
       /\ \/ /\ events[fd] # NULL
             /\ event' = [event EXCEPT ![events[fd]].ev = READ_WRITE]
             /\ UNCHANGED <<events, told>>
          \/ /\ events[fd] = NULL
             /\ \E e \in EventId :
                  /\ ~event[e].live
                  /\ event' = [event EXCEPT ![e] = NewEvent(fd, FALSE)]
                  /\ events' = Registered(fd, e)
                  /\ told' = [told EXCEPT ![e] = 0]
  BY DEF AppConnect
<1>1. UNCHANGED <<listeners, dns_events, dns, batch, stack>>
  BY DEF AppConnect
<1>2. /\ file' \in [Fd -> {"closed", "stdin", "listener", "unbound", "dns", "socket"}]
      /\ filters' \in [Fd -> SUBSET READ_WRITE]
  BY <1>0 DEF Lifetimes, TypeOK
<1>3. ControlType
  BY <1>1, <1>2 DEF Lifetimes, TypeOK, ControlType
<1>4. told' \in [EventId -> 0..2]
  <2>1. told' = told \/ \E e \in EventId : told' = [told EXCEPT ![e] = 0]
    BY <1>0
  <2>2. told \in [EventId -> 0..2]
    BY DEF Lifetimes, TypeOK
  <2> QED BY <2>1, <2>2
<1>5. OtherType
  BY <1>1, <1>2, <1>4 DEF Lifetimes, TypeOK, OtherType
<1>6. CASE events[fd] # NULL
  <2> DEFINE e == events[fd]
             r == [event[e] EXCEPT !.ev = READ_WRITE]
  <2>1. e \in EventId /\ Working(e, event[e])
    BY <1>6, FoundEvent DEF Find
  <2>2. event' = [event EXCEPT ![e] = r] /\ events' = events
    BY <1>0, <1>6
  <2>3. READ_WRITE \in SUBSET READ_WRITE
    OBVIOUS
  <2>4. Working(e, r)
    BY <2>1, <2>3, WorkingEv
  <2> HIDE DEF e, r
  <2>5. SameObjects
    BY <2>1, <2>2, <2>4, WorkingStored DEF Lifetimes
  <2>6. TellsConnected
    BY <1>0, <1>6 DEF TellsConnected
  <2> QED BY <1>1, <1>3, <1>5, <2>2, <2>5, <2>6, QuietStep
<1>7. CASE events[fd] = NULL
  <2>1. PICK e \in EventId :
          /\ ~event[e].live
          /\ event' = [event EXCEPT ![e] = NewEvent(fd, FALSE)]
          /\ events' = Registered(fd, e)
          /\ told' = [told EXCEPT ![e] = 0]
    BY <1>0, <1>7
  <2>2. FALSE \in BOOLEAN /\ UNCHANGED <<dns_events, dns>>
    BY <1>1
  <2> QED BY <1>3, <1>5, <2>1, <2>2, NewEventSafe
<1> QED BY <1>6, <1>7

LEMMA AppCreateSafe ==
  ASSUME Lifetimes, AppCreate
  PROVE  Lifetimes'
<1>0. PICK fd \in Fd, e \in EventId :
       /\ ~event[e].live
       /\ file' = [file EXCEPT ![fd] = "socket"]
       /\ filters' = [filters EXCEPT ![fd] = READ_WRITE]
       /\ event' = [event EXCEPT ![e] = NewEvent(fd, TRUE)]
       /\ events' = Registered(fd, e)
       /\ told' = [told EXCEPT ![e] = 1]
  BY DEF AppCreate
<1>1. UNCHANGED <<listeners, dns_events, dns, batch, stack>>
  BY DEF AppCreate
<1>2. ControlType /\ OtherType
  BY <1>0, <1>1 DEF Lifetimes, TypeOK, ControlType, OtherType
<1>3. TRUE \in BOOLEAN /\ UNCHANGED <<dns_events, dns>>
  BY <1>1
<1> QED BY <1>0, <1>2, <1>3, NewEventSafe

LEMMA AppFreeSafe ==
  ASSUME NoStdin, Lifetimes, NEW e \in EventId, AppFree(e)
  PROVE  Lifetimes'
<1>1. /\ event[e].live /\ FreeEvent(e)
      /\ UNCHANGED <<listeners, batch, told>> /\ stack' = stack
  BY DEF AppFree
<1>2. stack' \in Seq(FrameType)
  BY <1>1 DEF Lifetimes, TypeOK
<1> QED BY <1>1, <1>2, FreeEventSafe

\* All the steps below call one of the handlers and change nothing else.
LEMMA HandlerStep ==
  ASSUME Lifetimes, SameObjects, ControlType,
         UNCHANGED <<file, events, objects>>,
         batch' \in Seq([fd : Fd, filter : READ_WRITE])
  PROVE  Lifetimes' /\ SameObjects
<1>1. UNCHANGED <<events, dns_events, dns>> /\ TellsConnected
  BY DEF objects, TellsConnected
<1>2. OtherType
  BY DEF objects, Lifetimes, TypeOK, OtherType
<1> QED BY <1>1, <1>2, QuietStep

LEMMA Live ==
  ASSUME TypeOK, NEW e \in EventId, event[e].live
  PROVE  /\ Working(e, event[e]) /\ event[e].ev \in SUBSET READ_WRITE
         /\ event[e].pending \in BOOLEAN
         /\ filters \in [Fd -> SUBSET READ_WRITE] /\ stack \in Seq(FrameType)
         /\ batch \in Seq([fd : Fd, filter : READ_WRITE])
BY DEF TypeOK, Working, EventType

LEMMA AppWriteSafe ==
  ASSUME Lifetimes, NEW e \in EventId, AppWrite(e)
  PROVE  Lifetimes' /\ SameObjects
<1> DEFINE r == [event[e] EXCEPT !.pending = TRUE]
<1>1. /\ event[e].live /\ UNCHANGED <<file, events, batch, objects>>
      /\ \/ WriteData(e, r, filters, stack)
         \/ event' = [event EXCEPT ![e] = r] /\ UNCHANGED <<filters, stack>>
  BY DEF AppWrite
<1>2. /\ Working(e, event[e]) /\ event[e].ev \in SUBSET READ_WRITE
      /\ filters \in [Fd -> SUBSET READ_WRITE] /\ stack \in Seq(FrameType)
      /\ batch \in Seq([fd : Fd, filter : READ_WRITE]) /\ TypeOK
  BY <1>1, Live DEF Lifetimes
<1>3. Working(e, r)
  BY <1>2, WorkingEv
<1> HIDE DEF r
<1>4. SameObjects /\ ControlType
  <2>1. CASE WriteData(e, r, filters, stack)
    BY <1>2, <1>3, <2>1, WriteDataSafe
  <2>2. CASE event' = [event EXCEPT ![e] = r] /\ UNCHANGED <<filters, stack>>
    BY <1>2, <1>3, <2>2, WorkingStored DEF ControlType
  <2> QED BY <1>1, <2>1, <2>2
<1>5. UNCHANGED <<file, events, objects>> /\ batch' \in Seq([fd : Fd, filter : READ_WRITE])
  BY <1>1, <1>2
<1> QED BY <1>4, <1>5, HandlerStep

LEMMA AppWriteBufferSafe ==
  ASSUME Lifetimes, NEW e \in EventId, AppWriteBuffer(e)
  PROVE  Lifetimes' /\ SameObjects
<1>1. PICK more \in BOOLEAN :
        WriteData(e, [event[e] EXCEPT !.pending = @ \/ more], filters, stack)
  BY DEF AppWriteBuffer
<1>2. event[e].live /\ UNCHANGED <<file, events, batch, objects>>
  BY DEF AppWriteBuffer
<1> DEFINE r == [event[e] EXCEPT !.pending = event[e].pending \/ more]
<1>3. /\ Working(e, event[e]) /\ event[e].ev \in SUBSET READ_WRITE
      /\ filters \in [Fd -> SUBSET READ_WRITE] /\ stack \in Seq(FrameType)
      /\ batch \in Seq([fd : Fd, filter : READ_WRITE]) /\ TypeOK
  BY <1>2, Live DEF Lifetimes
<1>4. Working(e, r)
  <2>1. (event[e].pending \/ more) \in BOOLEAN
    OBVIOUS
  <2> QED BY <1>3, <2>1, WorkingEv
<1>5. WriteData(e, r, filters, stack)
  BY <1>1
<1> HIDE DEF r
<1>6. SameObjects /\ ControlType
  BY <1>3, <1>4, <1>5, WriteDataSafe
<1>7. UNCHANGED <<file, events, objects>> /\ batch' \in Seq([fd : Fd, filter : READ_WRITE])
  BY <1>2, <1>3
<1> QED BY <1>6, <1>7, HandlerStep

LEMMA AppWriteBufferForceSafe ==
  ASSUME Lifetimes, NEW e \in EventId, AppWriteBufferForce(e)
  PROVE  Lifetimes' /\ SameObjects
<1>1. PICK more \in BOOLEAN :
        WriteData(e, [event[e] EXCEPT !.pending = @ \/ more, !.ev = @ \cup {"WRITE"}],
                  filters, Append(stack, ForceFrame(e, event[e].ev)))
  BY DEF AppWriteBufferForce
<1>2. event[e].live /\ UNCHANGED <<file, events, batch, objects>>
  BY DEF AppWriteBufferForce
<1> DEFINE r == [event[e] EXCEPT !.pending = event[e].pending \/ more,
                                 !.ev = event[e].ev \cup {"WRITE"}]
           st == Append(stack, ForceFrame(e, event[e].ev))
<1>3. /\ Working(e, event[e]) /\ event[e].ev \in SUBSET READ_WRITE
      /\ filters \in [Fd -> SUBSET READ_WRITE] /\ stack \in Seq(FrameType)
      /\ batch \in Seq([fd : Fd, filter : READ_WRITE]) /\ TypeOK
  BY <1>2, Live DEF Lifetimes
<1>4. Working(e, r)
  <2>1. (event[e].pending \/ more) \in BOOLEAN
    OBVIOUS
  <2>2. event[e].ev \cup {"WRITE"} \in SUBSET READ_WRITE
    BY <1>3 DEF READ_WRITE
  <2> QED BY <1>3, <2>1, <2>2, WorkingEv
<1>5. st \in Seq(FrameType)
  <2>1. ForceFrame(e, event[e].ev) \in FrameType
    BY <1>3, FrameTyped DEF ForceFrame, NoFd
  <2> QED BY <1>3, <2>1, PushTyped
<1>6. WriteData(e, r, filters, st)
  BY <1>1
<1> HIDE DEF r, st
<1>7. SameObjects /\ ControlType
  BY <1>3, <1>4, <1>5, <1>6, WriteDataSafe
<1>8. UNCHANGED <<file, events, objects>> /\ batch' \in Seq([fd : Fd, filter : READ_WRITE])
  BY <1>2, <1>3
<1> QED BY <1>7, <1>8, HandlerStep

LEMMA AppSetReadEnableSafe ==
  ASSUME Lifetimes, NEW e \in EventId, NEW enable \in BOOLEAN, AppSetReadEnable(e, enable)
  PROVE  Lifetimes' /\ SameObjects
<1>1. /\ event[e].live /\ UNCHANGED <<file, filters, events, batch, stack, objects>>
      /\ event' = [event EXCEPT ![e].ev = IF enable THEN @ \cup {"READ"} ELSE @ \ {"READ"}]
  BY DEF AppSetReadEnable
<1> DEFINE ev == IF enable THEN event[e].ev \cup {"READ"} ELSE event[e].ev \ {"READ"}
           r == [event[e] EXCEPT !.ev = ev]
<1>2. /\ Working(e, event[e]) /\ event[e].ev \in SUBSET READ_WRITE
      /\ filters \in [Fd -> SUBSET READ_WRITE] /\ stack \in Seq(FrameType)
      /\ batch \in Seq([fd : Fd, filter : READ_WRITE]) /\ TypeOK
  BY <1>1, Live DEF Lifetimes
<1>3. ev \in SUBSET READ_WRITE
  BY <1>2 DEF READ_WRITE
<1>4. event' = [event EXCEPT ![e] = r]
  BY <1>1
<1> HIDE DEF ev
<1>5. Working(e, r)
  BY <1>2, <1>3, WorkingEv
<1> HIDE DEF r
<1>6. SameObjects /\ ControlType
  BY <1>1, <1>2, <1>4, <1>5, WorkingStored DEF ControlType
<1>7. UNCHANGED <<file, events, objects>> /\ batch' \in Seq([fd : Fd, filter : READ_WRITE])
  BY <1>1, <1>2
<1> QED BY <1>6, <1>7, HandlerStep

LEMMA AppReturnSafe ==
  ASSUME Lifetimes, AppReturn
  PROVE  Lifetimes' /\ SameObjects
<1>1. stack # << >> /\ stack' = Caller /\ UNCHANGED <<file, filters, events, event, batch, objects>>
  BY DEF AppReturn, InApp
<1>2. SameObjects /\ ControlType
  BY <1>1, SameEvent, StackTyped DEF Lifetimes, TypeOK, ControlType
<1>3. UNCHANGED <<file, events, objects>> /\ batch' \in Seq([fd : Fd, filter : READ_WRITE])
  BY <1>1 DEF Lifetimes, TypeOK
<1> QED BY <1>2, <1>3, HandlerStep

LEMMA AppStepSafe ==
  ASSUME NoStdin, Lifetimes, AppStep
  PROVE  Lifetimes'
BY AppListenSafe, AppListenFailsSafe, AppConnectSafe, AppConnectHostnameSafe, AppCreateSafe, AppReturnSafe,
   AppFreeSafe, AppWriteSafe, AppWriteBufferSafe, AppWriteBufferForceSafe,
   AppSetReadEnableSafe
   DEF AppStep

-----------------------------------------------------------------------------
(* Handlers that go on after a callback.                                    *)

\* The handler's event is gone, and it returns.
LEMMA GiveUp ==
  ASSUME TypeOK, stack # << >>, stack' = Caller, UNCHANGED <<filters, event>>
  PROVE  SameObjects /\ ControlType
BY SameEvent, StackTyped DEF TypeOK, ControlType

LEMMA ResumeReadSafe ==
  ASSUME Lifetimes, ResumeRead
  PROVE  Lifetimes' /\ SameObjects
<1> DEFINE e == Find(Top.fd)
           r == [event[e] EXCEPT !.ev = event[e].ev \cup {"WRITE"}]
<1>1. /\ stack # << >> /\ UNCHANGED <<file, events, batch, objects>>
      /\ \/ stack' = Caller /\ UNCHANGED <<filters, event>>
         \/ e # NULL /\ ReadTurn(e, event[e], Caller)
         \/ e # NULL /\ WriteData(e, r, filters, Caller)
  BY DEF ResumeRead, At
<1>2. TypeOK /\ Caller \in Seq(FrameType) /\ filters \in [Fd -> SUBSET READ_WRITE]
  BY <1>1, StackTyped DEF Lifetimes, TypeOK
<1>3. e # NULL => /\ e \in EventId /\ Working(e, event[e])
                  /\ event[e].ev \cup {"WRITE"} \in SUBSET READ_WRITE
  BY FoundEvent DEF READ_WRITE
<1>4. e # NULL => Working(e, r)
  BY <1>3, WorkingEv
<1> HIDE DEF e, r
<1>5. SameObjects /\ ControlType
  <2>1. CASE stack' = Caller /\ UNCHANGED <<filters, event>>
    BY <1>1, <1>2, <2>1, GiveUp
  <2>2. CASE e # NULL /\ ReadTurn(e, event[e], Caller)
    BY <1>2, <1>3, <2>2, ReadTurnSafe
  <2>3. CASE e # NULL /\ WriteData(e, r, filters, Caller)
    BY <1>2, <1>3, <1>4, <2>3, WriteDataSafe
  <2> QED BY <1>1, <2>1, <2>2, <2>3
<1>6. UNCHANGED <<file, events, objects>> /\ batch' \in Seq([fd : Fd, filter : READ_WRITE])
  BY <1>1, <1>2 DEF TypeOK
<1> QED BY <1>5, <1>6, HandlerStep

LEMMA ResumeEofSafe ==
  ASSUME Lifetimes, ResumeEof
  PROVE  Lifetimes' /\ SameObjects
<1> DEFINE e == Find(Top.fd)
<1>1. /\ stack # << >> /\ UNCHANGED <<file, events, batch, objects>>
      /\ \/ stack' = Caller /\ UNCHANGED <<filters, event>>
         \/ e # NULL /\ CloseInternal(e, event[e], filters, Caller)
  BY DEF ResumeEof, At
<1>2. TypeOK /\ Caller \in Seq(FrameType)
  BY <1>1, StackTyped DEF Lifetimes, TypeOK
<1>3. e # NULL => e \in EventId /\ Working(e, event[e])
  BY FoundEvent
<1> HIDE DEF e
<1>4. SameObjects /\ ControlType
  <2>1. CASE stack' = Caller /\ UNCHANGED <<filters, event>>
    BY <1>1, <1>2, <2>1, GiveUp
  <2>2. CASE e # NULL /\ CloseInternal(e, event[e], filters, Caller)
    <3>1. ReadTurn(e, event[e], Caller)
      BY <2>2 DEF ReadTurn, ReadEnd
    <3> QED BY <1>2, <1>3, <2>2, <3>1, ReadTurnSafe
  <2> QED BY <1>1, <2>1, <2>2
<1>5. UNCHANGED <<file, events, objects>> /\ batch' \in Seq([fd : Fd, filter : READ_WRITE])
  BY <1>1, <1>2 DEF TypeOK
<1> QED BY <1>4, <1>5, HandlerStep

LEMMA ResumeCloseSafe ==
  ASSUME NoStdin, Lifetimes, ResumeClose
  PROVE  Lifetimes'
<1> DEFINE e == Find(Top.fd)
<1>1. /\ stack # << >> /\ stack' = Caller /\ UNCHANGED <<listeners, batch, told>>
      /\ \/ UNCHANGED <<file, filters, events, dns_events, event, dns>>
         \/ e # NULL /\ FreeEvent(e)
  BY DEF ResumeClose, At
<1>2. TypeOK /\ Caller \in Seq(FrameType)
  BY <1>1, StackTyped DEF Lifetimes, TypeOK
<1>3. e # NULL => e \in EventId /\ event[e].live
  BY FoundEvent
<1> HIDE DEF e
<1>4. CASE UNCHANGED <<file, filters, events, dns_events, event, dns>>
  <2>1. SameObjects /\ ControlType
    BY <1>1, <1>2, <1>4, GiveUp
  <2>2. UNCHANGED <<file, events, objects>> /\ batch' \in Seq([fd : Fd, filter : READ_WRITE])
    BY <1>1, <1>2, <1>4 DEF TypeOK, objects
  <2> QED BY <2>1, <2>2, HandlerStep
<1>5. CASE e # NULL /\ FreeEvent(e)
  <2>1. stack' \in Seq(FrameType)
    BY <1>1, <1>2
  <2> QED BY <1>1, <1>3, <1>5, <2>1, FreeEventSafe
<1> QED BY <1>1, <1>4, <1>5

LEMMA ResumeConnectSafe ==
  ASSUME Lifetimes, ResumeConnect
  PROVE  Lifetimes' /\ SameObjects
<1> DEFINE e == Find(Top.fd)
<1>1. /\ stack # << >> /\ UNCHANGED <<file, events, batch, objects>>
      /\ \/ stack' = Caller /\ UNCHANGED <<filters, event>>
         \/ e # NULL /\ OnEventWrite(e, event[e], Caller)
  BY DEF ResumeConnect, At
<1>2. TypeOK /\ Caller \in Seq(FrameType)
  BY <1>1, StackTyped DEF Lifetimes, TypeOK
<1>3. e # NULL => e \in EventId /\ Working(e, event[e])
  BY FoundEvent
<1> HIDE DEF e
<1>4. SameObjects /\ ControlType
  <2>1. CASE stack' = Caller /\ UNCHANGED <<filters, event>>
    BY <1>1, <1>2, <2>1, GiveUp
  <2>2. CASE e # NULL /\ OnEventWrite(e, event[e], Caller)
    BY <1>2, <1>3, <2>2, OnEventWriteSafe
  <2> QED BY <1>1, <2>1, <2>2
<1>5. UNCHANGED <<file, events, objects>> /\ batch' \in Seq([fd : Fd, filter : READ_WRITE])
  BY <1>1, <1>2 DEF TypeOK
<1> QED BY <1>4, <1>5, HandlerStep

LEMMA ResumeForceSafe ==
  ASSUME Lifetimes, ResumeForce
  PROVE  Lifetimes' /\ SameObjects
<1> DEFINE e == Top.event
           ev == Top.ev
           r == [event[e] EXCEPT !.ev = ev]
<1>1. /\ stack # << >> /\ stack' = Caller
      /\ UNCHANGED <<file, filters, events, batch, objects>>
      /\ event' = IF event[e].live THEN [event EXCEPT ![e] = r] ELSE event
  BY DEF ResumeForce, At
<1>2. /\ TypeOK /\ Caller \in Seq(FrameType) /\ filters \in [Fd -> SUBSET READ_WRITE]
      /\ e \in EventId \cup {NULL} /\ ev \in SUBSET READ_WRITE
      /\ event \in [EventId -> EventType]
  BY <1>1, StackTyped DEF Lifetimes, TypeOK, FrameType
<1>3. e \in EventId /\ event[e].live => Working(e, event[e])
  BY <1>2, Live
<1>4. e \in EventId /\ event[e].live => Working(e, r)
  BY <1>2, <1>3, WorkingEv
<1> HIDE DEF e, ev, r
<1>5. SameObjects
  <2>1. CASE e \in EventId /\ event[e].live
    BY <1>1, <1>2, <1>4, <2>1, WorkingStored
  <2>2. CASE ~(e \in EventId /\ event[e].live)
    <3>1. event' = event
      <4>1. CASE e \in EventId
        BY <1>1, <2>2, <4>1
      <4>2. CASE e \notin EventId
        <5>1. [event EXCEPT ![e] = r] = event
          BY <1>2, <4>2
        <5> QED BY <1>1, <5>1
      <4> QED BY <4>1, <4>2
    <3> QED BY <1>2, <3>1, SameEvent
  <2> QED BY <2>1, <2>2
<1>6. ControlType
  BY <1>1, <1>2 DEF ControlType
<1>7. UNCHANGED <<file, events, objects>> /\ batch' \in Seq([fd : Fd, filter : READ_WRITE])
  BY <1>1, <1>2 DEF TypeOK
<1> QED BY <1>5, <1>6, <1>7, HandlerStep

-----------------------------------------------------------------------------
(* The loop.                                                                *)

LEMMA KeventSafe ==
  ASSUME Lifetimes, Kevent
  PROVE  Lifetimes' /\ SameObjects
<1>1. UNCHANGED <<file, filters, events, event, stack, objects>>
  BY DEF Kevent
<1>2. batch' \in Seq([fd : Fd, filter : READ_WRITE])
  <2>1. PICK n \in 1..MaxBatch : \E b \in [1..n -> Reports] : batch' = b
    BY DEF Kevent
  <2>2. n \in Nat /\ batch' \in [1..n -> [fd : Fd, filter : READ_WRITE]]
    BY <2>1, LoopAssumption DEF Reports
  <2> DEFINE T == [fd : Fd, filter : READ_WRITE]
  <2> HIDE DEF T
  <2>3. batch' \in UNION {[1..k -> T] : k \in Nat}
    BY <2>2, Zenon DEF T
  <2>4. batch' \in Seq(T)
    BY <2>3, SeqDef, Zenon
  <2> QED BY <2>4 DEF T
<1>3. SameObjects /\ ControlType
  BY <1>1, SameEvent DEF Lifetimes, TypeOK, ControlType
<1>4. UNCHANGED <<file, events, objects>>
  BY <1>1
<1> QED BY <1>2, <1>3, <1>4, HandlerStep

LEMMA AcceptSafe ==
  ASSUME Lifetimes, NEW fd, Accept(fd)
  PROVE  Lifetimes'
<1>0. PICK new \in Fd, e \in EventId :
       /\ ~event[e].live
       /\ file' = [file EXCEPT ![new] = "socket"]
       /\ filters' = [filters EXCEPT ![new] = READ_WRITE]
       /\ event' = [event EXCEPT ![e] = NewEvent(new, TRUE)]
       /\ events' = Registered(new, e)
       /\ told' = [told EXCEPT ![e] = 1]
  BY DEF Accept
<1>1. /\ UNCHANGED <<listeners, dns_events, dns>> /\ stack' = Append(stack, App)
      /\ batch' \in Seq([fd : Fd, filter : READ_WRITE])
  BY ServingTyped DEF Accept, Lifetimes
<1>2. ControlType
  <2>1. stack' \in Seq(FrameType)
    BY <1>1, AppTyped, PushTyped DEF Lifetimes, TypeOK
  <2>2. filters' \in [Fd -> SUBSET READ_WRITE]
    BY <1>0 DEF Lifetimes, TypeOK
  <2> QED BY <2>1, <2>2 DEF ControlType
<1>3. OtherType
  BY <1>0, <1>1 DEF Lifetimes, TypeOK, OtherType
<1>4. TRUE \in BOOLEAN /\ UNCHANGED <<dns_events, dns>>
  BY <1>1
<1> QED BY <1>0, <1>2, <1>3, <1>4, NewEventSafe

LEMMA IgnoreSafe ==
  ASSUME Lifetimes, NEW fd, NEW filter, Ignore(fd, filter)
  PROVE  Lifetimes' /\ SameObjects
<1>1. /\ UNCHANGED <<file, filters, events, event, stack, objects>>
      /\ batch' \in Seq([fd : Fd, filter : READ_WRITE])
  BY ServingTyped DEF Ignore, Lifetimes
<1>2. SameObjects /\ ControlType
  BY <1>1, SameEvent DEF Lifetimes, TypeOK, ControlType
<1>3. UNCHANGED <<file, events, objects>>
  BY <1>1
<1> QED BY <1>1, <1>2, <1>3, HandlerStep

LEMMA DnsQuerySafe ==
  ASSUME Lifetimes, NEW fd, DnsQuery(fd)
  PROVE  Lifetimes' /\ SameObjects
<1>1. /\ UNCHANGED <<file, events, event, stack, objects>>
      /\ filters' = Update(filters, dns[dns_events[fd]].fd, {"READ"})
      /\ dns_events[fd] # NULL
      /\ fd \in Fd /\ batch' \in Seq([fd : Fd, filter : READ_WRITE])
  BY ServingTyped DEF DnsQuery, Lifetimes
<1>2. dns[dns_events[fd]].fd = fd /\ {"READ"} \in SUBSET READ_WRITE
  BY <1>1, ServedDns DEF READ_WRITE
<1>3. filters' \in [Fd -> SUBSET READ_WRITE]
  BY <1>1, <1>2, UpdateTyped DEF Lifetimes, TypeOK
<1>4. SameObjects /\ ControlType
  BY <1>1, <1>3, SameEvent DEF Lifetimes, TypeOK, ControlType
<1>5. UNCHANGED <<file, events, objects>>
  BY <1>1
<1> QED BY <1>1, <1>4, <1>5, HandlerStep

LEMMA ServeReadSafe ==
  ASSUME Lifetimes, NEW fd, ServeRead(fd)
  PROVE  Lifetimes' /\ SameObjects
<1>1. /\ fd \in Fd /\ stack = << >> /\ batch' \in Seq([fd : Fd, filter : READ_WRITE])
      /\ events[fd] # NULL /\ OnEventRead(events[fd], stack)
      /\ UNCHANGED <<file, events, objects>>
  BY ServingTyped DEF ServeRead, Lifetimes
<1>2. events[fd] \in EventId /\ event[events[fd]].live
  BY <1>1, FoundEvent DEF Find
<1>3. SameObjects /\ ControlType
  BY <1>1, <1>2, OnEventReadSafe DEF Lifetimes, TypeOK
<1> QED BY <1>1, <1>3, HandlerStep

LEMMA ServeWriteSafe ==
  ASSUME Lifetimes, NEW fd, ServeWrite(fd)
  PROVE  Lifetimes' /\ SameObjects
<1>1. /\ fd \in Fd /\ stack = << >> /\ batch' \in Seq([fd : Fd, filter : READ_WRITE])
      /\ events[fd] # NULL /\ OnEventWrite(events[fd], event[events[fd]], stack)
      /\ UNCHANGED <<file, events, objects>>
  BY ServingTyped DEF ServeWrite, Lifetimes
<1>2. events[fd] \in EventId /\ Working(events[fd], event[events[fd]])
  BY <1>1, FoundEvent DEF Find
<1>3. SameObjects /\ ControlType
  BY <1>1, <1>2, OnEventWriteSafe DEF Lifetimes, TypeOK
<1> QED BY <1>1, <1>3, HandlerStep

LEMMA ServeConnectSafe ==
  ASSUME Lifetimes, NEW fd, ServeConnect(fd)
  PROVE  Lifetimes' /\ SameObjects
<1> DEFINE e == events[fd]
           r == SetConnected(event[e])
<1>1. /\ fd \in Fd /\ stack = << >> /\ batch' \in Seq([fd : Fd, filter : READ_WRITE])
      /\ events[fd] # NULL
      /\ event' = [event EXCEPT ![e] = r] /\ told' = Report(e)
      /\ stack' = Append(Append(stack, ConnectFrame(fd)), App)
      /\ UNCHANGED <<file, filters, listeners, events, dns_events, dns>>
  BY ServingTyped DEF ServeConnect, Lifetimes
<1>2. e \in EventId /\ Working(e, event[e])
  BY <1>1, FoundEvent DEF Find
<1>3. /\ Working(e, r) /\ r.connected /\ r.dns = event[e].dns
      /\ ~event[e].connected
  BY <1>2 DEF ServeConnect, Working, SetConnected, EventType
<1> HIDE DEF e, r
<1>4. SameObjects
  BY <1>1, <1>2, <1>3, WorkingStored DEF Lifetimes
<1>5. ControlType
  <2>1. ConnectFrame(fd) \in FrameType
    BY <1>1, FrameTyped DEF ConnectFrame, READ_WRITE
  <2>2. stack' \in Seq(FrameType)
    BY <1>1, <2>1, AppTyped, PushTyped DEF Lifetimes, TypeOK
  <2> QED BY <1>1, <2>2 DEF ControlType, Lifetimes, TypeOK
<1>6. OtherType
  <2>1. told' \in [EventId -> 0..2]
    BY <1>1, <1>2 DEF Report, Lifetimes, TypeOK
  <2> QED BY <1>1, <2>1 DEF OtherType, Lifetimes, TypeOK
<1>7. UNCHANGED <<events, dns_events, dns>>
  BY <1>1
<1>8. TellsConnected
  <2>1. /\ event[e].live /\ event[e].fd = fd /\ fd # NoFd /\ event[e].dns = NULL
        /\ event'[e].connected /\ event'[e].dns = NULL
    <3>1. event[e].live /\ event[e].fd = fd
      BY <1>1 DEF Lifetimes, RegistryLive, e
    <3>2. fd # NoFd
      BY <1>1, LoopAssumption DEF NoFd
    <3>3. event[e].dns = NULL
      BY <1>2, <3>1, <3>2 DEF Lifetimes, DnsLinked
    <3>4. event'[e] = r /\ r.connected /\ r.dns = event[e].dns
      BY <1>1, <1>2, <1>3 DEF Lifetimes, TypeOK
    <3> QED BY <3>1, <3>2, <3>3, <3>4
  <2>2. told'[e] <= told[e] + 1 /\ \A x \in EventId : x # e => told'[x] = told[x]
    <3>1. told \in [EventId -> 0..2] /\ told[e] \in 0..2 /\ e \in EventId
      BY <1>2 DEF Lifetimes, TypeOK
    <3>2. told'[e] = IF told[e] < 2 THEN told[e] + 1 ELSE 2
      BY <1>1, <3>1 DEF Report
    <3>3. \A x \in EventId : x # e => told'[x] = told[x]
      BY <1>1, <3>1 DEF Report
    <3> HIDE DEF e
    <3> QED BY <3>1, <3>2, <3>3
  <2> QED BY <1>1, <1>3, <2>1, <2>2 DEF TellsConnected
<1> QED BY <1>4, <1>5, <1>6, <1>7, <1>8, QuietStep

LEMMA CloseUnknownSafe ==
  ASSUME Lifetimes, NEW fd, CloseUnknown(fd)
  PROVE  Lifetimes' /\ SameObjects
<1>1. /\ batch' \in Seq([fd : Fd, filter : READ_WRITE])
      /\ Closing({fd}) /\ UNCHANGED <<events, event, stack, objects>>
  BY ServingTyped DEF CloseUnknown, Lifetimes
<1>2. SameObjects
  BY <1>1, SameEvent DEF Lifetimes
<1>3. ControlType /\ OtherType
  BY <1>1, ClosingTyped DEF Lifetimes, TypeOK, ControlType, OtherType, objects
<1>4. UNCHANGED <<events, dns_events, dns>> /\ TellsConnected
  BY <1>1 DEF objects, TellsConnected
<1> QED BY <1>2, <1>3, <1>4, QuietStep

LEMMA ServeSafe ==
  ASSUME Lifetimes, NEW fd, Serve(fd)
  PROVE  Lifetimes'
BY AcceptSafe, DnsQuerySafe, ServeReadSafe, ServeWriteSafe, ServeConnectSafe,
   CloseUnknownSafe, DnsConnectSafe, DnsFailsSafe, IgnoreSafe
   DEF Serve

-----------------------------------------------------------------------------
LEMMA InitSafe == NoStdin /\ Init => Lifetimes
<1> SUFFICES ASSUME NoStdin, Init PROVE Lifetimes
  OBVIOUS
<1>1. Freed \in EventType /\ FreedDns \in DnsType /\ ~Freed.live /\ ~FreedDns.live
  BY DEF Freed, FreedDns, EventType, DnsType
<1>2. stack \in Seq(FrameType)
  <2>1. Main \in FrameType
    BY FrameTyped DEF Main, NoFd, READ_WRITE
  <2> QED BY <2>1 DEF Init
<1>3. TypeOK
  BY <1>1, <1>2 DEF Init, TypeOK
<1>4. RegistryLive /\ DnsLinked
  BY <1>1 DEF Init, RegistryLive, DnsLinked
<1>5. ToldOnce /\ Untold
  BY <1>1 DEF Init, ToldOnce, Untold
<1> QED BY <1>3, <1>4, <1>5 DEF Lifetimes

LEMMA StutterSafe ==
  ASSUME Lifetimes, UNCHANGED vars
  PROVE  Lifetimes'
BY DEF vars, Lifetimes, TypeOK, RegistryLive, DnsLinked, ToldOnce, Untold

\* Lifetimes is an invariant: whatever callbacks do, free or reconnect while a
\* handler of kqueue_loop is in the middle of its work, the registries lead to
\* live objects only.
THEOREM LifetimesInvariant == NoStdin => (Spec => []Lifetimes)
<1> SUFFICES ASSUME NoStdin PROVE Spec => []Lifetimes
  OBVIOUS
<1>1. Init => Lifetimes
  BY InitSafe
<1>2. Lifetimes /\ [Next]_vars => Lifetimes'
  <2> SUFFICES ASSUME Lifetimes, [Next]_vars PROVE Lifetimes'
    OBVIOUS
  <2>1. CASE AppStep
    BY <2>1, AppStepSafe
  <2>2. CASE Resume
    BY <2>2, ResumeReadSafe, ResumeEofSafe, ResumeCloseSafe, ResumeConnectSafe,
       ResumeForceSafe DEF Resume
  <2>3. CASE Kevent
    BY <2>3, KeventSafe
  <2>4. CASE \E fd \in Fd : Serve(fd)
    BY <2>4, ServeSafe
  <2>5. CASE UNCHANGED vars
    BY <2>5, StutterSafe
  <2> QED BY <2>1, <2>2, <2>3, <2>4, <2>5 DEF Next
<1> QED BY <1>1, <1>2, PTL DEF Spec

\* Freed memory is not written to, and every variable keeps its type.
THEOREM TypeCorrect == NoStdin => (Spec => []TypeOK)
<1>1. Lifetimes => TypeOK
  BY DEF Lifetimes
<1> QED BY <1>1, LifetimesInvariant, PTL

\* No handler that looks its event up after a callback finds a stale one.
THEOREM RegistryAlwaysLive == NoStdin => (Spec => []RegistryLive)
<1>1. Lifetimes => RegistryLive
  BY DEF Lifetimes
<1> QED BY <1>1, LifetimesInvariant, PTL

\* dns->event and event->dns_event are never dangling.
THEOREM DnsAlwaysLinked == NoStdin => (Spec => []DnsLinked)
<1>1. Lifetimes => DnsLinked
  BY DEF Lifetimes
<1> QED BY <1>1, LifetimesInvariant, PTL

\* No event is reported established or refused twice, however the callbacks
\* nest, and whether its connection came of a name, an address or accept().
THEOREM ReportedOnce == NoStdin => (Spec => []ToldOnce)
<1>1. Lifetimes => ToldOnce
  BY DEF Lifetimes
<1> QED BY <1>1, LifetimesInvariant, PTL

-----------------------------------------------------------------------------
(* Who owns a descriptor, for programs that make their listeners in main,  *)
(* on hosts where connect() does not fail at once (with either, FdOwned    *)
(* does not hold).  Closing in the right place needs more than the         *)
(* registries: a WRITE report of the batch that finds nobody must not be   *)
(* of a listener made after the batch was taken, so the invariant also     *)
(* says where main can be while reports wait.                              *)

Orderly == NoStdin /\ ~ConnectMayFail /\ ~ListenLate

\* Frames of callbacks and handlers.
NotMain == {f \in FrameType : f.at # "main"}

\* Reports kevent() may give while these are the listeners.
Served == {x \in [fd : Fd, filter : READ_WRITE] : x.filter = "WRITE" => x.fd \notin listeners}

\* Filters go with the descriptor when it is closed, and a socket that could not
\* be made a listener has none.
InUse(g) == Open(g) /\ file[g] # "unbound"
ArmedOpen(armed) == \A g \in Fd : armed[g] # {} => InUse(g)

\* The descriptor of an event or a query, if it has one.
Usable(fd) == fd \in Fd => file[fd] # "unbound"

\* A query has a socket.
DnsHasFd == \A d \in DnsId : dns[d].live => dns[d].fd \in Fd

\* FdOwned, but for what it says of descriptors nobody owns: that follows.
FdsOwned ==
  /\ \A e \in EventId : event[e].live /\ event[e].fd # NoFd =>
       file[event[e].fd] = "socket" /\ events[event[e].fd] = e
  /\ \A d \in DnsId : dns[d].live =>
       file[dns[d].fd] = "dns" /\ dns_events[dns[d].fd] = d
  /\ \A fd \in Fd :
       /\ file[fd] = "socket" => events[fd] # NULL
       /\ file[fd] = "dns" => dns_events[fd] # NULL
       /\ file[fd] = "listener" <=> fd \in listeners

\* The inductive invariant.
Descriptors ==
  /\ Lifetimes
  /\ FdsOwned /\ DnsHasFd
  /\ ArmedOpen(filters)
  /\ \A fd \in Fd : file[fd] # "stdin"
  /\ batch \in Seq(Served)
  /\ batch # << >> => stack \in Seq(NotMain)

\* The step of ClosedByOwner.
ClosesOwn ==
  \A fd \in Fd :
    file[fd] \in {"socket", "dns", "listener"} /\ file'[fd] = "closed" =>
      \/ \E e \in EventId : event[e].live /\ event[e].fd = fd /\ ~event'[e].live
      \/ \E d \in DnsId : dns[d].live /\ dns[d].fd = fd /\ ~dns'[d].live

-----------------------------------------------------------------------------
(* What handlers do to the kqueue and to the stack.                         *)

\* Only open descriptors are armed, and only handlers and callbacks called.
Effect(st) ==
  /\ \A g \in Fd : filters'[g] # {} => InUse(g)
  /\ st \in Seq(NotMain) => stack' \in Seq(NotMain)

LEMMA FramesNotMain ==
  ASSUME NEW fd \in Fd \cup {NoFd}
  PROVE  /\ App \in NotMain /\ ReadFrame(fd) \in NotMain /\ EofFrame(fd) \in NotMain
         /\ CloseFrame(fd) \in NotMain /\ ConnectFrame(fd) \in NotMain
BY FrameTyped DEF NotMain, App, ReadFrame, EofFrame, CloseFrame, ConnectFrame, Frame,
   NoFd, READ_WRITE, FrameType

LEMMA PushNotMain ==
  ASSUME NEW st, st \in Seq(NotMain), NEW f \in NotMain
  PROVE  Append(st, f) \in Seq(NotMain)
BY AppendProperties

LEMMA CallerNotMain ==
  ASSUME stack \in Seq(NotMain), stack # << >>
  PROVE  Caller \in Seq(NotMain) /\ Top.at # "main"
<1>1. Len(stack) \in Nat \ {0}
  BY EmptySeq
<1>2. Top \in NotMain
  BY <1>1, ElementOfSeq DEF Top
<1>3. \A i \in 1..(Len(stack) - 1) : stack[i] \in NotMain
  BY <1>1, ElementOfSeq
<1>4. Caller \in Seq(NotMain)
  BY <1>1, <1>3, SubSeqProperties DEF Caller
<1> QED BY <1>2, <1>4 DEF NotMain

LEMMA UpdateOpen ==
  ASSUME NEW armed \in [Fd -> SUBSET READ_WRITE], ArmedOpen(armed), NEW fd,
         Usable(fd), NEW ev \in SUBSET READ_WRITE
  PROVE  ArmedOpen(Update(armed, fd, ev))
BY DEF ArmedOpen, Update, Applied, Open, InUse, Usable

LEMMA LiveUsable ==
  ASSUME Descriptors, NEW e \in EventId, event[e].live
  PROVE  Usable(event[e].fd)
<1>1. event[e].fd \in Fd => event[e].fd # NoFd
  BY LoopAssumption DEF NoFd
<1> QED BY <1>1 DEF Descriptors, FdsOwned, Usable

LEMMA WriteDataEffect ==
  ASSUME NEW e \in EventId, NEW r \in EventType,
         NEW armed \in [Fd -> SUBSET READ_WRITE], ArmedOpen(armed),
         NEW st, WriteData(e, r, armed, st), Usable(r.fd)
  PROVE  Effect(st)
<1>1. r.ev \in SUBSET READ_WRITE /\ r.fd \in Fd \cup {NoFd}
  BY DEF EventType
<1>2. st \in Seq(NotMain) =>
        /\ Append(st, App) \in Seq(NotMain)
        /\ Append(Append(st, CloseFrame(r.fd)), App) \in Seq(NotMain)
  BY <1>1, FramesNotMain, PushNotMain
<1>3. /\ r.ev \ {"WRITE"} \in SUBSET READ_WRITE
      /\ r.ev \cup {"WRITE"} \in SUBSET READ_WRITE
  BY <1>1 DEF READ_WRITE
<1>4. /\ ArmedOpen(Update(armed, r.fd, r.ev \ {"WRITE"}))
      /\ ArmedOpen(Update(armed, r.fd, r.ev \cup {"WRITE"}))
  BY <1>3, UpdateOpen
<1>5. /\ \/ filters' = armed
         \/ filters' = Update(armed, r.fd, r.ev \ {"WRITE"})
         \/ filters' = Update(armed, r.fd, r.ev \cup {"WRITE"})
      /\ \/ stack' = Append(st, App)
         \/ stack' = Append(Append(st, CloseFrame(r.fd)), App)
  BY DEF WriteData, SendAll, SendAgain, SendFails, NothingToSend, WriteDisabled,
         WriteDone, CloseInternal
<1> QED BY <1>2, <1>4, <1>5 DEF Effect, ArmedOpen

LEMMA ReadTurnEffect ==
  ASSUME TypeOK, ArmedOpen(filters), NEW e \in EventId, NEW r \in EventType, NEW st,
         ReadTurn(e, r, st), Usable(r.fd)
  PROVE  Effect(st)
<1>1. r.ev \in SUBSET READ_WRITE /\ r.fd \in Fd \cup {NoFd}
  BY DEF EventType
<1>2. st \in Seq(NotMain) =>
        /\ Append(Append(st, ReadFrame(r.fd)), App) \in Seq(NotMain)
        /\ Append(Append(st, EofFrame(r.fd)), App) \in Seq(NotMain)
        /\ Append(Append(st, CloseFrame(r.fd)), App) \in Seq(NotMain)
  BY <1>1, FramesNotMain, PushNotMain
<1>3. CASE ReadAgain(e, r, st)
  <2> DEFINE q == [r EXCEPT !.ev = @ \cup {"WRITE"}]
  <2>1. q \in EventType /\ q.fd = r.fd
    BY <1>1 DEF EventType, READ_WRITE
  <2>2. WriteData(e, q, filters, st) /\ filters \in [Fd -> SUBSET READ_WRITE]
    BY <1>3 DEF ReadAgain, TypeOK
  <2> HIDE DEF q
  <2> QED BY <2>1, <2>2, WriteDataEffect
<1>4. CASE ReadSome(e, r, st) \/ ReadEndLeft(e, r, st) \/ ReadEnd(e, r, st)
  BY <1>2, <1>4 DEF ReadSome, ReadEndLeft, ReadEnd, CloseInternal, Effect, ArmedOpen
<1> QED BY <1>3, <1>4 DEF ReadTurn

LEMMA OnEventReadEffect ==
  ASSUME TypeOK, ArmedOpen(filters), NEW e \in EventId, NEW st, OnEventRead(e, st),
         Usable(event[e].fd)
  PROVE  Effect(st)
<1> DEFINE r == [event[e] EXCEPT !.ev = @ \ {"WRITE"}]
<1>1. r \in EventType /\ r.ev \in SUBSET READ_WRITE /\ Usable(r.fd)
  BY DEF TypeOK, EventType
<1>2. ReadDisabled(e, r, st) \/ ReadTurn(e, r, st)
  BY DEF OnEventRead
<1>3. filters \in [Fd -> SUBSET READ_WRITE]
  BY DEF TypeOK
<1> HIDE DEF r
<1>4. CASE ReadDisabled(e, r, st)
  BY <1>1, <1>3, <1>4, UpdateOpen DEF ReadDisabled, Effect, ArmedOpen
<1>5. CASE ReadTurn(e, r, st)
  BY <1>1, <1>5, ReadTurnEffect
<1> QED BY <1>2, <1>4, <1>5

LEMMA OnEventWriteEffect ==
  ASSUME TypeOK, ArmedOpen(filters), NEW e \in EventId, NEW r \in EventType, NEW st,
         OnEventWrite(e, r, st), Usable(r.fd)
  PROVE  Effect(st)
<1> DEFINE armed == Update(filters, r.fd, r.ev \ {"WRITE"})
           q == [r EXCEPT !.ev = @ \cup {"WRITE"}]
<1>1. r.ev \in SUBSET READ_WRITE /\ r.fd \in Fd \cup {NoFd}
  BY DEF EventType
<1>2. q \in EventType /\ q.fd = r.fd
  BY <1>1 DEF EventType, READ_WRITE
<1>3. filters \in [Fd -> SUBSET READ_WRITE] /\ r.ev \ {"WRITE"} \in SUBSET READ_WRITE
  BY <1>1 DEF TypeOK
<1>4. armed \in [Fd -> SUBSET READ_WRITE] /\ ArmedOpen(armed)
  BY <1>1, <1>3, UpdateTyped, UpdateOpen
<1>5. \/ filters' = armed /\ stack' = st
      \/ WriteData(e, q, armed, st)
  BY DEF OnEventWrite
<1> HIDE DEF armed, q
<1> QED BY <1>2, <1>4, <1>5, WriteDataEffect DEF Effect, ArmedOpen

-----------------------------------------------------------------------------
(* Steps that open and close nothing.                                       *)

LEMMA Kept ==
  ASSUME Descriptors, Lifetimes', SameObjects,
         UNCHANGED <<file, events, objects>> \/ UNCHANGED <<file, events, dns_events, dns, listeners>>,
         \A g \in Fd : filters'[g] # {} => InUse(g),
         batch' \in Seq(Served), batch' # << >> => stack' \in Seq(NotMain)
  PROVE  Descriptors' /\ ClosesOwn
<1>1. /\ file' = file /\ events' = events /\ dns_events' = dns_events /\ dns' = dns
      /\ listeners' = listeners
  BY DEF objects
<1>2. Served' = Served
  BY <1>1 DEF Served
<1>3. FdsOwned' /\ DnsHasFd'
  BY <1>1 DEF Descriptors, FdsOwned, DnsHasFd, SameObjects
<1>4. (\A fd \in Fd : file[fd] # "stdin")' /\ ArmedOpen(filters)'
  BY <1>1 DEF Descriptors, ArmedOpen, InUse, Open
<1>5. (batch # << >> => stack \in Seq(NotMain))'
  OBVIOUS
<1>6. ClosesOwn
  BY <1>1 DEF ClosesOwn
<1>7. (batch \in Seq(Served))'
  BY <1>2
<1> QED BY <1>3, <1>4, <1>5, <1>6, <1>7 DEF Descriptors

\* A function of the API that is called, or a callback that returns.
LEMMA AppKept ==
  ASSUME Descriptors, Lifetimes', SameObjects, Effect(stack),
         UNCHANGED <<file, events, batch, objects>>
  PROVE  Descriptors' /\ ClosesOwn
BY Kept DEF Effect, Descriptors

LEMMA ResumeKept ==
  ASSUME Descriptors, Lifetimes', SameObjects, stack # << >>, Effect(Caller),
         UNCHANGED <<file, events, batch, objects>>
  PROVE  Descriptors' /\ ClosesOwn
<1>1. batch' # << >> => stack' \in Seq(NotMain)
  BY CallerNotMain DEF Effect, Descriptors
<1> QED BY <1>1, Kept DEF Effect, Descriptors

LEMMA BatchServed ==
  ASSUME Descriptors, NEW fd, NEW filter, Serving(fd, filter)
  PROVE  /\ fd \in Fd /\ stack = << >> /\ batch' \in Seq(Served)
         /\ filter = "WRITE" => fd \notin listeners
<1>1. /\ Head(batch) \in Served /\ Tail(batch) \in Seq(Served)
  BY HeadTailProperties DEF Serving, Descriptors
<1>2. Head(batch).fd = fd /\ Head(batch).filter = filter
  BY DEF Serving
<1> QED BY <1>1, <1>2 DEF Serving, Served

LEMMA ServeKept ==
  ASSUME Descriptors, Lifetimes', SameObjects, NEW fd, NEW filter, Serving(fd, filter),
         Effect(<< >>),
         UNCHANGED <<file, events, objects>> \/ UNCHANGED <<file, events, dns_events, dns, listeners>>
  PROVE  Descriptors' /\ ClosesOwn
<1>1. << >> \in Seq(NotMain)
  OBVIOUS
<1> QED BY <1>1, BatchServed, Kept DEF Effect

LEMMA LiveTyped ==
  ASSUME Lifetimes, NEW e \in EventId
  PROVE  event[e] \in EventType /\ TypeOK /\ filters \in [Fd -> SUBSET READ_WRITE]
BY DEF Lifetimes, TypeOK

LEMMA AppWriteKept ==
  ASSUME Descriptors, NEW e \in EventId, AppWrite(e)
  PROVE  Descriptors' /\ ClosesOwn
<1> DEFINE r == [event[e] EXCEPT !.pending = TRUE]
<1>1. Lifetimes' /\ SameObjects
  BY AppWriteSafe DEF Descriptors
<1>2. /\ UNCHANGED <<file, events, batch, objects>>
      /\ WriteData(e, r, filters, stack) \/ UNCHANGED <<filters, stack>>
  BY DEF AppWrite
<1>3. /\ r \in EventType /\ filters \in [Fd -> SUBSET READ_WRITE] /\ ArmedOpen(filters)
      /\ Usable(r.fd)
  BY LiveTyped, LiveUsable DEF EventType, Descriptors, AppWrite
<1> HIDE DEF r
<1>4. Effect(stack)
  <2>1. CASE WriteData(e, r, filters, stack)
    BY <1>3, <2>1, WriteDataEffect
  <2>2. CASE UNCHANGED <<filters, stack>>
    BY <1>3, <2>2 DEF Effect, ArmedOpen
  <2> QED BY <1>2, <2>1, <2>2
<1> QED BY <1>1, <1>2, <1>4, AppKept

LEMMA AppWriteBufferKept ==
  ASSUME Descriptors, NEW e \in EventId, AppWriteBuffer(e)
  PROVE  Descriptors' /\ ClosesOwn
<1>1. PICK more \in BOOLEAN :
        WriteData(e, [event[e] EXCEPT !.pending = @ \/ more], filters, stack)
  BY DEF AppWriteBuffer
<1> DEFINE r == [event[e] EXCEPT !.pending = @ \/ more]
<1>2. Lifetimes' /\ SameObjects /\ UNCHANGED <<file, events, batch, objects>>
  BY AppWriteBufferSafe DEF Descriptors, AppWriteBuffer
<1>3. /\ r \in EventType /\ filters \in [Fd -> SUBSET READ_WRITE] /\ ArmedOpen(filters)
      /\ Usable(r.fd)
  BY LiveTyped, LiveUsable DEF EventType, Descriptors, AppWriteBuffer
<1>4. WriteData(e, r, filters, stack)
  BY <1>1
<1> HIDE DEF r
<1>5. Effect(stack)
  BY <1>3, <1>4, WriteDataEffect
<1> QED BY <1>2, <1>5, AppKept

LEMMA AppWriteBufferForceKept ==
  ASSUME Descriptors, NEW e \in EventId, AppWriteBufferForce(e)
  PROVE  Descriptors' /\ ClosesOwn
<1>1. PICK more \in BOOLEAN :
        WriteData(e, [event[e] EXCEPT !.pending = @ \/ more, !.ev = @ \cup {"WRITE"}],
                  filters, Append(stack, ForceFrame(e, event[e].ev)))
  BY DEF AppWriteBufferForce
<1> DEFINE r == [event[e] EXCEPT !.pending = @ \/ more, !.ev = @ \cup {"WRITE"}]
           st == Append(stack, ForceFrame(e, event[e].ev))
<1>2. Lifetimes' /\ SameObjects /\ UNCHANGED <<file, events, batch, objects>>
  BY AppWriteBufferForceSafe DEF Descriptors, AppWriteBufferForce
<1>3. /\ event[e] \in EventType /\ event[e].ev \in SUBSET READ_WRITE
      /\ filters \in [Fd -> SUBSET READ_WRITE] /\ ArmedOpen(filters)
  BY LiveTyped DEF EventType, Descriptors
<1>4. r \in EventType /\ Usable(r.fd)
  BY <1>3, LiveUsable DEF EventType, READ_WRITE, AppWriteBufferForce
<1>5. WriteData(e, r, filters, st)
  BY <1>1
<1>6. ForceFrame(e, event[e].ev) \in NotMain
  BY <1>3, FrameTyped DEF ForceFrame, NotMain, Frame, NoFd
<1>7. stack \in Seq(NotMain) => st \in Seq(NotMain)
  BY <1>6, PushNotMain
<1> HIDE DEF r, st
<1>8. Effect(st)
  BY <1>3, <1>4, <1>5, WriteDataEffect
<1>9. Effect(stack)
  BY <1>7, <1>8 DEF Effect
<1> QED BY <1>2, <1>9, AppKept

LEMMA AppSetReadEnableKept ==
  ASSUME Descriptors, NEW e \in EventId, NEW enable \in BOOLEAN, AppSetReadEnable(e, enable)
  PROVE  Descriptors' /\ ClosesOwn
<1>1. Lifetimes' /\ SameObjects
  BY AppSetReadEnableSafe DEF Descriptors
<1>2. UNCHANGED <<file, filters, events, batch, stack, objects>>
  BY DEF AppSetReadEnable
<1>3. Effect(stack)
  BY <1>2 DEF Effect, Descriptors, ArmedOpen
<1> QED BY <1>1, <1>2, <1>3, AppKept

LEMMA AppReturnKept ==
  ASSUME Descriptors, AppReturn
  PROVE  Descriptors' /\ ClosesOwn
<1>1. Lifetimes' /\ SameObjects
  BY AppReturnSafe DEF Descriptors
<1>2. /\ stack # << >> /\ stack' = Caller
      /\ UNCHANGED <<file, filters, events, event, batch, objects>>
  BY DEF AppReturn, InApp
<1>3. Effect(Caller)
  BY <1>2 DEF Effect, Descriptors, ArmedOpen
<1> QED BY <1>1, <1>2, <1>3, ResumeKept

LEMMA ResumeReadKept ==
  ASSUME Descriptors, ResumeRead
  PROVE  Descriptors' /\ ClosesOwn
<1> DEFINE e == Find(Top.fd)
           r == [event[e] EXCEPT !.ev = @ \cup {"WRITE"}]
<1>1. /\ stack # << >> /\ UNCHANGED <<file, events, batch, objects>>
      /\ \/ stack' = Caller /\ UNCHANGED <<filters, event>>
         \/ e # NULL /\ ReadTurn(e, event[e], Caller)
         \/ e # NULL /\ WriteData(e, r, filters, Caller)
  BY DEF ResumeRead, At
<1>2. Lifetimes' /\ SameObjects /\ TypeOK /\ ArmedOpen(filters)
  BY ResumeReadSafe DEF Descriptors, Lifetimes
<1>3. e # NULL => /\ e \in EventId /\ event[e] \in EventType /\ event[e].ev \in SUBSET READ_WRITE
                  /\ Usable(event[e].fd)
  BY FoundEvent, LiveTyped, LiveUsable DEF Descriptors
<1>4. e # NULL => r \in EventType /\ r.fd = event[e].fd
  BY <1>3 DEF EventType, READ_WRITE
<1>5. filters \in [Fd -> SUBSET READ_WRITE]
  BY <1>2 DEF TypeOK
<1> HIDE DEF e, r
<1>6. Effect(Caller)
  <2>1. CASE stack' = Caller /\ UNCHANGED <<filters, event>>
    BY <1>2, <2>1 DEF Effect, ArmedOpen
  <2>2. CASE e # NULL /\ ReadTurn(e, event[e], Caller)
    BY <1>2, <1>3, <2>2, ReadTurnEffect
  <2>3. CASE e # NULL /\ WriteData(e, r, filters, Caller)
    BY <1>2, <1>3, <1>4, <1>5, <2>3, WriteDataEffect
  <2> QED BY <1>1, <2>1, <2>2, <2>3
<1> QED BY <1>1, <1>2, <1>6, ResumeKept

LEMMA ResumeEofKept ==
  ASSUME Descriptors, ResumeEof
  PROVE  Descriptors' /\ ClosesOwn
<1> DEFINE e == Find(Top.fd)
<1>1. /\ stack # << >> /\ UNCHANGED <<file, events, batch, objects>>
      /\ \/ stack' = Caller /\ UNCHANGED <<filters, event>>
         \/ e # NULL /\ CloseInternal(e, event[e], filters, Caller)
  BY DEF ResumeEof, At
<1>2. Lifetimes' /\ SameObjects /\ TypeOK /\ ArmedOpen(filters)
  BY ResumeEofSafe DEF Descriptors, Lifetimes
<1>3. e # NULL => e \in EventId /\ event[e] \in EventType /\ Usable(event[e].fd)
  BY FoundEvent, LiveTyped, LiveUsable DEF Descriptors
<1> HIDE DEF e
<1>4. Effect(Caller)
  <2>1. CASE stack' = Caller /\ UNCHANGED <<filters, event>>
    BY <1>2, <2>1 DEF Effect, ArmedOpen
  <2>2. CASE e # NULL /\ CloseInternal(e, event[e], filters, Caller)
    <3>1. ReadTurn(e, event[e], Caller)
      BY <2>2 DEF ReadTurn, ReadEnd
    <3> QED BY <1>2, <1>3, <2>2, <3>1, ReadTurnEffect
  <2> QED BY <1>1, <2>1, <2>2
<1> QED BY <1>1, <1>2, <1>4, ResumeKept

LEMMA ResumeConnectKept ==
  ASSUME Descriptors, ResumeConnect
  PROVE  Descriptors' /\ ClosesOwn
<1> DEFINE e == Find(Top.fd)
<1>1. /\ stack # << >> /\ UNCHANGED <<file, events, batch, objects>>
      /\ \/ stack' = Caller /\ UNCHANGED <<filters, event>>
         \/ e # NULL /\ OnEventWrite(e, event[e], Caller)
  BY DEF ResumeConnect, At
<1>2. Lifetimes' /\ SameObjects /\ TypeOK /\ ArmedOpen(filters)
  BY ResumeConnectSafe DEF Descriptors, Lifetimes
<1>3. e # NULL => e \in EventId /\ event[e] \in EventType /\ Usable(event[e].fd)
  BY FoundEvent, LiveTyped, LiveUsable DEF Descriptors
<1> HIDE DEF e
<1>4. Effect(Caller)
  <2>1. CASE stack' = Caller /\ UNCHANGED <<filters, event>>
    BY <1>2, <2>1 DEF Effect, ArmedOpen
  <2>2. CASE e # NULL /\ OnEventWrite(e, event[e], Caller)
    BY <1>2, <1>3, <2>2, OnEventWriteEffect
  <2> QED BY <1>1, <2>1, <2>2
<1> QED BY <1>1, <1>2, <1>4, ResumeKept

LEMMA ResumeForceKept ==
  ASSUME Descriptors, ResumeForce
  PROVE  Descriptors' /\ ClosesOwn
<1>1. Lifetimes' /\ SameObjects
  BY ResumeForceSafe DEF Descriptors
<1>2. /\ stack # << >> /\ stack' = Caller
      /\ UNCHANGED <<file, filters, events, batch, objects>>
  BY DEF ResumeForce, At
<1>3. Effect(Caller)
  BY <1>2 DEF Effect, Descriptors, ArmedOpen
<1> QED BY <1>1, <1>2, <1>3, ResumeKept

\* kevent() reports no listener as writable, and main has entered the loop.
LEMMA KeventKept ==
  ASSUME Descriptors, Kevent
  PROVE  Descriptors' /\ ClosesOwn
<1>1. Lifetimes' /\ SameObjects
  BY KeventSafe DEF Descriptors
<1>2. stack = << >> /\ UNCHANGED <<file, filters, events, event, stack, objects>>
  BY DEF Kevent
<1>3. batch' \in Seq(Served)
  <2>1. Reports \subseteq Served
    BY DEF Reports, Served, Descriptors, FdsOwned
  <2>2. PICK n \in 1..MaxBatch : \E b \in [1..n -> Reports] : batch' = b
    BY DEF Kevent
  <2>3. n \in Nat /\ batch' \in [1..n -> Served]
    BY <2>1, <2>2, LoopAssumption
  <2>4. batch' \in UNION {[1..k -> Served] : k \in Nat}
    BY <2>3, Zenon
  <2> QED BY <2>4, SeqDef, Zenon
<1>4. stack' \in Seq(NotMain)
  BY <1>2
<1>5. \A g \in Fd : filters'[g] # {} => InUse(g)
  BY <1>2 DEF Descriptors, ArmedOpen
<1>6. UNCHANGED <<file, events, objects>>
  BY <1>2
<1> QED BY <1>1, <1>3, <1>4, <1>5, <1>6, Kept

LEMMA IgnoreKept ==
  ASSUME Descriptors, NEW fd, NEW filter, Ignore(fd, filter)
  PROVE  Descriptors' /\ ClosesOwn
<1>1. Lifetimes' /\ SameObjects
  BY IgnoreSafe DEF Descriptors
<1>2. /\ Serving(fd, filter) /\ UNCHANGED <<file, filters, events, event, stack, objects>>
      /\ stack = << >>
  BY DEF Ignore, Serving
<1>3. Effect(<< >>)
  BY <1>2 DEF Effect, Descriptors, ArmedOpen
<1>4. UNCHANGED <<file, events, objects>>
  BY <1>2
<1> QED BY <1>1, <1>2, <1>3, <1>4, ServeKept

LEMMA DnsQueryKept ==
  ASSUME Descriptors, NEW fd, DnsQuery(fd)
  PROVE  Descriptors' /\ ClosesOwn
<1>1. Lifetimes' /\ SameObjects
  BY DnsQuerySafe DEF Descriptors
<1>2. /\ Serving(fd, "WRITE") /\ UNCHANGED <<file, events, event, stack, objects>>
      /\ stack = << >> /\ filters' = Update(filters, dns[dns_events[fd]].fd, {"READ"})
  BY DEF DnsQuery, Serving
<1>3. /\ filters \in [Fd -> SUBSET READ_WRITE] /\ ArmedOpen(filters)
      /\ {"READ"} \in SUBSET READ_WRITE
  BY DEF Descriptors, Lifetimes, TypeOK, READ_WRITE
<1>a. Usable(dns[dns_events[fd]].fd)
  <2>1. fd \in Fd /\ dns_events[fd] # NULL
    BY <1>2, BatchServed DEF DnsQuery
  <2>2. dns_events[fd] \in DnsId /\ dns[dns_events[fd]].live
    BY <2>1 DEF Descriptors, Lifetimes, TypeOK, RegistryLive
  <2> QED BY <2>2 DEF Descriptors, FdsOwned, Usable
<1>4. ArmedOpen(Update(filters, dns[dns_events[fd]].fd, {"READ"}))
  BY <1>3, <1>a, UpdateOpen
<1>5. Effect(<< >>)
  BY <1>2, <1>4 DEF Effect, ArmedOpen
<1>6. UNCHANGED <<file, events, objects>>
  BY <1>2
<1> QED BY <1>1, <1>2, <1>5, <1>6, ServeKept

LEMMA ServeReadKept ==
  ASSUME Descriptors, NEW fd, ServeRead(fd)
  PROVE  Descriptors' /\ ClosesOwn
<1>1. Lifetimes' /\ SameObjects /\ TypeOK /\ ArmedOpen(filters)
  BY ServeReadSafe DEF Descriptors, Lifetimes
<1>2. /\ Serving(fd, "READ") /\ UNCHANGED <<file, events, objects>>
      /\ stack = << >> /\ events[fd] # NULL /\ OnEventRead(events[fd], << >>)
  BY DEF ServeRead, Serving
<1>3. fd \in Fd /\ events[fd] \in EventId /\ Usable(event[events[fd]].fd)
  BY <1>1, <1>2, BatchServed, FoundEvent, LiveUsable DEF TypeOK, Find, Descriptors
<1>4. Effect(<< >>)
  BY <1>1, <1>2, <1>3, OnEventReadEffect
<1> QED BY <1>1, <1>2, <1>4, ServeKept

LEMMA ServeWriteKept ==
  ASSUME Descriptors, NEW fd, ServeWrite(fd)
  PROVE  Descriptors' /\ ClosesOwn
<1>1. Lifetimes' /\ SameObjects /\ TypeOK /\ ArmedOpen(filters)
  BY ServeWriteSafe DEF Descriptors, Lifetimes
<1>2. /\ Serving(fd, "WRITE") /\ UNCHANGED <<file, events, objects>>
      /\ stack = << >> /\ events[fd] # NULL
      /\ OnEventWrite(events[fd], event[events[fd]], << >>)
  BY DEF ServeWrite, Serving
<1>3. /\ fd \in Fd /\ events[fd] \in EventId /\ event[events[fd]] \in EventType
      /\ Usable(event[events[fd]].fd)
  BY <1>1, <1>2, BatchServed, FoundEvent, LiveUsable DEF TypeOK, Find, Descriptors
<1>4. Effect(<< >>)
  BY <1>1, <1>2, <1>3, OnEventWriteEffect
<1> QED BY <1>1, <1>2, <1>4, ServeKept

LEMMA ServeConnectKept ==
  ASSUME Descriptors, NEW fd, ServeConnect(fd)
  PROVE  Descriptors' /\ ClosesOwn
<1>1. Lifetimes' /\ SameObjects
  BY ServeConnectSafe DEF Descriptors
<1>2. /\ Serving(fd, "WRITE") /\ stack = << >>
      /\ stack' = Append(Append(<< >>, ConnectFrame(fd)), App)
      /\ UNCHANGED <<file, filters, listeners, events, dns_events, dns>>
  BY DEF ServeConnect, Serving
<1>3. fd \in Fd /\ ArmedOpen(filters)
  BY <1>2, BatchServed DEF Descriptors
<1>4. Effect(<< >>)
  BY <1>2, <1>3, FramesNotMain, PushNotMain DEF Effect, ArmedOpen
<1>5. UNCHANGED <<file, events, dns_events, dns, listeners>>
  BY <1>2
<1> QED BY <1>1, <1>2, <1>4, <1>5, ServeKept

-----------------------------------------------------------------------------
(* Steps that open a descriptor.                                            *)

LEMMA ClosedIsFree ==
  ASSUME Descriptors, NEW fd \in Fd, file[fd] = "closed"
  PROVE  /\ events[fd] = NULL /\ dns_events[fd] = NULL /\ fd \notin listeners
         /\ \A e \in EventId : event[e].live => event[e].fd # fd
         /\ \A d \in DnsId : dns[d].live => dns[d].fd # fd
<1>1. fd # NoFd
  BY LoopAssumption DEF NoFd
<1>2. /\ \A e \in EventId : event[e].live => event[e].fd # fd
      /\ \A d \in DnsId : dns[d].live => dns[d].fd # fd
      /\ fd \notin listeners
  BY <1>1 DEF Descriptors, FdsOwned
<1>3. events[fd] # NULL => events[fd] \in EventId /\ event[events[fd]].live
                           /\ event[events[fd]].fd = fd
  BY DEF Descriptors, Lifetimes, TypeOK, RegistryLive
<1>4. dns_events[fd] # NULL => dns_events[fd] \in DnsId /\ dns[dns_events[fd]].live
                               /\ dns[dns_events[fd]].fd = fd
  BY DEF Descriptors, Lifetimes, TypeOK, RegistryLive
<1> QED BY <1>2, <1>3, <1>4

\* DocketEvent_new on a descriptor just opened, registered under it.
LEMMA OpensEvent ==
  ASSUME Descriptors, Lifetimes', NEW e \in EventId, ~event[e].live,
         NEW fd \in Fd, file[fd] = "closed", NEW c,
         file' = [file EXCEPT ![fd] = "socket"],
         filters' = [filters EXCEPT ![fd] = READ_WRITE],
         event' = [event EXCEPT ![e] = NewEvent(fd, c)],
         events' = Registered(fd, e),
         UNCHANGED <<listeners, dns_events, dns>>,
         batch' \in Seq(Served), batch' # << >> => stack' \in Seq(NotMain)
  PROVE  Descriptors' /\ ClosesOwn
<1>1. /\ file \in [Fd -> {"closed", "stdin", "listener", "unbound", "dns", "socket"}]
      /\ filters \in [Fd -> SUBSET READ_WRITE] /\ events \in [Fd -> EventId \cup {NULL}]
      /\ event \in [EventId -> EventType] /\ NULL \notin EventId \cup DnsId
  BY LoopAssumption DEF Descriptors, Lifetimes, TypeOK
<1>2. /\ file'[fd] = "socket" /\ events'[fd] = e /\ event'[e].fd = fd
      /\ filters'[fd] = READ_WRITE
      /\ \A g \in Fd : g # fd => /\ file'[g] = file[g] /\ events'[g] = events[g]
                                 /\ filters'[g] = filters[g]
      /\ \A x \in EventId : x # e => event'[x] = event[x]
  BY <1>1 DEF Registered, NewEvent
<1>3. /\ listeners' = listeners /\ dns_events' = dns_events /\ dns' = dns
      /\ Served' = Served
  BY DEF Served
<1>4. \A x \in EventId : event'[x].live /\ event'[x].fd # NoFd =>
        file'[event'[x].fd] = "socket" /\ events'[event'[x].fd] = x
  <2> SUFFICES ASSUME NEW x \in EventId, event'[x].live, event'[x].fd # NoFd
               PROVE  file'[event'[x].fd] = "socket" /\ events'[event'[x].fd] = x
    OBVIOUS
  <2>1. CASE x = e
    BY <1>2, <2>1
  <2>2. CASE x # e
    <3>1. event'[x] = event[x] /\ event[x].fd \in Fd /\ event[x].fd # fd
      BY <1>1, <1>2, <2>2, ClosedIsFree DEF EventType
    <3> QED BY <1>2, <3>1 DEF Descriptors, FdsOwned
  <2> QED BY <2>1, <2>2
<1>5. \A x \in DnsId : dns'[x].live =>
        file'[dns'[x].fd] = "dns" /\ dns_events'[dns'[x].fd] = x
  <2> SUFFICES ASSUME NEW x \in DnsId, dns[x].live
               PROVE  file'[dns[x].fd] = "dns" /\ dns_events[dns[x].fd] = x
    BY <1>3
  <2>1. /\ dns[x].fd \in Fd /\ dns[x].fd # fd
        /\ file[dns[x].fd] = "dns" /\ dns_events[dns[x].fd] = x
    BY ClosedIsFree DEF Descriptors, FdsOwned, DnsHasFd
  <2>2. file' = [file EXCEPT ![fd] = "socket"]
    OBVIOUS
  <2> QED BY <1>1, <2>1, <2>2
<1>6. \A g \in Fd :
        /\ file'[g] = "socket" => events'[g] # NULL
        /\ file'[g] = "dns" => dns_events'[g] # NULL
        /\ file'[g] = "listener" <=> g \in listeners'
  BY <1>1, <1>2, <1>3, ClosedIsFree DEF Descriptors, FdsOwned
<1>7. FdsOwned' /\ DnsHasFd'
  BY <1>3, <1>4, <1>5, <1>6 DEF FdsOwned, Descriptors, DnsHasFd
<1>8. ArmedOpen(filters)' /\ (\A g \in Fd : file[g] # "stdin")'
  BY <1>2 DEF Descriptors, ArmedOpen, InUse, Open
<1>9. ClosesOwn
  BY <1>2 DEF ClosesOwn
<1>10. (batch \in Seq(Served))' /\ (batch # << >> => stack \in Seq(NotMain))'
  BY <1>3
<1> QED BY <1>7, <1>8, <1>9, <1>10 DEF Descriptors

LEMMA NewFdClosed ==
  ASSUME NEW fd, NewFd(fd)
  PROVE  fd \in Fd /\ file[fd] = "closed"
BY DEF NewFd

LEMMA AppListenKept ==
  ASSUME Orderly, Descriptors, AppListen
  PROVE  Descriptors' /\ ClosesOwn
<1>0. PICK fd \in Fd :
       /\ NewFd(fd)
       /\ file' = [file EXCEPT ![fd] = "listener"]
       /\ filters' = [filters EXCEPT ![fd] = READ_WRITE]
       /\ listeners' = listeners \cup {fd}
  BY DEF AppListen
<1>1. /\ stack # << >> /\ Top.at = "main" /\ Lifetimes'
      /\ UNCHANGED <<events, dns_events, event, dns, batch, stack, told>>
  BY AppListenSafe DEF AppListen, Orderly, InApp, Descriptors
<1>2. batch = << >>
  BY <1>1, CallerNotMain DEF Descriptors
<1>3. /\ file \in [Fd -> {"closed", "stdin", "listener", "unbound", "dns", "socket"}]
      /\ filters \in [Fd -> SUBSET READ_WRITE] /\ event \in [EventId -> EventType]
  BY DEF Descriptors, Lifetimes, TypeOK
<1>4. /\ file'[fd] = "listener" /\ filters'[fd] = READ_WRITE
      /\ \A g \in Fd : g # fd => file'[g] = file[g] /\ filters'[g] = filters[g]
  BY <1>0, <1>3
<1>5. /\ \A e \in EventId : event[e].live => event[e].fd # fd
      /\ \A d \in DnsId : dns[d].live => dns[d].fd # fd
  BY <1>0, NewFdClosed, ClosedIsFree
<1>6. FdsOwned'
  <2>1. ASSUME NEW x \in EventId, event[x].live, event[x].fd # NoFd
        PROVE  file'[event[x].fd] = "socket" /\ events[event[x].fd] = x
    <3>1. event[x].fd \in Fd /\ event[x].fd # fd
      BY <1>3, <1>5, <2>1 DEF EventType
    <3> QED BY <1>4, <2>1, <3>1 DEF Descriptors, FdsOwned
  <2>2. ASSUME NEW x \in DnsId, dns[x].live
        PROVE  file'[dns[x].fd] = "dns" /\ dns_events[dns[x].fd] = x
    <3>1. /\ dns[x].fd \in Fd /\ dns[x].fd # fd
          /\ file[dns[x].fd] = "dns" /\ dns_events[dns[x].fd] = x
      BY <1>5, <2>2 DEF Descriptors, FdsOwned, DnsHasFd
    <3> QED BY <1>0, <1>3, <3>1
  <2>3. \A g \in Fd :
          /\ file'[g] = "socket" => events[g] # NULL
          /\ file'[g] = "dns" => dns_events[g] # NULL
          /\ file'[g] = "listener" <=> g \in listeners'
    BY <1>0, <1>4 DEF Descriptors, FdsOwned
  <2> QED BY <1>1, <2>1, <2>2, <2>3 DEF FdsOwned
<1>7. ArmedOpen(filters)' /\ (\A g \in Fd : file[g] # "stdin")' /\ DnsHasFd'
  BY <1>1, <1>4 DEF Descriptors, ArmedOpen, InUse, Open, DnsHasFd
<1>8. ClosesOwn
  BY <1>4 DEF ClosesOwn
<1>9. batch' = << >> /\ (batch \in Seq(Served))'
  BY <1>1, <1>2
<1> QED BY <1>1, <1>6, <1>7, <1>8, <1>9 DEF Descriptors

LEMMA AppListenFailsKept ==
  ASSUME Descriptors, AppListenFails
  PROVE  Descriptors' /\ ClosesOwn
<1>0. PICK fd \in Fd : NewFd(fd) /\ file' = [file EXCEPT ![fd] = "unbound"]
  BY DEF AppListenFails
<1>1. /\ Lifetimes' /\ UNCHANGED <<events, dns_events, event, dns, batch, stack, told>>
      /\ listeners' = listeners /\ filters' = filters
  BY AppListenFailsSafe DEF AppListenFails, Descriptors, objects
<1>2. /\ file'[fd] = "unbound" /\ file[fd] = "closed" /\ filters[fd] = {}
      /\ \A g \in Fd : g # fd => file'[g] = file[g]
  BY <1>0, NewFdClosed DEF Descriptors, Lifetimes, TypeOK, ArmedOpen, InUse, Open
<1>3. FdsOwned'
  <2>1. ASSUME NEW x \in EventId, event[x].live, event[x].fd # NoFd
        PROVE  file'[event[x].fd] = "socket" /\ events[event[x].fd] = x
    <3>1. event[x].fd \in Fd /\ file[event[x].fd] = "socket" /\ events[event[x].fd] = x
      BY <2>1 DEF Descriptors, Lifetimes, TypeOK, EventType, FdsOwned
    <3> QED BY <1>2, <3>1
  <2>2. ASSUME NEW x \in DnsId, dns[x].live
        PROVE  file'[dns[x].fd] = "dns" /\ dns_events[dns[x].fd] = x
    <3>1. dns[x].fd \in Fd /\ file[dns[x].fd] = "dns" /\ dns_events[dns[x].fd] = x
      BY <2>2 DEF Descriptors, DnsHasFd, FdsOwned
    <3> QED BY <1>2, <3>1
  <2>3. \A g \in Fd :
          /\ file'[g] = "socket" => events[g] # NULL
          /\ file'[g] = "dns" => dns_events[g] # NULL
          /\ file'[g] = "listener" <=> g \in listeners
    BY <1>2 DEF Descriptors, FdsOwned
  <2> QED BY <1>1, <2>1, <2>2, <2>3 DEF FdsOwned
<1>4. ArmedOpen(filters)' /\ (\A g \in Fd : file[g] # "stdin")' /\ DnsHasFd'
  BY <1>1, <1>2 DEF Descriptors, ArmedOpen, InUse, Open, DnsHasFd
<1>5. ClosesOwn
  BY <1>2 DEF ClosesOwn
<1>6. (batch \in Seq(Served))' /\ (batch # << >> => stack \in Seq(NotMain))'
  BY <1>1 DEF Served, Descriptors
<1> QED BY <1>1, <1>3, <1>4, <1>5, <1>6 DEF Descriptors

LEMMA AppConnectKept ==
  ASSUME Orderly, Descriptors, AppConnect
  PROVE  Descriptors' /\ ClosesOwn
<1>0. PICK fd \in Fd :
       /\ NewFd(fd)
       /\ file' = [file EXCEPT ![fd] = "socket"]
       /\ filters' = [filters EXCEPT ![fd] = READ_WRITE]
       /\ \/ events[fd] # NULL
          \/ \E e \in EventId :
               /\ ~event[e].live
               /\ event' = [event EXCEPT ![e] = NewEvent(fd, FALSE)]
               /\ events' = Registered(fd, e)
  BY DEF AppConnect
<1>1. file[fd] = "closed" /\ events[fd] = NULL
  BY <1>0, NewFdClosed, ClosedIsFree
<1>2. PICK e \in EventId :
        /\ ~event[e].live
        /\ event' = [event EXCEPT ![e] = NewEvent(fd, FALSE)]
        /\ events' = Registered(fd, e)
  BY <1>0, <1>1
<1>3. Lifetimes' /\ UNCHANGED <<listeners, dns_events, dns>> /\ UNCHANGED <<batch, stack>>
  BY AppConnectSafe DEF AppConnect, Descriptors
<1>4. batch' \in Seq(Served) /\ (batch' # << >> => stack' \in Seq(NotMain))
  BY <1>3 DEF Descriptors
<1> QED BY <1>0, <1>1, <1>2, <1>3, <1>4, OpensEvent

LEMMA AppCreateKept ==
  ASSUME Orderly, Descriptors, AppCreate
  PROVE  Descriptors' /\ ClosesOwn
<1>0. PICK fd \in Fd, e \in EventId :
       /\ file[fd] = "stdin" \/ NewFd(fd)
       /\ ~event[e].live
       /\ file' = [file EXCEPT ![fd] = "socket"]
       /\ filters' = [filters EXCEPT ![fd] = READ_WRITE]
       /\ event' = [event EXCEPT ![e] = NewEvent(fd, TRUE)]
       /\ events' = Registered(fd, e)
  BY DEF AppCreate
<1>1. file[fd] = "closed"
  BY <1>0, NewFdClosed DEF Descriptors
<1>2. Lifetimes' /\ UNCHANGED <<listeners, dns_events, dns>> /\ UNCHANGED <<batch, stack>>
  BY AppCreateSafe DEF AppCreate, Descriptors
<1>3. batch' \in Seq(Served) /\ (batch' # << >> => stack' \in Seq(NotMain))
  BY <1>2 DEF Descriptors
<1> QED BY <1>0, <1>1, <1>2, <1>3, OpensEvent

LEMMA AcceptKept ==
  ASSUME Descriptors, NEW fd, Accept(fd)
  PROVE  Descriptors' /\ ClosesOwn
<1>0. PICK new \in Fd, e \in EventId :
       /\ NewFd(new) /\ ~event[e].live
       /\ file' = [file EXCEPT ![new] = "socket"]
       /\ filters' = [filters EXCEPT ![new] = READ_WRITE]
       /\ event' = [event EXCEPT ![e] = NewEvent(new, TRUE)]
       /\ events' = Registered(new, e)
  BY DEF Accept
<1>1. Serving(fd, "READ") /\ stack = << >> /\ stack' = Append(stack, App)
      /\ UNCHANGED <<listeners, dns_events, dns>> /\ Lifetimes'
  BY AcceptSafe DEF Accept, Serving, Descriptors
<1>2. batch' \in Seq(Served) /\ stack' \in Seq(NotMain)
  BY <1>1, BatchServed, FramesNotMain, PushNotMain
<1>3. file[new] = "closed"
  BY <1>0, NewFdClosed
<1> QED BY <1>0, <1>1, <1>2, <1>3, OpensEvent

LEMMA AppConnectHostnameKept ==
  ASSUME Descriptors, AppConnectHostname
  PROVE  Descriptors' /\ ClosesOwn
<1>0. PICK fd \in Fd, e \in EventId, d \in DnsId :
       /\ NewFd(fd) /\ ~event[e].live /\ ~dns[d].live
       /\ file' = [file EXCEPT ![fd] = "dns"]
       /\ filters' = [filters EXCEPT ![fd] = READ_WRITE]
       /\ event' = [event EXCEPT ![e] = [NewEvent(NoFd, FALSE) EXCEPT !.dns = d]]
       /\ dns' = [dns EXCEPT ![d] = [live |-> TRUE, fd |-> fd, event |-> e]]
       /\ dns_events' = [dns_events EXCEPT ![fd] = d]
  BY DEF AppConnectHostname
<1>1. UNCHANGED <<listeners, events, batch, stack>> /\ Lifetimes'
  BY AppConnectHostnameSafe DEF AppConnectHostname, Descriptors
<1>2. /\ file \in [Fd -> {"closed", "stdin", "listener", "unbound", "dns", "socket"}]
      /\ filters \in [Fd -> SUBSET READ_WRITE] /\ event \in [EventId -> EventType]
      /\ dns \in [DnsId -> DnsType] /\ dns_events \in [Fd -> DnsId \cup {NULL}]
      /\ NULL \notin EventId \cup DnsId
  BY LoopAssumption DEF Descriptors, Lifetimes, TypeOK
<1>3. /\ file'[fd] = "dns" /\ filters'[fd] = READ_WRITE /\ dns_events'[fd] = d
      /\ dns'[d].fd = fd /\ event'[e].fd = NoFd
      /\ \A g \in Fd : g # fd => /\ file'[g] = file[g] /\ filters'[g] = filters[g]
                                 /\ dns_events'[g] = dns_events[g]
      /\ \A x \in EventId : x # e => event'[x] = event[x]
      /\ \A x \in DnsId : x # d => dns'[x] = dns[x]
  BY <1>0, <1>2 DEF NewEvent
<1>4. file[fd] = "closed"
  BY <1>0, NewFdClosed
<1>5. FdsOwned'
  <2>1. ASSUME NEW x \in EventId, event'[x].live, event'[x].fd # NoFd
        PROVE  file'[event'[x].fd] = "socket" /\ events[event'[x].fd] = x
    <3>1. event'[x] = event[x] /\ event[x].fd \in Fd /\ event[x].fd # fd
      BY <1>2, <1>3, <1>4, <2>1, ClosedIsFree DEF EventType
    <3> QED BY <1>3, <2>1, <3>1 DEF Descriptors, FdsOwned
  <2>2. ASSUME NEW x \in DnsId, dns'[x].live
        PROVE  file'[dns'[x].fd] = "dns" /\ dns_events'[dns'[x].fd] = x
    <3>1. CASE x = d
      BY <1>3, <3>1
    <3>2. CASE x # d
      <4>1. /\ dns'[x] = dns[x] /\ dns[x].live /\ dns[x].fd \in Fd /\ dns[x].fd # fd
            /\ file[dns[x].fd] = "dns" /\ dns_events[dns[x].fd] = x
        BY <1>3, <1>4, <2>2, <3>2, ClosedIsFree DEF Descriptors, FdsOwned, DnsHasFd
      <4> QED BY <1>0, <1>2, <4>1
    <3> QED BY <3>1, <3>2
  <2>3. \A g \in Fd :
          /\ file'[g] = "socket" => events[g] # NULL
          /\ file'[g] = "dns" => dns_events'[g] # NULL
          /\ file'[g] = "listener" <=> g \in listeners
    BY <1>2, <1>3, <1>4, ClosedIsFree DEF Descriptors, FdsOwned
  <2> QED BY <1>1, <2>1, <2>2, <2>3 DEF FdsOwned
<1>6. ArmedOpen(filters)' /\ (\A g \in Fd : file[g] # "stdin")' /\ DnsHasFd'
  BY <1>3 DEF Descriptors, ArmedOpen, InUse, Open, DnsHasFd
<1>7. ClosesOwn
  BY <1>3 DEF ClosesOwn
<1>8. (batch \in Seq(Served))' /\ (batch # << >> => stack \in Seq(NotMain))'
  BY <1>1 DEF Descriptors, Served
<1> QED BY <1>1, <1>5, <1>6, <1>7, <1>8 DEF Descriptors

-----------------------------------------------------------------------------
(* Steps that close one.                                                    *)

LEMMA FreesEvent ==
  ASSUME Orderly, Descriptors, Lifetimes', NEW e \in EventId, event[e].live, FreeEvent(e),
         listeners' = listeners, batch' = batch, batch # << >> => stack' \in Seq(NotMain)
  PROVE  Descriptors' /\ ClosesOwn
<1> DEFINE d == event[e].dns
           fd == event[e].fd
           ofDns == IF d # NULL THEN {dns[d].fd} ELSE {}
           gone == ofDns \cup OwnFd(fd)
<1>1. /\ event[e] \in EventType /\ NULL \notin EventId \cup DnsId
      /\ file \in [Fd -> {"closed", "stdin", "listener", "unbound", "dns", "socket"}]
      /\ filters \in [Fd -> SUBSET READ_WRITE] /\ event \in [EventId -> EventType]
      /\ dns \in [DnsId -> DnsType] /\ dns_events \in [Fd -> DnsId \cup {NULL}]
      /\ events \in [Fd -> EventId \cup {NULL}]
  BY LoopAssumption DEF Descriptors, Lifetimes, TypeOK
<1>2. /\ d \in DnsId \cup {NULL} /\ fd \in Fd \cup {NoFd} /\ NoFd \notin Fd
      /\ fd \in Fd => fd > 0
      /\ fd \notin Fd => ~(fd > 0)
  <2>1. d \in DnsId \cup {NULL} /\ fd \in Fd \cup {NoFd}
    BY <1>1 DEF EventType
  <2> HIDE DEF d, fd
  <2>2. fd \in Fd => fd \in Nat /\ fd # 0
    BY LoopAssumption DEF Orderly, NoStdin
  <2>3. fd \notin Fd => fd = -1
    BY <2>1 DEF NoFd
  <2>4. NoFd \notin Fd
    BY LoopAssumption DEF NoFd
  <2> QED BY <2>1, <2>2, <2>3, <2>4
<1>3. /\ Closing(gone)
      /\ event' = [event EXCEPT ![e] = Freed]
      /\ events' = IF fd > 0 THEN [events EXCEPT ![fd] = NULL] ELSE events
      /\ d # NULL => /\ dns' = [dns EXCEPT ![d] = FreedDns]
                     /\ dns_events' = [dns_events EXCEPT ![dns[d].fd] = NULL]
      /\ d = NULL => dns' = dns /\ dns_events' = dns_events
  BY DEF FreeEvent, RemoveEvent, RemoveDnsEvent
<1>4. d # NULL => /\ d \in DnsId /\ dns[d].live /\ dns[d].fd \in Fd /\ fd = NoFd
                  /\ file[dns[d].fd] = "dns" /\ dns_events[dns[d].fd] = d
  <2>1. d # NULL => d \in DnsId /\ dns[d].live /\ fd = NoFd
    BY <1>2 DEF Descriptors, Lifetimes, DnsLinked
  <2>2. d # NULL => file[dns[d].fd] = "dns" /\ dns_events[dns[d].fd] = d
    BY <2>1 DEF Descriptors, FdsOwned
  <2>3. d # NULL => dns[d].fd \in Fd
    BY <2>1 DEF Descriptors, DnsHasFd
  <2> QED BY <2>1, <2>2, <2>3
<1>5. fd \in Fd => file[fd] = "socket" /\ events[fd] = e
  <2>1. fd \in Fd => fd # NoFd
    BY <1>2
  <2> QED BY <2>1 DEF Descriptors, FdsOwned
<1>6. gone = IF d # NULL THEN {dns[d].fd} ELSE IF fd \in Fd THEN {fd} ELSE {}
  <2> HIDE DEF d, fd
  <2>1. OwnFd(fd) = IF fd \in Fd THEN {fd} ELSE {}
    BY <1>2 DEF OwnFd
  <2>2. ofDns = IF d # NULL THEN {dns[d].fd} ELSE {}
    OBVIOUS
  <2> QED BY <1>2, <1>4, <2>1, <2>2
<1>7. /\ \A g \in Fd : g \in gone => file'[g] = "closed" /\ filters'[g] = {}
      /\ \A g \in Fd : g \notin gone => file'[g] = file[g] /\ filters'[g] = filters[g]
  BY <1>3 DEF Closing
<1>8. Freed.fd = NoFd /\ ~Freed.live /\ ~FreedDns.live
  BY DEF Freed, FreedDns
<1> HIDE DEF d, fd, ofDns, gone
<1>9. ASSUME NEW x \in EventId, event'[x].live, event'[x].fd # NoFd
      PROVE  file'[event'[x].fd] = "socket" /\ events'[event'[x].fd] = x
  <2>1. x # e /\ event'[x] = event[x] /\ event[x].live /\ event[x].fd \in Fd
    BY <1>1, <1>3, <1>8, <1>9 DEF EventType
  <2>2. file[event[x].fd] = "socket" /\ events[event[x].fd] = x
    BY <1>9, <2>1 DEF Descriptors, FdsOwned
  <2>3. event[x].fd \notin gone
    BY <1>4, <1>5, <1>6, <2>1, <2>2
  <2>4. fd > 0 => event[x].fd # fd
    BY <1>2, <1>5, <2>1, <2>2
  <2> QED BY <1>1, <1>3, <1>7, <2>1, <2>2, <2>3, <2>4
<1>10. ASSUME NEW x \in DnsId, dns'[x].live
       PROVE  /\ dns'[x].fd \in Fd /\ file'[dns'[x].fd] = "dns"
              /\ dns_events'[dns'[x].fd] = x
  <2>1. (d # NULL => x # d) /\ dns'[x] = dns[x] /\ dns[x].live
    BY <1>1, <1>3, <1>4, <1>8, <1>10
  <2>2. dns[x].fd \in Fd /\ file[dns[x].fd] = "dns" /\ dns_events[dns[x].fd] = x
    BY <2>1 DEF Descriptors, FdsOwned, DnsHasFd
  <2>3. d # NULL => dns[x].fd # dns[d].fd
    BY <1>4, <2>1, <2>2
  <2>4. dns[x].fd \notin gone
    BY <1>5, <1>6, <2>2, <2>3
  <2> QED BY <1>1, <1>3, <1>4, <1>7, <2>1, <2>2, <2>3, <2>4
<1>11. ASSUME NEW g \in Fd
       PROVE  /\ file'[g] = "socket" => events'[g] # NULL
              /\ file'[g] = "dns" => dns_events'[g] # NULL
              /\ file'[g] = "listener" <=> g \in listeners
  <2>1. CASE g \in gone
    <3>1. g \notin listeners
      BY <1>4, <1>5, <1>6, <2>1 DEF Descriptors, FdsOwned
    <3> QED BY <1>7, <2>1, <3>1
  <2>2. CASE g \notin gone
    <3>1. file'[g] = file[g]
      BY <1>7, <2>2
    <3>2. file[g] = "socket" => events[g] # NULL /\ g # fd
      BY <1>2, <1>4, <1>6, <2>2 DEF Descriptors, FdsOwned
    <3>3. file[g] = "socket" => events'[g] # NULL
      BY <1>1, <1>3, <3>2
    <3>4. file[g] = "dns" => dns_events'[g] # NULL
      BY <1>1, <1>3, <1>4, <1>6, <2>2 DEF Descriptors, FdsOwned
    <3> QED BY <3>1, <3>3, <3>4 DEF Descriptors, FdsOwned
  <2> QED BY <2>1, <2>2
<1>12. FdsOwned' /\ DnsHasFd'
  BY <1>9, <1>10, <1>11 DEF FdsOwned, DnsHasFd
<1>13. ArmedOpen(filters)' /\ (\A g \in Fd : file[g] # "stdin")'
  BY <1>7 DEF Descriptors, ArmedOpen, InUse, Open
<1>14. ClosesOwn
  <2> SUFFICES ASSUME NEW g \in Fd, g \in gone
               PROVE  \/ \E x \in EventId : event[x].live /\ event[x].fd = g /\ ~event'[x].live
                      \/ \E x \in DnsId : dns[x].live /\ dns[x].fd = g /\ ~dns'[x].live
    BY <1>7 DEF ClosesOwn
  <2>1. CASE d # NULL
    <3>1. dns[d].live /\ dns[d].fd = g /\ ~dns'[d].live /\ d \in DnsId
      BY <1>1, <1>3, <1>4, <1>6, <1>8, <2>1
    <3> QED BY <3>1
  <2>2. CASE d = NULL
    <3>1. event[e].live /\ event[e].fd = g /\ ~event'[e].live
      BY <1>1, <1>3, <1>6, <1>8, <2>2 DEF fd
    <3> QED BY <3>1
  <2> QED BY <2>1, <2>2
<1>15. (batch \in Seq(Served))' /\ (batch # << >> => stack \in Seq(NotMain))'
  BY DEF Descriptors, Served
<1> QED BY <1>12, <1>13, <1>14, <1>15 DEF Descriptors

LEMMA AppFreeKept ==
  ASSUME Orderly, Descriptors, NEW e \in EventId, AppFree(e)
  PROVE  Descriptors' /\ ClosesOwn
<1>1. /\ event[e].live /\ FreeEvent(e) /\ UNCHANGED <<listeners, batch, stack, told>>
      /\ Lifetimes'
  BY AppFreeSafe DEF AppFree, Descriptors, Orderly
<1>2. batch # << >> => stack' \in Seq(NotMain)
  BY <1>1 DEF Descriptors
<1> QED BY <1>1, <1>2, FreesEvent

LEMMA ResumeCloseKept ==
  ASSUME Orderly, Descriptors, ResumeClose
  PROVE  Descriptors' /\ ClosesOwn
<1> DEFINE e == Find(Top.fd)
<1>1. /\ stack # << >> /\ stack' = Caller /\ UNCHANGED <<listeners, batch, told>> /\ Lifetimes'
      /\ \/ e = NULL /\ UNCHANGED <<file, filters, events, dns_events, event, dns>>
         \/ e # NULL /\ FreeEvent(e)
  BY ResumeCloseSafe DEF ResumeClose, At, Descriptors, Orderly
<1>2. batch # << >> => stack' \in Seq(NotMain)
  BY <1>1, CallerNotMain DEF Descriptors
<1>3. e # NULL => e \in EventId /\ event[e].live
  BY FoundEvent DEF Descriptors
<1> HIDE DEF e
<1>4. CASE UNCHANGED <<file, filters, events, dns_events, event, dns>>
  <2>1. SameObjects
    BY <1>4, SameEvent DEF Descriptors, Lifetimes
  <2>2. \A g \in Fd : filters'[g] # {} => InUse(g)
    BY <1>4 DEF Descriptors, ArmedOpen
  <2>3. batch' \in Seq(Served)
    BY <1>1 DEF Descriptors
  <2> QED BY <1>1, <1>2, <1>4, <2>1, <2>2, <2>3, Kept
<1>5. CASE e # NULL /\ FreeEvent(e)
  BY <1>1, <1>2, <1>3, <1>5, FreesEvent
<1> QED BY <1>1, <1>4, <1>5

\* What devent_dns_read and devent_dns_write leave when they are done with a
\* name: the socket of the query is closed; before that another descriptor, or
\* none if `new` is NoFd, has been opened for the event.
QueryClosed(old, new) ==
  \A f \in Fd :
    /\ f = old => file'[f] = "closed" /\ filters'[f] = {}
    /\ f = new => file'[f] = "socket" /\ filters'[f] = READ_WRITE
    /\ f # old /\ f # new => file'[f] = file[f] /\ filters'[f] = filters[f]

EventPlaced(new, e) ==
  \/ new = NoFd /\ events' = events
  \/ new \in Fd /\ file[new] = "closed" /\ events' = Registered(new, e)

LEMMA QueryDone ==
  ASSUME Descriptors, Lifetimes', NEW d \in DnsId, dns[d].live,
         NEW e \in EventId, event[e].live, event[e].fd = NoFd,
         NEW q \in EventType, q.live,
         EventPlaced(q.fd, e), QueryClosed(dns[d].fd, q.fd),
         event' = [event EXCEPT ![e] = q],
         dns' = [dns EXCEPT ![d] = FreedDns],
         dns_events' = RemoveDnsEvent(dns[d].fd), listeners' = listeners,
         batch' \in Seq(Served), stack' \in Seq(NotMain)
  PROVE  Descriptors' /\ ClosesOwn
<1>1. /\ NULL \notin EventId \cup DnsId /\ NoFd \notin Fd
      /\ event \in [EventId -> EventType] /\ dns \in [DnsId -> DnsType]
      /\ dns_events \in [Fd -> DnsId \cup {NULL}] /\ events \in [Fd -> EventId \cup {NULL}]
  BY LoopAssumption DEF Descriptors, Lifetimes, TypeOK, NoFd
<1>2. /\ dns[d].fd \in Fd /\ file[dns[d].fd] = "dns" /\ dns_events[dns[d].fd] = d
      /\ dns[d].fd # q.fd /\ q.fd \in Fd \cup {NoFd}
      /\ q.fd \in Fd => file[q.fd] = "closed"
  BY <1>1 DEF EventPlaced, Descriptors, FdsOwned, DnsHasFd
<1>3. /\ event'[e] = q /\ \A x \in EventId : x # e => event'[x] = event[x]
      /\ ~dns'[d].live /\ \A x \in DnsId : x # d => dns'[x] = dns[x]
      /\ \A g \in Fd : g # dns[d].fd => dns_events'[g] = dns_events[g]
      /\ q.fd \in Fd => events'[q.fd] = e
      /\ \A g \in Fd : g # q.fd => events'[g] = events[g]
  BY <1>1 DEF RemoveDnsEvent, FreedDns, Registered, EventPlaced
<1>4. /\ file'[dns[d].fd] = "closed" /\ filters'[dns[d].fd] = {}
      /\ q.fd \in Fd => file'[q.fd] = "socket"
      /\ \A g \in Fd : g # dns[d].fd /\ g # q.fd =>
           file'[g] = file[g] /\ filters'[g] = filters[g]
  BY <1>2 DEF QueryClosed
<1>5. q.fd \in Fd => /\ \A x \in EventId : event[x].live => event[x].fd # q.fd
                     /\ \A x \in DnsId : dns[x].live => dns[x].fd # q.fd
                     /\ q.fd \notin listeners
  BY <1>2, ClosedIsFree
<1>6. ASSUME NEW x \in EventId, event'[x].live, event'[x].fd # NoFd
      PROVE  file'[event'[x].fd] = "socket" /\ events'[event'[x].fd] = x
  <2>1. CASE x = e
    BY <1>2, <1>3, <1>4, <1>6, <2>1
  <2>2. CASE x # e
    <3>1. event'[x] = event[x] /\ event[x].fd \in Fd /\ event[x].fd # q.fd
      BY <1>1, <1>3, <1>5, <1>6, <2>2 DEF EventType
    <3>2. file[event[x].fd] = "socket" /\ events[event[x].fd] = x
      BY <1>6, <3>1 DEF Descriptors, FdsOwned
    <3> QED BY <1>2, <1>3, <1>4, <3>1, <3>2
  <2> QED BY <2>1, <2>2
<1>7. ASSUME NEW x \in DnsId, dns'[x].live
      PROVE  /\ dns'[x].fd \in Fd /\ file'[dns'[x].fd] = "dns"
             /\ dns_events'[dns'[x].fd] = x
  <2>1. x # d /\ dns'[x] = dns[x] /\ dns[x].live
    BY <1>3, <1>7
  <2>2. /\ dns[x].fd \in Fd /\ file[dns[x].fd] = "dns" /\ dns_events[dns[x].fd] = x
        /\ dns[x].fd # q.fd
    BY <1>5, <2>1 DEF Descriptors, FdsOwned, DnsHasFd
  <2>3. dns[x].fd # dns[d].fd
    BY <1>2, <2>1, <2>2
  <2> QED BY <1>3, <1>4, <2>1, <2>2, <2>3
<1>8. ASSUME NEW g \in Fd
      PROVE  /\ file'[g] = "socket" => events'[g] # NULL
             /\ file'[g] = "dns" => dns_events'[g] # NULL
             /\ file'[g] = "listener" <=> g \in listeners
  <2>1. CASE g = dns[d].fd
    BY <1>2, <1>4, <2>1 DEF Descriptors, FdsOwned
  <2>2. CASE g = q.fd
    BY <1>1, <1>3, <1>4, <1>5, <2>2
  <2>3. CASE g # dns[d].fd /\ g # q.fd
    <3>1. file'[g] = file[g] /\ events'[g] = events[g] /\ dns_events'[g] = dns_events[g]
      BY <1>3, <1>4, <2>3
    <3>2. /\ file[g] = "socket" => events[g] # NULL
          /\ file[g] = "dns" => dns_events[g] # NULL
          /\ file[g] = "listener" <=> g \in listeners
      BY DEF Descriptors, FdsOwned
    <3> QED BY <3>1, <3>2
  <2> QED BY <2>1, <2>2, <2>3
<1>9. FdsOwned' /\ DnsHasFd'
  BY <1>6, <1>7, <1>8 DEF FdsOwned, DnsHasFd
<1>10. ArmedOpen(filters)' /\ (\A g \in Fd : file[g] # "stdin")'
  <2> SUFFICES ASSUME NEW g \in Fd
               PROVE  /\ filters'[g] # {} => file'[g] \notin {"closed", "unbound"}
                      /\ file'[g] # "stdin"
    BY DEF ArmedOpen, InUse, Open
  <2>1. filters[g] # {} => file[g] \notin {"closed", "unbound"}
    <3>1. ArmedOpen(filters)
      BY DEF Descriptors
    <3> QED BY <3>1 DEF ArmedOpen, InUse, Open
  <2>2. file[g] # "stdin"
    BY DEF Descriptors
  <2>3. CASE g = dns[d].fd
    BY <1>4, <2>3
  <2>4. CASE g = q.fd
    BY <1>4, <2>4
  <2>5. CASE g # dns[d].fd /\ g # q.fd
    BY <1>4, <2>1, <2>2, <2>5
  <2> QED BY <2>3, <2>4, <2>5
<1>11. ClosesOwn
  <2> SUFFICES ASSUME NEW g \in Fd, g = dns[d].fd
               PROVE  \E x \in DnsId : dns[x].live /\ dns[x].fd = g /\ ~dns'[x].live
    BY <1>4 DEF ClosesOwn
  <2> QED BY <1>3
<1>12. (batch \in Seq(Served))' /\ (batch # << >> => stack \in Seq(NotMain))'
  BY DEF Served
<1> QED BY <1>9, <1>10, <1>11, <1>12 DEF Descriptors

LEMMA DnsFailsKept ==
  ASSUME Descriptors, NEW fd, NEW filter, DnsFails(fd, filter)
  PROVE  Descriptors' /\ ClosesOwn
<1> DEFINE d == dns_events[fd]
           e == dns[d].event
           q == [event[e] EXCEPT !.dns = NULL]
<1>1. /\ Serving(fd, filter) /\ stack = << >> /\ d # NULL
      /\ event' = [event EXCEPT ![e].dns = NULL]
      /\ dns' = [dns EXCEPT ![d] = FreedDns] /\ dns_events' = RemoveDnsEvent(dns[d].fd)
      /\ Closing({dns[d].fd}) /\ stack' = Append(stack, App)
      /\ UNCHANGED <<listeners, events>> /\ Lifetimes'
  BY DnsFailsSafe DEF DnsFails, Serving, Unlinked, Descriptors
<1>2. fd \in Fd /\ batch' \in Seq(Served) /\ stack' \in Seq(NotMain)
  BY <1>1, BatchServed, FramesNotMain, PushNotMain
<1>3. /\ d \in DnsId /\ dns[d].live /\ e \in EventId /\ event[e].live
      /\ event[e].fd = NoFd /\ event[e] \in EventType
  BY <1>1, <1>2, ServedDns DEF Descriptors
<1>4. q \in EventType /\ q.live /\ q.fd = NoFd
  BY <1>3 DEF EventType
<1>5. event' = [event EXCEPT ![e] = q] /\ events' = events /\ listeners' = listeners
  BY <1>1
<1>6. NoFd \notin Fd
  BY LoopAssumption DEF NoFd
<1> HIDE DEF d, e, q
<1>7. QueryClosed(dns[d].fd, q.fd) /\ EventPlaced(q.fd, e)
  BY <1>1, <1>4, <1>5, <1>6 DEF Closing, QueryClosed, EventPlaced
<1> QED BY <1>1, <1>2, <1>3, <1>4, <1>5, <1>7, QueryDone

LEMMA DnsConnectKept ==
  ASSUME Orderly, Descriptors, NEW fd, NEW started \in BOOLEAN, DnsConnect(fd, started)
  PROVE  Descriptors' /\ ClosesOwn
<1> DEFINE d == dns_events[fd]
           e == dns[d].event
<1>1. /\ Serving(fd, "READ") /\ stack = << >> /\ d # NULL /\ started
      /\ stack' = stack /\ listeners' = listeners /\ Lifetimes'
  BY DnsConnectSafe DEF DnsConnect, Serving, Orderly, Descriptors
<1>2. fd \in Fd /\ batch' \in Seq(Served) /\ stack' \in Seq(NotMain)
  BY <1>1, BatchServed
<1>3. /\ d \in DnsId /\ dns[d].live /\ e \in EventId /\ event[e].live
      /\ event[e].fd = NoFd /\ event[e] \in EventType
  BY <1>1, <1>2, ServedDns DEF Descriptors
<1>4. PICK new \in Fd :
        /\ NewFd(new)
        /\ file' = [f \in Fd |-> CASE f = dns[d].fd -> "closed"
                                   [] f = new /\ started -> "socket"
                                   [] OTHER -> file[f]]
        /\ filters' = [f \in Fd |-> CASE f = dns[d].fd -> {}
                                      [] f = new /\ started -> READ_WRITE
                                      [] OTHER -> filters[f]]
        /\ event' = [event EXCEPT ![e] = WithFd(event[e], new, started)]
        /\ events' = Registered(new, e)
        /\ dns' = [dns EXCEPT ![d] = FreedDns]
        /\ dns_events' = RemoveDnsEvent(dns[d].fd)
  BY DEF DnsConnect
<1> DEFINE q == WithFd(event[e], new, started)
<1>5. q \in EventType /\ q.live /\ q.fd = new
  BY <1>3 DEF WithFd, EventType, READ_WRITE
<1>6. file[new] = "closed"
  BY <1>4, NewFdClosed
<1>7. event' = [event EXCEPT ![e] = q]
  BY <1>4
<1> HIDE DEF d, e, q
<1>8. dns[d].fd # new
  BY <1>3, <1>6, ClosedIsFree
<1>9. QueryClosed(dns[d].fd, q.fd) /\ EventPlaced(q.fd, e)
  BY <1>1, <1>4, <1>5, <1>6, <1>8 DEF QueryClosed, EventPlaced
<1>10. dns' = [dns EXCEPT ![d] = FreedDns] /\ dns_events' = RemoveDnsEvent(dns[d].fd)
  BY <1>4
<1> QED BY <1>1, <1>2, <1>3, <1>5, <1>7, <1>9, <1>10, QueryDone

\* close(efd) of kqueue_loop: whoever has the number now is in a registry, and
\* the report would have gone to him; a listener is not reported writable.
LEMMA CloseUnknownKept ==
  ASSUME Descriptors, NEW fd, CloseUnknown(fd)
  PROVE  Descriptors' /\ ClosesOwn
<1>1. /\ Serving(fd, "WRITE") /\ dns_events[fd] = NULL /\ events[fd] = NULL
      /\ Closing({fd}) /\ UNCHANGED <<events, event, stack, objects>>
      /\ Lifetimes' /\ SameObjects
  BY CloseUnknownSafe DEF CloseUnknown, Descriptors
<1>2. fd \in Fd /\ stack = << >> /\ batch' \in Seq(Served) /\ fd \notin listeners
  BY <1>1, BatchServed
<1>3. file[fd] \in {"closed", "unbound"}
  BY <1>1, <1>2 DEF Descriptors, FdsOwned, Lifetimes, TypeOK
<1>4. /\ file'[fd] = "closed" /\ filters'[fd] = {}
      /\ \A g \in Fd : g # fd => file'[g] = file[g] /\ filters'[g] = filters[g]
  BY <1>1, <1>2 DEF Closing
<1>5. /\ event' = event /\ events' = events /\ listeners' = listeners
      /\ dns' = dns /\ dns_events' = dns_events /\ stack' = stack
  BY <1>1 DEF objects
<1>6. FdsOwned'
  <2>1. ASSUME NEW x \in EventId, event[x].live, event[x].fd # NoFd
        PROVE  file'[event[x].fd] = "socket" /\ events[event[x].fd] = x
    <3>1. event[x].fd \in Fd /\ file[event[x].fd] = "socket" /\ events[event[x].fd] = x
      BY <2>1 DEF Descriptors, Lifetimes, TypeOK, EventType, FdsOwned
    <3> QED BY <1>3, <1>4, <3>1
  <2>2. ASSUME NEW x \in DnsId, dns[x].live
        PROVE  file'[dns[x].fd] = "dns" /\ dns_events[dns[x].fd] = x
    <3>1. dns[x].fd \in Fd /\ file[dns[x].fd] = "dns" /\ dns_events[dns[x].fd] = x
      BY <2>2 DEF Descriptors, DnsHasFd, FdsOwned
    <3> QED BY <1>3, <1>4, <3>1
  <2>3. \A g \in Fd :
          /\ file'[g] = "socket" => events[g] # NULL
          /\ file'[g] = "dns" => dns_events[g] # NULL
          /\ file'[g] = "listener" <=> g \in listeners
    BY <1>2, <1>4 DEF Descriptors, FdsOwned
  <2> QED BY <1>5, <2>1, <2>2, <2>3 DEF FdsOwned
<1>7. ArmedOpen(filters)' /\ (\A g \in Fd : file[g] # "stdin")' /\ DnsHasFd'
  BY <1>4, <1>5 DEF Descriptors, ArmedOpen, InUse, Open, DnsHasFd
<1>8. ClosesOwn
  BY <1>3, <1>4 DEF ClosesOwn
<1>9. Served' = Served /\ stack' = << >>
  BY <1>2, <1>5 DEF Served
<1>10. (batch \in Seq(Served))' /\ (batch # << >> => stack \in Seq(NotMain))'
  BY <1>2, <1>9
<1> QED BY <1>1, <1>6, <1>7, <1>8, <1>10 DEF Descriptors

-----------------------------------------------------------------------------
LEMMA DescriptorsInit ==
  ASSUME Orderly, Init
  PROVE  Descriptors
<1>1. Lifetimes
  BY InitSafe DEF Orderly
<1>2. \A fd \in Fd : file[fd] = "closed" /\ filters[fd] = {}
  BY DEF Init, Orderly, NoStdin
<1>3. FdsOwned /\ DnsHasFd /\ ArmedOpen(filters)
  BY <1>2 DEF Init, FdsOwned, DnsHasFd, ArmedOpen, Freed, FreedDns
<1>4. batch = << >> /\ batch \in Seq(Served)
  BY DEF Init
<1> QED BY <1>1, <1>2, <1>3, <1>4 DEF Descriptors

LEMMA DescriptorsStep ==
  ASSUME Orderly, Descriptors, Next
  PROVE  Descriptors' /\ ClosesOwn
<1>1. CASE AppStep
  BY <1>1, AppListenKept, AppListenFailsKept, AppConnectKept, AppConnectHostnameKept, AppCreateKept,
     AppReturnKept, AppFreeKept, AppWriteKept, AppWriteBufferKept,
     AppWriteBufferForceKept, AppSetReadEnableKept DEF AppStep
<1>2. CASE Resume
  BY <1>2, ResumeReadKept, ResumeEofKept, ResumeCloseKept, ResumeConnectKept,
     ResumeForceKept DEF Resume
<1>3. CASE Kevent
  BY <1>3, KeventKept
<1>4. CASE \E fd \in Fd : Serve(fd)
  BY <1>4, AcceptKept, DnsQueryKept, ServeReadKept, ServeWriteKept, ServeConnectKept,
     CloseUnknownKept, DnsConnectKept, DnsFailsKept, IgnoreKept DEF Serve
<1> QED BY <1>1, <1>2, <1>3, <1>4 DEF Next

LEMMA DescriptorsStutter ==
  ASSUME Descriptors, UNCHANGED vars
  PROVE  Descriptors'
<1>1. Lifetimes'
  BY StutterSafe DEF Descriptors
<1>2. FdsOwned' /\ DnsHasFd' /\ ArmedOpen(filters)'
  BY DEF vars, Descriptors, FdsOwned, DnsHasFd, ArmedOpen, InUse, Open
<1>3. (batch \in Seq(Served))' /\ (batch # << >> => stack \in Seq(NotMain))'
      /\ (\A fd \in Fd : file[fd] # "stdin")'
  BY DEF vars, Descriptors, Served
<1> QED BY <1>1, <1>2, <1>3 DEF Descriptors

LEMMA DescriptorsInvariant == Orderly => (Spec => []Descriptors)
<1> SUFFICES ASSUME Orderly PROVE Spec => []Descriptors
  OBVIOUS
<1>1. Init => Descriptors
  BY DescriptorsInit
<1>2. Descriptors /\ [Next]_vars => Descriptors'
  BY DescriptorsStep, DescriptorsStutter
<1> QED BY <1>1, <1>2, PTL DEF Spec

\* Every descriptor the library has opened belongs to one object, which can be
\* found under it, in a program that makes its listeners before the loop; a
\* socket that could not be made one is nobody's, and in no registry.
THEOREM DescriptorsOwned == Orderly => (Spec => []FdOwned)
<1>1. Descriptors => FdOwned
  <2> SUFFICES ASSUME Descriptors, NEW fd \in Fd, file[fd] = "unbound"
               PROVE  events[fd] = NULL /\ dns_events[fd] = NULL /\ filters[fd] = {}
    BY DEF Descriptors, FdsOwned, FdOwned
  <2>1. fd # NoFd
    BY LoopAssumption DEF NoFd
  <2>2. events[fd] # NULL =>
          events[fd] \in EventId /\ event[events[fd]].live /\ event[events[fd]].fd = fd
    BY DEF Descriptors, Lifetimes, TypeOK, RegistryLive
  <2>3. dns_events[fd] # NULL =>
          dns_events[fd] \in DnsId /\ dns[dns_events[fd]].live /\ dns[dns_events[fd]].fd = fd
    BY DEF Descriptors, Lifetimes, TypeOK, RegistryLive
  <2>4. filters[fd] = {}
    BY DEF Descriptors, ArmedOpen, InUse
  <2> QED BY <2>1, <2>2, <2>3, <2>4 DEF Descriptors, FdsOwned
<1> QED BY <1>1, DescriptorsInvariant, PTL

\* The kqueue is armed for nobody who is gone: no report comes back for ever
\* without a handler.
THEOREM ArmedAlwaysKnown == Orderly => (Spec => []ArmedIsKnown)
<1>1. Descriptors => ArmedIsKnown
  BY DEF Descriptors, Lifetimes, TypeOK, FdsOwned, ArmedOpen, InUse, Open, ArmedIsKnown
<1> QED BY <1>1, DescriptorsInvariant, PTL

\* The close(efd) of kqueue_loop for a report that finds nobody, which looks as
\* if it could close a descriptor that has been given out again, never does:
\* a descriptor is closed by the step that frees its owner.
THEOREM OwnersClose == Orderly => (Spec => ClosedByOwner)
<1> SUFFICES ASSUME Orderly PROVE Spec => ClosedByOwner
  OBVIOUS
<1>1. Descriptors /\ [Next]_vars => [ClosesOwn]_vars
  BY DescriptorsStep
<1>2. Spec => [][ClosesOwn]_vars
  BY <1>1, DescriptorsInvariant, PTL DEF Spec
<1> QED BY <1>2 DEF ClosesOwn, ClosedByOwner
=============================================================================

------------------------------ MODULE EventLoop ------------------------------
(***************************************************************************)
(* devent: the event loop of one Docket, its registries of listeners,      *)
(* events and DNS events, and the lifetime of those objects and of their   *)
(* file descriptors.  kqueue_loop (loop.c) takes a batch of reports from   *)
(* the kernel and serves them one by one; a handler calls back into the    *)
(* application, which may call any function of the API, free any event     *)
(* (the one being served included) and open descriptors that reuse the     *)
(* numbers just closed, before the handler goes on.                        *)
(*                                                                         *)
(* The program has one thread.  A step of the model runs from one callback *)
(* to the next; `stack` holds the places where handlers and API functions  *)
(* wait for a callback to return.  Bytes are abstracted: an event only     *)
(* knows whether its out_buffer is empty (`pending`), and what a system    *)
(* call returns is any of the outcomes the code tells apart.               *)
(***************************************************************************)
EXTENDS Integers, Sequences

CONSTANTS Fd,              \* file descriptors the kernel hands out; 0 is stdin
          EventId,         \* addresses of DocketEvents
          DnsId,           \* addresses of DocketDnsEvents
          NULL,
          MaxBatch,        \* MAX_EVENT, kept small
          MaxDepth,        \* bound of the model: frames on the stack
          ConnectMayFail,  \* connect() may fail at once for a resolved address
          ListenLate       \* a callback may create a listener, too

ASSUME LoopAssumption ==
  /\ Fd \subseteq Nat
  /\ NULL \notin EventId \cup DnsId
  /\ MaxBatch \in Nat \ {0} /\ MaxDepth \in Nat
  /\ ConnectMayFail \in BOOLEAN /\ ListenLate \in BOOLEAN

VARIABLES file,        \* file[fd]: what the process has open as fd
          filters,     \* filters[fd]: the directions armed in the kqueue
          listeners,   \* docket->listeners, by fd
          events,      \* docket->events: fd -> event
          dns_events,  \* docket->dns_events: fd -> DNS event
          event,       \* the DocketEvents
          dns,         \* the DocketDnsEvents
          batch,       \* reports of the last kevent() not served yet
          stack,       \* who waits for a callback to return, innermost last
          told         \* history: how often an event was reported established
                       \* or refused since it was created

vars == <<file, filters, listeners, events, dns_events, event, dns, batch, stack, told>>
objects == <<listeners, dns_events, dns, told>>

READ_WRITE == {"READ", "WRITE"}

NoFd == -1
Freed    == [live |-> FALSE, fd |-> NoFd, connected |-> FALSE, ev |-> {},
             pending |-> FALSE, dns |-> NULL]
FreedDns == [live |-> FALSE, fd |-> NoFd, event |-> NULL]

\* DocketEvent_new, with the value its callers give `connected`.
NewEvent(fd, connected) ==
  [live |-> TRUE, fd |-> fd, connected |-> connected, ev |-> READ_WRITE,
   pending |-> FALSE, dns |-> NULL]

-----------------------------------------------------------------------------
(* The stack.                                                              *)

Frame(at, fd, e, ev) == [at |-> at, fd |-> fd, event |-> e, ev |-> ev]

Main          == Frame("main", NoFd, NULL, {})     \* main, before Docket_loop
App           == Frame("app", NoFd, NULL, {})      \* a callback of the application
ReadFrame(fd)    == Frame("read", fd, NULL, {})    \* docket_on_event_read, in its loop
EofFrame(fd)     == Frame("eof", fd, NULL, {})     \* ... after its final read_cb
CloseFrame(fd)   == Frame("close", fd, NULL, {})   \* devent_close_internal
ConnectFrame(fd) == Frame("connect", fd, NULL, {}) \* kqueue_loop, after DEVENT_CONNECT
ForceFrame(e, ev) == Frame("force", NoFd, e, ev)   \* DocketEvent_write_buffer_force

Top    == stack[Len(stack)]
Caller == SubSeq(stack, 1, Len(stack) - 1)

At(place) == stack # << >> /\ Top.at = place
InApp     == stack # << >> /\ Top.at \in {"main", "app"}

-----------------------------------------------------------------------------
(* The kernel.                                                             *)

Open(fd) == fd \in Fd /\ file[fd] # "closed"

\* A new descriptor is the lowest one that is closed.
NewFd(fd) == /\ fd \in Fd \ {0}
             /\ file[fd] = "closed"
             /\ \A g \in Fd \ {0} : file[g] = "closed" => fd <= g

\* devent_update_events hands kevent() two changes, READ first.  Deleting a
\* filter that is not armed fails (ENOENT), and the changes after it are not made.
Applied(armed, ev) ==
  IF "READ" \in ev \cup armed THEN ev ELSE armed

\* The filters after devent_update_events; EBADF changes nothing.
Update(armed, fd, ev) ==
  IF Open(fd) THEN [armed EXCEPT ![fd] = Applied(@, ev)] ELSE armed

\* Docket_add_event (a slip: the event is not registered).
NotRegistered(fd, e) == events
Registered(fd, e) == [events EXCEPT ![fd] = e]

\* Docket_find_event.
Find(fd) == IF fd \in Fd THEN events[fd] ELSE NULL

-----------------------------------------------------------------------------
(* devent_close_internal, devent_write_data and docket_on_event_read are   *)
(* called from several places: `r` is the record of event e at the call,   *)
(* `armed` the filters, `st` the frames below.                             *)

\* devent_close_internal up to its event_cb.
CloseInternal(e, r, armed, st) ==
  /\ event' = [event EXCEPT ![e] = [r EXCEPT !.ev = {}]]
  /\ filters' = armed
  /\ stack' = Append(Append(st, CloseFrame(r.fd)), App)

\* ... up to its write_cb.
WriteDone(e, r, armed, st) ==
  /\ event' = [event EXCEPT ![e] = r]
  /\ filters' = armed
  /\ stack' = Append(st, App)

SendAll(e, r, armed, st) ==
  /\ r.pending /\ "WRITE" \in r.ev /\ Open(r.fd)
  /\ WriteDone(e, [r EXCEPT !.pending = FALSE], armed, st)

SendAgain(e, r, armed, st) ==
  /\ r.pending /\ "WRITE" \in r.ev /\ Open(r.fd)
  /\ WriteDone(e, [r EXCEPT !.ev = @ \ {"WRITE"}],
               Update(armed, r.fd, r.ev \ {"WRITE"}), st)

SendFails(e, r, armed, st) ==
  /\ r.pending /\ "WRITE" \in r.ev
  /\ CloseInternal(e, r, armed, st)

NothingToSend(e, r, armed, st) ==
  /\ ~r.pending /\ "WRITE" \in r.ev
  /\ WriteDone(e, r, armed, st)

WriteDisabled(e, r, armed, st) ==
  /\ "WRITE" \notin r.ev
  /\ WriteDone(e, [r EXCEPT !.ev = @ \cup {"WRITE"}],
               Update(armed, r.fd, r.ev \cup {"WRITE"}), st)

\* devent_write_data.
WriteData(e, r, armed, st) ==
  \/ SendAll(e, r, armed, st)
  \/ SendAgain(e, r, armed, st)
  \/ SendFails(e, r, armed, st)
  \/ NothingToSend(e, r, armed, st)
  \/ WriteDisabled(e, r, armed, st)

ReadSome(e, r, st) ==
  /\ Open(r.fd)
  /\ event' = [event EXCEPT ![e] = r]
  /\ stack' = Append(Append(st, ReadFrame(r.fd)), App)
  /\ UNCHANGED filters

ReadAgain(e, r, st) ==
  /\ Open(r.fd)
  /\ WriteData(e, [r EXCEPT !.ev = @ \cup {"WRITE"}], filters, st)

ReadEndLeft(e, r, st) ==
  /\ event' = [event EXCEPT ![e] = r]
  /\ stack' = Append(Append(st, EofFrame(r.fd)), App)
  /\ UNCHANGED filters

ReadEnd(e, r, st) == CloseInternal(e, r, filters, st)

\* One turn of the loop of docket_on_event_read: data, EAGAIN, or the end of
\* the stream (or an error) with or without data the application left unread.
ReadTurn(e, r, st) ==
  \/ ReadSome(e, r, st)
  \/ ReadAgain(e, r, st)
  \/ ReadEndLeft(e, r, st)
  \/ ReadEnd(e, r, st)

ReadDisabled(e, r, st) ==
  /\ "READ" \notin r.ev
  /\ event' = [event EXCEPT ![e] = r]
  /\ filters' = Update(filters, r.fd, r.ev)
  /\ stack' = st

\* docket_on_event_read.
OnEventRead(e, st) ==
  LET r == [event[e] EXCEPT !.ev = @ \ {"WRITE"}]
  IN  \/ ReadDisabled(e, r, st)
      \/ "READ" \in r.ev /\ ReadTurn(e, r, st)

\* docket_on_event_write: the WRITE filter is deleted, the WRITE bit set again.
OnEventWrite(e, r, st) ==
  LET armed == Update(filters, r.fd, r.ev \ {"WRITE"})
      q     == [r EXCEPT !.ev = @ \cup {"WRITE"}]
  IN  \/ /\ ~q.pending
         /\ event' = [event EXCEPT ![e] = q]
         /\ filters' = armed
         /\ stack' = st
      \/ q.pending /\ WriteData(e, q, armed, st)

-----------------------------------------------------------------------------
(* Freeing.                                                                *)

\* Descriptors that are closed leave the kqueue with all their filters.
Closing(fds) ==
  /\ file' = [fd \in Fd |-> IF fd \in fds THEN "closed" ELSE file[fd]]
  /\ filters' = [fd \in Fd |-> IF fd \in fds THEN {} ELSE filters[fd]]

\* Docket_remove_event and Docket_remove_dns_event: by fd, whoever is there
\* (two slips: nothing is removed).
KeepEvent(fd) == events
KeepDnsEvent(fd) == dns_events
RemoveEvent(fd) == [events EXCEPT ![fd] = NULL]
RemoveDnsEvent(fd) == [dns_events EXCEPT ![fd] = NULL]

\* The descriptor DocketEvent_free closes (a slip: none).
LeavesOpen(fd) == {}
OwnFd(fd) == IF fd > 0 THEN {fd} ELSE {}

\* DocketEvent_free, with the DocketDnsEvent_free it starts with.
FreeEvent(e) ==
  LET d     == event[e].dns
      fd    == event[e].fd
      ofDns == IF d # NULL THEN {dns[d].fd} ELSE {}
  IN  /\ Closing(ofDns \cup OwnFd(fd))
      /\ events' = IF fd > 0 THEN RemoveEvent(fd) ELSE events
      /\ event' = [event EXCEPT ![e] = Freed]
      /\ IF d # NULL
         THEN /\ dns' = [dns EXCEPT ![d] = FreedDns]
              /\ dns_events' = RemoveDnsEvent(dns[d].fd)
         ELSE UNCHANGED <<dns, dns_events>>

-----------------------------------------------------------------------------
(* What the application does in main and in callbacks.                     *)

Deeper(frames) == Len(stack) + frames <= MaxDepth

\* Docket_create_listener.
AppListen ==
  /\ InApp
  /\ ListenLate \/ Top.at = "main"
  /\ \E fd \in Fd :
       /\ NewFd(fd)
       /\ file' = [file EXCEPT ![fd] = "listener"]
       /\ filters' = [filters EXCEPT ![fd] = READ_WRITE]
       /\ listeners' = listeners \cup {fd}
  /\ UNCHANGED <<events, dns_events, event, dns, batch, stack, told>>

\* ... when bind() or listen() fails: NULL is returned, and the socket stays
\* open.  It is armed nowhere, and nobody has its number any more.
AppListenFails ==
  /\ InApp
  /\ ListenLate \/ Top.at = "main"
  /\ \E fd \in Fd :
       /\ NewFd(fd)
       /\ file' = [file EXCEPT ![fd] = "unbound"]
  /\ UNCHANGED <<filters, events, event, batch, stack, objects>>

\* DocketEvent_connect(docket, -1, address): an event already registered under
\* the number of the new descriptor is taken for this connection's event.  When
\* connect() fails at once the descriptor is closed again and nothing is kept.
AppConnect ==
  /\ InApp
  /\ \E fd \in Fd :
       /\ NewFd(fd)
       /\ file' = [file EXCEPT ![fd] = "socket"]
       /\ filters' = [filters EXCEPT ![fd] = READ_WRITE]
       /\ \/ /\ events[fd] # NULL
             /\ event' = [event EXCEPT ![events[fd]].ev = READ_WRITE]
             /\ UNCHANGED <<events, told>>
          \/ /\ events[fd] = NULL
             /\ \E e \in EventId :
                  /\ ~event[e].live
                  /\ event' = [event EXCEPT ![e] = NewEvent(fd, FALSE)]
                  /\ events' = Registered(fd, e)
                  /\ told' = [told EXCEPT ![e] = 0]
  /\ UNCHANGED <<listeners, dns_events, dns, batch, stack>>

\* DocketEvent_connect_hostname(docket, -1, name, port), for a domain name.
AppConnectHostname ==
  /\ InApp
  /\ \E fd \in Fd, e \in EventId, d \in DnsId :
       /\ NewFd(fd) /\ ~event[e].live /\ ~dns[d].live
       /\ file' = [file EXCEPT ![fd] = "dns"]
       /\ filters' = [filters EXCEPT ![fd] = READ_WRITE]
       /\ event' = [event EXCEPT ![e] = [NewEvent(NoFd, FALSE) EXCEPT !.dns = d]]
       /\ dns' = [dns EXCEPT ![d] = [live |-> TRUE, fd |-> fd, event |-> e]]
       /\ dns_events' = [dns_events EXCEPT ![fd] = d]
       /\ told' = [told EXCEPT ![e] = 0]
  /\ UNCHANGED <<listeners, events, batch, stack>>

\* DocketEvent_create(docket, fd): on stdin, or on a descriptor the application
\* has just opened.
AppCreate ==
  /\ InApp
  /\ \E fd \in Fd, e \in EventId :
       /\ file[fd] = "stdin" \/ NewFd(fd)
       /\ ~event[e].live
       /\ file' = [file EXCEPT ![fd] = "socket"]
       /\ filters' = [filters EXCEPT ![fd] = READ_WRITE]
       /\ event' = [event EXCEPT ![e] = NewEvent(fd, TRUE)]
       /\ events' = Registered(fd, e)
       /\ told' = [told EXCEPT ![e] = 1]
  /\ UNCHANGED <<listeners, dns_events, dns, batch, stack>>

\* DocketEvent_free, of any event the application has.
AppFree(e) ==
  /\ InApp
  /\ event[e].live
  /\ FreeEvent(e)
  /\ UNCHANGED <<listeners, batch, stack, told>>

\* DocketEvent_write: sent at once if the WRITE bit is set, else kept.
AppWrite(e) ==
  LET r == [event[e] EXCEPT !.pending = TRUE]
  IN  /\ InApp /\ Deeper(2)
      /\ event[e].live
      /\ \/ "WRITE" \in r.ev /\ WriteData(e, r, filters, stack)
         \/ /\ "WRITE" \notin r.ev
            /\ event' = [event EXCEPT ![e] = r]
            /\ UNCHANGED <<filters, stack>>
      /\ UNCHANGED <<file, events, batch, objects>>

\* DocketEvent_write_buffer: the buffer moved may be empty.
AppWriteBuffer(e) ==
  /\ InApp /\ Deeper(2)
  /\ event[e].live
  /\ \E more \in BOOLEAN :
       WriteData(e, [event[e] EXCEPT !.pending = @ \/ more], filters, stack)
  /\ UNCHANGED <<file, events, batch, objects>>

\* DocketEvent_write_buffer_force: the ev bits are restored afterwards.
AppWriteBufferForce(e) ==
  /\ InApp /\ Deeper(3)
  /\ event[e].live
  /\ \E more \in BOOLEAN :
       WriteData(e, [event[e] EXCEPT !.pending = @ \/ more, !.ev = @ \cup {"WRITE"}],
                 filters, Append(stack, ForceFrame(e, event[e].ev)))
  /\ UNCHANGED <<file, events, batch, objects>>

\* devent_set_read_enable: the kqueue is not told.
AppSetReadEnable(e, enable) ==
  /\ InApp
  /\ event[e].live
  /\ event' = [event EXCEPT ![e].ev = IF enable THEN @ \cup {"READ"} ELSE @ \ {"READ"}]
  /\ UNCHANGED <<file, filters, events, batch, stack, objects>>

\* The callback returns; main enters Docket_loop.
AppReturn ==
  /\ InApp
  /\ stack' = Caller
  /\ UNCHANGED <<file, filters, events, event, batch, objects>>

AppStep ==
  \/ AppListen \/ AppListenFails \/ AppConnect \/ AppConnectHostname \/ AppCreate \/ AppReturn
  \/ \E e \in EventId :
       \/ AppFree(e) \/ AppWrite(e) \/ AppWriteBuffer(e) \/ AppWriteBufferForce(e)
       \/ \E enable \in BOOLEAN : AppSetReadEnable(e, enable)

-----------------------------------------------------------------------------
(* A handler goes on after a callback.  All but one look the event up again *)
(* by its descriptor.                                                       *)

\* docket_on_event_read, in its loop.
ResumeRead ==
  /\ At("read")
  /\ LET e == Find(Top.fd)
     IN  \/ e = NULL /\ stack' = Caller /\ UNCHANGED <<filters, event>>
         \/ e # NULL /\ "READ" \in event[e].ev /\ ReadTurn(e, event[e], Caller)
         \/ /\ e # NULL /\ "READ" \notin event[e].ev
            /\ WriteData(e, [event[e] EXCEPT !.ev = @ \cup {"WRITE"}], filters, Caller)
  /\ UNCHANGED <<file, events, batch, objects>>

\* docket_on_event_read, after the final read_cb.
ResumeEof ==
  /\ At("eof")
  /\ LET e == Find(Top.fd)
     IN  \/ e = NULL /\ stack' = Caller /\ UNCHANGED <<filters, event>>
         \/ e # NULL /\ CloseInternal(e, event[e], filters, Caller)
  /\ UNCHANGED <<file, events, batch, objects>>

\* devent_close_internal, after event_cb.
ResumeClose ==
  /\ At("close")
  /\ LET e == Find(Top.fd)
     IN  \/ e = NULL /\ UNCHANGED <<file, filters, events, dns_events, event, dns>>
         \/ e # NULL /\ FreeEvent(e)
  /\ stack' = Caller
  /\ UNCHANGED <<listeners, batch, told>>

\* kqueue_loop, after event_cb(DEVENT_CONNECT).
ResumeConnect ==
  /\ At("connect")
  /\ LET e == Find(Top.fd)
     IN  \/ e = NULL /\ stack' = Caller /\ UNCHANGED <<filters, event>>
         \/ e # NULL /\ OnEventWrite(e, event[e], Caller)
  /\ UNCHANGED <<file, events, batch, objects>>

\* DocketEvent_write_buffer_force: event->ev = ev, through the pointer it was
\* called with.  A store into freed memory changes no object of the model.
ResumeForce ==
  /\ At("force")
  /\ event' = IF event[Top.event].live
              THEN [event EXCEPT ![Top.event].ev = Top.ev] ELSE event
  /\ stack' = Caller
  /\ UNCHANGED <<file, filters, events, batch, objects>>

Resume == ResumeRead \/ ResumeEof \/ ResumeClose \/ ResumeConnect \/ ResumeForce

-----------------------------------------------------------------------------
(* kqueue_loop.                                                            *)

\* A listening socket is never reported writable.
Reports == {x \in [fd : Fd, filter : READ_WRITE] :
              /\ x.filter \in filters[x.fd]
              /\ ~(x.filter = "WRITE" /\ file[x.fd] = "listener")}

\* kevent() returns up to MaxBatch reports, each filter once, in any order.
Kevent ==
  /\ stack = << >> /\ batch = << >>
  /\ \E n \in 1..MaxBatch : \E b \in [1..n -> Reports] :
       /\ \A i, j \in 1..n : b[i] = b[j] => i = j
       /\ batch' = b
  /\ UNCHANGED <<file, filters, events, event, stack, objects>>

Serving(fd, filter) ==
  /\ stack = << >> /\ batch # << >>
  /\ Head(batch) = [fd |-> fd, filter |-> filter]
  /\ batch' = Tail(batch)

\* docket_accept: the descriptor and the event of the new connection.
Accept(fd) ==
  /\ Serving(fd, "READ")
  /\ fd \in listeners
  /\ \E new \in Fd, e \in EventId :
       /\ NewFd(new) /\ ~event[e].live
       /\ file' = [file EXCEPT ![new] = "socket"]
       /\ filters' = [filters EXCEPT ![new] = READ_WRITE]
       /\ event' = [event EXCEPT ![e] = NewEvent(new, TRUE)]
       /\ events' = Registered(new, e)
       /\ told' = [told EXCEPT ![e] = 1]
  /\ stack' = Append(stack, App)
  /\ UNCHANGED <<listeners, dns_events, dns>>

\* A report nothing is done for: accept() fails, a READ report of a descriptor
\* nobody knows, a DNS socket that is not served (no name server is known yet,
\* or sendto() fails and the WRITE filter stays armed for another try).
Ignore(fd, filter) ==
  /\ Serving(fd, filter)
  /\ \/ filter = "READ" /\ fd \in listeners
     \/ fd \notin listeners /\ dns_events[fd] # NULL
     \/ filter = "READ" /\ fd \notin listeners /\ dns_events[fd] = NULL /\ events[fd] = NULL
  /\ UNCHANGED <<file, filters, events, event, stack, objects>>

\* devent_dns_write: the query is sent, only the answer is waited for.
DnsQuery(fd) ==
  /\ Serving(fd, "WRITE")
  /\ dns_events[fd] # NULL
  /\ filters' = Update(filters, dns[dns_events[fd]].fd, {"READ"})
  /\ UNCHANGED <<file, events, event, stack, objects>>

\* ev->dns_event = NULL (a slip: the pointer stays).
StillLinked(e) == event
Unlinked(e) == [event EXCEPT ![e].dns = NULL]

\* The history variable counts to two, which is once too often.
Report(e) == [told EXCEPT ![e] = IF @ < 2 THEN @ + 1 ELSE 2]

\* devent_dns_write and devent_dns_read: no query can be made of the name, the
\* socket fails, or the answer has no address.  The DNS event is freed, and
\* event_cb told DEVENT_CONNECT | DEVENT_ERROR.
DnsFails(fd, filter) ==
  /\ Serving(fd, filter)
  /\ filter = "READ" => fd \notin listeners
  /\ dns_events[fd] # NULL
  /\ LET d == dns_events[fd]
         e == dns[d].event
     IN  /\ event' = Unlinked(e)
         /\ dns' = [dns EXCEPT ![d] = FreedDns]
         /\ dns_events' = RemoveDnsEvent(dns[d].fd)
         /\ Closing({dns[d].fd})
         /\ told' = Report(e)
  /\ stack' = Append(stack, App)
  /\ UNCHANGED <<listeners, events>>

WithFd(r, new, started) ==
  [r EXCEPT !.fd = new, !.dns = NULL, !.ev = IF started THEN READ_WRITE ELSE @]

\* devent_dns_read: the answer has an address.  The event gets a socket and is
\* registered; connect() starts, or fails at once and closes the socket again,
\* which devent_dns_read does not look at.  The DNS event is freed.
DnsConnect(fd, started) ==
  /\ Serving(fd, "READ")
  /\ fd \notin listeners
  /\ dns_events[fd] # NULL
  /\ started \/ ConnectMayFail
  /\ LET d == dns_events[fd]
         e == dns[d].event
     IN  \E new \in Fd :
           /\ NewFd(new)
           /\ file' = [f \in Fd |-> CASE f = dns[d].fd -> "closed"
                                      [] f = new /\ started -> "socket"
                                      [] OTHER -> file[f]]
           /\ filters' = [f \in Fd |-> CASE f = dns[d].fd -> {}
                                         [] f = new /\ started -> READ_WRITE
                                         [] OTHER -> filters[f]]
           /\ event' = [event EXCEPT ![e] = WithFd(event[e], new, started)]
           /\ events' = Registered(new, e)
           /\ dns' = [dns EXCEPT ![d] = FreedDns]
           /\ dns_events' = RemoveDnsEvent(dns[d].fd)
  /\ UNCHANGED <<listeners, stack, told>>

\* An event that can be read.
ServeRead(fd) ==
  /\ Serving(fd, "READ")
  /\ fd \notin listeners /\ dns_events[fd] = NULL /\ events[fd] # NULL
  /\ OnEventRead(events[fd], stack)
  /\ UNCHANGED <<file, events, objects>>

\* An event that can be written, of an established connection.
ServeWrite(fd) ==
  /\ Serving(fd, "WRITE")
  /\ dns_events[fd] = NULL /\ events[fd] # NULL
  /\ event[events[fd]].connected
  /\ OnEventWrite(events[fd], event[events[fd]], stack)
  /\ UNCHANGED <<file, events, objects>>

\* event->connected = true (a slip: it stays false).
ForgetConnected(r) == r
SetConnected(r) == [r EXCEPT !.connected = TRUE]

\* The first WRITE report of a connection: DEVENT_CONNECT.
ServeConnect(fd) ==
  /\ Serving(fd, "WRITE")
  /\ dns_events[fd] = NULL /\ events[fd] # NULL
  /\ ~event[events[fd]].connected
  /\ LET e == events[fd]
     IN  /\ event' = [event EXCEPT ![e] = SetConnected(@)]
         /\ told' = Report(e)
  /\ stack' = Append(Append(stack, ConnectFrame(fd)), App)
  /\ UNCHANGED <<file, filters, listeners, events, dns_events, dns>>

\* A WRITE report for a descriptor nobody is registered under: it is closed.
CloseUnknown(fd) ==
  /\ Serving(fd, "WRITE")
  /\ dns_events[fd] = NULL /\ events[fd] = NULL
  /\ Closing({fd})
  /\ UNCHANGED <<events, event, stack, objects>>

Serve(fd) ==
  \/ Accept(fd) \/ DnsQuery(fd) \/ ServeRead(fd) \/ ServeWrite(fd) \/ ServeConnect(fd)
  \/ CloseUnknown(fd)
  \/ \E started \in BOOLEAN : DnsConnect(fd, started)
  \/ \E filter \in READ_WRITE : DnsFails(fd, filter) \/ Ignore(fd, filter)

Init ==
  /\ file = [fd \in Fd |-> IF fd = 0 THEN "stdin" ELSE "closed"]
  /\ filters = [fd \in Fd |-> {}]
  /\ listeners = {}
  /\ events = [fd \in Fd |-> NULL]
  /\ dns_events = [fd \in Fd |-> NULL]
  /\ event = [e \in EventId |-> Freed]
  /\ dns = [d \in DnsId |-> FreedDns]
  /\ batch = << >>
  /\ stack = <<Main>>
  /\ told = [e \in EventId |-> 0]

Next == AppStep \/ Resume \/ Kevent \/ \E fd \in Fd : Serve(fd)

Spec == Init /\ [][Next]_vars

-----------------------------------------------------------------------------
FrameType ==
  [at : {"main", "app", "read", "eof", "close", "connect", "force"},
   fd : Fd \cup {NoFd}, event : EventId \cup {NULL}, ev : SUBSET READ_WRITE]

EventType ==
  [live : BOOLEAN, fd : Fd \cup {NoFd}, connected : BOOLEAN,
   ev : SUBSET READ_WRITE, pending : BOOLEAN, dns : DnsId \cup {NULL}]

DnsType == [live : BOOLEAN, fd : Fd \cup {NoFd}, event : EventId \cup {NULL}]

\* Type invariant of the loop, its registries and its objects; freed memory is
\* not written to by anything the registries lead to.
TypeOK ==
  /\ file \in [Fd -> {"closed", "stdin", "listener", "unbound", "dns", "socket"}]
  /\ filters \in [Fd -> SUBSET READ_WRITE]
  /\ listeners \subseteq Fd
  /\ events \in [Fd -> EventId \cup {NULL}]
  /\ dns_events \in [Fd -> DnsId \cup {NULL}]
  /\ event \in [EventId -> EventType]
  /\ dns \in [DnsId -> DnsType]
  /\ batch \in Seq([fd : Fd, filter : READ_WRITE])
  /\ stack \in Seq(FrameType)
  /\ told \in [EventId -> 0..2]
  /\ \A e \in EventId : ~event[e].live => event[e] = Freed

\* What the registries hold is alive and registered under its own descriptor.
\* kqueue_loop and every handler that looks its event up again after a callback
\* (read.c:74, read.c:93, utils.c:88, loop.c:92) dereference what they find, so
\* a stale entry is a use of freed memory.
RegistryLive ==
  \A fd \in Fd :
    /\ events[fd] # NULL => event[events[fd]].live /\ event[events[fd]].fd = fd
    /\ dns_events[fd] # NULL => dns[dns_events[fd]].live /\ dns[dns_events[fd]].fd = fd

\* A DocketDnsEvent and the DocketEvent it resolves a name for point at each
\* other for as long as both live, and a DNS event never outlives its event:
\* devent_dns_read and devent_dns_write use dns->event without a test, and
\* DocketEvent_free frees event->dns_event.
DnsLinked ==
  /\ \A d \in DnsId : dns[d].live =>
       /\ dns[d].event # NULL
       /\ event[dns[d].event].live
       /\ event[dns[d].event].dns = d
  /\ \A e \in EventId : event[e].live /\ event[e].dns # NULL =>
       /\ dns[event[e].dns].live
       /\ dns[event[e].dns].event = e
       /\ event[e].fd = NoFd

\* Every descriptor the library opened is the one of exactly one object, and
\* that object can be found under it: no two events (or an event and a DNS
\* socket) share a number, and none is open that nobody will ever close.  One
\* kind is exempt: a socket that could not be made a listener has no owner and
\* stays open (listener.c:37-45).  Nothing takes one for its own, and the kqueue
\* does not know it.
FdOwned ==
  /\ \A e \in EventId : event[e].live /\ event[e].fd # NoFd =>
       file[event[e].fd] = "socket" /\ events[event[e].fd] = e
  /\ \A d \in DnsId : dns[d].live =>
       file[dns[d].fd] = "dns" /\ dns_events[dns[d].fd] = d
  /\ \A fd \in Fd :
       /\ file[fd] = "socket" => events[fd] # NULL
       /\ file[fd] = "dns" => dns_events[fd] # NULL
       /\ file[fd] = "listener" <=> fd \in listeners
       /\ file[fd] = "unbound" =>
            events[fd] = NULL /\ dns_events[fd] = NULL /\ filters[fd] = {}

\* A connection is reported established (accept callback, DEVENT_CONNECT) or
\* refused (DEVENT_CONNECT | DEVENT_ERROR) at most once: contexts are set up
\* and requests sent in that report.
ToldOnce == \A e \in EventId : told[e] <= 1

\* A descriptor is armed in the kqueue only while it can be found in a registry.
\* The filters are level-triggered: a report nobody is found for comes back at
\* the next kevent(), and the loop would spin on it.
ArmedIsKnown ==
  \A fd \in Fd : filters[fd] # {} =>
    fd \in listeners \/ events[fd] # NULL \/ dns_events[fd] # NULL

\* A descriptor in use is closed only in the step that frees its owner.  The
\* close(efd) of kqueue_loop for an unknown WRITE report (loop.c:82) is then
\* harmless even when the number has been given to somebody else meanwhile.
ClosedByOwner ==
  [][\A fd \in Fd :
       file[fd] \in {"socket", "dns", "listener"} /\ file'[fd] = "closed" =>
         \/ \E e \in EventId : event[e].live /\ event[e].fd = fd /\ ~event'[e].live
         \/ \E d \in DnsId : dns[d].live /\ dns[d].fd = fd /\ ~dns'[d].live]_vars

\* A pointer kept across a callback is used only while its event lives.
KeptPointerLive == At("force") => event[Top.event].live

\* When connect() has failed, and the socket is gone, the application knows.
FailedConnectReported ==
  \A e \in EventId :
    event[e].live /\ event[e].fd # NoFd /\ ~Open(event[e].fd) => told[e] > 0
=============================================================================

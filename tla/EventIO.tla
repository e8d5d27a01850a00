------------------------------- MODULE EventIO -------------------------------
(***************************************************************************)
(* One connected DocketEvent between its application, the kernel and its   *)
(* peer (event.c, read.c, write.c, devent_update_events of utils.c): what  *)
(* arrives is heard, what is written is sent, and the loop comes to rest.  *)
(* EventLoop has all events and every callback, and leaves to the kernel   *)
(* what it reports when; here the kernel reports what is so.               *)
(*                                                                         *)
(* Two queues of bytes lie between the event and its peer, of which only   *)
(* the lengths count.  A call of devent_write_data is one step: what the   *)
(* peer takes while it runs it might as well have taken before.  The       *)
(* application may do anything at any time it has the thread: in its       *)
(* read_cb, or in a callback of this or another event between two reports. *)
(***************************************************************************)
EXTENDS Integers, Sequences

CONSTANTS Room,         \* what the send buffer of the kernel holds
          MaxArrived,   \* bound: what the receive buffer holds
          MaxOut,       \* bound: bytes in the out_buffer
          MaxWrites     \* bound: bytes the application writes in all

ASSUME IOAssumption == /\ {Room, MaxArrived, MaxOut, MaxWrites} \subseteq Nat
                       /\ Room > 0

VARIABLES io,         \* the event and its descriptor: see TypeOK
          batch,      \* reports of the last kevent() not served yet
          pc,         \* "loop", or "read_cb" inside docket_on_event_read
          arrived,    \* bytes the peer has sent and nobody has read
          wrote,      \* bytes the application has written
          reenabled,  \* history: reading was enabled again after the READ
                      \* filter had gone, and the filter has not come back
          wasted      \* history: reports in a row that brought nothing

vars == <<io, batch, pc, arrived, wrote, reenabled, wasted>>

READ_WRITE == {"READ", "WRITE"}
Least(a, b) == IF a < b THEN a ELSE b

Init == /\ io = [alive |-> TRUE, ev |-> READ_WRITE, filters |-> READ_WRITE,
                 out |-> 0, room |-> Room, line |-> "open"]
        /\ batch = <<>> /\ pc = "loop" /\ arrived = 0 /\ wrote = 0
        /\ reenabled = FALSE /\ wasted = 0

-----------------------------------------------------------------------------
(* The bits of an event, and its filters in the kqueue.                    *)

Enables(c, bit)  == [c EXCEPT !.ev = c.ev \cup {bit}]
Disables(c, bit) == [c EXCEPT !.ev = c.ev \ {bit}]

\* devent_update_events: two changes, READ first.  Deleting a filter that is not
\* there fails, and the change after it is not made.  (A slip: READ is
\* deleted whatever the bit says.)
UpdatesWriteOnly(c) == [c EXCEPT !.filters = c.ev \ {"READ"}]
Updates(c) == IF "READ" \in c.ev \cup c.filters THEN [c EXCEPT !.filters = c.ev] ELSE c

\* devent_close_internal; DocketEvent_free.
Close(c) == [c EXCEPT !.alive = FALSE, !.ev = {}, !.filters = {}, !.out = 0]

-----------------------------------------------------------------------------
(* The write side.                                                         *)

\* The loop of devent_write_data: sends until nothing is left, or until the
\* kernel takes no more.
WouldBlock(c) ==
  Updates(Disables([c EXCEPT !.out = c.out - c.room, !.room = 0], "WRITE"))
SendsAll(c) == [c EXCEPT !.out = 0, !.room = c.room - c.out]

WriteData(c) ==
  CASE "WRITE" \notin c.ev -> Updates(Enables(c, "WRITE"))
    [] "WRITE" \in c.ev /\ c.out = 0 -> c
    [] "WRITE" \in c.ev /\ c.out > 0 /\ c.line = "broken" -> Close(c)
    [] OTHER -> IF c.out > c.room THEN WouldBlock(c) ELSE SendsAll(c)

\* docket_on_event_write.
OnEventWrite(c) ==
  LET d == Enables(Updates(Disables(c, "WRITE")), "WRITE")
  IN  IF d.out = 0 THEN d ELSE WriteData(d)

-----------------------------------------------------------------------------
(* The application.                                                        *)

\* The bytes given with a call; bits and out after it.
Puts(n) == /\ wrote + n <= MaxWrites /\ io.out + n <= MaxOut
           /\ wrote' = wrote + n

\* History: whether the READ filter is missing where it is wanted.
Rearmed(c) == reenabled' = (reenabled /\ "READ" \notin c.filters)

\* DocketEvent_write: nothing is sent, nor armed, while the WRITE bit is clear.
Write == /\ Puts(1)
         /\ LET c == [io EXCEPT !.out = io.out + 1]
            IN io' = IF "WRITE" \in c.ev THEN WriteData(c) ELSE c
         /\ Rearmed(io')

\* DocketEvent_write_buffer; the buffer may be empty.
WriteBuffer == \E n \in 0..1 :
  /\ Puts(n)
  /\ io' = WriteData([io EXCEPT !.out = io.out + n])
  /\ Rearmed(io')

\* DocketEvent_write_buffer_force: the bits are put back as they were.
WriteBufferForce == \E n \in 0..1 :
  /\ Puts(n)
  /\ LET c == WriteData(Enables([io EXCEPT !.out = io.out + n], "WRITE"))
     IN io' = IF c.alive THEN [c EXCEPT !.ev = io.ev] ELSE c
  /\ Rearmed(io')

\* devent_set_read_enable: the bit only.
SetReadEnable == \E enable \in BOOLEAN :
  /\ io' = IF enable THEN Enables(io, "READ") ELSE Disables(io, "READ")
  /\ reenabled' = (enable /\ "READ" \notin io.filters)
  /\ UNCHANGED wrote

Free == /\ io' = Close(io)
        /\ UNCHANGED <<wrote, reenabled>>

App == /\ io.alive
       /\ Write \/ WriteBuffer \/ WriteBufferForce \/ SetReadEnable \/ Free
       /\ wasted' = 0
       /\ UNCHANGED <<batch, pc, arrived>>

-----------------------------------------------------------------------------
(* The peer and the network.                                               *)

PeerSends == /\ io.line = "open" /\ arrived < MaxArrived
             /\ arrived' = arrived + 1
             /\ UNCHANGED io

PeerTakes == /\ io.room < Room /\ io.line # "broken"
             /\ \E room \in (io.room + 1)..Room : io' = [io EXCEPT !.room = room]
             /\ UNCHANGED arrived

\* The peer closes its side, or the connection is reset and what had arrived
\* is lost.
PeerEnds == \/ /\ io.line = "open"
               /\ io' = [io EXCEPT !.line = "ended"] /\ UNCHANGED arrived
            \/ /\ io.line # "broken"
               /\ io' = [io EXCEPT !.line = "broken"] /\ arrived' = 0

Peer == /\ io.alive
        /\ PeerSends \/ PeerTakes \/ PeerEnds
        /\ wasted' = 0
        /\ UNCHANGED <<batch, pc, wrote, reenabled>>

-----------------------------------------------------------------------------
(* kqueue_loop.                                                            *)

\* The level of a filter.
Ready == {f \in io.filters :
            \/ f = "READ" /\ (arrived > 0 \/ io.line # "open")
            \/ f = "WRITE" /\ (io.room > 0 \/ io.line = "broken")}

\* kevent() reports some filters that are ready, in any order.
Kevent == /\ io.alive /\ pc = "loop" /\ batch = <<>> /\ Ready # {}
          /\ batch' \in {s \in {<<"READ">>, <<"WRITE">>, <<"READ", "WRITE">>,
                                <<"WRITE", "READ">>} :
                           \A n \in 1..Len(s) : s[n] \in Ready}
          /\ UNCHANGED <<io, pc, arrived, wrote, reenabled, wasted>>

Serving(f) == /\ pc = "loop" /\ batch # <<>> /\ Head(batch) = f
              /\ batch' = Tail(batch)

\* The rest of a handler, its event as c: it has brought something when a byte
\* was read or sent or the connection ended.
Returns(c, before) ==
  /\ pc' = "loop"
  /\ io' = c
  /\ wasted' = IF c.out # before.out \/ ~c.alive \/ pc = "read_cb" THEN 0 ELSE Least(wasted + 1, 3)
  /\ UNCHANGED arrived

\* A turn of the loop of docket_on_event_read: a buffer of data, and read_cb;
\* nothing more, and what is in the out_buffer is sent (a slip: it is not); or
\* the end of the stream.
NotFlushed(c) == Enables(c, "WRITE")
Flush(c) == WriteData(Enables(c, "WRITE"))

ReadTurn(c) ==
  \/ /\ arrived > 0
     /\ arrived' = arrived - 1 /\ pc' = "read_cb" /\ wasted' = 0
     /\ io' = c
  \/ arrived = 0 /\ c.line = "open" /\ Returns(Flush(c), io)
  \/ arrived = 0 /\ c.line # "open" /\ Returns(Close(c), io)

\* docket_on_event_read: only its beginning finds reading disabled, and then
\* takes the filter away (a slip: it does not).
ReadLeftArmed(c) == c
ReadDisabled(c)  == Updates(c)

ServeRead ==
  /\ Serving("READ")
  /\ LET c == Disables(io, "WRITE")
     IN  \/ ~io.alive /\ Returns(io, io)                  \* no longer found
         \/ io.alive /\ "READ" \notin c.ev /\ Returns(ReadDisabled(c), io)
         \/ io.alive /\ "READ" \in c.ev /\ ReadTurn(c)
  /\ Rearmed(io')
  /\ UNCHANGED wrote

\* ... and its read_cb returns.
ReadCbReturns ==
  /\ pc = "read_cb"
  /\ \/ ~io.alive /\ Returns(io, io)
     \/ io.alive /\ "READ" \in io.ev /\ ReadTurn(io)
     \/ io.alive /\ "READ" \notin io.ev /\ Returns(Flush(io), io)
  /\ Rearmed(io')
  /\ UNCHANGED <<batch, wrote>>

ServeWrite ==
  /\ Serving("WRITE")
  /\ Returns(IF io.alive THEN OnEventWrite(io) ELSE io, io)
  /\ Rearmed(io')
  /\ UNCHANGED wrote

Loop == Kevent \/ ServeRead \/ ReadCbReturns \/ ServeWrite

Next == App \/ Peer \/ Loop

\* The loop runs while there is something to do, its callbacks return, and
\* the peer takes what it is sent.  That the kernel reports every filter that
\* stays ready is the second conjunct.
Spec == /\ Init /\ [][Next]_vars
        /\ WF_vars(Loop)
        /\ SF_vars(Kevent /\ "READ" \in {batch'[n] : n \in 1..Len(batch')})
        /\ WF_vars(Peer /\ PeerTakes)

-----------------------------------------------------------------------------
(* Properties.                                                             *)

\* Every variable has its type; an event that is freed is not armed.
TypeOK ==
  /\ io \in [alive : BOOLEAN, ev : SUBSET READ_WRITE, filters : SUBSET READ_WRITE,
             out : 0..MaxOut, room : 0..Room, line : {"open", "ended", "broken"}]
  /\ ~io.alive => io.filters = {}
  /\ batch \in {<<>>, <<"READ">>, <<"WRITE">>, <<"READ", "WRITE">>, <<"WRITE", "READ">>}
  /\ pc \in {"loop", "read_cb"} /\ arrived \in 0..MaxArrived /\ wrote \in 0..MaxWrites
  /\ reenabled \in BOOLEAN /\ wasted \in 0..3

Reading == io.alive /\ "READ" \in io.ev

\* What arrives is shown to the application, whatever it has written and however
\* full the way to the peer is, unless it has switched reading off, or on again
\* after docket_on_event_read saw it off: then the filter has gone, and
\* devent_set_read_enable does not bring it back (event.c:83).
\* The end of the stream is heard in the same way, and ends the event.
Heard ==
  /\ (Reading /\ ~reenabled /\ arrived > 0) ~> (pc = "read_cb" \/ ~Reading)
  /\ (Reading /\ ~reenabled /\ io.line # "open") ~> ~Reading

\* What is written leaves if the peer goes on speaking, and pauses: after EAGAIN
\* no WRITE filter is armed and every other write finds the bit clear, so that
\* only the end of a read sends the rest (write.c:29, read.c:83).
SentIfHeard ==
  []<>(pc = "read_cb") /\ []<>(pc = "loop") =>
    (io.alive /\ io.out > 0) ~> (~io.alive \/ io.out = 0)

\* Every variable has its type, and the loop does not turn for nothing: when
\* neither side does anything, two reports at most bring nothing.  Except when
\* only the WRITE filter is armed and READ is disabled: deleting the READ filter
\* fails first (utils.c:55).
NoSpin ==
  /\ TypeOK
  /\ wasted < 3 \/ (io.filters = {"WRITE"} /\ "READ" \notin io.ev)
=============================================================================

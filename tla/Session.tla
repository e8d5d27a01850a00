-------------------------------- MODULE Session --------------------------------
(***************************************************************************)
(* A client of the docks server and the host it has asked for              *)
(* (docks_connect.c from on_remote_connect, transfer.c, on read.c and      *)
(* write.c): two connections, each with its event and its context, the     *)
(* reply that tells the client it is connected, and the relay between them *)
(* until one of them ends.  It begins where Handshake ends.                *)
(*                                                                         *)
(* The program has one thread: a step is the whole of what one report of   *)
(* the kernel sets off, with every callback below it.  What the callbacks  *)
(* do is written as operators on `pair`, the two connections, because one  *)
(* of them may end while the other is being served.  The kernel takes as   *)
(* much of an out_buffer as it likes, or fails.  What chunks a byte is in  *)
(* is the business of DocketBuffer, the pointer write_buffer_force keeps   *)
(* that of EventLoop.                                                      *)
(***************************************************************************)
EXTENDS Integers, Sequences, SequencesExt

CONSTANT MaxRead      \* bound on what is read from a side
ASSUME MaxReadAssumption == MaxRead \in Nat

\* A side is a connection: event and ServerContext of the client, event and
\* RemoteContext of the host.
Sides == {"server", "remote"}
Other(e) == IF e = "server" THEN "remote" ELSE "server"
Both(x) == [e \in Sides |-> x]

VARIABLES pair,       \* see TypeOK
          connected,  \* DEVENT_CONNECT has been reported for the remote side
          given,      \* history: how many bytes have been read from each side
          early       \* history: the host spoke before it was reported connected

vars == <<pair, connected, given, early>>

REPLY == 0            \* the reply of send_client_auth_response, as one byte

\* read_address has just begun to connect.
Init ==
  /\ pair = [live |-> Both(TRUE),           \* the event is not freed
             context |-> Both("live"),
             mode |-> Both("connecting"),   \* which callbacks are set
             in |-> Both(<< >>), out |-> Both(<< >>),
             enabled |-> TRUE,              \* the remote event is read
             got |-> Both(<< >>),           \* history: what the kernel took
             lost |-> Both(FALSE),          \* history: the connection ended
             misused |-> FALSE]             \* history: used after free
  /\ connected = FALSE
  /\ given = Both(0) /\ early = FALSE

-----------------------------------------------------------------------------
(* Frees.                                                                  *)

\* DocketEvent_free.
FreeEvent(c, e) ==
  [c EXCEPT !.live[e] = FALSE, !.in[e] = << >>, !.out[e] = << >>,
            !.misused = c.misused \/ ~c.live[e]]

\* ServerContext_free and RemoteContext_free, each of its own context, ...
FreeContext(c, e) ==
  [c EXCEPT !.context[e] = "freed", !.misused = c.misused \/ c.context[e] # "live"]

\* ... and docket_remote_disconnect_finally and docket_server_disconnect_finally,
\* which are given the context of the other kind: ServerContext_free reads past a
\* RemoteContext, RemoteContext_free leaves what a ServerContext holds.
FreeAsOther(c, e) ==
  [c EXCEPT !.context[e] = "misfreed", !.misused = c.misused \/ c.context[e] # "live"]

\* (A slip: the context stays.)
EventGone(c, e) == FreeEvent(c, e)
Gone(c, e) == FreeContext(FreeEvent(c, e), e)

-----------------------------------------------------------------------------
(* Callbacks.                                                              *)

\* docket_server_disconnect_event, docket_remote_disconnect_event (slips: the
\* other side is closed with what it still has to send; it is kept when it has
\* nothing to send; it keeps the callbacks of the relay).
DroppedBoth(c, e) == Gone(Gone(c, e), Other(e))
Lingers(c, e) == [Gone(c, e) EXCEPT !.mode[Other(e)] = "draining"]
KeepsCallbacks(c, e) ==
  LET d == Gone(c, e) IN IF d.out[Other(e)] = << >> THEN Gone(d, Other(e)) ELSE d
Disconnected(c, e) ==
  LET d == Gone(c, e)
  IN  IF d.out[Other(e)] = << >> THEN Gone(d, Other(e))
      ELSE [d EXCEPT !.mode[Other(e)] = "draining"]

\* devent_close_internal with the event_cb of the side: server_event and
\* on_remote_connect before the relay, one of the above during it, and one of
\* the two finally after it, which leaves the event to devent_close_internal.
Closed(c, e) ==
  LET d == [c EXCEPT !.lost[e] = TRUE]
  IN  CASE c.mode[e] \in {"connecting", "replying"} -> Gone(Gone(d, e), Other(e))
        [] c.mode[e] = "relaying" -> Disconnected(d, e)
        [] c.mode[e] = "draining" -> FreeEvent(FreeAsOther(d, e), e)

\* on_connected_write, the reply written.
StartRelay(c) ==
  [c EXCEPT !.mode = Both("relaying"), !.enabled = TRUE,
            !.misused = c.misused \/ ~c.live["remote"]]

\* The write_cb of a side: on_connected_write, remote_disconnect_write,
\* server_disconnect_write or none.
Written(c, e) ==
  CASE c.mode[e] = "replying" /\ c.out[e] = << >> -> StartRelay(c)
    [] c.mode[e] = "draining" /\ c.out[e] = << >> -> Gone(c, e)
    [] OTHER -> c

\* The kernel takes n bytes and would block.  No report brings what it leaves:
\* the WRITE filter goes, and the bytes wait for the next read or write.
Taken(c, e, n) ==
  [c EXCEPT !.got[e] = c.got[e] \o SubSeq(c.out[e], 1, n),
            !.out[e] = SubSeq(c.out[e], n + 1, Len(c.out[e]))]

\* devent_write_data: all it may come to.
Push(c, e) ==
  {Written(Taken(c, e, n), e) : n \in 0..Len(c.out[e])}
    \cup (IF c.out[e] = << >> THEN {} ELSE {Closed(c, e)})

\* docket_server_read, docket_remote_read; other modes have no read_cb.
ReadCallback(c, e) ==
  IF c.mode[e] # "relaying" THEN {c}
  ELSE Push([c EXCEPT !.in[e] = << >>,
                      !.out[Other(e)] = c.out[Other(e)] \o c.in[e]], Other(e))

-----------------------------------------------------------------------------
(* Reports of the kernel.                                                  *)

\* docks_on_remote_connect and send_client_auth_response up to the write.
AwaitsReply(c) ==
  [c EXCEPT !.enabled = FALSE, !.mode["server"] = "replying",
            !.out["server"] = Append(c.out["server"], REPLY)]

\* DEVENT_CONNECT: on_remote_connect, send_client_auth_response.  After that
\* docket_on_event_write sets the filters of the remote event, if there still is
\* one, from its bits (so `enabled` stands for both), and finds nothing to write.
Connect ==
  /\ pair.live["remote"] /\ ~connected
  /\ connected' = TRUE
  /\ pair' \in {Gone(Gone(pair, "remote"), "server")}      \* no local address
                 \cup Push(AwaitsReply(pair), "server")
  /\ UNCHANGED <<given, early>>

\* A name that cannot be resolved or a connection that cannot be begun after
\* that: on_remote_connect without DEVENT_CONNECT.
ConnectFails ==
  /\ pair.live["remote"] /\ ~connected
  /\ pair' = Closed(pair, "remote")
  /\ UNCHANGED <<connected, given, early>>

Reads(e) == pair.live[e] /\ (e = "remote" => pair.enabled)

\* docket_on_event_read with a byte: the read_cb, and, if the event is still
\* there, what is left in its own out_buffer.  A client sends nothing before the
\* reply.
Read(e) ==
  /\ Reads(e)
  /\ given[e] < MaxRead
  /\ e = "server" => REPLY \in ToSet(pair.got["server"])
  /\ given' = [given EXCEPT ![e] = given[e] + 1]
  /\ \E c \in ReadCallback([pair EXCEPT !.in[e] = Append(pair.in[e], given[e] + 1)], e) :
       pair' \in IF c.live[e] THEN Push(c, e) ELSE {c}
  /\ early' = (early \/ (e = "remote" /\ ~connected))
  /\ UNCHANGED connected

\* docket_on_event_read at the end of the stream: the read_cb for what is left
\* in the in_buffer, and the event is closed if it is still there.
End(e) ==
  /\ Reads(e)
  /\ \E c \in IF pair.in[e] = << >> THEN {pair} ELSE ReadCallback(pair, e) :
       pair' = IF c.live[e] THEN Closed(c, e) ELSE c
  /\ UNCHANGED <<connected, given, early>>

Next == Connect \/ ConnectFails \/ \E e \in Sides : Read(e) \/ End(e)

Spec == Init /\ [][Next]_vars

-----------------------------------------------------------------------------
(* Properties.                                                             *)

TypeOK ==
  /\ pair \in [live : [Sides -> BOOLEAN],
               context : [Sides -> {"live", "freed", "misfreed"}],
               mode : [Sides -> {"connecting", "replying", "relaying", "draining"}],
               in : [Sides -> Seq(0..MaxRead)], out : [Sides -> Seq(0..MaxRead)],
               enabled : BOOLEAN,
               got : [Sides -> Seq(0..MaxRead)], lost : [Sides -> BOOLEAN],
               misused : BOOLEAN]
  /\ pair.mode["remote"] # "replying"
  /\ {connected, early} \subseteq BOOLEAN
  /\ given \in [Sides -> 0..MaxRead]

\* Whichever side ends first, and wherever in a callback of the other, no event
\* and no context is freed twice, and none is used after it is freed.
FreedOnce == ~pair.misused

\* No context outlives its event, nor an event its context.
ContextFollowsEvent == \A e \in Sides : pair.live[e] <=> pair.context[e] = "live"

\* One side outlives the other only to send what it still holds.
OutlivesToSend ==
  \A e \in Sides : pair.live[e] /\ ~pair.live[Other(e)] =>
    pair.mode[e] = "draining" /\ pair.out[e] # << >>

\* Every variable has its type, and what was read from one side is sent to the
\* other, in order and, to the client, after the reply, unless that other
\* connection itself ends.  What a host says before it is reported connected
\* stays in the in_buffer until it speaks again or its stream ends, and is lost
\* when its connection fails before that.
Expected(e) ==
  (IF e = "server" THEN <<REPLY>> ELSE << >>) \o [i \in 1..given[Other(e)] |-> i]
Delivered ==
  /\ TypeOK
  /\ \A e \in Sides :
       /\ IsPrefix(pair.got[e] \o pair.out[e], Expected(e))
       /\ /\ pair.mode[e] \in {"relaying", "draining"} /\ ~pair.lost[e]
          /\ ~(early /\ pair.lost[Other(e)])
          => pair.got[e] \o pair.out[e] \o pair.in[Other(e)] = Expected(e)

\* What gives a context back is the function of its own kind: "ServerContext
\* *server = ctx" (transfer.c, docket_server_disconnect_finally).
FreedAsItself == \A e \in Sides : pair.context[e] # "misfreed"
=============================================================================

# devent and docks in TLA+

This directory models the C sources next to it: `devent` (an event loop over
kqueue, with buffered connections and asynchronous name resolution), the
containers of `dlib` it is built on, the DNS codec in `dns`, and `docks`, a SOCKS5
server and client that run on `devent`. TLC checks the models on small instances;
TLAPS proves the theorems of the eight modules named `...Proofs` for every value of the constants.

## The system

The program has one thread. `Docket_loop` waits in `kevent()`, takes a batch of
reports and serves each one; a handler calls back into the application, which may
call anything of the API, `DocketEvent_free` of the event being served included,
and returns into the middle of the handler. The hard part of the code is therefore
not parallelism but re-entrance: objects freed and descriptors reused below a
handler that has not finished.

| Component | State | Operations | Interacts with | Hard behaviour | What makes it correct |
|---|---|---|---|---|---|
| docket (`devent/docket.c`) | `listeners`, `events`, `dns_events` by descriptor | add, find, remove | everything looks objects up here | descriptors are reused at once | what it holds is alive and has that descriptor |
| event loop (`loop.c`) | the batch of reports | `kqueue_loop` | kernel, all handlers | a report outlives its descriptor | a stale report harms nobody |
| events (`event.c`, `event_def.h`) | fd, `connected`, `ev` bits, two buffers | new, free, write, write_buffer, write_buffer_force, set_read_enable | docket, kernel | freed in callbacks | freed once, never used after |
| reading (`read.c`), writing (`write.c`), `utils.c` | none of their own | on_event_read, on_event_write, write_data, close_internal | events, buffers, callbacks | callbacks in the middle | look the event up again after each callback |
| accepting, listening, connecting (`accept.c`, `listener.c`, `connect.c`) | none | accept, create_listener, connect, connect_hostname, create | kernel, docket | half-done connects | each descriptor has one owner; the outcome is told once |
| name resolution (`dns.c`) | `DocketDnsEvent`: socket and event | write (query), read (answer), free | docket, events, `dns/` | an event freed while its query runs | query and event point at each other |
| buffers (`buffer.c`) | chunks, count; a pool shared by all | write, read, peek, read_full, peek_full, send, moveto, free | events, sockets | recycled chunks, partial sends | a FIFO of bytes |
| containers (`dlib/`) | linked list, sparse array, hash map, hash set, arrays | add, get, remove, resize | buffers, docket, configuration | boundaries | maps and sequences |
| DNS codec (`dns/c_dns.c`) | none | pack, parse | name resolution | compressed names | parse reads what pack writes |
| SOCKS server (`docks/method.c`, `auth.c`, `docks_connect.c`, `server.c`) | `ServerContext`, `RemoteContext` | greeting, authentication, request, reply | two events | fragmented input, either side fails | the request does not depend on how it is split; contexts freed once |
| SOCKS client (`docks/docks_client.c`) | `ClientContext` | the other half of the handshake | three events | server fails in the middle | the local client is told |
| relay (`docks/transfer.c`) | the two contexts | copy, disconnect | two events | both sides leave | the rest is delivered; freed once |

## Modules

| Module | Models | Status |
|---|---|---|
| `ByteQueue` | the abstract specification of a buffer: a FIFO of bytes, and the result of each call | done |
| `DocketBuffer` | `buffer.c`: chunks with identity, lists, counts, the shared pool | done |
| `MCDocketBuffer`, `DocketBufferProofs` | instances of it; the theorems | done |
| `EventLoop` | `docket.c`, `loop.c`, `event.c`, `read.c`, `write.c`, `accept.c`, `listener.c`, `connect.c`, `dns.c`, `utils.c`: lifetimes and descriptors | done |
| `MCEventLoop` | instances of it | done |
| `EventLoopProofs` | the inductive invariants of lifetimes and of descriptors, and the theorems | done |
| `KeyMap` | the abstract specification of a sparse array: a map, and the result of each call | done |
| `SparseArray` | `c_sparse_array.c`, the binary search step by step | done |
| `MCSparseArray`, `SparseArrayProofs` | an instance of it; the theorems | done |
| `Dialogue` | the abstract specification of the SOCKS handshake: whole messages | done |
| `Handshake` | `server.c`, `method.c`, `negotication.c`, `auth.c`, the reading half of `docks_connect.c`, on the loop of `read.c` | done |
| `MCHandshake` | an instance of it | done |
| `Session`, `MCSession` | the answering half of `docks_connect.c`, `transfer.c`, the two contexts, on `read.c` and `write.c`; an instance of it | done |
| `SocksClient`, `MCSocksClient` | `docks_client.c` and the client halves of `method.c`, `auth.c` and `docks_connect.c`; EXTENDS `Session`, which it hands over to | done |
| `DnsCodec` | `c_dns.c`: packing a query, reading a name, generating an answer; what names and answers are to anybody else | done |
| `Resolver`, `MCResolver` | one query: `dns.c` over `DnsCodec`, with a name server and a network | done |
| `HashMap`, `MCHashMap` | `c_hash_map.c`, against the same `KeyMap` | done |
| `EventIO`, `MCEventIO` | one connected event, its application, the kernel and the peer: `event.c`, `read.c`, `write.c`, `utils.c` | done |
| `SessionProofs` | the theorems about the two connections, and about the client that begins a session | done |
| `HandshakeProofs`, `HashMapProofs` | the theorems about these two | done |
| `NetworkProofs` | the theorems about `EventIO`, and about `Resolver` over `DnsCodec`: the two components that wait for the network | done |
| `StreamProofs` | no code: facts about sequences that are cut and put together, which the proofs share | done |

### DocketBuffer

`chunk` is the memory of the chunks (`pos`, `len`, `data`), `list[b]` the linked list of
buffer `b`, `length[b]` its count, `pool` the static `buffer_pool`. One action per function of
`buffer.h`. Chunks have identity, because that is where the hazards are: a chunk drained by
one connection is the next chunk of another. `DocketBuffer_write` always starts a new
chunk, as the code does. Bytes are numbered as they are written, so order, loss and
duplication are visible. `ret` is the interface: which call returned what.
`ShortSend` tells the two kinds of socket apart: `SSL_write` takes the whole chunk, `send()`
may take a part. `DocketBuffer_free` is followed by a `DocketBuffer_new` under the same name.

### EventLoop

A step of the model runs from one callback to the next. `stack` holds the frames that wait:
`App` is a callback of the application (any of read_cb, write_cb, event_cb and the listener's cb;
they differ in nothing the model sees), and below it the place where a handler waits:

| Frame | Code that waits |
|---|---|
| `main` | `main`, before `Docket_loop` |
| `read`, `eof` | `docket_on_event_read`, in its loop and after its final read_cb |
| `close` | `devent_close_internal`, after event_cb |
| `connect` | `kqueue_loop`, after `DEVENT_CONNECT` |
| `force` | `DocketEvent_write_buffer_force`, with the event pointer and the bits it saved |

Handlers that return right after the callback (`devent_write_data`, `docket_accept`, the failures of
`dns.c`) leave no frame. While an `App` frame is on top, any `App...` action may
happen, so the application is every application; that includes two writes from
inside a write_cb, a free of the event being served, and a connect that gets the number just closed.

The kernel is `file` (what a descriptor is; the lowest closed number is handed
out) and `filters` (what is armed; closing disarms). `kevent()` returns any armed filters,
ready or not: a superset of what a real kernel reports. A system call returns any
of the outcomes the code tells apart.
A socket that `bind()` or `listen()` refuses stays open (`AppListenFails`; `file` is "unbound"), because `listener.c` returns without closing it.
`devent_update_events` passes READ first and then WRITE, and deleting a filter that is not armed
stops at that change (`Applied`).

Data is abstracted to `pending`: whether out_buffer holds anything. What buffers do is
the business of `DocketBuffer`.

Taken as given: the callbacks are set (a NULL callback is one that does nothing, except
that after a NULL event_cb `kqueue_loop` does not look the event up again, which makes no difference as
nothing has happened); `main` makes its events and listeners with new descriptors (`fd` = -1) or
with stdin; descriptors and memory do not run out (an action that needs one waits);
`Docket_loop` is never told to stop (nothing in the library closes the kqueue);
`fcntl` on a descriptor just opened does not fail (`accept.c:30`, `connect.c:54`, where the code would leave it open). A
store into freed memory (`ResumeForce`) has no effect on the objects of the model; the
property `KeptPointerLive` is about it. It does not hold (see Other disagreements), and no run checks it.

### SparseArray

`nodes`, `len` and `cap` are the array's fields; `nodes` ends at `len`: what the storage above it holds in C is no state
of the model, and a search that went there would stop the run with an error. A call is one step, or, where it searches, a
step per turn of the loop in `find_index` (`start`, `end` and `mid` are its variables) and one to finish.
`Complement` is the C operator `~` on the result. Allocation does not fail and integers do not wrap: an array of
2^62 entries fits in no memory. `Map` is the refinement: the entries below `len`, as a function.

### Handshake

One client, whose messages arrive in any pieces (`Arrives` hands over any prefix of what is on the wire). A step
is one run of the read callback with all it calls, on the in_buffer `in`; `read_cb` is the callback the event
has installed. What a callback writes stays in the out_buffer, because `docket_on_event_read` switches writing
off first; `Flush` is the `devent_write_data` that follows the loop, and `heard` counts what has been sent by it.
`EndLeft` and `End` are the end of the stream: the callback once more with what is left, then the close.
`Stage` reads the progress of the dialogue off the state of the server, and `Dialogue` says how whole messages move it.
Three kinds of piece the server does not survive, and `Misleads` says which: a domain name in two pieces
(`CutsDomain`), a login of which nothing of the password has arrived (`CutsLogin`), and a length that is negative
as a char (`LongLogin`). They do arrive; from then on the dialogue is `misled` and nothing is promised of it.
The uninitialised password length (`UnreadPassword`) is a choice over the verdicts it can
lead to; the crash that a huge value can lead to as well is not a state of the model.
The code keeps names, passwords and domain names as C strings, so it goes by the bytes in front of the first 0 (`CString`);
so does `Dialogue`, which is about what this server understands. User tables are read from lines of text and hold no 0 byte.
`AnswersHeard` says that what the server answers leaves the out_buffer before it closes of its own accord. It has one exception, which it names:
the answer that no method is acceptable.

Not in the model: a client that sends before it is answered, and one that repeats a login. Of the second the code
is lenient: after a refused login (`Stage` "refused") `docks_connect_read` is installed all the same, and a client
that goes on is served. A command other than CONNECT gets no answer (`Stage` "ignored"; the code marks it TODO).
The context of a client that leaves before its request is complete is not freed (`server_event_cb` is empty).

### Session

Two connections, `"server"` (the client's event and its `ServerContext`) and `"remote"` (the event of the host and its
`RemoteContext`), from the moment `read_address` has begun to connect. `mode` is which callbacks a side has:

| Mode | Callbacks of the client's event | of the host's event |
|---|---|---|
| `connecting` | `server_event` | `on_remote_connect` |
| `replying` | the same and `on_connected_write` | (stays `connecting`) |
| `relaying` | `docket_server_read`, `docket_server_disconnect_event` | `docket_remote_read`, `docket_remote_disconnect_event` |
| `draining` | `server_disconnect_write`, `docket_remote_disconnect_finally` | `remote_disconnect_write`, `docket_server_disconnect_finally` |

A step is what one report sets off. A callback of one side writes to the other, which may fail and free both, so
callbacks are operators from `pair` to `pair` and compose as the calls do: `Read` is `ReadCallback`, then `Push` of the
side's own out_buffer if its event is still registered. `Push` is `devent_write_data`: the set of all it may come to.
No WRITE report sends bytes later: after EAGAIN the WRITE filter is deleted, and only the next read or write of the
same connection tries again (`write.c:29`; `EventIO` is about that). `given`, `got`, `lost`, `misused` and `early` are histories.

Taken as given: the client is silent until it has the reply; names are resolved in time (`ConnectFails` is the other
outcome); no other connection gets the numbers of these two within a step. Stores into an event that
`DocketEvent_write_buffer_force` keeps are the business of `EventLoop` (`KeptPointerLive`). A misused context
(`session_finally`) is undefined behaviour in C; the model marks it and goes on, which is enough for `FreedAsItself`,
and the other properties say nothing of what the heap does after it.

### SocksClient

The docks client has a local client, which its own half of `Handshake` has brought to a request, and connects
for it through a SOCKS server upstream. The module is the handshake with that server: `stage` is the read callback of
the upstream event, `inbox` its in_buffer, `asking` its out_buffer, and `script` the answers the server will give,
which `UpstreamAnswers` sends and `UpstreamRead` receives in any pieces. The two connections are `pair` of `Session`, so that `OnConnect`, the hand-over
(`ClientContext` freed, `RemoteContext` made, callbacks exchanged), is followed by the actions of `Session` themselves (`Relay`).
What the host says behind the server comes in the same stream as the server's last answer; `OnConnect` leaves it
in the in_buffer, where `Session` finds it.

The local client may leave at any time (`LocalEnds`): `server_event_cb` is empty and its event is closed, with
nothing telling the upstream side. When the server fails (`UpstreamEnds`) or turns the client down, the local client is told
nothing, and stays until it leaves by itself (stages `lost` and `failed`). `fault` records the two ways the code comes to use
freed memory: the local client left during the handshake, and the first message could not be sent.

The end of the stream is three things in the code and in the module: the read callback once more if the in_buffer holds anything
(`UpstreamLastRead`), which may act on answers that were left there and hand over, and then the close, of an upstream event (`UpstreamEnds`)
or of the `remote` side of the session just begun (`EndsOnceHanded`).
The length of the bound name in a reply is a signed char (`docks_connect.c:387-398`): above `CharMax` (127 in C) it is negative, and `2 + length` bytes
are read into an array of that size. `ReadLongName` is what that comes to: one byte for a length of -1, and otherwise undefined, so
nothing taken, for ever waited, or the end of the program (`Crashes`). `Misread` names these replies in the properties that do not hold after them.

Taken as given: the messages of the client are symbols, because what it asks for is its own; its user name, its password and the host are shorter than
128 bytes (`method.c:101-106` and `docks_connect.c:442-444` cast their lengths to char, and the write would be huge).

### DnsCodec and Resolver

`DnsCodec` has no state. Its first half is `c_dns.c`: `DnsNameFormat`, `Pack`, `GetName` (`get_name`, through
pointers: the text of a name, the offset of its first label and the bytes it takes, -1 when it fails), `InetAnswer` (an answer
of `c_dns_gen_inet_response`). Its second half is written from RFC 1035 and not from the code: names as sequences of
labels (`HostName`) and their texts (`TextsOf`: with a final dot or without), a reader of them (`LabelsAt`), and a writer
of messages that compresses or does not. It is external, and the yardstick of the first half. A message being written is a draft: its
bytes, the names it holds so far (`known`), where each question and answer begins (`starts`), and the answers (`records`).
Both readers take at most `MAX_STEPS` steps, a label or a pointer each; no name that the writer makes takes more.

`Resolver` is one query: `DnsWrite` (`devent_dns_write`), a network that may `Lose` a datagram, an answer from a name
server (any records, put together one at a time) or from `c_dns_gen_inet_response`, and `DnsRead`, after which `c_dns_parse_a` is taken record by
record, because the cursor between two records is where it would go wrong. Questions and records have the fields of their types (`ResolverAssumption`), and
NS, CNAME, PTR and DNAME records a name for their data (`NameTypes`); the data of any other type is any bytes, and the code takes it for a name. Where the labels found there lead out
of the message or to a byte that is no length (`Strays`), `get_name` reads memory behind the message, and whether it fails is a choice (`NameFails`).
What name servers and others write ends within `MAX_MESSAGE` = 256 bytes: `get_name` shifts the high bits of a pointer by 4
instead of 8, so that beyond 256 it reads another name. Who owns the query while all this goes on is `EventLoop`.

### HashMap

`nodes` is the table of chains, `cap` and `count` the fields. A call is one step; `c_hash_map_get_next` is a step of
its own, so that a walk over the map can be looked at. Hashes are any function of the keys. When the table doubles,
the code tests the bit above the one that decides (`NewIndex`), and a node may go where no search looks:
`Astray` are the keys this has happened to. The refinement of `KeyMap` (`IsMap`) is about all other keys, at every
step; `StraysOnlyByBit` says that no key goes astray in any other way. A pointer handed to `put` is not in
the map already (`Fresh`), as in `server_config.c:98`. `free_cb` tells whether a callback is set, and `freed` is the set of pointers given to it in the last step:
`FreedAsLeft` says that they were in the map before it, at one place only, and are not in it any more, so that none is freed twice.

### EventIO

`EventLoop` leaves to the kernel what it reports when, and so can say nothing of what must happen. `EventIO` has one
event and a kernel that reports what is so: READ while bytes have `arrived` or the stream has ended, WRITE while
the send buffer has `room`. `io` is the event with its bits (`ev`), its armed `filters` and the length of its out_buffer;
the two queues to the peer are lengths. A turn of the loop in `docket_on_event_read` is a step, and `read_cb` a
state in which the application may do anything. `wasted` counts reports in a row that brought nothing, and `reenabled`
remembers that reading was switched on again when the filter had gone. `devent_write_data` sends all there
is room for and then meets EAGAIN (`WouldBlock`); that a partial send loses bytes is the business of `DocketBuffer`.

## Runs

`CallsReturn`, `Concludes`, `HeardUnlessLost`, `Heard` and `SentIfHeard` are liveness properties; all others are safety. All runs but
`sparse_array` set `CHECK_DEADLOCK FALSE`: the program may come to rest (the bounded number of bytes is written, both
sides of a session are gone, a query has ended, nothing is armed and the loop sleeps in `kevent()`). The type invariant of a module is a run's property
of its own only in `loop` and `sparse_array`; elsewhere it is the first conjunct of an invariant that says so
(`LengthAgrees`, `NothingHeldBack`, `Delivered`, `LikeAnySession`, `ReadsInStep`, `WalkComplete`, `NoSpin`).

| Run | Bounds | Distinct states | Question and answer |
|---|---|---|---|
| `buffer` | 2 buffers, 4 chunks of 2 bytes, pool of 1, lengths 0..3, 4 bytes in all | 11801 | Are the buffers byte queues? Yes, as long as sends take whole chunks. Reads and peeks end inside, at the end of and beyond chunks; the pool is empty, in use and over its limit. |
| `buffer_short_send` | the same, partial sends | | Violated: `DocketBuffer_send` drops the part of the header chunk the socket did not accept. |
| `loop` | 3 descriptors, 2 events, 1 query, batches of 2, 3 frames; no `ConnectMayFail`, no `ListenLate` | 2065301 | Do registries, objects and descriptors stay in step? Yes, but for sockets that could not be made listeners, which stay open. Two events and one query over three numbers are enough for a number to pass from any kind of owner to any other while a report for it is in the batch. |
| `loop_rough` | 2 descriptors, batches of 1, 5 frames, failing connects, listeners made by callbacks | 2883556 | Is a connection reported once there, too, with a handler in a callback of a handler in a callback of a handler (close inside write inside force)? Yes. |
| `sparse_array` | 4 keys, 2 values, initial storage of 2 | | Is the array a map, and does every search end? Yes. The storage grows twice; the array is empty, has one entry, and a searched key is below, between and above all. |
| `socks` | with 1 user and with none; 5 greetings, 7 logins (one with a name of 128 bytes, one with 0 bytes in name and password), 9 requests (one for a name with a 0 byte); connections that cannot be begun | 26079 | Does the server understand whole messages however they are cut, hold nothing back, answer before it closes and come to an end? Yes, until a piece misleads it, and but for the answer that no method is acceptable. |
| `session` | each side says at most 3 things | 1116 | Are both connections freed once, in step with their contexts, and is everything delivered? Yes. Three things are enough for one to be in the in_buffer, one in the out_buffer and one at the kernel. |
| `session_finally` | the same | | Violated: the callback for the end of a draining side frees a context of the other kind. |
| `client` | 4 answers to the greeting, 3 to a login, 8 replies; `CharMax` 7; each side says at most 2 things, 1 of them in one piece with the reply | 57476 | Does the client ask in turn, hold nothing back and hand over a sound session however answers are cut, and is memory freed once? Yes, but after a bound name whose length is misread, and for the two faults that `FreedUnlessFault` names, all of which the run reaches. What is held back by a misread length is handed over at the end of the stream, too. |
| `resolver` | 2 names, each with and without a final dot, answers of up to 3 records of 9 (an AAAA, an MX and one whose data is cut short among them), queries of up to 3 of 5 questions about 3 names, with and without compression | 127676 | Is the name asked for the name given, is the answer read in step, is the address connected to the first, and does the event hear of the end? Yes, unless a datagram is lost or a record's data that is no name ends the reading. Names that share endings make pointers that lead into names that end in pointers. |
| `hash_map` | 3 names with the hashes -8, 10 and 4, first capacity 2, 5 puts counted | 57089 | Is the map a map, are pointers freed once, is a walk complete? Yes, but for keys astray. The table doubles twice; one name goes astray at the first growth and comes back at the second, one goes astray at the second; all three share a chain at first. |
| `event_io` | a send buffer of 2, a receive buffer of 2, 3 bytes in the out_buffer, 4 bytes written in all | 16671 | Is what arrives heard, is what is written sent, and does the loop come to rest? The first but for a READ filter lost (`reenabled`), the second while the peer goes on speaking, and the third but in one state. The out_buffer can hold more than the kernel takes at once. |

`FdOwned`, `ArmedIsKnown` and `ClosedByOwner` are checked, and proved, with `ConnectMayFail` and `ListenLate` false.
With a connect that fails at once the event keeps the number of a closed socket, and the next owner of that
number meets it. A listener made by a callback may
get a number for which a WRITE report is still in the batch, and `close(efd)` in `loop.c` closes
it. Every program in the repository makes its listeners in `main`.

Bounds: `MaxDepth` limits the frames (a write_cb that writes again nests without end);
`MaxBatch` stands for MAX_EVENT = 16; the numbers of objects are the model's. `MaxBytes`, `MaxRead`, `MaxSaid`, `MaxArrived`, `MaxOut` and `MaxWrites`
bound the bytes of a behaviour, `MaxRecords` the answers of a message and `MAX_MESSAGE` its length, `MaxCount` the entries counted by a hash map. Every symmetric set holds model values that
only safety properties are checked over. `CharMax`, the greatest value of a char, is 127 in `MCHandshake` and 7 for the client, so that
lengths of 8 to 15 are the negative ones and replies stay short.

The clients of `MCHandshake` do every single thing the code tells apart once: each error of a greeting (version, no
methods, none acceptable), of a login (version, unknown name, wrong and empty password, long name) and of a request
(version, reserved byte, type, command), and each type of address; the pieces are all possible ones. The servers of
`MCSocksClient` do the same for the answers, and two are bound to names that are too long. Answers that are not whole are the
business of the theorem `ClientFreedUnlessFault` alone.

### Fairness

- `SparseArray`: a call that has begun goes on (one thread, no wait in it).
- `Handshake`: the client sends what it is asked for, the network delivers in the end, and `docket_on_event_read` runs to its
  end. That anybody leaves is not assumed.
- `Resolver`: the loop serves a WRITE and a READ report of the query's socket, `sendto` succeeds in the end, who is asked answers
  unless a datagram is lost, and parsing goes on.
- `EventIO`: the loop runs while there is something to do (weak), a READ filter that is ready again and again is reported (strong: `kevent()` with 16
  places may report others first, but kqueue serves them in turn), and the peer takes what it is sent (weak). That the
  peer says anything is not assumed; `SentIfHeard` needs it, and says so in its hypothesis.
- The buffers, `EventLoop`, `Session`, `SocksClient` and `HashMap` have safety properties only.

### Other disagreements

Met while modelling, and not listed as runs of their own. The first group is visible by changing one bound or adding one
property to a configuration:

- `DocketEvent_write_buffer_force` stores the bits it saved into an event that a callback may have freed (`devent/event.c:127`).
  With `KeptPointerLive` among the invariants of `MCEventLoop.cfg` (and 4 frames), TLC shows it.
- A connect that fails at once after the name was resolved is reported to nobody: `devent_dns_read` ignores the
  result (`devent/dns.c:185`). With `ConnectMayFail` true, `FailedConnectReported` fails.
- `DocketEvent_free` does not unregister an event of descriptor 0 (`devent/event.c:183`); `test/ssl_telnet_test.c:49` makes one.
  With 0 in `Fd`, `RegistryLive` fails.
- A message with an AAAA record of `fe80::...` in front of an A record makes the event be told of an error, although there is an address: the data of the first is taken
  for a name (`dns/c_dns.c:290`). Without `StopsAtData` in `AddressesRight`, the run `resolver` fails.
- The chunk pool holds MAX_POOL_SIZE + 1 chunks after releases (`<=`, `devent/buffer.c:72`) and any number after
  `DocketBuffer_free` (`devent/buffer.c:97`). It harms no buffer.

The second group is part of the models, as exceptions the properties name:

- A domain name that arrives in two pieces is half thrown away, and the request never answered (`docks/docks_connect.c:208`;
  `CutsDomain`), although the code says "wait more data for domain".
- A login cut between name and password is judged by memory never written (`docks/auth.c:44-45`; `CutsLogin`), and one with a
  name of 128 bytes or more is waited for for ever (`docks/auth.c:32`; `LongLogin`).
- A socket that `bind()` or `listen()` refuses is not closed (`devent/listener.c:37-45`; "unbound" in `FdOwned`).
- The answer that no method is acceptable goes down with the event: it is only in the out_buffer when
  `docks/method.c:50` frees the event (the exception of `AnswersHeard`).
- A reply that grants the request with a bound name of 128 bytes or more is misread (`docks/docks_connect.c:387-398`; `Misread`).
- When the hash table doubles, the bit above the one that matters is tested (`dlib/c_hash_map.c:149`; `Astray`): names are
  not found again, and a second put of one makes a second entry.
- After EAGAIN the WRITE filter is deleted (`devent/write.c:29`; the hypothesis of `SentIfHeard`): what is left is sent only when the peer
  speaks. For `Session` it means that a reply of which the client's socket takes a part is never finished.
- `devent_set_read_enable` does not arm the READ filter again that was deleted while reading was off (`devent/event.c:81`; `reenabled`).
- An event that does not read and whose WRITE filter is armed is reported for ever: deleting the READ filter that is gone fails
  before the WRITE filter is looked at (`devent/utils.c:55`; the exempt state of `NoSpin`).
- A peer that sends faster than it is read keeps `docket_on_event_read` in its loop, and nobody else is served
  (`devent/read.c:44`; the second hypothesis of `SentIfHeard`).
- A lost datagram is not asked for again, and nothing times out (`devent/dns.c:103`; `lost`).
- The local client that leaves while the docks client shakes hands with its server (`docks/docks_client.c:52`), and a first message that cannot be sent
  (`docks/method.c:134`), lead to the use of freed memory (`fault`).
- The local client is not told when the server upstream fails (`docks/docks_client.c:62`) or turns it down.
- A session that drains is given back by the function of the other kind of context (`docks/transfer.c:47`; `session_finally`).

The rest is described here only:

- `docks_connect_read` sets the read callback of an event that `read_address` may have freed (`docks/docks_connect.c:313`).
- For a domain name with a 0 byte, `docks/docks_connect.c:234` copies `domain_len` bytes from the shorter string that `strndup` made (227).
- `ServerContext_free` frees what the context points at and not the context (`docks/server_context.c:8`); every session leaks it.
- The reply says success before `DEVENT_CONNECT` is known to mean it: kqueue reports WRITE for a refused connection too, and
  `devent/loop.c:90` does not ask for the error of the socket.
- What a host says before the loop reports it connected is kept until it speaks again or its stream ends, and lost if its connection fails before that
  (`devent/loop.c:68`; `early` in `Session`).
- The text of an IPv6 address has no brackets (`docks/docks_connect.c:188`), so `devent/connect.c:132` takes it for a domain name.
- In `dns/c_dns.c`: the offset of a pointer is shifted by 4 instead of 8 (line 100); what is neither an address nor a CNAME
  is noted as an alias, and a CNAME is not (289); a generated answer of an IPv6 address is typed A (414); the lists
  of a hostent are allocated with the count in network order (258); whatever follows the questions is overwritten by a generated answer;
  the identifier of an answer is not compared with that of the query; an empty label ends a name; a pointer that follows a label and leads
  to a root, or nowhere, adds ".(null)" to the name (107-114), which `Joined` leaves out as nobody writes such pointers; names that lead in circles are followed for ever.
- In `dlib`: `c_hash_map_clear` forgets the callback that frees values; `count` counts puts that replace (193);
  `c_hash_map_free` does not free the map itself; growing a `CHashSet` writes past its storage (`c_hash_set.c`).

## What is proved

**Lifetimes** (`EventLoopProofs`), for every set of descriptors without 0 (`NoStdin`; with 0
`RegistryLive` fails), every number of events and queries, every batch and every depth, with or without
failing connects and late listeners: `TypeCorrect` (freed events are never written to through the registries), `RegistryAlwaysLive`, `DnsAlwaysLinked` and `ReportedOnce`.
All four follow from `LifetimesInvariant`. `Lifetimes == TypeOK /\ RegistryLive /\ DnsLinked /\ ToldOnce /\ Untold` is
inductive and none of its parts is alone: a handler frees what the registry leads to, so `RegistryLive`
is needed for the types of freed objects; freeing an event frees its query, so that the query's entry
does not dangle needs `DnsLinked`; that the query found in a registry has an event needs `RegistryLive`; and `ToldOnce` needs to know
which events have not been told yet (`Untold`).
The proof has one lemma per action. The handlers that only set bits satisfy `SameObjects` and go
through `QuietStep`; `FreeEventSafe`, `NewEventSafe` and `DnsGone` are the three ways a registry changes.
The assumption is `LoopAssumption` (descriptors are natural numbers, NULL is no object).

**Descriptors** (`EventLoopProofs`): `DescriptorsOwned`, `ArmedAlwaysKnown` and `OwnersClose`, for every constants that are
`Orderly` (`NoStdin`, no connect that fails at once, no listener made by a callback; without either of the last two they do not hold, as above).
Sockets that `bind()` or `listen()` refused have no owner (`FdOwned` says so), and the theorem says that nothing else takes their numbers.
The invariant `Descriptors` adds to `Lifetimes` that every armed descriptor is open, that a live query has a socket, and where `main` can
be: a WRITE report that finds nobody closes its descriptor, so it must not be that of a listener made since; and
listeners are made only while `main` itself runs, when the batch is empty.

**The sparse array** (`SparseArrayProofs`), for every set of integer keys, every set of values and every initial capacity the
module allows: `SearchAlwaysCorrect`, `ArrayTypeCorrect` and `ArrayImplementsMap` (`Spec => ImplementsMap`, a refinement).
The invariant is `Searchable == TypeOK /\ Sorted /\ SearchCorrect`: insertion keeps the array sorted only because the search ended
at the right place, and the search ends there only because the array is sorted. The refinement adds one lemma per call about `Entries`.

**Buffers** (`DocketBufferProofs`), for any sizes of chunks and pool, any number of buffers and of bytes (`BufferAssumption`):
`ChunksOwnedOnce` and `LengthsAgree`, whatever part of a chunk a send takes; `BuffersAreQueues` (`Spec => ImplementsByteQueue`, the
refinement) and `WholeSendsLoseNothing` (`Spec => NoByteLost`) for `~ShortSend`. The run `buffer_short_send` shows that the last two need it, so the
short send is the one cause of the loss it finds. The invariant is `Inv`: no chunk is in two places (`Owned`), each list
holds chunks that are not empty (`Loaded`), and each count is the length of the content (`Counted`). One lemma per call says that
it keeps `Inv`, and what it does to `View`, the bytes each buffer stands for: takes a prefix off (`Shorter`), puts bytes behind (`Extended`),
or moves them. The bytes of a list are a `FlattenSeq` of what its chunks hold; that a read ends in the chunk the code stops
at is a fact about where the lengths of the prefixes pass n (`LenIn`, `Reached`).

**Sessions** (`SessionProofs`), for any amount of data: `SessionFreedOnce`, `SessionContexts`, `SessionOutlives`, from `SessionInvariant`.
The callbacks are operators from `pair` to `pair`, and so are the lemmas. `Sound` is what holds between two callbacks (both sides live, or
one of them, draining); `Settled`, what holds between two steps, adds that who is alone has something to send; `Quiet`, before the
connection is made, that nothing has passed yet. The lemmas are stated for data from any set `S`, so that the client can use them.
`SessionDelivered` (`Spec => []Delivered`) adds `Passing`, which follows the data: what has been sent to a side and what waits in its out_buffer
(`Sent`) is a prefix of the reply and what was read from the other side (`Due`), and together with what is in the other's in_buffer it is all of that as long as
nothing has been lost (`Through`). `Delivered` alone is not inductive: that a freed side holds nothing and that a side drains only when the other is
lost (`Ends`), and what lies in an in_buffer before the relay begins (`Before`), are what each callback relies on.

**The client** (`SessionProofs`), for whatever sequences of bytes a server answers with (`SocksClientAssumption`; nothing has
to be well formed, and any of it may be left for the last read callback): `ClientFreedUnlessFault`. Until the hand-over the pair is as a session before its connection; `OnConnect` leads to a `Settled` pair; from then on
the lemmas about sessions apply with `S == Int`.
For all answers framed as SOCKS frames them (`WholeAnswers`: as long as they say they are; what they say is free), however they are cut: `ClientAsksInTurn`,
`ClientHoldsNothingBack` and `ClientLikeAnySession`. Their invariant is `Place`: what is in the in_buffer and on the wire is
the rest of the answer the read callback is for (`At`), and what is in the in_buffer alone is less than it waits for (`Short`);
unless its bound name is `Misread`, which the last two exempt;
before the hand-over nothing has passed (`Unused`), after it `Passing` holds (`Handed`), with what the host said behind the last answer as its first words.

**The server's handshake** (`HandshakeProofs`), for any user tables without 0 bytes and any sequences of bytes (`HandshakeAssumption`),
for all messages framed as RFC 1928 and 1929 frame them (`WholeMessages`; wrong versions, methods, logins and commands included), however
they are cut: `NothingIsHeldBack`, `AnswersAreHeard` and `HandshakeIsDialogue` (`Spec => ImplementsDialogue`, the refinement). Their invariant is `Whereabouts`, with `At` and `Short` as for the
client, and `InTurn`: a client speaks when it has heard all it was answered, so that whatever a callback answers when it closes is the only thing not yet sent. One lemma per callback shows that it keeps them and is a step of `Dialogue` or none, and `docks_connect_read`, which calls
`read_address`, is put together from two. Without whole messages what is left of one is read as the next, and no dialogue of whole messages could be meant.

**The loop at rest** (`NetworkProofs`), for any sizes of buffers and any number of bytes (`IOAssumption`): `LoopNeverSpins`. A report that
brings nothing takes away something it could come from: `Owed` counts what is left of it (a WRITE report to come, an unwanted READ report to come),
and `wasted + Owed <= 2` is inductive but in the exempt state `Stuck`, which is never left by a report. It needs `ReadIsDue`: a READ
report is never stale.

**Name resolution** (`NetworkProofs`), for all names to connect to, queries of others, records, addresses known to the callbacks and errors
(`ResolverAssumption`), compressed or not: `QueryAsksForDomain`, `AnswerReadInStep`, `HostAddressesRight` and `OwnAnswersAreRead`, all
from `ResolverInvariant`. Names are read by functions that recurse through the pointers in a message. Such a function goes from a set to itself, and is
unfolded as an iteration (`IterationSteps`), a step of which reads a label, a pointer or the end. The rest goes from bytes to
messages. `c_dns_pack` writes the wire format of the labels (`NamePacked`). A name is in a message (`NameIn`) when it ends there, or
is known, or points at one that is; a known name fits (`Fits`) when a label lies where it is said to be and the rest of the name
is in the message behind it; and what fits is read back by both readers (`GetNameReads`). What is written at the end of
a message leaves what is in it (`Keeps`) and puts the next name, question or record there (`NameWritten`, `QuestionWritten`,
`RecordWritten`, `OwnAnswerWritten`), so that a message is a `Layout`: questions and answers, each where the one before ends.
None of the four properties is inductive. `ResolverInv` says what the query is (`QueryAsks`), which layout the draft of a name server is
(`ServerLays`), what `c_dns_gen_inet_response` has read (`GenReads`) and written (`GenLays`), which layout the message is and that
the cursor is where the next of its items begins (`MessageIs`), that the hostent holds the items before it (`HostReads`),
and which states this leads to (`StateFollows`: an error only where no address has been asked for or sent, or at data that is no name). A pointer read right needs each name it leads to read right, in turn; that is why the
names known are part of a layout, and why they must begin below 256.

**The hash map** (`HashMapProofs`), for any keys, values, hashes and initial capacity (`HashMapAssumption`): `LoadAlwaysBounded`, `HashMapIsMap` (`Spec => IsMap`, the
refinement but for keys astray), `StraysByOneBit`, `FreesWhatLeft` and `WalksComplete`. A table is looked at as the set of its places, and what a
call does as a function that says where each node was before (`Copied`), so that growing (`RelocatedCopied`) and removing
(`RemovedCopied`) are one kind of step. The invariant is `Chains` (every node is in the table once, no pointer twice: with a pointer put twice, a
free would leave it in the map), `Counted` (there are never more nodes than are counted; a replacing put counts too), `Gone` (what
was freed has left), and `Walk` for the walks. That nothing else goes astray rests on `SameIndex`: a node moves to its new
index if the bit the code tests is set, and if the bit it should test is clear, the new index is the old one.

The facts on sequences these proofs share are in `StreamProofs`. Its `Induction`, over a set and from `WFMin`, takes the place of the library's theorem,
whose operator parameter no installed prover can instantiate; with it and the set of the lengths for which
a fact holds, `FlattenSeq` and the loops over chunks and chains can be reasoned about.

Only model-checked, and out of the prover's reach: liveness under fairness (`CallsReturn`, `Concludes`, `HeardUnlessLost`, `Heard`,
`SentIfHeard`). Every safety property of the runs that pass is proved.

## Not modelled

TLS (the handshake and its retries), UDP events, `DEVENT_MULTI_THREAD`, the epoll stub (it
serves nothing), timers (there are none), exhaustion of descriptors and memory, logging, configuration,
string and address helpers, the build and the bindings. Of the containers: the hash set (used by nothing, and its growth writes
past its storage) and the number and array containers (used by no server or client code). DNS messages
that others write of more than 256 bytes, with fields missing, or with names that lead in circles: what the code reads then is another name, or memory beyond the message. A client that speaks
before it is answered, in `Handshake` and in `Session`.

## What is left

In this order:

1. A client of `Handshake` that speaks early: `read_address` stays the read callback while the host is connected to
   (`docks/docks_connect.c:313`), so what it says is read as another address. It needs a `Session` that can be begun twice for one `ServerContext`.
2. Descriptors running out (`devent/dns.c:172`, `devent/connect.c:158`), with an event registered under -1.

A new question for the runs takes the place of an old one: they are kept few.

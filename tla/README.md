# A TLA+ development for Violet

Violet is a Flutter viewer for image galleries on Android. On the device it
carries a native engine, `tun2http`, that takes the packets of a local VPN
interface, terminates the TCP connections in them and relays their data through
sockets of its own. This directory holds TLA+ models of the parts of Violet
whose correctness depends on the order of events, the configurations that check
them with TLC, and proofs checked by TLAPS.

Paths below are relative to `src/`; `tun2http/` stands for
`android/app/src/main/cpp/tun2http/`, and `cpp/` for the directory above it.

## 1. The system and its parts

### 1.1 The tun2http engine

One thread runs `handle_events` (`tun2http/session.c`). Each round of its loop
walks the list of sessions, waits in `epoll_wait`, and handles the batch of
events that it returned. Everything else in the engine is called from there.

| Part | State | Operations | What must hold |
|---|---|---|---|
| Sequence numbers, `util.c` | none | `compare_u32`, `uint32_t` arithmetic | the order of RFC 1982 |
| TCP sessions, `tcp.c` | `struct tcp_session`: state, sequence numbers, windows, queue of segments, socket, epoll mask | `handle_tcp` (a packet of the app), `check_tcp_socket` (an event of the socket), `monitor_tcp_session`, `check_tcp_session` | sockets are closed once and never leaked; SYN, FIN and every byte are counted once; the queue follows the stream; windows are respected; sessions end |
| Event loop, `session.c` | list of sessions, batch of events, `stopping` | one round: monitor, check, poll, dispatch | every session is served; an event never reaches a session that has left the list |
| IP dispatch, `ip.c` | none | `check_tun`, `handle_ip` (with the session limit) | sessions already open are not cut off by the limit |
| UDP and DNS, `udp.c` | `struct udp_session`: ACTIVE, FINISHING, CLOSED, BLOCKED | `handle_udp`, `check_udp_socket`, `check_udp_session`; a forked child resolves names | the answer closes the session; a child's writes are not the parent's |
| ICMP, `icmp.c` | `struct icmp_session` with one identifier | `handle_icmp`, `check_icmp_socket` | a reply carries the identifier of its request |
| Parsers, `dns.c`, `dhcp.c`, `tls.c`, `http.c` | none | parse one packet | nothing: no state |
| Life cycle, `tun2http.c` | `thread_id`, the pipe, the epoll descriptor | `jni_start`, `jni_stop`, `jni_done` | one thread at a time; stop ends the one it means |

The parts interact by calls within the one thread, except for the life cycle
(the Java thread and the engine's thread share `thread_id` and a pipe) and the
resolver (a forked process that inherits a copy of the session and of every
descriptor, and lives for some two seconds). The engine's
partners are the app's own TCP, behind the tun device, and the kernel, behind
the sockets: an HTTP proxy for ports 80 and 443, the real destination for any
other port.

What is hard: a batch holds packets and socket events in either order, so an
event is handled in a state other than the one it was raised for; every write
to the tun device may fail in the middle of a handler; a connection may fail at
any moment; a descriptor that a resolver process holds a copy of stays registered
with epoll after it was closed; packets come repeated, overlapping and out of
order; timeouts race
with late packets; the CONNECT handshake of port 443 moves a session back to
LISTEN; and sequence numbers wrap.

### 1.2 The DPI-bypass proxy (`cpp/dpi-bypass.cpp`, `socket.cpp`, `dns.cpp`, `hostlist.cpp`, `packet.cpp`)

A local HTTP proxy that forks a process for every client (`acceptClient`, in a
thread of its own) and kills those processes when it is stopped (`deInit`, in
the thread of the service). The child answers a CONNECT or reads a GET, goes to
the server directly or through a SOCKS5 or HTTP proxy, then reads from its two
sockets in turn and may split what it sends to the server. State: descriptors,
the vector of child processes, the step of the child. Hard: alternation on
timeouts, a stream that ends while something is collected, a peer that does not
pause, answers of the proxy on the way that come late, in pieces or not at all, a
child forked while the others are killed, an unchecked `fork`, lengths of split sends.

### 1.3 The Dart side

| Part | State | Operations | What must hold |
|---|---|---|---|
| `lib/thread/semaphore.dart`, `lib/network/wrapper.dart` | permits, queue of waiters | `acquire`, `release`, `drop`; throttled `get`/`post` with retries | permits never exceed the maximum, each is given back, waiters are served in order and eventually |
| `lib/pages/search/search_page.dart` | the query shown, its results and offset, a semaphore of one permit | `loadNextQuery`, a new search, scrolling | results belong to the query shown, in order; a permit always comes back |
| `lib/version/sync.dart`, `lib/pages/database_download/*`, `lib/pages/splash/*` | the database, five preferences, the list of what the server publishes | `checkSync`, `doChunkSync`, the download of a snapshot, a file of the user's own | the watermark never runs ahead of the database, also when the process ends in between; the database is brought up to date |
| `lib/downloader/native_downloader.dart` | the instance, tasks, a polling loop | `getInstance`, `init`, `addTask(s)` | callbacks reach their own task; nothing is called before `init` is done |
| `lib/pages/download/download_routine.dart` | the state of an item in the database | check, extract, download, stop | an interrupted download is resumable; states only move forward |
| `lib/database/user/*.dart` | cached sets and tables | bookmark, unbookmark, toggles | the cache agrees with the table |
| `lib/database/database.dart`, `query.dart`, `component/hitomi/hitomi.dart` | a SQLite handle | query strings | nothing: no protocol |
| `lib/component/**` | none | parse pages of third-party sites | nothing: no state |
| `lib/script/*` | an interpreter's variables | parse and run a script | the grammar is followed |
| `lib/algorithm/distance.dart` | none | edit distances | agree with a reference definition |
| `lib/server/*`, `settings`, `locale`, `log` | preferences | HTTP calls, persistence, formatting | nothing: no protocol |
| `lib/pages/**`, `main.dart` | widgets | layout | nothing: no protocol |

`PROJECT.json` lists the same parts with their sources and their status, and the
hazards of the code line by line with the properties that cover them.

## 2. What is modelled

The whole engine from the service's calls down to one TCP session, the
DPI-bypass proxy, and, of the Dart side, the semaphore with the throttled
requests it serves, the search page, and the synchronisation of the database.

```
SeqNum            util.c: compare_u32, uint32_t arithmetic
  SeqNum_proofs   lemmas about Add and Sub; the theorem about compare_u32
  Tcp             tcp.c: the session and the pieces of its handlers
    Tcp_proofs    lemmas: what each piece does to types, socket, state, counts,
                  sequence numbers and queue; rests on SeqNum_proofs
    TcpLoop       session.c and tcp.c: the handlers as actions of the loop;
                  implements SessionLife
      TcpClaims       a comment of the code that does not hold
      TcpLoop_proofs  the theorems about TcpLoop

SessionLife       what every session goes through (abstract)
NgSession         struct ng_session, the timeouts that shrink under load
  Udp, Icmp       udp.c, icmp.c: what the handlers do to one session
    Sessions      session.c, ip.c: the list, the loop, the limit, the batch;
                  each slot implements SessionLife
      MCSessions      symmetry, for TLC
      SessionsClaims  a comment of the code that does not hold
      Engine      tun2http.c: start, stop and the native thread; implements
                  Sessions
        Engine_proofs   the theorems about Sessions and Engine

DpiProxy          dpi-bypass.cpp, socket.cpp: one client, start to end
  DpiProxy_proofs the theorems about DpiProxy

Permits           what a throttle promises (abstract)
Semaphore         semaphore.dart: acquire, release
  HttpGet         wrapper.dart: get() of a throttled site; implements Permits
    HttpGet_proofs  the theorems about HttpGet
  SearchPage      search_page.dart: loadNextQuery; implements Permits
    SearchPage_proofs  the theorems about SearchPage

Sync              sync.dart, database_download_page.dart, splash_page.dart
  Sync_proofs     the theorems about Sync
```

The engine is seen at two depths. `TcpLoop` follows one TCP session through
every packet and event. `Sessions` has the list, in which a TCP session is only
what `SessionLife` says of it. That `TcpLoop` implements `SessionLife` is what
entitles `Sessions` to that view, and that each slot of `Sessions` implements it
too shows that UDP, ICMP and TCP sessions share one discipline for descriptors.
`Engine` then puts `Sessions` under the service that starts and stops its
thread, and implements `Sessions` in turn.

An operator `X_something` before `X` is a variant with a plausible bug (a
dropped guard, a missing reset). It is used nowhere in the model;
`PROJECT.json` says which property notices when it takes the place of `X`.

### 2.1 `SeqNum`

`Modulus` stands for 2^32: any even number above 3. `Add` and `Sub` are
`uint32_t` arithmetic, `AsInt` the cast to `int`, `IntSub` the `int` difference
that wraps. The difference overflows for some arguments, which C leaves
undefined; both ways this code is built keep the wrapped value, and the model
does too. `compare_u32` is the code's comparison; the order of RFC 1982, which its
comment refers to, is spelt out in the theorem about it (5.1).

### 2.2 `Tcp`: the session

A record of type `Session` holds the fields of `struct ng_session` and
`struct tcp_session` that decide anything: state, destination class
(`http`, `https` and `other` for ports 80, 443 and the rest), the state of the
CONNECT, whether the socket is open (`open`: `socket >= 0`), the epoll mask
(`mask`), `remote_seq` and `local_seq` and where they started, `acked`,
`send_window`, whether the receive window is open (`recv_open`), the queue of
segments (`forward`), and whether the timeout has passed since `tcp.time`
(`expired`). `hist` counts what was done to the session since its SYN (SYNs and
FINs counted and sent, bytes relayed, whether any was lost): the code has no such
fields, no guard reads them but the bound `MaxDown`, and the properties are
stated with them.

Each piece of a handler is an operator from session to session, named after the
function or the branch it stands for:

| Operator | Code |
|---|---|
| `NewSession` | `handle_tcp`, "Register session" |
| `write_ack`, `write_rst` | the writers; `ok` tells whether the tun device took the packet |
| `IsPlace`, `Enqueue`, `queue_tcp` | `queue_tcp`: where a segment goes, and which of two equal starts is kept |
| `CanForward`, `ForwardOutcomes`, `Forwarded` | the forwarding loop of `check_tcp_socket`, as the set of its outcomes: `k` segments sent whole, `part` bytes of the next one |
| `get_send_window` | the same |
| `send_connect`, `Connecting` | port 443 before the proxy answered |
| `Heard`, `Taken`, `AcksAll`, `receive_fin`, `receive_ack`, `receive_other_ack` | the branches of `handle_tcp` |
| `connected`, `connect_reply`, `acknowledge`, `receive_eof`, `receive_data` | the branches of `check_tcp_socket` |
| `Events` | `monitor_tcp_session` |
| `time_out`, `close_closing` | `check_tcp_session` |

### 2.3 `TcpLoop`: the event loop and one session

Variables: `tcp` (the session's record, or `NoSession`), `ksock` (the kernel's
side of the socket), `registered` (whether epoll reports its events), `phase` (where the loop is in its round) and `batch` (the
events of the socket that `epoll_wait` returned and that are not yet handled).

| Phase | Actions | Code |
|---|---|---|
| monitor | `Monitor` | `handle_events`, "Count sessions": `monitor_tcp_session` sets the mask, may probe a full window, may fail in `epoll_ctl` |
| check | `Check`, `SkipCheck` | "Check sessions", skipped within `EPOLL_MIN_CHECK` ms of the last: timeout, closing, removal |
| wait | `EpollWait` | `epoll_wait`: errors and hang-ups always, the rest as the mask says |
| dispatch | `HandleTcp` (`NewSyn`, `HandlePacket`) | `check_tun` → `handle_ip` → `handle_tcp` for each packet |
| dispatch | `CheckTcpSocket` (`SocketError`, `SocketConnected`, `SocketReply`, `SocketRelay`, `SocketGone`) | `check_tcp_socket` for the socket's event |
| dispatch | `EndDispatch` | the end of the batch |
| any | `Connects`, `Fails`, `Expires`, `ResolverExits` | the kernel connects the socket or fails it; time passes; a resolver process ends |

`HandlePacket` is one packet of an existing session; its branches
(`HandleConnecting`, `HandleClosed`, `HandleUnwanted`, `HandleRst`,
`HandleRepeatedSyn`, `HandleFin`, `HandleAck`, `HandleOtherAck`) are the
branches of `handle_tcp` in their order. `SocketRelay` is the whole of
"Always forward data": the forwarding loop, the acknowledgement, and the read,
in one step, as the code runs them.

`ksock` is `none` (no descriptor), `connecting`, `connected`, `failed` (an error
is pending) or `reset` (the error has been read: by `getsockopt`, by a `send` or
by a `recv`; the socket is then at its end of file). The distinction matters,
because the forwarding loop takes a failed `send` for a complete one and so eats
the error.

A registration with epoll belongs to what copies of a descriptor share. While a
resolver process (`udp.c:394`) holds a copy of the socket, `close` does not end
it: `CloseSocket` leaves `registered` either way, `Reported` lets epoll then report
anything the mask allows, again and again, and the handlers run on a session
without a socket (`SocketGone`, `SocketError`). `ResolverExits` ends that. A closed
session stays in the list for `TCP_KEEP_TIMEOUT`, 300 seconds, a resolver lives for
two: `Expires` of a closed session waits until no resolver holds its socket. That
is the only thing assumed of times. `EPOLL_CTL_MOD` of an open descriptor fails
only where the `EPOLL_CTL_ADD` before it has failed (`~registered`), so a mask
that was set is also the kernel's.

Choices that make the model larger than the code, never smaller:

- within a dispatch, packets may come before and after the socket's event; the
  code drains the tun device in one place of the batch;
- the environment (`Connects`, `Fails`, `Expires`) may act at any moment,
  also in the middle of a batch; that a resolver has ended shows at the next
  `epoll_wait`;
- the room in the socket's buffer (`get_receive_buffer`) and the receive
  window computed from it are any values at every reading;
- the app may send any of: its SYN again, a RST, and segments and FINs
  anywhere in its stream, acknowledging anything up to a byte more than the
  engine can have sent. Nothing assumes that the app's TCP behaves.

What is abstracted: the content of packets; the options and the scale of
windows; `mss`; the rewriting of HTTP requests on port 80; URG packets, which
are dropped first; the value of the timeout, which is some finite time. A packet
that matches no session is answered with a RST and changes no state, so it is
not an action. A failure of `open_tcp_socket` leaves no session, so neither is
that one. One session stands for all, because sessions of the engine share only
the thread, whose other work is the loop passing through its phases; the list,
the limit and the end of the thread are in `Sessions` and `Engine`.

### 2.4 `NgSession`, `Udp`, `Icmp`, `Sessions`: the list and its loop

The list is a function from `Slots` (the memory and the descriptor of a session)
to records: the conversation (`flow`: addresses and ports; of ICMP only the
addresses), the state, the age, and for ICMP the identifier. The states are those
of UDP; an ICMP session is FINISHING once `stop` is set, a TCP session when it is
in CLOSING. `used` and `pinged` are not in the code; no guard reads `used`, and
`pinged` only tells which replies can come. `held` has the closed sockets that
epoll still reports because a resolver process holds a copy: the slot, which is
the pointer in their events, and the conversation they were of.

`NgSession` has the timeouts: `Scaled` is `get_udp_timeout` and its kin with the
integer division of C, which turns negative above the limit. `Udp` and `Icmp`
are what one handler does to one record. `Sessions` is the loop:

| Phase | Actions | Code |
|---|---|---|
| off, start | `Start`, `Break`, `Stop`, `Clear` | the beginning of `handle_events` with `check_allowed`; its ends; `clear` |
| round | `Round`, `RoundUnchecked` | "Count sessions", "Check sessions", the timeout for `epoll_wait` |
| poll | `Tick`, `EpollWait` | `epoll_wait`, in which time passes |
| dispatch | `UdpReadable`, `UdpIgnored`, `EchoReply`, `IcmpError`, `FreedEvent`, `TcpReset`, `TcpRelay`, `TcpEof`, `TcpGone` | `check_udp_socket`, `check_icmp_socket`, `check_tcp_socket` |
| dispatch, tun | `TunReadable`, `HandleUdp`, `HandleDns`, `HandleIcmp`, `HandleTcp`, `TunEmpty` | `check_tun`, `handle_ip` with the session limit, the handlers |
| any | `Resolved`, `ResolverExits`, `Arrives`, `Fails` | the forked resolvers, the network |

`sessions` is the count of the last round, as in the code, and not the number of
sessions there are. `Found` is the search in the list, which passes over stopped
sessions for ICMP only. `Limited` is the test of `handle_ip`: it drops what would
open a session, and every ICMP packet; `has_udp_session` lets DNS queries pass.

`CloseSockets` is `close` of a descriptor: if a resolver process may hold a copy
(`Shared`) it may stay in `held`, and `EpollWait` may then return events of it, as
often as it likes, until the resolver exits. Of UDP and TCP the session they point
to is in the list all that time (`Outlived`: two seconds against the 60 of
`UDP_KEEP_TIMEOUT` and the 300 of `TCP_KEEP_TIMEOUT`). An ICMP session is freed at
once: the pointer is then to freed memory, or to the session that got it since.
On freed memory `FreedEvent` does nothing: what the code reads and writes there
is not the list. If a new session has the slot, its handler runs, and may wait
in a `recv` that has nothing to read (`Blocked`): the ICMP socket is not set
non-blocking. The liveness properties name that case as an exception (`Waits`).

TCP sessions are seen from outside, with every way in which `TcpLoop` moves one:
a packet may end a session (`SendTcp`: RST, a FIN in FIN_WAIT1), an event may
reset it (`TcpReset`), the end of file closes the socket and, where the app cannot
be told or data is queued, the session (`TcpEof`), and `monitor_tcp_session` may
fail for any of them (`Monitored`).

Left out: `epoll_ctl` that fails for a UDP or ICMP socket; DHCP requests, which
are answered on the spot; `UDP_BLOCKED`, which only `block_udp` sets, and nothing
calls it; a socket that cannot be opened, which leaves no session (where
`protect` fails it leaves the descriptor, too, which no state of the list
shows); the parsing of headers, which drops malformed packets first.

### 2.5 `Engine`: the service and the thread

`jni` is what the service is doing, in one Java thread; `pc[t]` is a native
thread: created, in its loop, or ending (past the loop, before it clears
`thread_id`). `thread_id` and the pipe are shared. A thread may fail to attach,
or leave its loop by itself when the tun device fails, at any moment of a call of
`jni_stop`. `Engine` instantiates nothing: it EXTENDS `Sessions` and takes its
actions as its own, and `SessionsSpec` shows that what comes out is an
implementation of `Sessions`: the list is freed only while no loop runs.

It rests on how pthreads behave in bionic: `pthread_create` stores the identifier
before the thread runs, and `pthread_kill(t, 0)` of a thread that has exited
fails. The service calls `jni_done` after `jni_stop`. A pipe that is full, and
`jni_protect_socket`, are left out.

### 2.6 `DpiProxy`: one client

The service (`service`, `acceptor`, `child_processes`), in two threads, and the
child that serves one client: `pc` is its step, `msg` what it has read from a
peer and not yet sent on. `Collect`, `Eof` and `Quiet` are the three outcomes of
a read in `recv_string`, which collects until nothing comes for a while; `Send`
is one `send` of `send_string`, of as many units as the split allows. The peers
send units, numbered, so that a lost, repeated or moved unit shows. A descriptor
that times out is `Quiet`; every call that may fail has `End` as an outcome. A peer
that sends may go on without a pause (`busy`), and nothing is `Quiet` then: what
comes is collected, however much it is.

What a proxy on the way answers comes in pieces (`Replies`, `AnswerComes`), and
the child judges what it has read when nothing more comes for half a millisecond
(`Taken`): of SOCKS5 the second byte, which of a message of one byte is the zero
that ends the string; of an HTTP proxy whether "200" is anywhere in it. `misread`
records that what holds no grant was taken for one. `used` is what the child has
used itself, a CONNECT or an answer.

Assumed of the peers: the client of a CONNECT waits for the 200, and servers
speak only when they are spoken to. Abstracted: the rewriting of requests
(`modify_http_request`), the host list (every request is split, as in VPN mode),
name resolution, the layout of SOCKS5. Other clients have processes of their own
and share only `child_processes`.

### 2.7 `TcpClaims`, `SessionsClaims`

Statements that comments of the code make and that the code does not keep, with
a run each that shows a behaviour that breaks it; two more are `ChildrenKilled` and
`GrantedFirst` in `DpiProxy`. They are the findings of section 6.

### 2.8 `Semaphore`, `HttpGet` and `Permits`

`Semaphore` is the class of `lib/thread/semaphore.dart` as operators from
semaphore to semaphore. Its record has the count, the queue of completers (named
by who awaits them) and `completed`: those whose future is complete and whose
code has not run on yet. That gap is what makes the class subtle: a permit is
counted as taken from the moment its completer completes, before its owner knows.

`HttpGet` is `get()` of `lib/network/wrapper.dart` for one site. The code has the
same text twice, for exhentai.org (one permit) and e-hentai.org (four). The two
have semaphores of their own and share a map whose urls differ, so each is the
same module with its own `maxCount`. Variables: `sem`, `cacheResponse` (the urls
in it), `req` (where each call is, for which url, and how often it was sent
again) and `leaked` (how many calls ended without a release; a count for the
properties, which no guard reads). Dart runs one piece of code from an await to
the next, and each piece is an action: `Call` (up to the await of `acquire`; a
call that the cache answers at once changes nothing and is no action), `Resume`
(the permit came: the cache again, then http.get or release), `Timeout` (three
seconds passed: send again), `Response` and `Exception`. A response that comes
after its timeout is dropped by the future's `timeout`, and so is its exception.
The model lets timers and answers run before a microtask that is due, which Dart
does not; it makes it larger than the code.

`Permits` is the abstract specification: holders, a line, and permits that are
lost. `HttpGet` implements it with `holders` the requests that fetch or are about
to, `line` the queue and `lost` the leaked permits. That an exception loses its
permit is part of that specification, because it is what the code does.

### 2.9 `SearchPage`

The page as `search_page.dart` has it: `latestQuery` with the offset of its next
page, the results, the end mark, `scrollInProgress`, and the calls of
`loadNextQuery`, each of which waits for the semaphore, searches, and releases in
its `finally`. It reuses `Semaphore`, with the count of one that the page gives
it. Each action is the code from one await to the next: `NewSearch`, `Scroll`
and `LoadMore`, `GiveUp` (five seconds of waiting are over), `Granted`,
`Answered`, `Failed`; `BeginInitial`, `InitialFound` and `InitialFails` are the
search of `initState`, which does not take the semaphore.

`GiveUp` leaves the completer in the queue, as the code does. A timer fires
after the microtasks that are due, and the timeout of `acquire` cannot come before
that of the search that was under way when the call began to wait; both are in
its guard. `mixed` records that the answer to a search came in after the page
had been given another query: the code takes it for an answer to the new one.

Left out: sorting by population, the filter, and the layout.

### 2.10 `Sync`

The server publishes a log of snapshots of the database and of chunks of changed
records; a timestamp is a place in the log, and the version of a record the last
chunk that held it. A type of database ("global", or a language) is the set of its
records. The list of chunks to apply is the newest first, as the code sorts it,
and `i` counts those that are done, from its end. `db` is the database at
`db_path`, and `prefs` the preferences; they survive the process. `prefs.own` says
whether `db_path` is that of the downloads. `app` is the process, with the step it
is at and the statics of `SyncManager`. Every step that writes something durable
is an action of its own, and `Stop` may come between any two.

| Actions | Code |
|---|---|
| `Start`, `CheckSync`, `CheckFails` | the splash page, `checkSync` |
| `Download`, `Apply`, `Mark`, `Filter`, `SyncFails` | `doChunkSync`: all chunks are downloaded, each is filtered by `databasetype` and is one transaction, `synclatest` follows it, the excluded records are deleted after the last |
| `FirstDownload`, `Switch`, `Redownload` | what leads to a download: the first start, the choice of another database, a manual synchronisation |
| `Unpack`, `DeleteData`, `Rename`, `SetExists`, `SetPath`, `SetType`, `SetDate`, `SetLatest`, `DownloadFails` | the download of a snapshot |
| `PickFile`, `TestFails`, `FileExists`, `FilePath` | "dbalready": a database file of the user's own, of any type and any time, in place of a download |

It is the Android version. Assumed: the published list is well formed when it
comes, the preferences become durable in the order they are written, chunks are
more than the hour apart that the manual synchronisation looks for.
`databasetype` starts as the language of the device (`Settings.init`), for which
there may be no database. Left out: leaving the download page during a download;
the deletion in `checkDownload` is merged with the one before it, and `indexing`,
which writes neither database nor preferences that matter here, is no step.

What the model shows and its properties except, in the terms of the code. `torn`
is the name of a database that is not what the preferences say of it: after a
rename (155) of a snapshot of another type, until `databasetype` is written (164),
for the chunks are filtered by the old one meanwhile; after one of a snapshot
older than `synclatest`, until that is written (168); and, for good, after the
choice of a file that is of another type or older, for which neither is written.
Only an end of the process, or the choice, makes a later start see it. An end
after `db_exists` and before `synclatest`, at the first download, and a file of
the user's own in place of the first download, leave a database for which every
start takes the branch of a first synchronisation and applies nothing; a manual
synchronisation deletes the database before the new one is there; the records
excluded by tags stay until the next chunk if the process ends before
`sync.dart:191`.

## 3. The properties

| Property | Kind | Says |
|---|---|---|
| `TcpLoop`: `TypeOK` | invariant | its type invariant; the sequence numbers keep their width, and the window is one the app advertised |
| `SocketLifetime` | invariant | the descriptor is open exactly in the states that use it, closed before the session is removed; an event reaches a session in the list, and one whose socket is closed only while a resolver process holds a copy |
| `FinCountedOnce` | invariant | each side's FIN takes one sequence number, once, at the right moment |
| `Accounting` | invariant | `remote_seq` and `local_seq` equal the SYN, the bytes and the FIN relayed, modulo `Modulus` |
| `AckedIsSent` | invariant | acknowledgements recorded never pass what was sent |
| `QueueInOrder` | invariant | the queue follows the stream, and only its head is partly sent |
| `TunnelFirst` | invariant | on port 443 nothing is relayed before the proxy answered |
| `WindowRespected` | action | data sent to the app fits in the window it advertised |
| `ClosedIsFinal` | action | CLOSE is left only by removal, CLOSING only for CLOSE |
| `LifeSpec` of `TcpLoop` | refinement | the session, through all of TCP, is a `SessionLife` |
| `SessionMoves` | liveness | a session leaves LISTEN, and one in CLOSE leaves the list |
| `FailedSocketClosed` | liveness | a failed socket is closed, with one exception, stated in the property |
| `HeadForwarded` | liveness | no lost wake-up: a segment that can go out does |
| `EventsAlive` | invariant | every event of a batch points to a session in the list whose socket is open, whatever was handled before it, or to one whose closed socket a resolver process holds: of UDP and TCP in the list, too |
| `OneSession` | invariant | a conversation has one session at most |
| `LifeSpec` of `Sessions` | refinement | every slot of the list is a `SessionLife`: no closed session is revived, no descriptor outlives its session |
| `UsedNotIdle` | action | a UDP or ICMP session used since `time(NULL)` last changed is not closed unless more are open than the limit |
| `EngineTypeOK` | invariant | the type invariant of `Sessions` and `Engine`, the pipe within its bound |
| `LoopKnown` | invariant | whoever runs the loop, or is about to, is the thread that `thread_id` names |
| `SessionsSpec` | refinement | `Engine` implements `Sessions`: the list is freed and the loop begun only while no loop runs |
| `StopMeant` | action | the stop byte is read by the thread it is meant for, with one exception, stated in the property |
| `StopReturns` | liveness | `jni_stop` returns, unless the thread waits in `recv` for the reply to a ping |
| `FailedUdpCloses` | liveness | a UDP socket with an error is closed although its error events are not handled |
| `ClosedLeaves` | liveness | a closed session leaves the list, even if the app keeps sending |
| `OwnIdentifier` | action | an echo reply gets its request's identifier, unless two pings share the session |
| `StreamsKept` | invariant | in both directions of the proxy, what was received, is held and is unread make up what was sent |
| `GrantedUnlessMisread` | invariant | nothing of the client's reaches the remote side before the proxy on the way has granted each request, unless what holds no grant was taken for one |
| `PassedOn` | liveness | what has arrived is passed on, or the child ends, if a peer that sends pauses again and a proxy that is asked answers or hangs up |
| `HttpGet`: `TypeOK` | invariant | its type invariant |
| `PermitsCounted` | invariant | `_currentCount` is the number of permits out and lost, at most `maxCount`, and nobody waits while one is free |
| `FetchedOnce` | invariant | a page in the cache is asked for by fewer requests than there are permits; with one permit, by none |
| `ThrottleSpec` | refinement | `HttpGet` implements `Permits`: permits go to whoever has waited longest |
| `WaiterServed` | liveness | whoever waits gets a permit, unless exceptions have lost all of them |
| `ResultsInOrder` | invariant | the results are the first pages of the query shown, once and in order, as long as no overtaken answer came in |
| `PermitKept` | refinement | `loadNextQuery` uses its permit as `Permits` says |
| `TurnComes` | liveness | a call that waits gets its turn or gives up, and scrolling goes on, unless a call that gave up got the permit |
| `Sync`: `TypeOK` | invariant | its type invariant; the chunks are newest first |
| `Fresh` | invariant | `synclatest` never runs ahead of the database, wherever the process was ended, unless the database is `torn` (section 2.10) |
| `UpToDate` | liveness | a database that is there, not torn and has a `synclatest`, if it stays so, is brought up to date again and again |

Several properties name an exception. Each is a behaviour of the code that a
comment, a test or a document does not speak about, so it is no finding; without
the exception, TLC finds a counterexample. No run checks the types of the
variables of `SearchPage` and `DpiProxy`; they are part of the inductive
invariants that their theorems prove.

## 4. The runs

| Run | Module, configuration | Shows |
|---|---|---|
| `safe` | `TcpLoop`, `TcpLoop_safe.cfg` | ports 443 and other; tun writes and `epoll_ctl` fail; a window of 1 or 2 bytes that fills up, shrinks and reopens; both sides send; numbers wrap on both sides |
| `live` | `TcpLoop`, `TcpLoop_live.cfg` | two bytes from the app in any segmentation, order and repetition, partial sends, a window that closes; liveness, under `FairSpec` |
| `sessions` | `MCSessions`, `MCSessions.cfg` | four conversations, one per kind, in two slots, at and above a limit of one, through failures, timeouts, restarts and resolvers that hold closed sockets |
| `engine` | `Engine`, `Engine.cfg` | the same conversations in one slot under the service, which starts and stops at any moment; liveness |
| `relay` | `DpiProxy`, `DpiProxy.cfg` | three ways to the server, CONNECT and GET, two units each way beside the CONNECT and the answers in pieces, split sends; liveness |
| `throttle` | `HttpGet`, `HttpGet.cfg` | two permits, three requests, two pages: counting, refinement and liveness |
| `search` | `SearchPage`, `SearchPage.cfg` | three calls, two queries of up to three pages; liveness |
| `sync` | `Sync`, `Sync.cfg` | three publications, three records of which one is excluded, two types of database; liveness |
| `claim_sent`, `claim_dns`, `claim_granted`, `claim_killed` | `TcpClaims`, `SessionsClaims`, `DpiProxy` twice | refute one claim each |

Bounds of `TcpLoop`:

- `Modulus = 16`. A session spans at most `MaxUp + MaxDown + 4` numbers, less
  than half of 16, so the order of numbers is never ambiguous, as in the code
  where windows are far below 2^31. The initial numbers are chosen so that both
  streams wrap (13, 14) or start close to 0 (1). No run of `TcpLoop` crosses the
  boundary 7/8 where `compare_u32` departs from RFC 1982 (`CrossesIntBoundary`);
  section 5 says which of the properties hold across it.
- `MaxUp`, `MaxDown`: the bytes of the two streams. One byte is enough for the
  interleavings of data with SYN, FIN and errors; two bytes downstream for a
  window that is half used; two bytes upstream for segments that overlap, leave
  gaps and arrive in any order, and for partial sends. `MaxTunnelled` is
  `MaxDown` for port 443: one byte, which shows whether anything passes before
  the tunnel stands, and keeps the run small.
- `Ports`: port 443 and another; port 80 is like another here, because
  `connect_sent`, the only difference, is looked at for port 443 alone.
- `Windows`: `{1, 2}` or `{0, 1}`, so that the window shrinks, is full, half
  full or closed, and is smaller than or as large as the data.
- `MaxBuffer`: the room in the socket's buffer, above `MaxUp` so that it can
  hold everything; all smaller rooms are tried too.
- `TunErrors`, `EpollErrors`, `SendErrors`: whether these calls may fail. The
  liveness run leaves them out: a failure only ends a session sooner. `SendErrors`
  is about a live socket that refuses bytes; it only sets `hist.lost`.
- `Forks`: other sessions make DNS queries, so that a resolver may hold the
  session's socket.

One session at a time, and after its removal another may start, so that nothing
is left over from one to the next; behaviours are infinite and deadlock is
checked in every run of the engine.

Bounds of `Sessions` and `Engine`: the timeouts are 1 or 2 seconds, and `MaxAge`,
2, is past all of these. `sessions` has two slots, enough for a session beside
another or beside the memory of a freed one, and a limit of one: one session is
at the limit, where packets are dropped and the timeouts shrink to nothing, and
two, opened in one round, are above it, where they shrink to less. A timeout that
has shrunk by a part is in `engine`, where one slot under a limit of two is
enough for liveness, which is about one session, and keeps the composition with
the service small; it has two identifiers, for `OwnIdentifier`. `Threads` has
two names: one that ends and the next. `MaxPipe = 2`: the byte of this stop and
one left over. What the properties of `Sessions` say for other limits and
timeouts rests on their theorems, which hold for all.

`DpiProxy`: two units each way, with a split of two, so that a piece is whole,
split and left over; SOCKS5 is asked twice, and its answers have two and three
pieces, those of an HTTP proxy two. That a stream ends after two units is not
what makes `PassedOn` hold: a peer with units left or not may stay `busy`, and
then nothing is passed on. `HttpGet`: `maxCount` is 2 for the
four of e-hentai.org, fewer than the requests, so that some wait; the theorems
cover every `maxCount`, the one of exhentai.org included. Three requests, two
pages: requests compete for the same page and for different ones. `SearchPage`:
three calls are enough for one to search, one to wait and one to have given up;
`MaxPages = 2` for the order of pages. `Sync`: `MaxTime = 3` is a snapshot and
two more publications in any mixture: a chunk before or after a newer snapshot,
and two chunks of the same record. Of the three records one is in the first type
only, one in both, and one is in both and excluded. Where behaviours of these end
(every page cached, every call given up, the service down), their
configurations turn the deadlock check off and say so here: `HttpGet`,
`SearchPage`, `DpiProxy`.

### Fairness

`Fairness` in `TcpLoop` assumes what the engine's scheduling gives:

- the thread keeps running: `Monitor`, `EpollWait`, the handling of a pending
  event and `EndDispatch` are weakly fair. `epoll_wait` has a timeout, and
  the tun device runs dry, so a dispatch ends;
- `Check` is strongly fair: it is skipped only within `EPOLL_MIN_CHECK`
  milliseconds of the last one, so not for ever;
- `connect()` succeeds or fails in the end, and the timeout passes if no packet
  refreshes it;
- epoll is level-triggered: a socket that has room and is asked for EPOLLOUT
  again and again is reported writable (strong fairness of `EpollWait` with OUT
  in the batch, and of `Monitor` finding room), and the room is still there when
  the event is handled, because only the engine's own sends take it (strong
  fairness of a `SocketRelay` that forwards something).

Nothing is assumed of the app: it may fall silent or send packets for ever. Nor
is the server assumed to answer, or a connected socket ever to fail.

`Sessions` and `Engine` assume the same of the thread: it runs; a check is
skipped only right after one; time passes in `epoll_wait` (strong fairness of
`Tick`, which a thread that is woken all the time reaches again and again); and
`check_tun` finds the device empty in the end (`TunEmpty`). A resolver process
ends: its `recvfrom` has a timeout of two seconds (strong fairness of
`ResolverExits`, in `TcpLoop`, too). A `recv` that waits for the reply to a ping is
not assumed to return. Of the service, that
`jni_stop` goes on once it has begun; a start or a stop is never assumed.

`DpiProxy`: the child runs; a send ends, well or badly. `PassedOn` has two
premises, which nothing in the code brings about: a peer that sends pauses again
and again for as long as the timeout of `recv_string`, because the function
collects until then; and a proxy that was asked answers or hangs up, because it is
asked for its answer for ever. Nothing is assumed of the service.

`HttpGet`: a microtask that is due runs, and a request that is sent is answered
or throws in the end. `SearchPage`: the same, with the timeout of the search.
Nothing is assumed of the timeout of `acquire`.

`Sync`: the app is started and left again and again, and a download, a check or
a transaction that is tried infinitely often succeeds in the end (strong
fairness). Nothing makes the server publish or the user download.

## 5. The proofs

TLAPS checks every theorem below for every value of the constants that satisfies
the named assumptions of the modules: `ModulusAssumption` (an even number above
3; 2^32 in the code), `MaxCountAssumption` (a positive number of permits), and
assumptions that give the other constants their types, make sets of slots,
requests and calls finite, and keep names apart. No bound of section 4 is
assumed. Only some theorems about a TCP session have hypotheses of their own, named
and explained in 5.2: on the length of the server's stream (`HalfStreams`,
`ShortStreams`), on the windows (`QuarterWindows`), and on where the app's stream
lies (`StraightStream`).

### 5.1 Sequence numbers (`SeqNum_proofs`)

`SerialOrderCorrect` says what `compare_u32` finds of a number and one that comes
1 to 0x7FFFFFFD later in the order of RFC 1982: this order, in both directions
and over the wrap at 2^32 too, unless the boundary between 0x7FFFFFFF and
0x80000000 lies between them, and then the opposite. It is a statement about a
function, so no run has it; it combines two case analyses on the signs
(`CompareAwayFromIntBoundary`, `CompareAcrossIntBoundary`) and follows from
`ModulusAssumption` alone. The other lemmas are for TCP: what remains of a sum
modulo 2^32 (`CountOn`), how far numbers of a short stretch lie apart
(`SubInOrder`), and that the errors of two comparisons cancel out for an
acknowledgement (`BothComparisons`).

### 5.2 One TCP session (`Tcp_proofs`, `TcpLoop_proofs`)

`Tcp_proofs` says what each operator of `Tcp` does to the state, the socket, the
queue and the counts (`...Type`, `...Effect`, and so on); `TcpLoop_proofs` has
one lemma per action and property, and the theorems.

| Theorem | Rests on |
|---|---|
| `TypeCorrect` | the types of what the operators return; inserting in the queue keeps it a sequence of segments |
| `SocketLifetimeCorrect`, `FinCountedOnceCorrect` | `FinInv` |
| `ClosedIsFinalCorrect`, `LifeCorrect` (of `SessionLife`) | `Moves`: where a step can take a session from a state of `FinInv` |
| `TunnelFirstCorrect` | `TunnelInv` with `WaitsRight` |
| `AccountingCorrect` | `CountStep`, `AccountInv` |
| `AckedIsSentCorrect`, `AckedNeverGoesBack` | `OnceInv`, `AckBetween`; hypothesis `HalfStreams` |
| `WindowRespectedCorrect` | `QuarterInFlight`; hypotheses `HalfStreams` and `QuarterWindows`, or `ShortStreams` |
| `WindowOfShortStream` | `ShortInFlight`; hypothesis `HalfStreams` |
| `QueueOfStraightStream` | `QueueInv` |

`SocketLifetime` and `FinCountedOnce` are not inductive: that an end of file sends
the engine's FIN at most once needs that it was not sent before in the states
that can send it; that an event never meets a closed socket needs that the check
phase, which closes sockets, runs with an empty batch; and port 443 moves a
session back to LISTEN, which breaks both unless it is known where a session
with an unanswered CONNECT can be. `FinInv` is the strengthening: both
invariants, the batch empty outside of the dispatch, no FIN sent before
FIN_WAIT1 and LAST_ACK, `EarlyConnect` (a session with an unanswered CONNECT
is in LISTEN, SYN_RECV, CLOSING or CLOSE and has met no FIN), and `Linked`: a
session whose closed socket epoll still reports is not due for removal.

`TunnelFirst` depends on the events that wait while a CONNECT is unanswered. An
event that was raised before the session left LISTEN may be handled after it; it
must find nothing to relay. `WaitsRight` says which events can wait where.

`Accounting` is a statement modulo 2^32: `remote_seq` and `local_seq` are their
starts plus what was counted, for streams of any length. `CountStep` says what a
step does to numbers and counts at once, whatever fails in the middle;
`AccountInv` adds what the counts are in the states that a CONNECT brings back.

`AckedIsSent` and `WindowRespected` compare positions in the server's stream, so
the stream must be short against the space of numbers: `HalfStreams` asks for
`2 * (MaxDown + 5) <= Modulus`, half of it, 2^31 bytes for a session, which the
bounds of the runs satisfy; beyond, a position modulo 2^32 does not tell old
from new. Within that `AckedIsSent` holds on both sides of 2^31 and across it.
Where `compare_u32` errs on the acknowledgement's being new it errs on its being
from the future, too, so that the two errors cancel (`BothComparisons`); and an
acknowledgement that is taken is never older than the last one
(`BothComparisonsOnward`, `AckedNeverGoesBack`).

`WindowRespected` needs more. Where `get_send_window` judges `acked` wrongly, it
takes the raw number `acked` for the bytes in flight. That is no less than they
are, so that the relay may stall but does not overrun the window (`BehindIs`), as
long as what is in flight is at most a quarter of the space (`QuarterInFlight`).
This is inductive if no window is more than that (`QuarterWindows`: 2^30; TCP's
largest is 65535 * 2^14, although the engine takes any scale), and it is true of
the first quarter of every stream whatever the windows (`WindowOfShortStream`), so
of all of it when all streams are as short (`ShortStreams`). The bound is real:
with `Modulus = 32`, `LocalISNs = {6}`, `Windows = {10}` and `MaxDown = 11`, TLC
finds an overrun with 9 bytes in flight, past 8, a quarter of the space.

`QueueInOrder` does not survive the boundary. With an app whose stream straddles
2^31 (`RemoteISNs = {6}` in the live run, for 16 numbers), TLC finds a repeated
segment that is taken for a new one and put before a head that is partly sent.
`StraightStream` says of the session at hand that its stream does not straddle
2^31 and is shorter than half the space; `QueueOfStraightStream` has it as a
premise of the invariant, so that the sessions before and after may straddle the
boundary. The proof needs that nothing is partly sent while the app's
SYN or the answer to the CONNECT may still move `remote_seq` (`Ordered`), and one
lemma for each piece of the handlers that touches the queue.

### 5.3 The list, the loop and the service (`Engine_proofs`)

| Theorem | Of | Rests on |
|---|---|---|
| `EventsAliveCorrect`, `OneSessionCorrect`, `UsedNotIdleCorrect`, `OwnIdentifierCorrect`, `LifeCorrect` | `Sessions` | `SInv` |
| `EngineTypeCorrect`, `LoopKnownCorrect`, `StopMeantCorrect`, `SessionsCorrect` (of `Sessions`) | `Engine` | `EInv` |

`SInv` (kept by `SInvariant`) says of each slot that its record, its descriptor and its age agree
(`SlotGood`), and of the batch that it is empty before `epoll_wait` and holds one
event of an open socket at most (`BatchInv`): an event's handler may close its
socket, which would leave a second one dangling. `HeldInv` says of a closed socket
that epoll still reports that its session, but for ICMP, is in the list and has
not come to the end of its time there: the induction uses that time passes only
while that is so (`Outlived`), and that no step makes such a session older or
removes it (`Stays`). The same case analysis of the actions
shows, slot by slot, which step of `SessionLife` they are.

`EInv` follows the service. That `thread_id` names whoever is alive is not enough:
when the service frees the list, nobody else may be alive (`PhaseInv`,
`ServiceInv`), and the byte that it writes must be followed until the joined
thread has read it (`PipeInv`), as long as none has ended by itself meanwhile.
`SessionsCorrect` uses that a thread is in its loop exactly when the phase of
`Sessions` is not "off".

### 5.4 The proxy (`DpiProxy_proofs`)

`StreamsKeptCorrect` and `GrantedUnlessMisreadCorrect`, for streams of any length
and any split position. Each depends on where the child is. `DataInv` and `HeldInv`
say what may be in the buffers and sockets at every step, in
particular that a message is never empty where it is sent; `GrantInv` counts the
requests to the proxy of the route down and its grants up. While an answer is in
pieces the two counts differ: `CountInv` ties the difference to what is left of
the answer, on its way, unread and collected (`Coming`), which holds at most one
grant, and none once that was taken.

### 5.5 The semaphore and its users (`HttpGet_proofs`, `SearchPage_proofs`)

- `HttpTypeCorrect`, `PermitsCountedCorrect`, `ThrottleCorrect` (the refinement of
  `Permits`) and `FetchedOnceCorrect`, for any finite number of requests, any
  urls and any `maxCount` above 0;
- `PermitKeptCorrect` (the refinement of `Permits`) and `ResultsInOrderCorrect`,
  for any finite number of calls, any queries and any number of pages.

The count of permits is not inductive: a release completes the future of the
first waiter, and the count is right only if that one does not hold a permit
yet. `LineInv` says so: those in the queue wait (of the search page: or gave up),
each stands there once, and only those have a completed future. One lemma for
each kind of step (to ask, to give back, to keep, and of `HttpGet` to lose) shows
at once that the invariant is kept and which step of `Permits` it is, so the
invariant and the refinement share one induction.

`FetchedOnce` counts the requests that fetch a page of the cache. Once the page is
there no request begins to fetch it, because `Resume` looks again, and the one
that brought it has given its permit back, so fewer than `maxCount` are left
(`AskingStep`). `ResultsInOrder` needs
`AskedInv`: a search that was not overtaken is for the page that is next. That
stays so because the semaphore lets no other call search in between
(`OneHolder`); so the order of what is shown rests on the counting of permits.

### 5.6 Synchronisation (`Sync_proofs`)

`SyncTypeCorrect` and `FreshCorrect`, for any records, any types of databases and
any number of publications. That the watermark may follow a transaction depends on the chunks
that are left being all there are between it and the newest (`ChunkInv`); that it
may follow a download, on the database still being that snapshot, of the type that
is written with it (`DbInv`); and a chunk is filtered by a type there is, for a
database that is not torn is of one (`Known`). The
model picks the list with a CHOOSE; that every finite set of publications has
such a list (`ListExists`) is an induction on its size, made by way of the
smallest counterexample (`NatLessThanWellFounded` and `WFMin`).

### 5.7 What is only model-checked

The liveness properties, for good, since the prover has no ENABLED and no
fairness: `SessionMoves`, `FailedSocketClosed`, `HeadForwarded`, `StopReturns`,
`FailedUdpCloses`, `ClosedLeaves`, `PassedOn`, `WaiterServed`, `TurnComes` and
`UpToDate`. Every other property of section 3 has a theorem.

## 6. Findings

Places where the code does something else than its comments say. Each has a run
with a counterexample.

1. A failed `send` counts as a complete one (`tcp.c:325`: `ssize_t` against
   `size_t`), so a send that would block loses its bytes, where the comment says
   "Retry later". Run `claim_sent`.
2. A DNS query is answered by a forked child, which sets `UDP_FINISHING` in its
   own copy of the session (`udp.c:394`, 262-266); the parent's session keeps its
   socket until its timeout, where the comment says "Prevent too many open
   files". Run `claim_dns`.
3. The answer of a proxy on the way may be read in pieces: of a SOCKS5 answer of
   which one byte has come the child tests the zero that ends the string
   (`socket.cpp:255`, 300), and of an HTTP proxy any reply with "200" anywhere in
   it passes (360). The client's bytes then go out though the connection was not
   granted, where the comments say "Check response code" (299, 359). Run
   `claim_granted`.
4. A client that is accepted while `deInit` goes through the children is served
   by one that nobody kills (`dpi-bypass.cpp:362`), where the comment says "Kill
   child processes". Run `claim_killed`.

## 7. What is left, and the plan

Every safety property of the runs has a theorem. What a later extension could
prove:

- what the engine still promises of the queue of a session whose stream straddles
  2^31, and of the acknowledgements of one longer than 2 GB;
- the bridge between the two depths of the engine: that a TCP session of
  `Sessions` may be replaced by a `TcpLoop`, which now rests on both implementing
  `SessionLife`.

Modules that a later extension could add:

- the closed system of the engine with the app's own TCP and a proxy, and a
  relayed byte stream as its abstract specification: what becomes of a CONNECT
  that is refused, of a FIN that overtakes data, of a queue whose head an overlap
  has blocked, and of what the proxy drops at the end of a stream (hazards without
  a property);
- `NativeDownloader` and `DownloadRoutine`, and the bookmarks behind their cached
  sets: state machines with their awaits, smaller than `Sync` and of its kind;
- the edit distances of `distance.dart` against a reference definition.

Not modelled: parsers of packets and of web pages, the script interpreter, query
strings, the server API, settings, logging and the user interface. They are data,
requests to services outside the repository, or layout, without a protocol of
their own.

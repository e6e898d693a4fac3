# A TLA+ model of kulfi and malai

`malai` shares a local HTTP or TCP service with the rest of the world over iroh, a peer-to-peer
QUIC network; `kulfi` is the identity-based system built on the same library, `kulfi-utils`. A
service is exposed on one machine and reached through a bridge on another, and every request
crosses: a socket of the bridge, a stream that `get_stream` obtains from the one connection to that
peer, the peer's accept loop, and a socket of the exposed service. This directory holds TLA+
specifications of that path, the TLC runs that check them, and proofs of their main theorems.

All paths below are relative to the repository unless they name a module.

## 1. Inventory

### Stream broker: `kulfi-utils/src/get_stream.rs`

State: `PeerStreamSenders`, a mutex around a map from peer to the sender of its connection manager;
per manager a `mpsc::channel(1)` of requests, each carrying a oneshot reply, an idle counter and the
iroh connection. Operations: `get_stream` (look up or spawn a manager under the lock, send, wait),
`connection_manager` (run, drain with errors on failure, remove the map's entry),
`connection_manager_` (connect; select over cancellation, a 12 s timer that pings, and a request),
`handle_request` (open a stream, send the protocol header, wait for the ack, reply). Hard: the entry
outlives the manager's receiver; requests may sit in the channel when the manager leaves; none of
the waits for the peer has a timeout.
Correct when: one manager runs per peer, every call is answered once, with a stream of the peer it
asked for, or with an error of its own manager.

### Peer session: `utils_iroh.rs`, `ping.rs`, `protocol.rs`, the `handle_connection` loops

State: the connection, its queue of streams the peer has not accepted, the streams in use and where
the peer's accept loop is. Operations: `accept_bi`/`accept_bi_with` (ack, answer pings, refuse other
protocols), a serial loop (`expose_http.rs`, `peer_server/run.rs`) and a spawning one
(`expose_tcp.rs`, `http_proxy_remote.rs`). Hard: the order of ack and refusal, head-of-line blocking
in the serial loop, streams that outlive their manager, a connection lost at any point.
Correct when: an ack is evidence that the stream was accepted, only the network cuts a stream in
use, and each wait of the broker ends if the exposed service does its part.

### HTTP exchange: `http_to_peer.rs`, `peer_to_http.rs`

State: one bidirectional stream with its flow-control windows, the request and the response body,
the visitor, the service. Hard: three parties that each may stop half way, and a protocol in which
the end of the stream is the end of the body. Correct when: what is taken for a complete message is
one, and no task waits for ever because another one has failed.

### TCP tunnel: `tcp.rs`

State: two sockets, split, and a stream; two copies per end. Hard: half-closed connections, the
order in which the copies end. Correct when: an end of file is true, one direction does not cut
the other, all copies end with their applications.

### Process life: `graceful.rs`, `main.rs`, the listeners

State: a cancellation token, a task tracker, a watch channel for "show info", one accept loop, a task
per connection and per tunnel, and kulfi's counters. Hard: ctrl-c at any moment, tasks that spawn
tasks while main waits for them to end, connections that drain. Correct when: a clean exit cuts
nothing, a forced one only what could not be ended, and the process stops.

### Pools of HTTP connections: `http_connection_manager.rs`, `peer_to_http.rs`, `proxy_pass.rs`, `find_pool`

State: a map from address to a bb8 pool of at most ten connections, and what each connection carries.
Operations: two ways to get a pool (`get_pool`, under one lock; `find_pool`, which looks up, builds and
inserts under separate locks), check out, send, give back. Hard: `proxy_pass` gives the connection back
with the head of the answer, while the body still comes over it; requests and services stop half way;
two first requests build two pools. Correct when: no answer reaches another request, no connection is
lost to its pool, and every request ends.

### Folder server: `malai/src/folder/mod.rs`

State: none of its own; a file whose length is read before its bytes are. Hard: range arithmetic in u64,
with and without overflow checks, and files that change while they are sent. Correct when: an answer
that ends well has exactly the bytes it should have.

### Secret keys: `secret.rs`, `keygen.rs`, `kulfi-id52/src/keys.rs`

State: an environment variable, `.malai.secret-key`, `.malai.id52` and the system's keyring. Operations:
`read_or_create_key`, `generate_and_save_key`, `keygen`. Hard: several processes in one folder without a
lock, and a crash between two writes. Correct when: no id is named before its secret is kept, and an
identity or a key that was in use is found again.

### Start of kulfi: `start.rs`, `config/`, `identity/create.rs`, `dot_kulfi/`

State: the data directory, its lock file, the identities' folders, temporary or finished, and the control
port. Operations: `start` (make the directory, lock, scan, spawn, release), `Identity::create` (key,
temporary folder, fill, rename). Hard: `create` takes no lock, and anything may end anywhere. Correct
when: the lock is held exactly during the scan, and only finished identities are run.

### Parts without a module

* Routing (`get_peer_id52_from_host`, `parse_url` in `browse.rs`, `kulfi_uri_to_path_and_id52` in
  `tauri.rs`) splits a text once and compares it; there is no state, and unit tests reach every
  case.
* `Identity::run` and everything behind it: it panics in `get_secret_key`, a `todo!()`.
* The webview (its scheduling is tauri's), `identity/bb8.rs` (no module declares it, so it is not
  compiled), the sites under `malai.sh` and `kulfi.app`, packaging, and the cryptography and text
  encodings of the key crate, of which only the outcome is modelled: a key, an error or a panic.

How the parts interact: the bridges and the control server spawn a task per socket
(`Graceful`); such a task calls `get_stream` (`GetStream`), which talks to the peer's accept loop
(`PeerSession`) and returns a stream; `http_to_peer` or `tcp_to_peer` uses it at this end and
`peer_to_http` or `peer_to_tcp` at the other (`HttpExchange`, `TcpPipe`). The cancellation token of
`Graceful` is the variable `cancelled` of `GetStream` and `PeerSession`. Inside `peer_to_http`, and in
kulfi's `proxy_pass`, a request takes its connection to the local service from a pool (`HttpPool`);
with `malai folder` that service is in the same process (`FolderPool`). Before any of it, a process
gets its identity from the key store (`SecretKeyStore`), which `Identity::create` of kulfi writes too
(`KulfiStart`).

## 2. Modules

| module | what it is |
|---|---|
| `StreamService` | abstract: a call names a peer and ends with a stream of that peer, an error, or the caller's departure |
| `GetStream` | `get_stream.rs`, the peer being nondeterministic; `ImplementsService` is its refinement of `StreamService` |
| `PeerSession` | both ends of the connections of `GetStream`, whose actions it takes over and restricts by what the connection and the peer do |
| `HttpService` | abstract: one HTTP exchange between a visitor and a service that know nothing of a tunnel |
| `HttpExchange` | one HTTP request through a stream, from visitor to service and back; `ImplementsHttp` is its refinement of `HttpService` |
| `Duplex` | abstract: a TCP connection, as its two applications see it |
| `TcpPipe` | one TCP connection through a stream; `ImplementsDuplex` is its refinement of `Duplex` |
| `Graceful` | one process from bind to exit |
| `HttpPool` | the pooled connections to one local service, and the two kinds of requests that share them |
| `FolderServer` | what the folder server answers to a range: operators only |
| `FolderPool` | both together: the pool in front of the folder server |
| `SecretKeyStore` | where a process gets its identity from, and keygen |
| `KulfiStart` | extends it with the data directory: `start` and `Identity::create` |
| `MCPeerSession`, `MCHttpExchange` | sets and symmetry for TLC |
| `...Proofs` | theorems about the module they are named after |

The operators that end in `_Something` and are called mutants in their comments are slips that
somebody could make in the code. They are no part of any specification; each is put in the place of
the operator it is named after to see that the property it belongs to notices.

### GetStream

A manager is named after the call that spawned it, so one set `Requests` is both. `call[r]` is how
far call r is inside `get_stream`, `manager[m]` where the manager task is, `slot[m]` the one place of
its channel, `current[m]` the request it has received, `reply[r]` the oneshot. The step that looks a
sender up, or spawns a manager and registers it, is one action because the code holds the mutex for
it. Failing is split as in the code: close the receiver and drain ("draining"), then remove the
entry ("returned" to "gone"), with other tasks running in between. tokio's channels are linearizable:
a send, a receive and a drop are one step each. The remote side and the network are free: a connect,
a ping or a handshake succeeds, fails, or never returns.

### PeerSession

Adds the connection of each manager, the stream it has opened and waits on, the peer's accept loop
and what the two ends make of a stream that was handed out. `Serial` is the set of peers with the
serial loop of `expose_http`; the others spawn a task per stream. `Exposed` is the protocol the peer
serves, `Protocols` what callers may ask for. Every action of a caller or a manager is the one of
`GetStream` with what happens at the connection added, so that `Broker!Spec` follows by definition
(`ImplementsBroker`, proved as a lemma and checked by no run); what `PeerSession` has to show is the
converse, that the peer's loop lets the broker go on (`PeerSettlesEveryWait`, `NoWaitIsForgotten`),
and what the two ends make of the streams. quinn's rules for drops are assumed: a dropped SendStream
finishes, a dropped RecvStream stops, and a connection closes when the last handle of an end is
dropped, each stream being one.

### HttpExchange

An exchange is chosen at the start: whether the request has a Content-Length, whether the response
has one, which copy of the client code is used (`http_to_peer` or the non-streaming one of the
webview), and what kind of service answers (one that reads the request whole, one that answers while
it reads, one that answers early), and whether a chunked body has trailers after its last chunk.
The tunnel carries none: http_to_peer and peer_to_http return an error when they meet them
(`http_to_peer.rs:35-37`, `peer_to_http.rs:84-86`), when all of the data is through. Bodies are counted in chunks and each direction holds at most
`Window` of them. The service may crash, the connection may be lost and the visitor may leave at any
point.

Each action of a task has a guard of its own, `Can...`, so that `SomebodyGoesOn` can say without
ENABLED that a task is not waiting. `NoCircularWait` has the waits on it, `EveryStepIsProgress` a count
of all that is left to do: an exchange that takes at most so many steps, and is over when none is
possible, ends as soon as the tasks are polled. `HttpService` is what is left when the stream and the
two tasks between are taken away: `relayed`, `carried` and the ends of the stream are gone, and so are
most failures, which to the visitor are a service that crashed, a network that failed, or trailers that were
not carried: then the service may have seen the whole request and answered it, while the visitor is
told of an error.

### TcpPipe

Both ends run the same two copies. `out[e]` is the function itself, `back[e]` the task it spawns.
`tokio::io::split` closes a socket when both halves are gone, and `tokio::io::copy` shuts nothing
down: both facts are the reason for `SocketClosed`. An end of `Duplex` is told that no more will come
when its socket closes, and has no copies: whatever order these end in must be one that a TCP
connection could show. The guards `Can...` serve `NoCopyIsStuck` and `EveryStepIsProgress` as they do
in `HttpExchange`.

### Graceful

`kind` is the command. `main` is where the main task is inside `Graceful::shutdown` and so whether
the token is cancelled. `tracked` names the tasks that the TaskTracker counts. For the commands of
malai every connection and tunnel is spawned on it; kulfi's control server uses `tokio::spawn`
(`control_server/mod.rs:97`), and the property about clean exits leaves it out for that reason: a
second ctrl-c cuts the responses kulfi is sending. `manager` is the connection manager of
`GetStream` for each peer, reduced to whether it sits in its `select!`, where it sees the token, or
waits for its peer, where it does not: a peer that never answers keeps the tracker from emptying,
with no connection left. Left out are the copies that `pipe_tcp_stream_over_iroh` starts with
`tokio::spawn` and that go on when the tunnel's own task has failed (`TcpPipe` has them); a clean
exit may cut those. An exposing command closes its endpoint when it is cancelled
(`expose_http.rs:64`), which ends idle connections at once and lets a request in progress fail, or
hang on its local service until main gives up. hyper's `graceful_shutdown` is modelled from its
documentation: an idle connection is closed, a busy one finishes what it serves. `Identity::run`
panics in `get_secret_key` (`todo!()`, `secret.rs:37`) before it registers an endpoint, so a
control-server request either has no identity in its Host and is a bad request, or panics in
`default_identity`.

Each listening loop is a kind of its own; `malai folder` runs two of them, "folder" and the "http" that
exposes it, which share the token and the tracker but no connection.

### HttpPool, FolderServer and FolderPool

`pc[u]` is how far a request is: at the map of pools, waiting for a connection, about to send,
waiting for the head or receiving the body. `conn[u]` is the connection it has out of the pool,
`exchange[c]` the request that connection c carries, which is another one when `proxy_pass` has
given c back early. A connection is "ready" when hyper would take a request on it, "resting" until
its task has noticed the end of an exchange, "doomed" until it has noticed a broken one. `is_valid`
and `has_broken` only see "closed". A pool lives while the map or a request has it; its connections
go with it, except one that carries an answer, which goes with its answer. kulfi's proxies are
included although no identity gets as far as being registered: their code is complete, and the same
map of pools serves both kinds of requests. An answer, in `Replies`, is a length it announces and a
number of bytes that follow; `FolderServer` computes both from a range. Its integers have `2 * Half`
values, 2^64 in the code. `checked` is a build that panics on overflow, which hyper turns into a
closed connection; the other one wraps around. In `FolderPool` one request asks for every range and
the others for small files.

### SecretKeyStore and KulfiStart

A key pair, its id and its texts are one value. `pc[p]` is where process p is in the store, `at[p]` where it
is in `start` or `Identity::create`. A process may end between any two steps and be started again. A file
is empty between its creation and its write. A secret of the wrong length makes `SecretKey::from_str`
panic in its decoder (`keys.rs:213-223`): the process is then "stalled", alive without the task that was
to serve, while one of the right length that is no key makes it exit. `contested` remembers that two
processes set out to make the same file at once, or one over another's: what the properties promise of a
file is promised as long as that did not happen, because nothing in the code excludes it. A temporary folder
of `create` is not skipped by the scan, because `Path::starts_with("temp-")` compares whole components
(`identities.rs:16`), so one that a crash left behind makes every later start fail: `Scan` has it so.

## 3. Runs

| run | bounds | asks |
|---|---|---|
| `get_stream` | 2 calls, 2 peers, idle limit 4 (the code's) | invariants of the broker, that it implements `StreamService` (so that a call is served by the session of the peer it names), and that an idle manager leaves |
| `get_stream_ack_wait` | 3 calls, 1 peer | violated: the wait for an ack is bounded |
| `peer_safety` | 2 calls, 2 peers (one serial, one spawning), 2 protocols | invariants of both ends: what an ack shows, what cuts a stream, that no wait is forgotten by the one waited for and no stream left behind by a caller that goes away |
| `peer_liveness` | 2 calls, 1 serial peer, idle limit 0 | the fairness that `GetStream` assumes of a peer holds, every call returns, the peer's task ends |
| `http_exchange` | each of the 45 kinds of exchange, 3 chunks, window 2 | that it implements `HttpService`, that nobody waits in a circle and every step is progress; every exchange ends and frees the server |
| `http_any_service` | the demanding exchanges, 5 chunks, window 1 | violated: any HTTP service can be exposed |
| `tcp_pipe` | 2 chunks in each direction | that it implements `Duplex`, half-closed connections, that no copy is stuck and every step is progress, delivery, termination |
| `graceful` | 8 loops, 3 connections, 1 peer, 2 streams each, 10 waits, 2 counted requests | what an exit cuts, that it comes, that information is shown |
| `control_counters` | kulfi, 2 connections, 2 requests | violated: never more requests in flight than connections |
| `folder_pool` | 2 requests of either kind, 2 pools of 1 connection, 2 connections, 8 values of an integer, files of 0, 1 and 3 bytes, ranges with 0, 1, 2, 3 and 7 | whose answer it is, that no connection is lost, that tunnelled requests open one pool's worth at most, that a complete answer is exact, that requests end and orphaned connections go |
| `startup` | 3 processes, 3 keys, 1 of them the environment's | what is kept of keys and identities, the lock, what kulfi runs |
| `one_instance` | 2 processes, 2 keys | violated: a second instance exits |

Why these bounds are enough. Two calls to one peer are a manager that handles one request and has
one in its slot, or one caller that registers a new manager while the old one cleans up; a third
caller, blocked in `send`, is in `get_stream_ack_wait`, and the invariants are proved for any
number. `peer_liveness` has an idle limit of 0, which only removes pings between the first and the
last, and one protocol: what a refusal may cut or forget is asked in `peer_safety`. In `PeerSession` a manager has at most one unacknowledged stream, so two calls per connection
fill both its ends. A body of three chunks over a window of two is the smallest in which a sender
has to wait for its reader in the middle; the violations need a body longer than the window and its
readers' hands, which 5 over 1 is. Two chunks per direction let a tunnel's copy end with data behind
it. In `Graceful` three connections can be new, busy and draining at one time, while the manager of
the one peer runs, ends and is replaced. In `folder_pool` two requests and two pools are what a race
of two first requests needs (a request needs a pool of its own in the worst case, so fewer pools
than requests would be a bound of the model and not of the code), one connection per pool makes the
other wait for it, and a file of 3 bytes has ranges with both ends inside, beyond its end and, with
3, 7 and the wrapped lengths, on both sides of half the integers; the safety properties are proved
for all of it. Three processes in `startup` are two that contest a file and one that reads it; three
keys are one of the environment and one that is made over another.

Properties are stated next to the specification with the lines they are about. CHECK_DEADLOCK is off
where the system really stops: a process exits, an exchange ends, a set of calls has returned. In
`folder_pool`, `startup` and `one_instance` requests and processes come again, and deadlock is checked.

### Fairness

* Local steps (a task that is ready is polled, a timer fires, a channel delivers): weak fairness in
  all modules, which tokio's scheduler gives. Where a `select!` has several ready branches it picks
  one at random, so none is passed over for ever; the model gives fairness to the disjunction, or to
  a branch that stays ready until it is taken.
* `PeerFairness` in `GetStream`: connects, pings and handshakes return. The code guarantees no such
  thing, which is what `get_stream_ack_wait` shows under `LocalSpec`. `peer_liveness` derives it, as
  the property `PeerSettlesEveryWait`, from the peer's loop, iroh reporting lost connections, and
  `UseFairness`: services end their responses and callers let go of streams.
* `HttpExchange`: tasks and services go on when they can. The visitor is a party to it: while he waits
  for the response he sends all of his body (weak fairness of `VisitorUploads`), and he reads what has
  arrived (`ReadChunk`, part of `Client`), or leaves. The code has no timeout for one who does neither,
  and he holds up the exchange and the serial loop of the exposing peer with it, so `EveryExchangeEnds`
  and `ServerIsFreed` say nothing of him. `NoCircularWait` and `EveryStepIsProgress` need no fairness.
* `TcpPipe`: the copies go on when they can; the applications owe nothing, except where a property's own
  premise says so. No window and no socket buffer is modelled, so an application that stops reading
  holds up nothing here.
* `Graceful`: tasks and timers only. `Prompt` states the one timing assumption: what a woken task
  does at once takes less than the 3 s of main's timer. Strong fairness for two steps: the timer
  runs out even if other tasks are woken over and over, and a manager that returns to its `select!`
  again and again sees the token there, since the branch is chosen at random. No client, peer or
  service has to do anything.
* `HttpPool`: the tasks of requests and connections are polled, `pool.get()` has its timeout (bb8's,
  30 s), and a service that was asked answers or hangs up. That it accepts a connection, or that a
  connection becomes free, is not assumed: `EveryRequestEnds` rests on the timeout. That a body ends
  (`BodyEnds`) assumes of whoever waits for it that he reads it or leaves: a write of peer_to_http to
  the peer (`peer_to_http.rs:88`) blocks on a full window for as long as he does neither. `KulfiStart`
  states no fairness: any process may end anywhere, and nothing has to happen.

### Disagreements between text and code

1. `get_stream.rs:23-24` and `:229` promise a timeout on the ack; there is none (`get_stream_ack_wait`).
2. `malai.sh/doc/about.ftd:29` says any HTTP service; a chunked upload to a service that reads its
   request whole, and an upload to a service that answers while it reads, wait for ever
   (`http_any_service`).
3. `control_server/server.rs:28` says there are never more requests in flight than connections; `decr`
   adds one (`counters.rs:32`), so the counters say otherwise after the first answer
   (`control_counters`).
4. `start.rs:3` and `dot_kulfi/mod.rs:8-9` say that a second instance finds the first and exits; the lock is
   a local of `start`, which returns after it has spawned its tasks, so the second one runs the same
   identities (`one_instance`).

The models also have, without a run: `protocol.rs:58-60` has the server loop until a quit message,
and it ends when a stream of another protocol is refused, after having acknowledged it;
`malai.sh/doc/tcp.ftd:46-47` says the tunnel is as the real server, and an end of file does not pass
through it while the other direction is open; `malai.sh/doc/about.ftd:29` says any HTTP service, and
an upload with trailers is reported to its visitor as failed although the service has all of its data
and may have acted on it; a temporary folder is meant to be skipped by the scan
(`identities.rs:16`) and is not; a secret text of the wrong length stalls a process instead of
ending it.

## 4. Proofs

tlapm proves every obligation with Z3, Zenon and LS4, for any sets of calls, peers, protocols and
connections and any bounds, from the assumptions named in the modules: `None` is no call or peer,
limits are natural numbers, a window and a stream count are positive, `Ping` is no exposed protocol,
a file is shorter than half the integers (the largest file has a length that is an i64).

* `GetStreamProofs`. The inductive invariant says who holds a request: each one that waits without a
  reply is in exactly one slot or hand, of a manager whose channel is not yet drained, and the map's
  entry of a peer is its only manager that has not returned. No single property is inductive without
  the others: that a cleanup removes its own entry needs that no second manager registered, which
  needs that the entry is there as long as the manager is. From it follow `RegistryCorrect`,
  `NoRequestLost`, `NoMisdelivery`, `NoSpuriousError`, `TypeCorrect`, and `Refinement`, step by
  step: a reply is decided when the manager sends it and every other step of a manager stutters.
* `PeerSessionProofs`. That a step of it is one of `GetStream` follows from the definitions and is a
  lemma. What it is for: everything that is proved of `GetStream` holds of the two ends together (`BrokerPromisesKept`), down to `StreamService`
  (`EndToEnd`: a caller gets a stream of the peer it named, or an error, over any number of connections
  that come and go). Invariants of its own then relate a stream's two ends: `AckIsEvidence`,
  `StreamsOutliveManagers`, `OneStreamAtATime`, `TypeCorrect`; a request that is not answered yet
  has no stream (`PendingHasNoStream`), so an error is never sent to one that has:
  `NoStreamIsLeftBehind`. `AnswersAreDue` adds that whoever has
  ended has told, or is about to tell, the other end: so each wait of a manager has somebody who can
  end it, `WaitsAreDue`.
* `HttpExchangeProofs`. Chunks move one way, so the counts along the path are ordered, and an end
  that is seen at one place has been decided at the one before (`IInv`): `CompleteIsWhole`,
  `RequestIsWhole`, `TypeCorrect`. Why nobody waits for ever needs the converse, that what happened at
  one place can be seen at the next (`WaitInv`): a stream that is left is finished or stopped while
  there is a connection, a service that went away has shown it to the server, and at most one chunk of
  the response is in the service's hands. Then `NobodyWaitsInACircle` is a case analysis over where
  the server and the service are, in which the sizes in `Settles` are what the windows and the hands
  can hold, and `ExchangeWindsDown` is one inequality per action. `Refinement` maps each step to the
  one of `HttpService` that the visitor or the service would notice; it needs why an upload or an
  answer may be short (`ShortForCause`) and that a server which ends without an answer has a reason.
* `TcpPipeProofs`. The same chain for each direction, as long as nothing was lost or refused:
  `EndOfFileMeansAll`, `HalvesAreIndependent`, `TypeCorrect`, and from it `Refinement`: the copy that
  ends last closes the socket, and by then all has arrived or something is wrong. `EndsTell` is its
  converse, a copy that ended has finished its stream or cannot: `CopiesAreNeverStuck`,
  `TunnelWindsDown`.
* `GracefulProofs`. A running task of malai, a manager included, is tracked, and a task that may
  start another one is running; so the tracker is not empty between the two: `CleanExit`,
  `TypeCorrect`. The other way round, whatever is tracked still runs and what is left of a draining
  connection is work, so when nothing goes on by itself somebody else has to: `ForcedForWork`.
* `KulfiStartProofs`. The store's invariant is proved of the store alone: a process past the
  keyring's write holds a key that is in the keyring, and as long as nobody contests the file its
  value is the one in use; then every step of `KulfiStart` is one of the store or leaves it
  (`StoreIsKept`), and `SecretFirst`, `IdentityStays` and `KeygenKeeps` follow for both.
  `LockCorrect` and `ServedAreWhole` need that who renames a folder has filled it with a key it
  still holds, which needs that the store leaves a process alone that uses the directory.
* `HttpPoolProofs`. `Carries` says for each connection whose exchange it has and who holds it
  (nobody, once `proxy_pass` has given it back), `Waits` the converse for each request, `Kept` that
  a connection is idle or in one request's hands. `OverKeeps` is the heart: however a request ends,
  what it leaves behind keeps all three; a send that fails, a body that ends, an exchange that is
  cut and a request whose asker leaves are instances of it. From it `NoStrayAnswer`, `ProxiesLend`,
  `NoConnectionLost`, `PoolTypes`. `Pooled` counts the connections of each pool, lent ones included,
  and has each request use its own pool's; `Shared` says that without `find_pool` this is the one in
  the map, whatever raced: `TunnelsAreBounded`, `OrphansRest`.
* `FolderPoolProofs`. For every width of the integers: a range that names a byte is announced with
  the number of bytes it names (`WantedBytes`); one that names none is announced as empty, as longer
  than any file, or as what the header asked of an empty file (`NoBytes`), which nothing but a file
  that has grown can satisfy, and then rightly. Hence `BytesOffered` and `CompleteIsRight`.

Only model-checked: everything under fairness (`IdleManagerLeaves`, `PeerSettlesEveryWait`,
`EveryCallReturns`, `AcceptorEnds`, `EveryExchangeEnds`, `ServerIsFreed`, `DataArrives`, `PipesEnd`,
`ShutdownEnds`, `InfoIsShown`, `EveryRequestEnds`, `OrphansGo`), which the prover does not reach. What
such a property rests on besides fairness is proved where it is a matter of safety: of
`EveryExchangeEnds`, `ServerIsFreed` and `PipesEnd` all of it (somebody can go on until the end, and
each step brings it nearer), of `PeerSettlesEveryWait` that each wait has somebody who can end it, of
`OrphansGo` that an orphaned connection is in nobody's hands. `ShutdownEnds` and `EveryRequestEnds`
rest on timers, which are fairness alone.

The other way round, what is proved for every value of the constants and repeated by no run: the type
correctness of every module (`TypeCorrect`, `PoolTypes`), `NoMisdelivery`, `ProxiesLend`, `OrphansRest`, `EndToEnd` and `BrokerPromisesKept`, and what the
refinements imply and the proofs of these rest on: `CompleteIsWhole`, `RequestIsWhole`,
`EndOfFileMeansAll`.

## 5. Plan

Done: the broker and its service, the peer session, the two kinds of traffic, the process and its
shutdown, the pools and the folder server, the key store and the start of kulfi, each with proofs. The
order was by how much of the program depends on a part.

What is left, in this order:

1. `TcpPipe` inside `Graceful`: the copy of `tcp.rs:37` is untracked, so a clean exit may cut it.
2. Both loops of `malai folder` in one `Graceful`, where the exposed request waits for the other
   loop's connection while both are told to stop.
3. `HttpExchange` over the stream of `PeerSession` in one module, which is to implement `HttpService`
   from the visitor's socket on.
4. What `IdleManagerLeaves` and `ShutdownEnds` rest on besides fairness, as for the exchanges.
5. `Identity::run` and the choice of an identity from the Host header, once `get_secret_key` is written.

# Verification of chitanda

TLA+ models of the concurrent parts of chitanda, TLC runs that check them on
small instances, and TLAPS proofs for every instance. Each definition is
translated from the Go source; `PROJECT.json` gives, for each one, the lines it
stands for, and lists the components, runs, mutants, hazards and theorems.

## The system

chitanda is a tunnel. A **client** (`pkg/client`) opens TCP streams and UDP
associations over one of several transports (HTTP/2, HTTP/3, a raw encrypted
stream, encrypted HTTP/1, encrypted plain UDP); a **server** (`pkg/server`)
authenticates them, refuses replays (`pkg/auth`), dials targets and relays.
`integration/` embeds both in Xray and Mihomo.

| Part | State it keeps | Modules | Interacts with |
|---|---|---|---|
| connio Writer | gate, pooled requests, one-slot queue, worker | ConnioWriter | every client connection |
| connio Reader | chunk read ahead, queue, partial chunk | ConnioReader | every client connection |
| replay cache | map, expiry heap, file, pending commit, references | ReplayGuard, ReplayCache | stream server, UDP admission |
| sequence windows | bit ring; ring of identities with floors | FrameWindow, SequenceWindows | UDP server, UDP client |
| UDP admission | windows per session, durable buckets | UdpReplay | replay cache, plain UDP server, Xray |
| plain UDP server | sessions, targets, worker queues, memory | PlainUdp | UDP admission, budget |
| HTTP/3 relay | targets, openings, process-wide budget | H3Relay | other relays, by the budget |
| stream server | connections, handshake slots, listeners | StreamServer | replay cache, plain UDP server |
| handshakes | both sides of the raw and the H1 opening | Handshake | record layers |
| record layers | sequence numbers, buffers, end of stream | BytePipe, RecordStream | handshakes |
| buffered pipe | ring, condition variable | BytePipe, BufferedPipe | H2 streams |
| carrier pool | H2 carriers, reservations, idleness | CarrierPool | autoscaler |
| H3 and raw dials | current connections, shared dials, raw sockets | ClientDial | Client.Close |
| H3 packet connection | moving deadlines of blocked calls | ClientPacket | H3 dials |
| Xray inbound | routes, pipe writes, virtual packet socket | XrayRoutes, XrayPipe, XrayVirtual | servers, dispatcher |
| Mihomo sender queue | ring, byte budgets, wake-up | SenderQueue | tunnel |
| TLS session cache | map, file | SessionCache | client start |

What makes it hard: callers leave at a deadline while a goroutine still works
for them; tables are changed outside the lock by dials that take seconds; closes
race with admissions; the replay decision must survive crashes, failed syncs and
expiry; datagrams are lost, repeated and reordered; counters and budgets are
returned on many paths by whichever goroutine comes first.

## Modules

A variable or action has the name of the field or function it models where TLA+
allows it. A definition called a *variant* is a plausible mistake in the one
below it; it is used only to see that the property named with it in
`PROJECT.json` would notice. `TypeOK` states the ranges of a module's variables
and the limits of its counters.

### ConnioWriter

`pkg/connio/deadline.go`, the asynchronous `Writer` under every client
connection. A caller takes the one token of the gate, leases a pooled request,
puts it on the one-slot queue and waits for its result, its deadline or Close; a
single worker writes. A request has two references, the caller's and the
worker's, and is pooled when both are gone. The actions are the steps of
`WritePacket`, `CloseWrite`, `Close`, the worker and `drainOnExit`.

* `LeasesIntact`: a pooled request is used by nobody and its result channel is
  empty, so the worker's send never blocks and no old result is read.
* `QueueDiscipline`: nobody is about to send on a closed queue, and once
  `exited` is closed nothing is queued or awaited.
* `HonestCount`: a write reports at least what the transport takes, now or
  later; no error means all of it.
* `HalfCloseComplete`: a successful CloseWrite on an open Writer means that
  every accepted write was written.
* `ExitDrains`: the worker exits and every blocked call returns after Close.

### ConnioReader

The `Reader` of the same file: a goroutine that reads ahead of its consumers,
who come and go with timeouts. `ReaderExact`: at most the three chunks of the
comment are held, each in one place and freed once; a stream's bytes come in
order and its error after them, a packet's bytes never twice.

### ReplayGuard, ReplayCache

`pkg/auth`: the persistent nonce cache. `ReplayGuard` is the promise: within
the window a nonce is granted once, whatever crashes in between. `ReplayCache`
is the code: map, expiry heap, file with its synced part, group commit with
waiters, compaction by rename, failure latch, sharing by reference count, Close,
and a crash that loses unsynced writes and renames.

* `GuardSpec`: the cache implements `ReplayGuard` (`INSTANCE ... WITH` the clock
  and the history of grants).
* `GrantsDurable`: every grant in its window is in whichever file a crash leaves.
* `AcceptTerminates`: every Accept returns.

The file is a set of records (`load` depends on their order only for a nonce
with two live records, which there never is). A line cut short by a crash parses
or does not; a record glued to one that parses is lost with it. Callers of a
closed cache have returned before it is opened again.

### FrameWindow, SequenceWindows

`internal/frame`'s bit window, with its circular array and the slots a jump
clears, and the response window of `internal/plainudp/response_replay.go`.

* `WindowExact`: within its span the array is exactly the set of numbers seen.
* `ResponseOnce`: no response is accepted twice, also after the ring forgot it.
* `FreshResponseAccepted`: a new response within the allowed skew is accepted.

### UdpReplay

The admission of authenticated datagrams in the plain UDP server and in Xray's
registry: freshness of the timestamp, the session's window (`FrameWindow`), and
the durable admission of (session, bucket) pairs, the replay cache being
represented by `ReplayGuard`'s promise. Sessions expire and are lost in a
restart; datagrams arrive late, twice and in any order.

* `NoReplay`: no datagram is forwarded twice, restarts included when admissions
  are durable.
* `ResumesNextBucket`: the newest datagram of a session, fresh and in a bucket
  not admitted before, is forwarded.

The table limit is an input (`full`). The Xray registry reads the clock just
before its mutex; the two are one step.

### PlainUdp

`pkg/server/plain_udp.go`: the receive loop with its memory budget, the workers
and their queues, sessions, UDP and ICMP targets with their readers, the cleaner,
and the order in which the end of Serve joins them.

* `LeasesExact`: a target lease is held by one being made or one with a reader,
  and a listed target is open and belongs to a session in the table.
* `CountersExact`: memory, target and session counters are what they count.
* `SessionLimit`: there are no more sessions than `maxSessions`. The code does
  not keep it (`session_limit`): the limit is checked and the session stored
  without a common lock. `SessionOvershoot`, which is proved, says by how much:
  fewer than there are workers.
* `StopsClean`: after Serve and Close nothing is held. `CloseReturns`.

### H3Relay

`pkg/server/http3.go` (`udpRelay`) and `udp_budget.go`. Forwarders look targets
up, share or create openings, dial outside the lock, install, flush batches;
readers fail and remove; `Close` cancels, sweeps and joins; the rest of the
process takes and returns budget. UDP and ICMP targets, whose addresses are
disjoint, are one table.

* `BudgetExact`: the budget is the number of openings and open targets.
* `CachedLive`: a target in the table is open and has a reader.
* `NothingAfterClose`, `CloseReturns`.

### StreamServer

`pkg/server/stream_server.go` and `relay.go`: admission under the lock that
seals Close, the handshake with its semaphore and its deadline, early `Check`
and committing `Accept`, dial, the initial payload, the two copying directions,
half-close, idleness, cancellation of one connection and of the server, the
attached UDP server and Close. Time is a clock, and a hello a nonce with a
timestamp, compared in whole seconds with the clock as it was when the handler
started. The replay cache is `ReplayGuard`, step by step: `Accept` is its `Grant`
with the life of a record, 2 * MaxClockSkew, as the window, so a nonce is
forgotten and only the timestamp refuses its hello after that.

* `SlotsExact`: one semaphore token for each unfinished handshake.
* `OncePerRecord`: a connection dials on a grant of its own, and two connections
  with one hello reach a target only if one was accepted when the record of the
  other had run out.
* `OncePerNonce`: no hello opens two connections, ever. The code does not keep it
  (`nonce_reuse`).
* `SealedClose`: nothing is running or admitted when the cache is closed.
* `HalfClosePreserved`: a clean end of one direction leaves the other alone.
* `CloseReturns`, if every write of an initial payload ends. That write has no
  deadline, and the end of the context closes the client's socket only
  (`stream_server.go:282` and `444`), so a target that takes no data holds the
  handler, and with it Close, for as long as its connection lives.

### CarrierPool

`pkg/client` with `pkg/plugin/autoscaler`: the H2 pool. A dial holds the read
lock from its scan to its reservation; `AddCarrier` probes without a lock and
registers under both; the autoscaler scales up on signals after a cooldown and
sweeps on a ticker; streams and carriers close one another. Times are ages that
stop at the limit they are compared with, so time is not bounded. The H3 pool is
kept by a second copy of the code.

* `ReservationsExact`: `activeStreams` is the number of streams.
* `NoStreamEvicted`: the autoscaler never takes a carrier that a dial has picked,
  nor one of the base.
* `NothingAfterClose`, `IdleReclaimed`, `CloseReturns`.

### BytePipe, RecordStream, BufferedPipe

`BytePipe` is what every half-closable direction promises: the bytes in order,
each once, and an end only when the writer ended and all were received.
`RecordStream` is one direction over the three record layers (`rawstream`,
`h1session`, `frame`): adaptive chunk sizes, batches, partial writes, chunked
framing, nonces that run out, the authenticated end, reads that time out between
any two units, a transport that breaks. `BufferedPipe` is the growing ring of
`bufpipe.go` with its condition variable. Both implement `BytePipe`
(`PipesSpec`, by `INSTANCE ... WITH`).

* `NothingHeldBack`: a Write that returned has flushed what it was given.
* `FailsOnlyOnFault`: a read fails for good only after a real fault.
* `EndsArrive`: the end reaches the reader, and nobody sleeps for ever in
  `cond.Wait`.

### Handshake

Both sides of the raw and the H1 handshake, for every user, clock offset,
padding and target, with deadlines, cancellation, a connection that breaks
anywhere, and a replay cache that may refuse. `HandshakeAgrees`: both sides
agree on user, target and keys, leave the connection exactly at the first byte
of the stream, and fail only for a reason (`FailsForCause`: a fault, a deadline,
or inputs that do not match). In this run domains have three bytes or more. A
domain of one byte (H1), or of one or two (raw), is encoded and then refused by
the decoder, which asks for seven bytes in all (`short_domain`).

### ClientDial, ClientPacket

`ClientDial`: the one QUIC connection of a slot that callers share, with its
generations and its AfterFunc, and the raw sockets of a client, both against a
caller that goes away and against Close. `CarriersOwned`: an open socket always
has somebody who will close it, what was handed over is not cancelled by its
dialer, nothing is current after Close. `ClientPacket`: `DeadlinesKept`, a
blocked datagram call wakes by the deadline in force, however it was moved.

### XrayRoutes, XrayPipe, XrayVirtual

The outbound routes of a UDP association (`RoutesOwned`: each connection and
each lease has one owner, the table keeps its limit; the table is written for
several callers, and modelled with two, though `handleUDP` is one); the queue of
pipe writes (`PipeHonest`: what a caller is told is what becomes of its bytes. A
second CloseWrite that waits for another's returns nil when Close drops that
one, so for a half-close "ok" means done or closed); and the virtual packet
socket (`VirtualExact`: both byte counters and the table of writers).

### SenderQueue, SessionCache

Mihomo's bounded packet queue (`QueueExact`: order, bytes, and a sender that is
awake when there is something to send), and the file of TLS sessions
(`SessionsDurable`: a crash finds a whole file, never older than the last change
reported without an error).

### MCChannels, MCEndpoints, HonestCallers, MCStreamServer, MCCarrierPool

The parts of a channel, the endpoints at the system's edges, the replay cache
with the stream server, and the carrier pool with the UDP admission: within one
run each part is checked by itself. A variable says which part a behaviour is
about, and the others stay as they start. `MCStreamServer` also divides what may
happen in a behaviour: callers with two nonces at one time, one caller that
fills the map, or two callers with one nonce while time passes; a server whose
clock stands still, or one where time passes and that is not closed.
`EndpointsOwned`, `EndpointsHonest` and `EndpointsReturn` are the conjunctions
of the properties named above and of what each part's Close or blocked callers
wait for; `HonestCallers` has the parts `EndpointsHonest` is about.
`MCCarrierIdle` adds to the carrier pool the age of each carrier's last use,
which no code keeps. `MCPlainUdp` names the datagrams of the plain UDP runs; the
other runs instantiate a module directly.

## Runs

| Run | Instance | Distinct states |
|---|---|---|
| connio_writer | 2 callers, 3 requests, 3 writes; fair | 321,274 |
| stream_server | cache: 3 nonces of which 2 fit, 2 callers, 2 references, compaction after each write, a window of 3 half seconds and a clock that passes it; server: 2 connections, 1 hello, 2 slots, a skew of 1 s and a clock to the end of a record's life; fair | 412,694 |
| replay_reopen | 2 nonces, 2 callers | violation |
| nonce_reuse | 1 connection at a time, 1 hello stamped 1 s ahead, a skew of 1 s | violation |
| channels | windows of 3 slots and numbers to 8; a ring of 2 identities; records of 1 to 2 bytes, 6 bytes, 1 timeout, 4 nonces; padding to 2, domains of 3 and 4 bytes; a ring of 3 bytes and 9 bytes through it; fair | 479,772 |
| short_domain | the handshakes of channels, domains of 1 and 2 bytes | violation |
| endpoints | 2 callers of each part, tables of 1 route, 3 pipe calls, 3 associations, 2 dials, 3 chunks, 4 packets, 4 changes; fair | 521,861 |
| h3_relay | 2 forwarders, 2 addresses, 2 targets, limit 1, budget 1, 1 held elsewhere; fair | 580,686 |
| carrier_pool | pool: 3 carriers, 1 base, 2 dials, 1 caller of AddCarrier, evicted after 1 tick; admission: 1 session, numbers to 3, 6 seconds, both registries, restarts; fair | 416,571 |
| carrier_idle | the pool of carrier_pool, evicted after 2 ticks, with the age of the last use (MCCarrierIdle) | violation |
| plain_udp | 2 keys, 2 workers, 2 targets, every limit 1; fair | 388,974 |
| session_limit | as plain_udp | violation |

The bounds are the smallest at which two actors meet at each table and counter
and each window and age is passed: a bit window more than twice, a ring wraps and
grows, a record stream goes through all phases of chunk sizes. Where the code
refuses at a limit one more arrives than fits, but for the stream server, whose
two connections find two slots: what a refused connection leaves behind is
nothing, and the limits themselves are proved. The admission's clock reaches the
end of a bucket's record, from a bucket that starts at 3. The sizes are constants
of the code (1024 slots, 64 targets, 30 s) on whose value the control does not
depend; where the number of actors could matter, the proofs below are for any
number.

Fairness: goroutines run, callbacks of a context are called, the ticker fires,
and file operations return. A probe and a handshake end because each has a
deadline, the stream server's dial once its context is done; its write of an
initial payload is not assumed to end. A route's opening ends because Dispatch
returns at once; the UDP relays only resolve a name before they dial, and a
resolution has a timeout; I/O on a closed socket fails. A client's dial, a
stream, a pipe write and a Reader's source are only known to return once they
are cancelled or interrupted, the writes of a Writer once `abort` was called. A
copy between open sockets, an open stream and a caller's next call are never
assumed. `select` takes a case that is ready again and again (strong fairness of
the autoscaler's ticker and of its exit).

Runs without deadlock checking are those whose bounds let everything come to
rest: calls, clock or changes are used up, or all is closed.

Five runs show disagreements between the code and its documents or comments.
After a compaction whose directory sync failed, a replay cache that is opened
again trusts the unsynced rename (`replay_reopen`). A nonce is kept for exactly
2 * MaxClockSkew while a timestamp as far ahead as allowed is good for the whole
second after that, so a hello can open a second connection (`nonce_reuse`). Open
frames for a domain of one byte (H1), or of one or two (raw), are refused
(`short_domain`). A carrier
whose stream came and went between two sweeps is evicted less than `minIdle`
after it (`carrier_idle`). Workers that meet at the session limit pass it
(`session_limit`).

## Proofs

All are checked by TLAPS, for every value of the constants that the named
assumptions allow. None of the properties is inductive as it stands; each proof
adds who holds what at which step.

* **ConnioWriterProofs**, from `WriterAssumption`: types, `LeasesIntact`,
  `QueueDiscipline`, `HonestCount`, `HalfCloseComplete`, for any callers, pool
  and number of writes. `GateInv`: one caller or the draining worker has the
  gate. `LeaseInv`: who holds which reference, and where an unanswered request
  is. `StopInv`: what the closed channels say of the worker. `OpsInv`: a write
  belongs to one caller and one request. `CountInv`, `CloseInv`: what the
  transport has of each write.
* **StreamProofs**, from `ServerAssumption` (finitely many connections,
  positive limits): types with their limits, `SlotsExact`, `OncePerRecord`,
  `SealedClose`, `HalfClosePreserved`, for any clock, skew and timestamps.
  `CountInv`: the three counters are cardinalities. `GrantInv`: the grants of a
  hello are numbered, so that a new one differs from all before, and a record's
  life apart. `OwnerInv`: between commit and dial one connection owns a grant.
  `CloseInv`: how far Close has come. `RelayInv`: copies run in the relay only.
  From `RingAssumption`: `RingImplements`, the buffered pipe implements
  `BytePipe` for every capacity, first size and choice of read and write sizes.
  `RingInv`: from its head on the ring holds the bytes after the ones read;
  `FillHolds`, `GrownHolds` and `ReadKeeps` say that copying in, growing and
  reading keep it, by arithmetic of places in a ring.
* **RelayProofs**, from `RelayAssumption`, for any number of forwarders,
  addresses and targets and any limits: `BudgetExact`, `CachedLive`,
  `NothingAfterClose`. `OwnInv`: a target dialled and not yet published is its
  opener's alone, which is what lets a refused one be closed. `CacheInv`: what
  is about to be closed has left the table. `BudgetInv`: a reservation is an
  opening's or a target's. `CountInv`, `ReachInv`: the wait group counts
  openings and readers, and all that is open is in their hands.
  From `SizeAssumption` and `WindowsAssumption`, for every window size, ring
  size and skew: `WindowExact` (and that no accepted number is accepted again),
  `ResponseOnce`, `FreshResponseAccepted`. `Exact`: `WindowExact` over all
  numbers, with lemmas on remainders that tell slots apart. `Remembers`: a
  response accepted is in the ring, under a floor or retired.
* **CarrierPoolProofs**, from `PoolAssumption` (finitely many dials and base
  carriers, names that differ): types, `ReservationsExact`, `NoStreamEvicted`,
  `NothingAfterClose`, for any carriers, callers of AddCarrier and limits.
  `PoolInv`: the pooled carriers are in the list, each once, the base first, so
  that taking one out leaves the others. `ProbeInv`: a probed carrier belongs to
  one call. `StreamInv`: a dial with a reservation has a carrier, pooled until
  Close drains the pool. `CountInv`: `active` is the number of such dials, which
  is why a carrier with `active` zero may be evicted. `CloseInv`: how far Close
  has come.
* **ReplayProofs**, from `CacheAssumption`: `GrantsDurable`, and
  `ImplementsGuard`, the cache implements `ReplayGuard`, for any nonces, callers,
  window and clock resolution, with crashes, torn appends and compactions
  anywhere. `LockInv`: the nonce that was new under the mutex stays so. `DiskInv`:
  the map knows every fresh record of the file. `SyncInv`: when `syncedTx` has
  passed a write, every file a crash may find, the one before a rename included,
  has its record in the synced part. `PairInv`: two Accepts of a nonce, returned
  or waiting, are a window apart.
  From `UdpReplayAssumption` and `SizeAssumption`, for any sessions, numbers,
  window size, skew and expiry: types, `NoReplay`, `ResumesNextBucket`.
  `AdmitInv`: the cache keeps a bucket until the last timestamp it admits is
  stale. `OnceInv`: a forwarded datagram that is still fresh is protected; with a
  cache by its bucket's record and by the window of a session that has gone on
  since, without one by the window of a session too young to expire.
* **PlainUdpProofs**, from `PlainUdpAssumption` (finitely many workers, at least
  one, and targets; names that differ): `LeasesExact`, `CountersExact`,
  `SessionOvershoot`, `StopsClean`, for any keys, addresses and limits.
  `WorkInv`: a worker has the task, lock and target its step says, and only
  tasks of its own keys. `SessionInv`: who has a session finds it in the table
  unless it was closed under them. `TargetInv`: a listed target has its reader,
  which knows its place, and one being made is known to its worker only.
  `ServeInv`: what the end of the loop has joined stays joined. `CountInv`: the
  counters are cardinalities, less the sessions stored and not yet counted; this
  gap is why the session limit is passed, and why by less than the number of
  workers.
* **RecordProofs**, from `RecordAssumption`, for every chunk and batch size,
  nonce limit and sequence of writes, timeouts and faults: `NothingHeldBack`,
  `FailsOnlyOnFault`, and `RecordImplements`, the three record layers implement
  `BytePipe`. Sequences of records are reasoned about by closed forms instead of
  sums: `Begin(k)`, the units before record k, is the place of its first byte
  plus what k - 1 records add in the layer. `SealedInv`: records follow each
  other and only the last may end. `OnWire`: each unit under way is the one of
  its place, counted from what the reader has read (`Base`), header and chunk
  line in part included. `WriterInv`: what a returned call has flushed.
  `ReaderInv`, `PlaceInv`: what was delivered or decrypted is all there is before
  the next record. `ErrorInv`: an error has its fault. A write that failed may
  leave a hole (`Clean`), behind which nothing is promised but that it is never
  taken for an end.
* **EndpointProofs**, from `PipeAssumption`, `PacketAssumption` and
  `SessionAssumption`: `EndpointsHonest`, for any writers, readers, calls, moves
  of a deadline and changes of the cache. Its parts are theorems of their own.
  `PipesHonest`: `GateInv`, one writer or one job has the gate's token;
  `LeaseInv`, who holds a reference to a request, so that one of the pool is in
  nobody's hands; `CallInv`, a request serves one call; `FateInv`, the result that
  waits for a caller says what became of its bytes; `LeaveInv`, why the worker
  left. `DeadlinesHold`: `WritesInTime`, the current write context has the
  deadline in force and only older ones are cancelled. `SessionsSurvive`:
  `SessionInv`, no file a crash may find is older than what was reported, and the
  temporary file has the map's contents before it is renamed. The endpoints
  share no variable, so the theorem is about the three specifications side by
  side, of which each behaviour of `EndpointSpec` is one.

Only model-checked: all liveness (`ExitDrains`, `AcceptTerminates`, `EndsArrive`,
`EndpointsReturn`, `IdleReclaimed`, every `CloseReturns`), which is out of this
prover's reach; `VirtualExact` and `QueueExact`, whose byte counters are sums over
a queue and need induction over data, and with them `EndpointsOwned`, of which
they are conjuncts; and `HandshakeAgrees`, whose proof would need an invariant
that places every byte under way in its side's flight, which is not written.

## Not modelled

* Cryptography and byte layouts: a record opens exactly under its key and
  number, a MAC is the tuple it is computed from; encodings of addresses,
  frames and datagram headers are conversions without state.
* `pkg/server/http3.go`'s request handlers and `server.go`'s Run: they parse one
  request and hand over to the relays modelled here; the rest is the API of
  quic-go and net/http. The fallback site and SNI routing are stateless.
* The client's H2 prober: one goroutine that counts its own failures; its probe
  is a dial of the carrier pool.
* The H3 carrier pool, a copy of the H2 pool's code.
* The plain UDP connection of the client (`conn_plain_udp.go`) but for its
  response window: its calls are those of a socket behind a closed flag.
* Some detail of modelled parts. `FrameWindow` clears the slots a jump passes as
  a set; the words and masks of `clearSlots` are not there. A blocked datagram
  send (`ClientPacket`) wakes at its context, as the vendored quic-go does; a
  stock quic-go would ignore it (`conn_udp.go:790`). The directory of the TLS
  sessions is durable (`SessionCache`), also when MkdirAll has just created it.
  What a shared replay cache is worth to a user when another closes it once too
  often is not stated: Accept would fail, which `ReplayGuard` allows.
* Socket options, configuration, the state directory and file lock, the
  adapters to Xray and Mihomo, generated code, commands and scripts.

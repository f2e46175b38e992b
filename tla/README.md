# A TLA+ model of wolfram

wolfram is a C SDK for the AT Protocol. This directory models its concurrent
and stateful parts in TLA+, checks them with TLC on small instances, and proves
the central safety properties with TLAPS for every value of the constants.
`PROJECT.json` lists the components, the runs, the hazards and the theorems, and
names for every definition the source lines it stands for. Paths below are
relative to the repository's `src/` directory of C files unless they start with
`include/` or `docs/`.

## The system

Most of wolfram is sequential: a call builds a request, sends it and parses the
answer. State that outlives a call, or that several threads share, is in a few
places.

**The XRPC server** (`server/`) runs on libmicrohttpd (MHD), or on
`server/mhd_shim.c`, a thread-per-connection replacement with the same
interface.

- *Request dispatch* (`xrpc_server.c`): MHD calls `wf_server_mhd_handler` several
  times for one request, with the pieces of its body in between. The routes, the
  body cap and the limiters may be changed by other threads meanwhile. When the
  client goes away only `wf_server_mhd_completed` is called.
- *Rate limiter* (`xrpc_server.c`): a table of token buckets behind a mutex.
- *Server-sent events* (`xrpc_server.c`): producers append to a stream's queue
  and resume its connection; MHD pulls from the queue and suspends the
  connection when it is empty.
- *WebSockets* (`xrpc_server_ws.c`): an accepted upgrade gets a worker thread,
  which runs the user's handler and then the control-frame loop. Producers
  retain the stream. `wf_xrpc_server_stop` has to close, join or wait for all of
  them before the daemon goes away.
- *Relay* (`relay_server.c`): a WebSocket handler that forwards an upstream
  subscription from a detached thread.

**The clients.** The *firehose subscriber* (`sync/sync_subscribe.c`) and
*Jetstream* (`jetstream/`) are reconnecting readers with a cursor. The *XRPC
client* (`transport/xrpc.c`) refreshes the *session* (`session/`) when a token
has expired, for callers on several threads. *Identity resolution*
(`identity/`) races two threads and keeps a cache of documents.

**Stored data.** The *repository* (`repo/`) is a Merkle search tree over CBOR
blocks; the *blob store* (`blob/`) keeps two files per blob; `store/` is SQLite.

Everything else (the generated lexicon bindings, typed responses, cryptography,
codecs, the CLI, platform ports) keeps no state between calls. `PROJECT.json`
gives each part with the reason it is or is not modelled.

What is hard about this code is mostly in the server: memory that one thread
frees and another still uses, counters that stand for sets of threads,
shutdown against everything else, wake-ups around suspended connections, and
calls of one request with a registration or a disconnect between them. In the
clients it is the cursor across reconnects, stopping from another thread, and
credentials that are swapped for the length of a call. In the stored data it is
the shape of the tree after long sequences of writes, and a failure between two
writes that belong together.

## Modules

| module | source | what it models |
| --- | --- | --- |
| `WsServer` | `xrpc_server_ws.c`, `xrpc_server.c` | handshake, hand-over, worker threads and producers of any number of upgrades, `stop()` and `free()` |
| `WsStream` | `xrpc_server_ws.c` | one stream: send, ping, close, retain, release, frame writer, control-frame loop |
| `WsCallers` | | the producers of a handler on top of `WsStream` |
| `Relay` | `relay_server.c`, `transport/websocket.c` | the composition: a stream whose handler spawned producers, or is the relay with its forward thread and upstream sessions |
| `Sse` | `xrpc_server.c` | event streams, the content reader, producers, the SSE pass of `stop()` |
| `RateLimiter` | `xrpc_server.c` | the table of token buckets and the answers made from it |
| `TokenBucket` | | abstract specification: buckets refilled every second |
| `MhdShim` | `mhd_shim.c` | acceptor, connection threads, suspended readers, upgrades, `MHD_stop_daemon` |
| `Feed` | | a service with a sequence of events, and what its two readers share |
| `Subscribe` | `sync/sync_subscribe.c` | `subscribe_loop` and `wf_subscribe_stop` |
| `Jetstream` | `jetstream/jetstream.c`, `transport/websocket.c` | polling, reconnecting, and options updates that take several calls |
| `EventClients` | | the composition: the service with either reader |
| `Request` | `xrpc_server.c` | one request through the handler and the completion callback |
| `Session` | `session/session.c`, `agent/agent.c`, `transport/xrpc.c` | an agent with its session and two clients, used by several threads: requests, refresh, login, resume, logout, bearer tokens |
| `DidNames` | | the DIDs that `HandleRace` and `DidCache` share |
| `HandleRace` | `identity/identity.c` | `wf_handle_resolve`: two detached threads and the caller share a counted state |
| `DidCache` | `identity/identity.c` | `did_fetch_document` and the cache of documents |
| `Identity` | `identity/identity.c` | the composition: `wf_identity_verify_handle` uses both, other threads use the cache |
| `Mst` | `repo/mst.c` | the Merkle search tree: add, delete, find, walk and proofs, as recursive operators |
| `Repo` | `repo/repo.c`, `repo/diff.c` | a repository with its writes, and a mirror that follows it by diffs |
| `RecordMap` | | abstract specification: a map from keys to records, with batches |
| `BlobStore` | `blob/blob_store.c` | the index, the two files of each blob, failures and crashes |
| `...Proofs`, `WsServerSteps` | | the theorems |
| `MC...` | | instances for TLC |

In all of them a critical section is one step, unless a thread keeps a mutex
over several (then the others are held off by a guard, such as `WsMutexFree`).
What a thread reads outside a mutex and uses later is a step of its own. A
failed allocation is an alternative of the action in which it can happen; one that
makes a call return before it has done anything is no action of its own. There are
two exceptions: in `Repo` and `Mst` memory suffices, and in `Subscribe` a frame for
which there is none is one of `Bad`, and never the `OutdatedCursor` frame.

**WsServer.** A connection carries at most one upgrade, so it also names its
stream and its context. `up` is the MHD side (`Handshake` queues the 101
response and records it in `pending`; `UpgradeTake`, `UpgradePublish`,
`UpgradeRefuse` and `UpgradeReady` are `wf_ws_upgrade_cb`; `ConnectionClosed` is
the notification that MHD gives when a handshake comes to nothing). `wk` is
`wf_ws_serve_thread`, from waiting for `thread_ready` through the handler, the
loop, the wait for producers, unlinking, closing and the last decrement of
`ws_closing`, to its end. `stop` goes through marking, popping and joining,
waiting for `ws_closing`, stopping the daemon and freeing.

**WsStream** is the same stream seen from the wire; the worker's life is reduced
to handler, serving, leaving and gone. Every operation holds the stream mutex
throughout, so it is one step with a nondeterministic outcome of the write. The
control-frame loop is left for a close, for a peer that is gone (`LoopError`), and
for a frame that is too long, too slow or finds no memory (`LoopBadFrame`).

**Relay.** `handler` says what the stream's handler is, the relay or one with
producers of its own (`WsCallers`); `handler` and `reconnect` are fixed by the
initial state. A message arrives in two pieces, and a quiet moment or the end of
the session may fall between them.

**Sse.** `SendCheck` (the unlocked read of `closed`), `SendAppend` (the critical
section) and `SendResume` (the use of `s->conn` after it) are separate steps. A
producer that uses a freed stream is stopped by `UseFreed`: the interface
leaves this to the caller, and the model gives it no meaning.

**RateLimiter** counts in units of 1/`Duration` of a token, so that the `double`
arithmetic of the code becomes exact integer arithmetic. `seconds` are those by
which the wall clock has advanced, by itself or because it was set forward;
`SetBack` lets it go backwards.

**MhdShim** keeps the outcome of a request and leaves out its text. `StopFree`
may happen at any time after the wake-ups, because the code waits for two
seconds at most.

**Feed, Subscribe, Jetstream, EventClients.** The service (numbering, retention,
`OutdatedCursor`) is external and modelled from how the code uses it. A frame is
an event number or `Outdated`; `Bad` are the events whose frames do not parse, or
for which the subscriber may have no memory. `client`
is fixed by the initial state. The firehose subscriber is a loop of its own;
`wf_jetstream_next` is a call that the caller makes again and again, with calls of
`wf_jetstream_update_options` in between. An update is a number of pieces, and the
socket may take any of them at a time. `failed` holds the events that a call of
`wf_jetstream_next` has lost and returned an error for.

**Request** has one request; others appear only as registrations and changes of
the cap, which may happen between any two steps. A body is a number of bytes. A
streaming write that is refused leaves its error in the response; when there is no
memory for that, nothing remembers the refusal (`missed`).

**Session.** The agent's client (`auth`) and the session's (`own`) each hold a
credential, and `wf_session_refresh` and `wf_session_delete` put the refresh
token on the second while their request is out. The `refreshing` flag is read in
one critical section (`ReadGuard`) and set in the next (`SetGuard`). No lock
protects the session: a thread that enters its code while another is inside
takes the step `Race`, after which nothing more is said. A token is known by its
account and the number of the session or renewal it came with.

**HandleRace, DidCache, Identity.** A caller's race is its launches, its wait for
both sides, its choice and its release; a thread is a lookup with its report, and
a release. A document is known by the time its request was sent, so that
`BoundedAge` can say how old it is. The TTLs are read at the beginning of a call
and may be changed, or the cache cleared, at any time. The clock is assumed not to
be set back (`identity.c:693`, `identity.c:708`): every entry would count as younger
by as much. A verifying thread first races and then fetches, and its client is freed
only after it has returned. When there is no memory for its copy of the DID
(`identity.c:1520`, `identity.c:1523`) `wf_handle_resolve` returns `WF_OK` and a null
pointer, which the cache compares with the DIDs it holds: that call may end as
`"crashed"`.

**Mst, Repo.** A link is the node it leads to, since a CID is the hash of what it
names. A key is a number, with a given layer. A node does not carry its layer:
as in the code, it is read off its first key, or off its child. The operators
return a status where the code can fail. Each call of `repo.c` is one action,
and a failed one leaves the head alone. `call` and `status` record the last call,
its arguments and what it returned; no action reads them. They are there for
`RecordMap`, in which the records and the status after a call are a function of the
call and of the records before it. The mirror takes any of the update CARs
that a service might send: whole, only what is missing, or one block short.

**BlobStore.** Each call of the C library is a step that may fail; `Restart` is
opening the store, after a crash at any point. `acked` is what the caller may
expect to find. It is widened where the code puts a blob at risk (a put over an
existing blob, a data file that is written again), and narrowed when a call returns
`WF_OK`. `lost` are the files that `fclose` could not write to the end, which the
code does not notice.

## Runs

Each is `tlc -config <cfg> <module>`. A run checks safety and liveness of its
component together, under a specification with fairness where there is liveness.
`server_parts` checks three parts that share no state in one run: `part`, fixed by
the initial state, says which of them moves.

| run | instance | what it shows |
| --- | --- | --- |
| `ws_server` | 2 connections, 2 producers | no use of freed streams (`NoUseAfterFree`); the daemon and the server outlive the workers that need them (`DaemonOutlivesWorkers`); each thread is joined or detached, not both (`JoinedOrDetached`); `stop()` returns and closed streams are freed |
| `relay` | 2 producers, or 3 messages in 2 sessions, with and without reconnecting | only pongs follow a close frame; the worker outlives every holder, the forward thread included; messages arrive in order, without gaps inside a session; a closed or lost stream with producers ends; without reconnecting the end of the session ends the stream, whether the upstream closed, was quiet or could not be reached |
| `sse` | 2 streams, 2 producers, 2 frames each | no lost wake-up; frames in order, none missing or twice; a closed stream ends |
| `server_parts` | 3 connections of the daemon; 2 keys, 3 points in 4 s, costs 1 and 2; 2 blobs, 2 types | a connection is freed once, and `MHD_stop_daemon` ends every thread; the budget holds even when the clock is set back, and lazy refill implements `TokenBucket`; unless `fclose` lost some of it, what is on disk is what the caller was told to expect |
| `event_clients` | 4 events, one of which does not parse, 3 faults, 2 updates in 2 pieces; firehose, Jetstream version 1 and 2 | delivery resumes without repeating or skipping silently; every event arrives; at most one event after stop; stop ends the loop; an update that was answered with `WF_OK` is what the service has got, whole |
| `request` | caps 2 and 3, pieces of 1 and 2, bodies up to 4 | buffers freed once; handlers get whole bodies; limiter and auth before handlers |
| `session` | 2 threads, 2 accounts, 3 sessions or renewals | the refresh token is put away; the agent's requests carry the token of its session; the refresh guard never stays up; every call returns |
| `identity` | 1 verifying thread, 1 other reader, 2 DIDs, 1 slot | the shared state is freed by its last owner; no lookup uses a freed client; documents are not too old; calls return and leave nothing behind (or crash on a DID that could not be copied) |
| `repo` | 4 keys on 3 layers, 2 records, 4 batches | every call has the effect and the status it has in `RecordMap`; every record can be deleted; proofs suffice; a mirror holds the blocks of one commit; a diff takes the mirror's records to the author's and back |
| `repo_shape` | as `repo` | expected to fail, see below |
| `retry_after` | the limiter of `server_parts` | expected to fail, see below |
| `blob_loss` | the blob store of `server_parts` | expected to fail, see below |

Three runs show the code doing something else than it says; the findings in
`PROJECT.json` quote what is contradicted.

*`repo_shape`.* `mst_delete_recursive` explains at length why
an emptied child must not stay linked, and unlinks it in the branch for a node
on the key's own layer. No key that is there is reached through that branch.
The branch for a lower layer keeps the link, so that deleting the only record
below a node leaves an empty node in the tree, and two repositories with the
same records have different roots (`HistoryIndependent`). The other properties
of the tree hold all the same: the empty nodes are raised and merged like others.

*`retry_after`.* The wait of a refused caller is meant to be the time until its
tokens are there, and is rounded to the nearest second: who asks for 2 tokens when
there is one, at 3 tokens in 4 seconds, is told 1 second, comes back after 1, and is
refused again (`RetrySucceeds`). It is never off by more than that second
(`RetryKept`, below).

*`blob_loss`.* `wf_blob_store_put` checks `fwrite` and not `fclose`, where the bytes
of a small blob are really written. On a full disk the put returns `WF_OK` and the
blob is cut short (`StoredOnOk`). `Durable` says what holds of all other blobs.

### Bounds, and why they are enough

- *Connections, streams, producers.* Two connections are the least for `stop()`
  to meet one worker that it claims and one that leaves by itself; two producers
  are the least for one to hold what the other closes. The properties of
  `WsServer` and `MhdShim` that are invariants are proved for any number.
- *Frames and messages.* Two frames per producer order against each other and
  against those of the other producer. Three messages over two sessions allow a
  gap between two sessions and none inside one.
- *Numbers.* In `RateLimiter` 3 points in 4 seconds do not divide evenly, so
  rounding matters. In `Request` one cap is below and one above a buffer that
  has already grown, and a piece can straddle either. In `Feed` the
  initial delay is cut at its cap when it is doubled, and three faults leave room for
  a drop, a failed connect and another drop. In `Session` three sessions are a login, a
  renewal and the session of another account. In `DidCache` one slot makes two
  DIDs evict each other, and two ticks are enough for a copy to become stale and
  be served for want of a better. They are too few for the bound on such a copy to
  be exceeded, so of the three clauses of `BoundedAge` the last is only proved.
- *Keys.* Four keys on layers 0, 2, 0 and 1 give trees of up to three levels,
  with nodes without leaves between them, and every split, raise and merge. All
  reachable trees are visited, from every one of them each write is made.
- `MaxWire`, `MaxSessions`, `MaxTime`, `MaxSeq`, `MaxDrops`, `InFlight`,
  `MaxIssued` and `MaxBody` bound only what the environment does (clients,
  upstream, clock, service); after the bound the system goes on without further
  input. Hence `CHECK_DEADLOCK FALSE` in these runs. In `WsServer` and `Sse` the
  end is an explicit `Terminated` step and deadlock is checked; `Repo` and
  `BlobStore` have no end.

No symmetry is used: most runs check liveness, and the keys of `Repo` are ordered.
The two runs of `Repo` use a view (`RepoView`) that leaves out `call` and `status`:
states that differ in nothing else have the same successors, and TLC compares every
step with `RecordMap`, whether or not the state it leads to is new.

### Fairness

Weak fairness is assumed for threads of this code that are neither blocked nor
waiting for input, which any preemptive scheduler provides: upgrade callbacks
once begun, workers, readers, `stop()` once called, the forward thread, the
subscriber's loop, the threads of a race, a call on an agent. From outside the code:

- a user handler returns, and a producer that finds its stream closed releases
  it. `include/wolfram/xrpc_server.h` asks for both, and without them `stop()`
  waits for ever by design;
- a read on a socket that was shut down returns;
- the subscribed service sends what it has (`ServiceSend`);
- a request or a DNS query ends, by an answer or by its timeout
  (`transport/xrpc.c` sets a connect timeout and aborts stalled transfers; the
  DNS query waits for five seconds).

Clients, disconnects, drops, calls of `stop()`, publications and registrations
are never fair.

## Proofs

Everything in `theorems` is proved by TLAPS from the named assumptions on the
constants, which say that sets of threads are finite, that model values differ,
and that sizes and rates are (positive) naturals.

**WsServerProofs** proves seven invariants of `WsServer` for all finite sets of
connections and producers: those of the run, and that `stop()` shuts down only
descriptors that a stream still owns (`ListedOwnsSocket`), that nothing is
leaked by `free()` (`NothingStranded`) or listed behind `stop()`
(`NoListingBehindStop`). None is inductive. `IndInv` adds who owns the context
and the stream at each point of the hand-over (`UpgradeInv`), what a worker owns
and how its thread ends (`WorkerInv`), that a worker is listed or claimed by
`stop()` until it unlinks itself (`ListInv`), and what each phase of `stop()`
has established (`StopInv`). Two conjuncts say what the counters mean:
`HoldInv`, that `worker_refs` is the number of producers that hold the stream,
and `CountInv`, that `ws_closing` is the number of workers that have left the
list unclaimed and still need MHD or the server. Without them a counter at zero
says nothing about the threads, and a decrement might go below zero. The proof
has one step per action and under it one per conjunct (those of MHD and of the
workers in `WsServerSteps`); the counters use lemmas on the cardinality of a set
with one element more or less.

**RequestProofs** proves six invariants of `Request` for all caps, piece sizes
and body lengths: those of the run, and that a stream context is cleaned up once
(`CleanupOnce`) and finished only after every byte was accepted, or an error could
not be recorded (`FinishedWhole`). `OwnerInv`
relates `*con_cls` to what has been allocated and not freed, `BodyInv` the
buffer and the stream to what has arrived, and `CheckInv` each step of the
dispatch to the checks behind it.

Of `RateLimiter` it proves the two properties of the run, and `RetryAlmostSucceeds`,
what is left of `RetrySucceeds`. `BudgetKept` needs `BudgetInv`: what a key was granted, what its bucket holds and what its next refill will add together stay within the
burst and the refill of the seconds that have passed. Setting the clock back
only lowers that sum. `Implements` shows that each step of the table is a step
or a stutter of `TokenBucket` under the mapping of a bucket to the level it
would have if refilled now, as long as the clock advances (`LastPast`).
`RetryKept` rests on `RefusalInv`: the last refusal of a key is about the bucket
as it still is.

**ServerProofs** proves of `MhdShim` that a connection is freed once (`FreedOnce`),
that its thread never works on a freed one (`RunsAllocated`), and what
`StopEndsThreads` rests on: behind the pass in which `MHD_stop_daemon` wakes the
listed connections no thread is parked or blocked in a read (`StopWakesAll`).
`OwnInv` says at each point of a connection's life who is going to free it;
`ListInv` says that a thread which may wait is in the list, and that nothing is
accepted once the acceptor was joined.

Of `BlobStore` it proves `Durable`, from `PutInv` and `DeleteInv`, which say what
the operation in progress has promised and done so far: a put either has no
promise to keep, or finds no sidecar until its data is whole; a delete has
promised that the blob may be gone, and takes the data first. A blob of which
`fclose` has lost something is exempt until its file is opened again.

**ClientProofs** proves the three invariants of `Session` from `Alone`, that at
most one thread is in the session's code while the behaviour is defined, and
`InsideInv`, what holds at each step of that thread: in particular that a refresh
starts with the agent's credential in place and leaves it alone until it is done.

Of `EventClients` it proves the action property `Resumes` and the two invariants,
for any number of events, faults, frames in flight and pieces. `Resumes` compares a
delivery with the one before it, and many reconnects may lie between; `FlowInv`
carries over them what is on its way. The frames in flight are consecutive events
from some number on, perhaps behind an `OutdatedCursor` frame; that number is above
the cursor and everything delivered; and all between the last delivery and that
number has been passed over with a reason. `CursorInv` ties the cursor to the last
delivery. `OneLateEvent` needs where the loop is after a late event (`LateInv`).
`UpdatesWhole` needs what the service has of an update that is still being sent,
namely the pieces before `outgoing_offset` (`SendInv`).

**RelayProofs** proves the three invariants of `Relay` for any producers, payloads,
messages and sessions. `CloseInv` says that a close frame is on the wire only of a
closed stream, so that a sender which has seen the stream open has none before it.
`RefInv` says that `worker_refs` is the number of producers that hold the stream, or
one while the forward thread runs, and that a worker that is gone has seen it at
zero on a stream nobody can retain any more. `ForwardInv` describes the socket: it
is empty between sessions; in a session it holds two pieces of each message from
some number on, less what was read and what is still on its way; every message on
the wire is before that number; and of this session none before it is missing.

**IdentityProofs** proves the invariants of `Identity` from one invariant per
part. `RaceInv` says that the reference count is the number of owners, and that
the caller has seen both sides report before it goes on; `AgeInv` that an entry
of the cache was written within one request of the time it is from, and that the
age noted before a request was right then; `UseInv` when a verifying thread is in
which part. `NextParts` shows that a step of the composition is a step of the
race, of the cache, or of both, so each part's invariant carries over.

**SseProofs** proves `NoLostWakeup`, that `stop()` walks only allocated streams
(`StopWalksLive`), and the order of frames (`DeliveredInOrder`). A producer gives up
when its stream is freed, and could be the one a suspended connection waits for;
`MemInv` says that the connection has then ended too. `SpawnInv` says that a producer
has a stream before it calls, `ListInv` that what `stop()` has yet to mark is still
listed. `FrameInv` says that what the client has and what is queued for it, one after
the other, hold the frames of each producer in order and without a gap, and while
the connection lasts all it has appended.

`DeliveredInOrder` and `ForwardedInOrder` are stated on the positions of a sequence
and not on a selection from it (`SelectSeq` is recursive, and what it returns could
not be proved).

Only model-checked: all liveness (it depends on fairness, which is beyond the
prover); and `Mst` and `Repo`, whose recursive operators the prover cannot unfold,
with `ImplementsMap`, the invariants of the tree and those of the mirror.

## What is not modelled

The map names about 7 200 lines: half to three quarters of the files that hold
the server, the tree, the subscriber and the blob store, the stateful parts of
the session, the transport and identity resolution, and some 8 % of the 91 000
lines of hand-written C in `src/`. Almost half of those are `agent/`, where each
function makes one call and converts its answer; another 190 000 lines are
generated.

- Bytes: header parsing, JSON, CBOR, WebSocket masking and lengths. Their
  outcomes are alternatives of the actions that use them.
- Real time. A timeout is an alternative that may be taken; so two seconds of
  waiting in `MHD_stop_daemon` may be too short in the model.
- Floating point: the limiter's sums are exact here. An error of a rounded
  `double` could move a grant by one call.
- A disk that loses what a call of the C library has written, or writes it in
  another order. The blob store never calls `fsync`.
- The commit block, its signature and its revision, and the byte form of blocks.
- Two threads in one session, or in one blob store: neither has a lock, and the
  outcome of such a race is undefined.
- The *OAuth client*, a bounded retry loop of a single caller: in `auth_client.c:330`
  three attempts are shared by nonce rotations and one refresh, so that the order
  in which a server asks for them decides whether a request succeeds.
- Misuse of the interface: releasing a stream twice, using an SSE stream after
  its connection ended, freeing a server that is not stopped.

### Met while modelling

Four properties are stated in their modules and not checked by a run, because
the code does not keep them. Each can be added to the `.cfg` of its run.

- `NoneSuspendedAtStop` (`Sse`). `xrpc_server.c:1975` resumes and marks every
  suspended SSE connection; a stream that is registered after the pass is
  suspended when the daemon is stopped.
- `StopsOnceClosed` (`Relay`). `include/wolfram/relay_server.h:88` says that the
  relay stops retrying once the client is gone; with the upstream down it never
  sends, so it never finds out (`relay_server.c:123`).
- `ListedAllocated` (`MhdShim`). The comment at `mhd_shim.c:769` leaves an
  upgraded connection allocated until it is unlinked; an early
  `MHD_upgrade_action` frees it while it is listed.
- `CalledAsRegistered` (`Request`). `xrpc_server.c:1093` calls look-ups safe
  against concurrent registration; a streaming procedure registered during an
  upload is called as an ordinary one (`xrpc_server.c:1736`).

Without a property:

- `sync_subscribe.c:842` frees the handle when the loop ends, while
  `docs/sync.md:191` calls `wf_subscribe_stop` on it from another thread; the
  caller has to know that the loop has not ended.
- `relay_server.c:86` takes a receive that would block for a closed upstream.
- `include/wolfram/xrpc_server.h:455` says that sends after a close return
  `WF_ERR_INVALID_ARG`; once MHD has released the stream there is nothing left
  that could.
- `xrpc_server.c:2513` frees a limiter that the inner function has freed already
  when an allocation failed.
- `mhd_shim.c:772` unlinks a connection before it is finished, so the wait of
  `MHD_stop_daemon` does not cover the completion callback.
- `xrpc.c:911`: a thread whose token has expired while another thread refreshes
  is given `WF_ERR_AUTH` at once, and two threads can pass the flag together.
- A refresh that is refused drops the session and leaves the old access token on the
  agent's client (`agent.c:207`); `AgentFollows` therefore speaks of agents with a
  session.
- `include/wolfram/session.h:106` says of resuming that the credentials stay
  installed if the refresh fails; when it is refused they are dropped.
- `wf_agent_set_bearer` leaves the former credential on the session's client, and
  a later 401 makes the agent attempt the refresh that `include/wolfram/agent.h:95`
  excludes.
- `wf_agent_login_discovered` points the agent's client at the discovered
  PDS; the login itself is sent by the session's client (`agent.c:644`).
- The comment in `identity.c` on the slot to write names the DID's own slot, else
  an empty one; the code takes the first slot that is either.
- A put that failed leaves an entry in memory which no delete can remove
  (`blob_store.c`).
- `identity.c:1520`: without memory for the copy, `wf_handle_resolve` returns `WF_OK`
  and no DID, and its callers go on with the null pointer.
- `sync_subscribe.c:780`: an event for which there is no memory is skipped without a
  word to `on_error`, like one that does not parse.
- An options update of Jetstream is not kept in the stream's options, so that the
  filters of `wf_jetstream_connect` are in force again after a reconnect
  (`jetstream.c:225`).
- `jetstream.c:635` resets the cursor "so the next reconnect replays from the
  start"; a cursor of zero is left out of the URL (`jetstream.c:130`), and a service
  that is asked for none sends new events only.
- `wf_repo_create_record` on an existing key keeps the old record and makes a
  commit.

## Plan

1. `MhdShim` below `WsServer`, so that the daemon's promises used there (no
   callback after `MHD_stop_daemon`) become an abstract specification that the
   shim is checked against.
2. The retry loop of the OAuth client.

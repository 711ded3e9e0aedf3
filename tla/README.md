# Verification of ObTools

TLA+ models of the concurrent core of ObTools, checked with TLC, with proofs
checked by TLAPS.  Paths below are relative to the repository (`src/`).

ObTools is a collection of C++ libraries for servers.  Most of them are
sequential (parsers, formatters, wrappers of system libraries).  What makes
programs built on it hard to get right is a small set of classes in which
threads meet; those are modelled here.

## Inventory

| Component | State it keeps | Operations | Interacts with |
|---|---|---|---|
| `mt` RWMutex | counts of readers and of queued writers, active writer and its recursion count | lock/unlock for read and for write | session map of `tube`, publisher of `xmlmesh`, `cache` |
| `mt` ThreadPool, PoolThread | lists of spare and active threads, limits, `shutting_down`; per thread `in_use`, `dying`, `running` | wait, remove, replace, setters, shutdown; kick, die, the thread's loop | TCPServer, tube and web servers, MultiClient |
| `mt` Condition, Semaphore, Queue, DataQueue, Thread | flag, count, queue of messages or blocks | signal/wait, send/wait/limit/flush, read/write, start/cancel | everything below |
| `net` TCPServer | `alive`, listening socket, pool of workers | run, initiate, take_over, shutdown; worker run and die | ThreadPool, `tube` and `web` servers |
| `db` ConnectionPool | all and available connections, last use, pending requests | claim, release, background reaping and timeouts | clients, the database |
| `tube` SyncRequestCache | records of requests by 14-bit id | start_request, wait_response, handle_response, do_timeouts, shutdown | SyncClient, BiSyncServer, their timeout threads |
| `tube` Client | socket, send and receive queues, `alive` | send and receive threads, restart_socket, shutdown | SyncClient, xmlmesh transport |
| `tube` Server | map of sessions, a send queue and send thread per session | process, send, shutdown | TCPServer, RWMutex |
| `xmlmesh` server | services, subscriptions, correlations | route, subscribe, correlate, time out | RWMutex, `cache` |
| `xmlmesh` MultiClient | outstanding requests, subscribers, pending queue | handle, dispatch, resubscribe, request | ThreadPool, tube Client |
| `cache` | elements with times of use | lookup, add, detach, tidy, evict | xmlmesh Correlator |
| `daemon` Shell | triggers for shutdown and reload, `child_pid` in the parent | fork and restart a child, its loop, signal handlers | the application, the administrator's signals |
| `ring` Buffer | slots, an index to write at and one to read at | put, get, a flush from each side | one putter, one getter |
| `misc` RangeSet | ordered ranges, `end_offset` | insert, remove, inverse | callers that track fragments of files |

The other libraries are listed in `PROJECT.json` with the reason they are not
modelled: wrappers of system or third-party libraries, formats, parsers, and
utilities without a protocol of their own.

What is hard here: the reader/writer lock is recursive and has two condition
variables; the pool joins threads while it holds its mutex and reads its flags
without it; `claim()` lets the mutex go in the middle; the request cache waits
without a predicate and reuses ids; sockets are restarted from two threads;
sessions on a worker's stack are reached from a map and from a detached thread;
a client resubscribes while it holds the mutex that everybody else needs; a
request to the mesh may be replied to from four places; signal handlers run
between any two steps; unsigned lengths wrap.
`PROJECT.json` lists each of these hazards at its line, with the properties that
cover it.

What makes each component correct: the lock excludes, never blocks its holder
and never sleeps while free; the pool neither loses a thread nor gives it to
two users, and its waits end; the connection pool likewise, and answers each
request once; the request cache gives each request its own response and lets
every request return; a tube client comes back from a lost connection and tells
its user; a tube server takes down what has gone; a mesh client comes to be
subscribed again; a mesh server answers each request, once; a cache owns what
it holds; a daemon stops and reloads when told to; a ring is a queue, and a
range set a set.

## Modules

### RWLock, RWMutex, RWMutexProofs

`RWMutex` models `ot-mt.h` 361-475 with the scoped locks 478-503.  The internal
mutex is held from the entry of an operation to its end except inside a wait,
so an action is one such section: `lock_reader`, `lock_writer`,
`unlock_reader`, `unlock_writer`, and the two sections after a wait,
`lock_reader_woken` and `lock_writer_woken`.  The variables are those of the
class; `held[t]` is the stack of scopes thread `t` is in, `pc[t]` the wait it is
in and `asleep` the threads not yet notified.  `SpuriousWakeup` lets a wait
return by itself.  `count` starts with any value, as the constructor leaves it.
Clients nest scopes in every way the class comment allows (a write within a
read it forbids).

`RWLock` says what the lock promises: a read may be taken when nobody else
holds a write, a write when nobody else holds anything.

### ThreadPool

`ot-mt.h` 711-923, `pool.cc`, and the end of a thread in `thread.cc`.  A process
is a pool thread (a number in `Worker`, the address of the object), a client or
`Main`, which calls the setters and `shutdown()`.  The mutex is a variable
because `replace()` and `shutdown()` join other threads while they hold it; the
tests of `shutting_down` and `dying` and the assignment in `in_use.clear()` are
steps of their own because the code takes no lock for them.  `refuse` is the
accept loop of TCPServer giving back a thread it has no use for.  `fill()`
creates threads one by one under the mutex, which `Shortfall` counts at once.
Addresses are interchangeable: a new thread takes the lowest free one.
`UIntSize` is the size of `unsigned int`, scaled down, for `min_spares-1`.

`Lists` defines what `list::remove()` and the loops of erasures leave of a list,
without recursion, so that it can be reasoned about; ThreadPool and MultiClient
use it.

### ConnectionPool, ConnectionPoolProofs

`libs/db/pool.cc`.  One action for each section under the mutex: `claim` (with
its four outcomes) and `claim_queue` are the two sections of `claim()`,
`claim_return` the end of its wait, `release`, and `run`, one whole turn of the
background loop.  The database is the set `broken` of connections that no longer
test good, the clock the sets `inactive` and `overdue`.  The lists are sets:
which of several idle connections is at the front makes no difference to any
property, so any may be.  The destructor is not modelled.

### SyncRequestCache

`libs/tube/sync-request.cc` with the callers in `sync-client.cc` and
`bi-sync-server.cc`.  `start_request`, `FindSession`, `PollQueue`, `send`,
`wait_response` and `wait_returns` are the steps of `request()`: before it waits
with a timeout it polls, without one, for room in the queue of the peer's send
thread.  `send_messages` is that thread, which may stop (`SenderStops`: the
server's on a SocketError, the client's while the socket is dead) and may or may
not come back (`SenderResumes`).  `handle_response` is the receiver,
`do_timeouts` the timeout thread, `die` and `shutdown` the two halves of
`SyncClient::shutdown()`, `shutdown_client` the end of one session of a
BiSyncServer.  `wire` holds the requests that peers may still answer; a request
may be lost, and a response may be late or never come.  Two assumptions on the
users, both needed: a Message is used for one request (the id is ORed into its
flags), and a response comes before its id has come round again (`InTime`; with
the 2^14 ids of the code, 2^14 less the number of requesters later requests).

### TubeClient

`libs/tube/client.cc`.  The send and the receive thread are sequences of steps
between which the mutex is free; `restart_socket()` has it, in either thread,
from `BeginRestart`, which zeroes the pointer and deletes the socket, through
`Connected`, from which on the new one can be seen, to `FlagRestart`, which
queues the flag, or to `NotConnected`.  `sock` is the object that `socket` points
to: whether it was connected when constructed, which is all that
`check_socket()` sees, whether it works, and in which epoch (number of restarts)
it was opened.  The receive thread takes no lock to read: each of the four reads
of a message (tag, length, flags, data) loads the pointer anew (`ReceiveLoads`)
and then reads from the object it found (`reading`).  A null pointer crashes the
process; when the send thread has deleted the object in the meantime, what the
read returns is undefined: data, a failure, or nothing ever.  `shutdown()` is
four steps.  The server may drop the connection, send garbage, end it within a
message and refuse to connect.

### TubeServer

`libs/tube/server.cc`, with SessionMap and ClientSession of `ot-tube.h` and what
`net/server.cc` does to a connection.  Each connection has a worker (`process()`)
and a detached send thread; `send()` is called by the handlers in the workers
and by other threads.  The lock on the session map is an instance of `RWLock`,
the specification that RWMutex is proved to implement: `Lock!AcquireRead` and
`Lock!Release` in `send()`; the write lock of `add()` and `remove()` is taken and
let go within one step.  Two connections may have the same address, one after
the other's peer has gone.

### MultiClient

`xmlmesh/client/mclient.cc` over `transport-otmp.cc` and the tube client, and a
server that answers.  `RegisterRequest`, `SendRequest` or `SendFails`, and
`EndRequest` or `Unsent` are `request()`; `Register`, `Delayed`, `Disconnect` and
`MarkDead` its callers.  `resubscribe()` has the mutex from `Restarted` to
`Resubscribed` and meanwhile hands on what comes in, as the dispatch loop does.
A worker's `dispatch()` is `Look` (deletes what is dead, marks what it will
call), the handlers, `Handled`, then `Poll` and `Take`, two steps since another
worker may empty the queue in between.

The connection drops (`Drop`), what is sent into it may be lost (`SendLost`) or
stay in the send queue, and a new one is opened (`Reconnect`) before the user is
told (`FlagDown`): one message may arrive first (`Arrives`), as TubeClient shows.
`Answer` is the server of MeshServer: a JOIN has an OK, or a fault, because the
subject is outside the Publisher's pattern or because the correlation timed out,
with the subscription made or not.  A fault to `register_subscriber()` leaves the
Subscriber in the list (`refused`); a fault to `resubscribe()` (`JoinRefused`)
leaves it waiting for another response, with the mutex (`Stuck`).

### MeshServer

`xmlmesh/server`: the Correlator, the Publisher and the routing that joins them.
A message goes through the services in the thread of the transport that brought
it, so `thread[c]` is where it is; a correlation is in `request_cache`, or has
been taken from it by a response, by `tidy()` (`dying`) or by the client's
disconnection.  The copies of a message that it tracks are those its thread
makes under the read lock.  The death of the last is three steps, with no lock:
`Detaches` tests, `HandlesOrphan` sends a fault, `MarksReplied` says so.  A thread
that uses a correlation which another has deleted (`Dangling`) may crash, or go on
with what it finds.  Requests are of five kinds: something of the subscribers,
JOIN, LEAVE, a JOIN outside the Publisher's pattern, which it lets pass as an
ordinary message, and an illegal one, which it answers with a fault.  `replies`
counts the responses that are turned round, of subscribers or of the Publisher,
`faults` those that the Correlator makes up.

### Daemon

`libs/daemon/shell.cc`: the watchdog's loop in `start()`, the child's in `run()`,
and the handlers with what `ot-daemon.h` does in them.  `fork()` and the
assignment of its result are two steps; a signal may come between any two.
`Reload` reads the file, which an `Edit` may have left unreadable: the application
then keeps its configuration.  `lost` remembers signals that came in a moment
when the code loses them, and a failed read until the next SIGHUP; the two
properties make an exception of these.  Versions are those of the file itself:
its includes, which `start()` processes, `reload()` does not.  After a failed
fork `child_pid` is -1, and `kill(-1)` signals every process; in the model, which
has no others, it has no effect.

### Fifo, Ring

`libs/ring/ot-ring.h`, each access to an atomic index and each copy of an item a
step.  `Fifo` is the bounded queue that it is to be; the refinement mapping
reads the queue off the slots between the two indexes.  `flush_from_put()` is in
`RingNext` only while the getter rests (`FlushPut`); `FlushPutLoads` and
`FlushPutStores` are what it does at any time, in the run `ring_flush`.

### Cache

`libs/cache/ot-cache.h`: PointerCache with the LRU evictor and the use-timeout
policy.  A section under the lock is a step, and so is each test made without
it; `add()` and `evict()` are several.  `needed` is an `unsigned int`, scaled
down to `CacheUInt` values.  `prepare_to_die()` is always true in PointerCache.

### RangeSet

`libs/misc/ot-misc.h` 468-755, a pure algorithm: `insert()`, `remove()` and
`inverse()` over numbers of a given width, compared at each step with the set of
members that the calls ask for.  `Absorb` and `Eat` are the loops of `insert()`
and `remove()`, as recursive functions of the number of turns; `AbsorbOne` and
`EatOne` are one turn.  `OffsetSize` turns are enough because every turn goes to
a range that starts later.

### MC modules

`MCRWMutex`, `MCThreadPool`, `MCConnectionPool`, `MCSyncRequestCache` and
`MCTubeServer` are the modules for TLC.  `MCLibrary` checks Ring, Cache, RangeSet
and TubeClient, and `MCMeshServer` checks MeshServer and Daemon (the shell that
`xmlmesh/server/main.cc` runs it in), in one run each: they share nothing, and the
variable `part` says which of them a behaviour is about.  `MCMultiClient` has two
scenes, which bound what goes on around the client and nothing that it does:
`restarts` (two Subscribers, and two lost connections or one and a message) and
`messages` (one Subscriber, four messages, one lost connection).

## Runs

| Run | Bounds | What it shows |
|---|---|---|
| `rwmutex` | 3 threads, nesting 3 | `Exclusion`, `HoldersNeverBlock`, `CountsExact`, `LockHandedOn`, `ImplementsRWLock` |
| `thread_pool` | 3 addresses, 2 clients, min and max 1-2, settings changed at any time | `PlacedOnce`, `HandedOutIdle`, `OnlySparesKilled`, `ThreadLimit`, `SparesTrimmed`, `WaitServed`, `ReplaceEnds` |
| `thread_pool_shutdown` | 2 threads, 1 client | violated: `die()` between the test of `dying` and `in_use.clear()` leaves a thread asleep and `shutdown()` joining it |
| `connection_pool` | 3 clients, 3 addresses, 1 to 2 connections | `ExclusiveUse`, `NoneLost`, `RequestsAnswered`, `PoolBound`, `KeepsMinimum`, `ClaimReturns` |
| `sync_requests` | 2 requesters, 1 peer, 3 ids, 4 requests, queue limit 0 | `CacheExact`, `ResponseMatches`, `RequestReturns` |
| `tube_server` | 2 connections of one address, 1 other sender, queue limit 0, 3 sends, 1 message in | `SessionsLive`, `ConnectionEnds` |
| `tube_server_send` | 1 connection, 1 other sender | violated: `send()` polls a queue that nobody empties, though a comment calls it safe in a handler |
| `mesh_client` | 1 user, 2 workers; 2 subscribers and 2 lost connections, or one and a message; 1 subscriber, 4 messages and 1 lost connection | `PointersLive`, `SubscriptionsRestored`, `RequestsReturn`, `PendingHandled` |
| `mesh_server` | 3 clients, 1 request of any kind; a watchdog with 3 children, 2 edits of the file | `OneAnswer`, `RequestAnswered`; `ShutdownEnds`, `ReloadReaches` |
| `library` | ring of 2, 6 puts; 2 threads, 3 keys, limits 1 and 3; numbers 0 to 7; a tube client with 1 message out, 2 in and 1 fault, or 1 in and 2 faults | `ImplementsFifo`; `Owns`, `SizeBounded`; `RangesExact`; `OneOvertakes`, `Recovers`, `ShutdownStops` |
| `ring_flush` | ring of 2 | violated: `flush_from_put()` races with `get()`, which finds old items again |
| `rangeset_remove` | numbers 0 to 7 | violated: `remove()` leaves members in, or makes a range whose length has wrapped |

Some properties say exactly how far the code goes, and name what they except.

- `RequestReturns`: a `request()` that polls a full queue whose send thread has
  stopped (`SyncRequestCacheSend.cfg`).
- `Recovers`, `ShutdownStops`: a receive thread that uses a socket which was
  deleted, or opened, after it was looked at, or finds the pointer null
  (`TubeClientRestart.cfg`).
- `OneOvertakes`: of each new connection, one message ahead of the flag.
- `ConnectionEnds`: a worker kept out by a `send()` that polls a dead queue.
- `SubscriptionsRestored`, `RequestsReturn`, `PendingHandled`: what was lost with
  a connection, a subscription that the server has refused, and a resubscription
  that a fault has stopped (`MultiClientRefused.cfg`).
- `OneAnswer`: two faults to one request (`MeshServerOrphan.cfg`);
  `RequestAnswered`: a crash on a deleted correlation (`MeshServerTracker.cfg`).
- `ShutdownEnds`, `ReloadReaches`: the moments when a signal is lost, and a file
  that could not be read.

Why the bounds are enough to meet the cases in question.  Three threads are an
active writer, a writer behind it and a reader that comes between them, or two
readers that overlap and a writer; nesting of three is a read inside a write
inside a write.  A limit of two threads lets a spare be killed while another
thread works and a client waits, and a third address makes it possible to exceed
the limit; the settings change both ways.
Three clients on two connections are two users and a blocked request; with
three addresses a deleted connection may or may not come back at the same one.
Four requests wrap three ids while an old request is still waiting.
All of them go to one peer, whose queue has room for one; requests to different
peers share nothing but the ids.
Two faults of a server are a connection that fails while both threads are about
to restart it, or a restart that fails; one fault is enough for both threads to
restart, and then one of two messages can overtake the flag and another come
after it.  With a queue limit of zero a second send has to poll.  Two connections
of one address are a session that replaces another in the map.  Two lost
connections are one lost again during resubscription; of four messages two make
both workers busy, a third is queued, and the fourth comes after the queue was
polled.  Three clients are one that asks, one that answers or leaves and a second
subscriber; requests share nothing but the threads that carry them, and
`AnswersOnce` is proved for any number of them.  A ring of two wraps round in three
slots, twice in six puts.  Two threads on a limit of one are an eviction between
the other's test and its insertion.  Eight numbers hold four ranges that do not
touch, and a range that spans them.

Deadlock is checked in the runs of RWMutex and ConnectionPool.  It is not for
ThreadPool, where a shutdown may hang (that is a finding) and where clients may
stop, nor where what comes from outside is bounded in number.

Symmetry is not used: most runs check liveness.

### Counterexamples without a run

These configurations show, each with the MC module named, where the code stops
short of what one would expect of it.  In the first seven a comment promises the
property; in the others no text does outright.

| Configuration | Property | What TLC finds |
|---|---|---|
| `SyncRequestCacheSend.cfg` (MCSyncRequestCache) | `RequestTimesOut` | `request()` (`sync-client.cc:73`: "blocks waiting for a response, or timeout/failure") polls, before its timed wait, a full queue that nobody empties: at `client.cc:332` and `bi-sync-server.cc:125` what `tube_server_send` shows of `server.cc:271` |
| `TubeClientRestart.cfg` (MCLibrary) | `ReaderSocketLive` | the send thread calls `restart_socket()` (`client.cc:70`: "only in one thread (the receive thread)") at `client.cc:263` and deletes the socket that the receive thread reads from |
| `MultiClientRefused.cfg` (MCMultiClient) | `ResubscribeEnds` | `resubscribe()` (`mclient.cc:224`: "until we get a response to this") logs a fault at `mclient.cc:239` and waits on, with the mutex, until the connection fails again |
| `MeshServerOrphan.cfg` (MCMeshServer) | `RepliedOnce` | a time-out between the fault for an orphan (`correlator.cc:105`) and its mark ("so we don't do it again when the correlation times out") sends a second one |
| `MeshServerTracker.cfg` (MCMeshServer) | `CutLoose` | `detach()` goes on with a correlation that `tidy()` has deleted, although its destructor makes sure that it is "cut loose from any messages which are still being tracked" (`correlator.cc:116`): the message has left the list at 99 |
| `CacheAdd.cfg` (MCLibrary) | `OldDeleted` | of two `add()`s of one id one overwrites the content of the other, which is never deleted (`ot-cache.h:565`: "Any existing content under this ID is deleted") |
| `CacheLimit.cfg` (MCLibrary) | `EvictsExcessOnly` | `set_limit()` above the size wraps `size - limit + 1` at `ot-cache.h:675` and evicts everything (228: "may evict if more than limit in cache") |
| `RWMutexPriority.cfg` (MCRWMutex) | `WriterPriority` | readers that overlap keep a queued writer out: only the first reader in looks for writers |
| `ConnectionPoolFull.cfg` (MCConnectionPool) | `FailsOnlyWhenAllActive` | a connection released between the two sections of `claim()` stays available while the request that wanted it times out |
| `SyncRequestCacheInstant.cfg` (MCSyncRequestCache) | `InstantResponse` | a response handled before `ready.wait()` does not end it; the requester sleeps until its timeout |

### Fairness

RWMutex: a notified thread gets the mutex and runs, and a client leaves its
scopes; nothing is assumed of spurious wakeups.  ThreadPool: strong fairness for
the threads that contend for the mutex, since an ordinary mutex that is free
again and again is got in the end; `run()` of a worker ends.  ConnectionPool:
the background thread turns, time passes, and a client inside `claim()` runs; no
client need ever release.  SyncRequestCache: requesters run, time passes, the
timeout thread turns while the client is alive, and a send thread that has not
stopped sends; no peer need answer, and none need come back.
TubeClient: the threads run (sleeps end), a read of a connection that is down
fails, and a connect succeeds once the bounded number of faults is used up; a
read of a deleted socket need not end, and nobody need call `send()` or `wait()`.
TubeServer: workers, send threads and senders run, a read of a connection that
has gone ends, and a shutdown ends the connections that are open (`die()`);
handlers return; peers need not send or leave.  MultiClient: all threads run,
handlers return, the server answers what reaches it, with an OK or a fault, and a
lost connection is opened again and its flag queued.  MeshServer: the threads run
and the main thread's tick times out what is in the cache; clients need neither answer nor leave.  Daemon: both
processes run, and a fork succeeds in the end.  Weak fairness is enough in all
of these: where a step waits for a mutex, its holders let it go for good or the
property says so.

## Abstract specifications

RWMutex implements RWLock (`ImplementsRWLock`, checked and proved), and
TubeServer is built on RWLock in its place.  Ring implements Fifo
(`ImplementsFifo`, checked and proved).

## What is proved

Every safety invariant and every action property that a passing run checks is
also a theorem, for every value of the constants, and so are both refinements.

| Module | Theorem | Property of a run |
|---|---|---|
| RWMutexProofs | `TypeCorrect`, `MutualExclusion`, `HoldersRun`, `CountersExact`, `Refinement` | `TypeOK`, `Exclusion`, `HoldersNeverBlock`, `CountsExact`, `ImplementsRWLock` |
| ConnectionPoolProofs | `TypeCorrect`, `OneUser`, `Accounted`, `AnsweredOnce`, `Maximum`, `Minimum` | `TypeOK`, `ExclusiveUse`, `NoneLost`, `RequestsAnswered`, `PoolBound`, `KeepsMinimum` |
| ThreadPoolProofs | `NoneLost`, `GivenIdle`, `SparesDie`, `WithinLimit`, `Trims` | `PlacedOnce`, `HandedOutIdle`, `OnlySparesKilled`, `ThreadLimit`, `SparesTrimmed` |
| SyncRequestCacheProofs | `Exact`, `OwnResponse` | `CacheExact`, `ResponseMatches` |
| TubeProofs | `SessionsOutlive`, `OneEarly` | `SessionsLive`, `OneOvertakes` |
| MeshProofs | `AnswersOnce`, `PointersOutlive` | `OneAnswer`, `PointersLive` |
| LibraryProofs | `CacheOwns`, `CacheBounded`, `RingRefinesFifo`, `RangesAreExact` | `Owns`, `SizeBounded`, `ImplementsFifo`, `RangesExact` |

Each module also proves the inductive invariant behind its theorems
(`InductiveInvariant`, `PoolInvariant`, `ClientInvariant`, `MeshInvariant`,
`CacheInvariant`, `RingInvariant`, `RangesInvariant`).  `ListTheorems` holds the
facts about lists that ThreadPoolProofs and MeshProofs share.  The named
assumptions that the proofs use are in the modules that declare the constants,
and TLC evaluates them in the runs.

### RWMutexProofs

Proved, for every finite set of threads and every nesting bound:

- `TypeCorrect`, `MutualExclusion`, `HoldersRun`, `CountersExact`: the
  invariants of the run `rwmutex`;
- `Refinement`: RWMutex implements RWLock.

They rest on `ThreadAssumption` (finitely many threads, none of them the default
id) and `MaxDepthAssumption` (nesting is bounded by a positive number), which
TLC evaluates in the runs of RWMutex.

The argument.  `Exclusion` is not inductive: nothing in it says why a reader
stays out when a writer has passed the readers' gate and waits for another
writer.  `GateHolds` does: while a writer is active, or waits at the second
gate, no read is counted.  It is preserved because such a writer is still
counted in `writers_waiting`, which a first reader looks at.  To know that no
read is held when none is counted, the counters must be exact, and that needs
the shape of the stacks (`StackShape`: inside a read there are only reads) and
that `writer_active` and `writer` name the thread inside a write (`OwnerHolds`).
`IInv` is the conjunction; there is one lemma for each kind of section
(blocking, a counted read, a nested scope, becoming the writer, the two
unlocks), and lemmas on stacks and cardinalities under them.

### ConnectionPoolProofs

Proved, for any finite sets of clients and connections and
any limits with `min_connections <= max_connections`:

- `TypeCorrect`, `OneUser`, `Accounted`, `AnsweredOnce`, `Maximum`: the
  invariants of the run `connection_pool`;
- `Minimum`: its action property `KeepsMinimum`.

They rest on `ConnAssumption` (the sets are finite, the null pointer is no
connection) and `SizeAssumption` (the limits are naturals in order), which TLC
evaluates in the runs of ConnectionPool.

The argument.  A connection can only get a second user if something hands out or
deletes one that is held.  Everything that does so takes it from the available
connections, which no client holds, except `release()`: it gives its own
connection to the front request.  `ExclusiveUse` alone cannot exclude that this
request has an answer already, whose connection would then be overwritten.
`Waiting` does: a client is queued exactly if it is blocked and not signalled,
it is queued once, and it then holds nothing.  `IInv` adds it to the type
invariant, `ExclusiveUse` and `NoneLost`; `PoolBound` and `KeepsMinimum` follow
with lemmas on what `fill_to_minimum()` and the reaping do to the pool's size.

### ThreadPoolProofs

For any threads, clients and sets of limits, from `ProcAssumption` (the
processes are finitely many and distinct) and `SizeAssumption` (an `unsigned int`
that can count the threads and hold the limits).

`PlacedOnce` says where threads are but not what they do there, so that it does
not survive a `replace()`: to know that the thread which comes back is in neither
list, and is not told to die on its way, one has to know that it is the
caller's.  `PoolInv` has two layers.  Always, through a shutdown too: the mutex is held
across steps exactly by a `replace()` that joins the spare it kills or by
`shutdown()` (`Mutex`), and a thread that exists is in a list, being killed, or
on its way between the lists (`Covered`).  `fill()` counts the lists alone;
`ThreadLimit` follows because it runs only when nothing is on its way.  Until a
shutdown: each place says what its threads do (`SparesWait`, `ActivesWork`,
`Killed`, `Moving`, `Handed`), and the lists are apart and without duplicates.

`Trims` has the hypothesis that no minimum of zero is set.  It is needed: with
`min_spares` zero `min_spares-1` wraps, and `replace()` trims nothing.  The run
sets minimums of one and two.

### SyncRequestCacheProofs

For any requesters, peers and ids, from `IdAssumption` (more ids than
requesters), `RequestAssumption` and `EntryAssumption`.  `CacheExact` is close to
inductive; `ResponseMatches` is not, since nothing in it bounds when an id comes
round.  Ids are given out round a circle; between a request and the next use of
its id every other id is given to a later request or skipped because a request
holds it.  `InOrder` counts both: the ids passed, and the older requests still
ahead, are not more than the later requests and the requesters.  So a response
that is in time (`InTime`) finds no other request under its id.  This is about
every message that may still be answered, in a send queue or with a peer (`Open`).

### TubeProofs

The server, for any connections, senders and addresses, from `ThreadAssumption`
and `QueueAssumption`.  An entry of the session map points to a session with that
address (`Entries`), so a session's own removal is enough to get rid of it,
whatever other sessions have had the address; a thread that polls has the read
lock (`Polls`), and removal needs the write lock; the send thread starts after
the session exists and has ended before it goes (`Senders`).

The client, for any bounds.  Every restart that has been flagged has been seen by
`wait()` or has its flag in the queue (`Announced`), and a socket is at most one
epoch ahead of the flags, under the mutex (`Restarts`, `Epochs`).  `OneOvertakes`
does not say what keeps a second message from following the first: when a message
of the new socket has been queued, the receive thread is on its way to
`check_socket()`, for which it needs the mutex that the restarting thread has
until the flag is queued (`Posted`).  This holds although it may read from a
socket that has been deleted.

### MeshProofs

The server, for any clients and requests.  Four parties may reply to a request.
Three of them compete for the correlation, which one takes from the cache; the
fourth, the death of the last copy of the message, does not take it, and marks it
only after its fault.  So there may be two faults, but no fault beside a response.
`OneAnswer` needs to know who may still send one: as long as a thread is at an
orphan nobody was sent a copy, so that no response can come (`Expecting`); what
has been replied to or given up is in nobody's hands (`Owed`); and a request is
carried by one thread (`OneThread`, `SentOnce`).  Threads that go on with a deleted
correlation are included: what they find there is arbitrary, what they send counts.

The MultiClient, for any users, workers, subscribers, messages and lost
connections; `MeshThreads` says that the workers are finitely many, so that the
handlers of a Subscriber can be counted.  `PointersLive` is not inductive
because `dispatch()` decides by the count `active` what it may delete: `Counted`
says that it is the number of workers that hold the Subscriber, and `Listed`
that the list leads to no deleted one.

### LibraryProofs

The cache, from `CacheAssumption` and `CacheSizes` (finitely many threads and
keys, and an `unsigned int` that can count the entries and hold the limits).  A
pointer passed to `add()` is in the caller's hand until it is stored (`Hands`);
only what the map holds is deleted or given back.  `Room` bounds what is stored and what
threads are about to store together: a thread that passes the test found room
for its own entry, and one that evicts has taken an entry out.

The ring, from `RingAssumption`, for every length: the slot that the putter
writes is outside of the part between the indices until it is published, and an
index that the getter has loaded stays inside it.  Each store of an index is a
step of `Fifo`, every other step a stutter.

The range set, from `OffsetAssumption` (the offset type holds the end of every
range), for every bound on the offsets.  `Absorbing` and `Eating` are the
invariants of the loops of `insert()` and `remove()`: what is behind the iterator
is apart from the range at hand, what is ahead is untouched, and nothing else
has been lost or gained.  The library's induction theorems cannot be used by the
provers, so the induction over the turns is in the form that a set of numbers
which is not empty has a least one; that the recursive functions exist is proved
in the same way.  `contains()` and `inverse()` follow without induction: a run of
members lies in one range as no two touch, and a hole ends at the range that
follows.

### Only model-checked

All liveness (`LockHandedOn`, `WaitServed`, `ReplaceEnds`, `ClaimReturns`,
`RequestReturns`, `Recovers`, `ShutdownStops`, `ConnectionEnds`,
`SubscriptionsRestored`, `RequestsReturn`, `PendingHandled`, `RequestAnswered`,
`ShutdownEnds`, `ReloadReaches`): fairness and ENABLED are beyond the prover.
Daemon has only such properties, so nothing is proved about it.

## Not modelled

Most of the repository by size: parsers and writers (XML, JSON, SOAP, HTTP),
binary encoders, expression and template processors, wrappers of OpenSSL, of
databases and of system calls, tables, tests and tools.  They are sequential
translations of data; a model of one would be a transliteration, and their tests
reach what matters.  The map therefore covers a small share of the lines, but
most of the classes in which threads, processes or peers meet.

Of the classes that do matter: DataQueue (a read that ends at the end of a block
waits for another, `dqueue.cc:62`), Semaphore and Task; `initiate()` and
`take_over()` of TCPServer and the reuse of file descriptors; the destructor of
ConnectionPool; `shutdown()` of MultiClient, which deletes dead subscribers
without a look at `active`; multithreaded services of the mesh, whose workers
are given a reference to a message on the caller's stack (`service.cc:28`); the
HTTP transport of the mesh; the web server and client; the message broker.

## Plan

1. RWLock, RWMutex and their proofs - done.
2. ThreadPool, ConnectionPool, SyncRequestCache - modelled, checked, proved.
3. TubeClient, TubeServer, MultiClient, MeshServer, Ring, Cache, RangeSet -
   modelled, checked, proved.  Daemon - modelled and checked.
4. Still worth proving: the safety parts that the liveness properties rest on -
   that a worker asleep in `in_use` is a spare or about to be kicked (ThreadPool),
   that a requester which waits is in the cache with a timeout ahead of it
   (SyncRequestCache), that a signal which is not remembered as lost leaves its
   trigger set (Daemon) - and an abstract specification of the connection pool as
   a set of tokens, with its refinement.

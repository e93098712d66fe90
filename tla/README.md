# TLA+ models of MiniEnvoy

MiniEnvoy is a small gateway for MENV v1, a framed request/response protocol
over TCP. A fixed number of reactors, one goroutine each, accept clients, parse
frames, pick an upstream endpoint for each DATA frame and relay what it
answers. A probe loop, the reactors and an operator move the health state of
the endpoints. This directory models the data plane, the buffers under it, the
choice of an endpoint, the health state, and the life of the process from its
configuration file to its exit; it checks them with TLC and proves part of it
with TLAPS.

Paths below are relative to the repository unless they end in `.tla` or `.cfg`.

## 1. Inventory

| Component | State it keeps | Operations | Talks to |
| --- | --- | --- | --- |
| reactor (`internal/reactor`) | descriptor table, poller, one `Conn` per socket: role, ring, parser, peer, pending frame, stashed output, paused | loop of `Run`, `handle`, `acceptLoop`, `finishConnect`, `readLoop`, `onDown`, `onUp`, `flush`, `closeConn`, `sweepIdle`, `shutdown` | kernel (epoll, sockets), routing, upstream, buffer, protocol, metrics |
| buffer (`internal/buffer`) | ring: two indices and a chunk; slab: chunks and a free list behind a mutex | `AttachRing`, `Release`, `Writable`, `AdvanceWrite`, `Peek`, `AdvanceRead`, `Get`, `Put` | called by every reactor |
| protocol (`internal/protocol`) | parser: header taken or not | `Next`, `ConsumePayload`, `EncodeError`, header codec | ring |
| proxy (`internal/proxy`) | none | `ShouldPause`, `ShouldResume` | called by the reactor |
| platform (`internal/platform`) | epoll instance, wake-up descriptor | `Add`, `Mod`, `Del`, `Wait`, `Wake`, socket calls | kernel |
| upstream (`internal/upstream`) | per endpoint: state, reason, fails, successes, active | `RecordFail`, `RecordSuccess`, `Eject`, `Restore`, `SetState`, `Eligible`, `AddActive` | reactors, probe, admin; all atomics, no lock |
| probe (`internal/probe`) | ticker | `Loop`, `Ping` | endpoints, upstream processes |
| routing (`internal/routing`) | rr counter, swrr weights behind a mutex | `Lookup`, `Pick` | endpoints; shared by the reactors |
| config (`internal/config`) | the loaded file; the SIGHUP goroutine and its channels | `Load`, `applyDefaults`, `Validate`, `ResolveIPv4`, `MustRemoteToken`, `WatchSIGHUP` | main, Build |
| app (`internal/app`), `cmd/minienvoy` | list of reactors, stop and done channels, signal channel | `Build`, `Start`, `Stop`, `Eject`, `Restore`, `main` | everything |
| admin (`internal/admin`) | HTTP server, open event streams | `Listen`, `Shutdown`, `events`, views, two POST handlers | app |
| metrics, logging, clock, menvctl, console | counters, HTTP client | views | read the others |

What is hard here:

* one goroutine, but re-entrant: `closeConn` replies to the peer, the reply's
  `flush` may fail and close again, and control returns into loops that hold
  pointers to what was closed;
* edge-triggered readiness: every loop must go on to EAGAIN, every pause must be
  undone by somebody who reads, every stash must be registered for EPOLLOUT;
* a batch of events whose descriptors may be closed and reused by the handlers
  of the events before them;
* failure in the middle: refused connects, half closes and resets, short
  writes, writes with no room, dials that fail;
* the endpoint: several atomics that belong together, read and written by three
  kinds of goroutines with no lock;
* picks that read the state of one member after the other while it changes;
* chunks of memory that all reactors take from and give back to one free list;
* start-up that fails half way, and shutdown with its waits: for goroutines, for
  clients that do not hang up, with signals at any moment.

What makes each part correct:

* reactor: the table, the rings and the peers agree; a connection and its peer
  are closed together; the parser never loses its place in the stream; no
  readiness is lost; output is sent once and in order; a request is answered
  once, to its client, and eventually; the active count is exact; the goroutine
  does not panic;
* upstream and probe: state, counters and reason agree; an ejected endpoint
  stays ejected; a good upstream comes back, a dead one stops being picked;
* buffer: a ring is a bounded queue, a chunk has one owner and is never lost;
* routing: only an eligible endpoint is picked, one is found if there is one,
  in the proportion of the weights;
* config: a file that `Load` lets through has unique ids, members that exist and
  positive numbers, which routing, upstream and the reactors rely on;
* lifecycle: start-up ends, a signal ends the process, and when `main` returns
  every reactor has shut down.

`PROJECT.json` lists every component with what is left out of it, and under
"hazards" the places where each of these can go wrong.

## 2. Modules

| Module | What it is |
| --- | --- |
| `Reactor.tla` | one reactor, its connections, the kernel's sockets and the far ends |
| `MCReactor.tla`, `Reactor*.cfg` | its instances for TLC |
| `ReactorProofs.tla` | theorems about `Reactor`: its types, table, rings and peers, its input and counts, the listener's edge, links and output |
| `ReactorFlowProofs.tla` | further theorems about it: whose the answers are, edges, requests that wait for a connect, writes that fail, one answer each |
| `HealthRules.tla` | the decisions of `upstream/state.go`: which state a counted failure or success leads to |
| `Health.tla` | abstract: an endpoint whose methods are atomic |
| `Endpoint.tla` | detailed: the same methods, one atomic operation of the code per step, called by reactors, probe loops and operators |
| `MCEndpoint.tla`, `Endpoint*.cfg` | its instances for TLC |
| `Queues.tla` | abstract: a bounded first-in first-out queue per connection |
| `Buffers.tla` | detailed: the slab and the rings over its chunks |
| `Routing.tla` | `Route.Pick` by several reactors, one atomic operation per step |
| `Config.tla` | pure: defaults, validation and the maps built from a file |
| `Lifecycle.tla` | the process: main, the reactors' goroutines, the SIGHUP watcher, signals, event streams |
| `MCBuffers.tla`, `MCRouting.tla`, `MCLifecycle.tla` and their `.cfg` | instances for TLC |
| `BuffersProofs.tla`, `RoutingProofs.tla`, `LifecycleProofs.tla` | theorems about them |
| `HealthRulesProofs.tla` | lemmas: each method keeps an endpoint consistent |
| `HealthProofs.tla`, `EndpointProofs.tla` | theorems about `Health` and `Endpoint`, and that one implements the other |

### Reactor

The record `sys` holds every field of every `Conn` that decides something
(`fd role ep peer rings ring hdr have pend held paused remain`), the table
`tab`, and the kernel's side of each socket: bytes received and not read
(`inbox`), bytes under way (`wire`), both directions (`rx`, `tx`), the epoll
interest (`want`), the ready list (`armed`), and what the far end has received
(`got`). A function of the code that runs to completion inside one iteration of
a loop is an operator from `sys` to `sys` with the name of the function:
`CloseConn`, `Flush`, `SendPending`, `FinishConnect` and so on. `CloseConn` calls
`Flush` of the peer and that may close in turn, as the code does; the recursion
ends after two levels because `closeConn` clears the peer pointers first, so it
is unrolled (`ReplyAlone`, `DropLive`) and nothing is RECURSIVE.

The loops are actions that move `pc`: `loop` (an iteration of `Run`), `accept`
(`acceptLoop`), `read` (outer loop of `readLoop`), `parse` (its inner loop),
`shutdown`. `cur` is the connection `readLoop` works on and `ret` where it
returns to. The kernel and the far ends act between any two of these steps,
though not inside a handler: between the calls of one handler the code looks at
a socket once, and what arrives in between is an order of the same steps with
the arrival before or after. Two things of one goroutine's stack are flattened:
`sendPending` that resumes a paused client calls `readLoop` from within another
loop, which is `ThenResume`; the outer loop would then return into the batch of
events, which is what `ret` says.

Data: a frame is `[op, id, len]`; a stream is a sequence of cells, one for a
header and one for each unit of payload, so that short reads, frames split at
any cell, the reserved cell and the water marks exist, and bytes of a header do
not. A DATA frame for an unknown route is `LOST`, a header that the parser
rejects is `BAD`. Output is in frames; a short write leaves the end of the last
frame behind, and the model keeps that frame in `remain` until it is complete.
Send buffers are `open`, `tight` (a short write, then full), `full`, `syn` (not
connected) or `broken`. An event is what epoll reports for the level of each
registered bit at the time of `Wait`.

A panic raises `sys.panic` and stops everything: the process is gone.

The environment is a constant, `Faults`: resets, half closes by either side,
refused connects, dials that fail, connects that complete at once, send buffers
without room, health changes, idle sweeps, a stop, accept errors, an `adopt` that fails for a
client just accepted (`AcceptDrops`). Each run names its own, see below.

Left out: `Post` (nothing in the repository posts), metrics, kqueue, a limit of
128 events per `Wait` (the instances never have that many), `c.Last` (the sweep
may hit any connection), the closing of the listener.

### Health and Endpoint

`Endpoint` has the fields as variables and a `pc` per goroutine. A step is one
atomic load, store or add: `RecordFail` is `CountFail`, `ClearSucc`,
`JudgeFail` (load of the state and the decision), then `StoreState` and
`StoreReason`, the two stores of `SetState`. `RecordSuccess`, `Eject`,
`Restore`, `Ping` and `Loop` likewise. An ERROR answer is `RecordSuccess`
followed by `RecordFail`, as `onUp` has it. Whether the upstream answers is `up`,
which changes at any time. A counter is only ever compared with its threshold,
so `Count` saturates there.

`Health` is the same four methods in one step each. `SettledBy(p)` in `Endpoint`
is the refinement mapping: the endpoint as the call `p` is in will leave it.

The history variable `ejected` remembers whether an eject took place after which
no restore came, and whether at that moment another goroutine had already
decided to store a state (`racing`) or not (`firm`).

`RecordFail` of a reactor starts from a dial the upstream refuses (`ReactorFails`, only
while it is down) or from one that fails in this process, for want of a descriptor or in
`adopt` (`LocalFails`, at any time).

### Buffers and Queues

`mem`, `made` and `free` are the slab's chunks and its free list, a stack;
`slot`, `rd` and `wr` the fields of each connection's `Ring` (a slot of -1: no
ring). `Get` and `Put` hold the slab's mutex and are one step. A ring belongs to
one reactor, but its chunk is shared memory: steps of different connections
interleave, and a chunk that changes hands keeps the bytes of its last owner.
`Fill` is `Writable`, `Recv` and `AdvanceWrite` of `readLoop`; it fills only the
first slice, as the code does. `Peek` hands slices out and `AdvanceRead` drops the
bytes later, because the reactor writes to a socket between the two; `Release`
may come instead, when that write fails. The history variable `lent` keeps the bytes
the slices showed when `Peek` returned them, so that `ViewIntact` sees a chunk that
another connection writes to meanwhile. A chunk's size is a power of two
(`NewSlab` rounds it up), so `& mask` is the remainder.

`Queues` is what this promises: per connection a queue of at most `Cap - 1` bytes,
to which bytes are appended, whose oldest are looked at and then dropped. The
refinement mapping reads the queue out of the chunk (`Contents`) and what the
reader sees out of the slices (`Slices`). `Reactor` takes its rings to be such
queues.

### Routing

A weighted pick takes the mutex (`Lock`), goes over the members (`Scan`, one
`Eligible` each), and takes one (`Choose`) or none (`NoneEligible`), in which case
`Route.Pick` goes on with the round robin: `Next1` is the atomic add with the
conversion to `int` and Go's remainder, which has the sign of its left operand;
`WalkOn`, `Found` and `Missed` are the walk. `Flip` is anybody's `SetState`. The
counter has `2 * Half` values. `Reactor` abstracts all of this to "some eligible
endpoint, or none", which `NilSound` and the guards of `Found` and `Scan` justify up
to members that flip during the pick.

History variables: `steady`, the members eligible all through a call's round
robin; `served`, the picks of each member, counted while nothing flips (`quiet`).

### Config and Lifecycle

`ApplyDefaults` and `Validate` translate `config.go` and `validate.go`; a file is a
record with a field for each field that is tested. Hosts, addresses and binds are
kinds, since only their kind decides (`v4` literal, `v6` literal, name to look
up). `Last` and `Get` are the Go maps built by id, in which a later entry replaces an
earlier one.

`Lifecycle` walks `main` by `pc`: `load`, `bind`, `resolve` (a step per look-up),
`new` (a step per reactor, each may fail), `start`, `admin`, `watch`, `notify`, `wait`,
then `drain` (`Server.Shutdown`) and `stop`. `unwind` is the `Stop` of the reactors
`Build` already has when a later one fails. `rx[i]` is where the goroutine of
reactor `i` is; what it does inside its loop is `Reactor`. `Stop` is two steps,
closing the channel and waiting for `done`. The watcher and its two channels are
`hup`, `hupQueued`, `hupQuit`; a signal to a channel that is full is lost, and one
nobody has asked for kills the process, which `killedIn` remembers. A reload
loads a file and drops it, so nothing of the process changes.

The metrics ticker and the probe loop also stop at a channel that `main` closes,
but nobody waits for them and they are left out of `Lifecycle`.

## 3. Runs

| Run | Instance | What it shows |
| --- | --- | --- |
| `reactor_faults` | 1 client, 1 endpoint, 3 connection objects, 2 descriptors, ring of 4 cells, 2 frames of any kind, all failures | structure, counters, parser, readiness and order of output hold up to the step that panics |
| `reactor_clients` | 2 clients that pipeline, 1 endpoint, 4 connection objects and descriptors, 2 requests, health changes, accepted clients that `adopt` drops, instant and slow connects, one short write | no mixed or doubled answers, no lost accept, no held frame without a connect in progress, no panic |
| `reactor_live` | 1 client that waits for each answer, 2 requests, refused connects, half closes, a slow reader | every request is answered or its client is gone, under fairness |
| `reactor_close` | a CLOSE frame | finding 1 |
| `reactor_reselect` | two endpoints | finding 2 |
| `reactor_large` | a payload above the high water mark | finding 3 |
| `endpoint_one` | one goroutine that does everything, FailN = 5, PassN = 2 | the steps implement `Health`; state, counters and reason agree |
| `endpoint_race` | a reactor, a prober and an operator, FailN = PassN = 2 | firm ejects hold; the endpoint recovers, or stops being picked, when the upstream stays up and local failures end, or stays down |
| `endpoint_eject` | the same | finding 4 |
| `buffers` | 2 connections, bytes 0 and 1, chunks of 4 bytes, 1 chunk at first, at most 2 | one owner per chunk and none lost, slices intact, rings implement `Queues`; 431,000 states |
| `routing` | 2 reactors, 3 members of weight 2, 1 and 0 (which counts as 1), a counter of 6 values, 5 counted picks | nil only if nobody was eligible throughout, weights balanced and nobody starved whatever flaps, shares while nothing does, every pick returns; 476,000 states |
| `lifecycle` | 1020 files: a good one with two upstreams and two reactors, and all that differ from it in one or two fields; 2 look-ups, 1 event stream | loaded files are usable, the process ends only in the ways it may, start-up ends, signals end it, a SIGHUP is not lost; 22,000 states |

Why the bounds are enough. In `reactor_faults` one client with two frames and
three connection objects on two descriptors reaches every handler, a second dial
after a failed one on a reused descriptor, a held frame with another behind it, a
full ring (4 cells, one reserved, high water at 3) and a stash with another
frame behind it (`MaxSlow` is 1, and with the `full` fault the first write after
it panics, as the code does). `reactor_clients` has the smallest number of
clients and requests with which answers can be mixed up; its rings have room for
both frames, and the water mark is passed by two unread ones. FailN = 5 in
`endpoint_one` separates the first threshold (2) from one and from the second;
`endpoint_race` needs FailN = 2 for the first threshold to exist.

In `buffers` four bytes are the smallest chunk with a wrap inside a write, inside a
slice and at a boundary, a full ring (3) and an empty one; two connections
exchange chunks through the free list, and both ways of `Get` occur. It uses
symmetry of the connections; its properties are all safety. In `routing` three
members are the fewest for which a walk can miss one before and one after its
start, and weights 2, 1, 1 give a round of 4 that is not served in order; the counter
reaches its sign bit, where with three members the round robin panics, so it does not
come back to 0 (it does with a single member, which the theorems cover). The third weight is 0 for the default of 1.
`Half` is 2^63 in the code: what matters is that the sign bit exists. `MaxPicks` bounds
the counting of `FairShare` (a round and the first pick of the next), not the picks;
the theorem has no such bound to rely on, it holds for every `MaxPicks`. In `lifecycle` two deviations
in a file show each test of `Validate` alone and each pair of fields that are tested
together; two reactors are enough for a failure after the first and for a wait in a
row, three files have three.

Deadlock is not checked in `routing`, where a panic ends the process, and in
`lifecycle`, whose process ends or waits for a signal.

The environments are stated, because some properties do not survive worse ones:

* `AtMostOneAnswer` is checked where nobody refuses, closes or resets. With a
  refused connect the client gets two ERRORs (`finishConnect` and `closeConn`
  both reply, `internal/reactor/reactor.go:233-235`), and a half close of an idle
  upstream sends an ERROR for a request already answered (line 525).
* `NoPanic` is checked with short writes but not with writes that find no room
  at all, where `stashRemainder` slices with -1 (lines 454-478), nor with a CLOSE
  frame (finding 1) or resets, where a handler goes on with a released ring. The
  run has one endpoint; with two, an event of a descriptor closed and reused
  inside a batch is taken for the end of the new connect.
* `NoOrphanUpstream` is checked with resets and one endpoint. With two, a
  reselect whose reply fails dials for a client that is gone.
* `HeldIsConnecting` does not hold with idle sweeps, which may close a connect in
  progress, and `NoLostAccept` does not hold when accept fails with an error
  other than EAGAIN.
* `RequestsSettle` is for clients that wait for their answers. A frame pipelined
  behind one that waits for a connect stays in the ring until more bytes arrive,
  also when the connect succeeds: `sendPending` reads on only if the client was
  paused (`internal/reactor/reactor.go:421`).

These are what the code does, not what the model leaves out: the same
constants with a wider `Faults`, `EP` or `ClientKinds` reproduce each.

Deadlock is not checked for the reactor: the instances have a bounded number of
frames, and at the end `Wait` has nothing to report. It is checked for
`Endpoint`.

Bounds: `MaxReq` frames sent by clients, `MaxClients` clients, `MaxSlow` send
buffers that fill; the number of connection objects bounds the dials and the
number of descriptors the open sockets. Values are model values; no symmetry is
used, because connection objects and descriptors are taken with CHOOSE.

### Fairness

`reactor_live` assumes `WF_vars(Work)`, the goroutine is never blocked except in
`Wait`, which has a timeout and returns when something is ready, and
`WF_vars(FarEnds)`: bytes sent arrive, a connect ends, a slow reader reads on, an
upstream answers. Nothing makes a client send, a fault happen or the timer sweep.

`endpoint_race` assumes `WF_vars(Step(p))`, a started call goes on (goroutines are
scheduled, a ping has a deadline), and `WF_vars(Probe(p))`, the probe ticker.
Nothing makes a reactor dial or an operator act. `Recovers` supposes in addition that
dials stop failing for local reasons: a reactor without descriptors can keep an endpoint
whose upstream is well degraded or down for as long as that lasts.

`routing` assumes `SF_vars(Step(p))`: a pick that was begun goes on. Only `Lock` can be
disabled again and again, by other reactors that take the mutex, and `sync.Mutex`
hands itself over to a goroutine that has waited for a millisecond. Nothing makes a
reactor pick or stops members from flapping.

`lifecycle` assumes weak fairness of `main`, of the reactors' goroutines and of the
SIGHUP watcher, none of which can wait for ever but where it says so: look-ups and
`Wait` have time-outs, `Shutdown` a deadline. Nothing makes a client close its event
stream, a listener succeed or a signal come. `StartupSettles` excepts `HangsInBuild`,
where `Build` waits for reactors that never ran (`internal/app/runtime.go:86-88`,
`reactor.go:104`): that is what the code does when a second reactor cannot be made.
`SignalEnds` starts from a signal that `main` was notified of, and ends after at most
`timeouts.idle_ms`, the deadline `main` gives `Shutdown`; nothing reads `drain_ms`.

### Findings

1. A CLOSE frame panics the process (`reactor_close`): `onDown` closes the
   connection inside the parse loop, which then reads the nil ring.
2. With two endpoints, picking another one than last time answers the previous
   request again with an ERROR (`reactor_reselect`).
3. A frame longer than the high water mark, which the configuration allows, is
   never parsed (`reactor_large`).
4. An eject can be overwritten by a `RecordFail` or `RecordSuccess` that loaded
   the state before it (`endpoint_eject`).

## 4. Proofs

All hold for every value of the constants, under the named assumptions of the
modules: `ReactorAssumption` (Nil is none of the objects, connections and
descriptors exist, a ring has at least one cell, sizes are naturals) and
`HealthAssumption` (both thresholds are positive, which
`internal/config/config.go:133-138` enforces), `BuffersAssumption` (a chunk has at
least a byte, `Prealloc` chunks are within the bound), `RoutingAssumption` (a
route has a member, reactors are finitely many, weights are integers, the counter has
an even number of values)
and `LifecycleAssumption` (files have the shape of a file, one look-up at least).
That a route has a member and thresholds are positive is itself proved of every
loaded file: `LoadsUsable`.

| Theorem | Statement |
| --- | --- |
| `ReactorProofs!TypesHold` | `Spec => []TypeOK` |
| `ReactorProofs!TableAndRingsAgree` | `Spec => []TableMatchesRings` |
| `ReactorProofs!PeersStayPaired` | `Spec => []PeersPaired` |
| `ReactorProofs!InputStaysInSync` | `Spec => []InputInSync` |
| `ReactorProofs!HeldRequestIsParsed` | `Spec => []HeldIsParsed` |
| `ReactorProofs!ActiveCountsExact` | `Spec => []ActiveExact` |
| `ReactorProofs!AcceptsNothingLost` | `Spec /\ [][~AcceptFails]_vars => []NoLostAccept` |
| `ReactorProofs!UpstreamsHaveClients` | `Spec /\ [][~Reselects]_vars => []NoOrphanUpstream` |
| `ReactorProofs!OutputOnlyGrows` | `Spec /\ [][~Reselects]_vars => OutputGrows` |
| `ReactorProofs!OneEndpointLinks` | with one endpoint, `Spec => []NoOrphanUpstream /\ OutputGrows` |
| `ReactorFlowProofs!AnswersAreOwn` | `Spec /\ [][~Reselects]_vars => []OwnAnswers` |
| `ReactorFlowProofs!OneEndpointAnswers` | with one endpoint, `Spec => []OwnAnswers` |
| `ReactorFlowProofs!EdgesAreKept` | `Spec /\ [][~Reselects]_vars => []NoLostEdge` |
| `ReactorFlowProofs!OneEndpointEdges` | with one endpoint, `Spec => []NoLostEdge` |
| `ReactorFlowProofs!HeldRequestsWait` | `Spec /\ [][~Reselects]_vars /\ [][~Recycles]_vars /\ [][~GivesUp]_vars => []HeldIsConnecting` |
| `ReactorFlowProofs!OrderlyPeersNoPanic` | without the faults "full" and "reset", `Spec /\ [][~Reselects]_vars /\ [][~Recycles]_vars /\ [][~Departs]_vars => []NoPanic` |
| `ReactorFlowProofs!AnswersAtMostOnce` | `Spec /\ [][~Reselects]_vars /\ [][~Deserts]_vars => []AtMostOneAnswer` |
| `ReactorFlowProofs!OneEndpointAnswersOnce` | with one endpoint, `Spec /\ [][~Deserts]_vars => []AtMostOneAnswer` |
| `HealthProofs!StateFollowsCounters` | `Spec => []StateMatchesCounters` |
| `HealthProofs!ReasonFollowsState` | `Spec => []ReasonMatchesState` |
| `EndpointProofs!EndpointTypes` | `Spec => []TypeOK` |
| `EndpointProofs!FirmEjects` | `Spec => []FirmEjectHolds` |
| `EndpointProofs!OneGoroutine` | with one goroutine, `Spec => Sequential` |
| `EndpointProofs!OneGoroutineCounts` | with one goroutine, `Spec => []StateMatchesCounters` |
| `EndpointProofs!OneGoroutineExplains` | with one goroutine, `Spec => []ReasonMatchesState` |
| `BuffersProofs!Typed` | `Spec => []TypeOK` |
| `BuffersProofs!ChunksOwnedOnce` | `Spec => []OneOwner` |
| `BuffersProofs!ChunksKept` | `Spec => []NothingLost` |
| `BuffersProofs!SlicesIntact` | `Spec => []ViewIntact` |
| `BuffersProofs!QueuesImplemented` | `Spec => RingsAreQueues` |
| `RoutingProofs!Typed` | `Spec => []TypeOK` |
| `RoutingProofs!OneScans` | `Spec => []Scanning`: the holder of the mutex alone scans |
| `RoutingProofs!InRange` | `Spec => []InRangeBeforeHalf` |
| `RoutingProofs!NilIsSound` | `Spec => []NilSound` |
| `RoutingProofs!PicksBalance` | `Spec => []WeightsBalanced` |
| `RoutingProofs!PicksAreFair` | `Spec => []FairShare` |
| `LifecycleProofs!Typed` | `Spec => []TypeOK` |
| `LifecycleProofs!LoadsUsable` | `Spec => []LoadedIsUsable` |
| `LifecycleProofs!EndsCleanly` | `Spec => []CleanEnd` |

Reactor. The inductive invariant is `IInv`: `Good(sys)` and types of the control
variables. `Good` is `Sound` (the type of `sys`, bounded rings, `RingsLive`,
`TableOwned`, `Blank`) and `Paired`. `TableMatchesRings` is not inductive alone:
`Drop` clears the table entry of `fd[c]`, which must be `c`'s own (`TableOwned`),
and `Adopt` gives a ring to an object that must not have had one (`Blank`).
`PeersPaired` needs in addition that an upstream that still has a peer is open,
for `Reselect`, which clears the client's pointer after a `CloseConn` that must
have cleared the other. Since handlers are operators, each has a lemma that it
keeps `Sound`, and what it does to peers and roles: nothing (`Same`), or only
clears pairs (`Closes`). The actions then follow one by one.

Reactor, input and counts. `Framed`, which looks at two neighbours, does not give
its first cell away without an induction over the stream. `Framing` says the same
of a whole frame at once: a cell tells where its frame begins and which cells
belong to it, so taking a header or a payload off the front keeps it. `Tidy` adds
that the wire ends with a whole frame unless the far end closed, that a held
request is whole, and what `active` counts; `FlowInv == IInv /\ Tidy(sys)` is
inductive. Handlers that close connections keep `Tidy` because they only shorten
(`Trims`): the streams of the connections that survive are untouched, and the
count of an endpoint falls by the ones that do not.

Reactor, the listener. `AcceptSeen` adds that an event of the listener is in the
batch, or the reactor is in `acceptLoop` or will return to it. The hypothesis is
needed: `acceptLoop` leaves on any error (`AcceptFails`), whatever is queued.

Reactor, links and output. `LinkInv` adds `Wired`: an open upstream connection is
linked, only open connections are, and the client of one that connects has a held
request. A handler is described by what it adds to whose
output (`Adds`), which links it takes away (`Fades`, `Moves`) and where it leaves
both sides consistent again (`Settles`); from these each action is a `Steps`. `Reselects` is exactly the step
in which the upstream of a client is closed for another one. The
hypothesis `~Reselects` is needed: `onDown` that replaces an upstream sends the
client an ERROR frame first, whose failure may close the client, and then dials for
the client that is gone; the dial may get the client's own descriptor, so that the
next write to the client goes to the upstream. That is what `reactor_reselect`
(finding 2) starts from. `OneEndpointLinks` removes it for one endpoint: an upstream
that is connected is then always reused, and while it connects the parser stands
still.

Reactor, whose the answers are. `OwnAnswers` is about what has arrived at a client;
`Private` says it of every place a frame passes on its way: the input and output of a
client, the request it is held for, and both directions of the upstream that serves
it all carry frames of that client (`Mine`). An object that is not used yet must be
empty, or a reused one would bring another's frames along. A step of the reactor
writes to a connection only what came from the other end of its link (`Rightful`),
and what a connection will hear otherwise only shrinks; the environment brings a
client's own requests and answers to what the upstream was sent. The hypothesis is
the one above, since all rests on links that are consistent.

Reactor, edges. `NoLostEdge` speaks of the moment before a `Wait`; `WatchInv` says
what holds in between. Every open connection is registered for what it may need
(`Asks`: reads unless it connects, writes while output is stashed). One that can be
read and is not paused is on the ready list, or its event is in the batch, or it is
the one that is being read; one whose stashed output can be sent is on the ready
list or its event is in the batch. A handler keeps this because of every connection it leaves open
it either takes nothing away (`Carries`) or re-arms it (`Seen`); both compose, so a
lemma per operator gives `Watches(sys, sys')`. What remains per action is the
connection that the step stops serving: `readLoop` returns from it when it has
nothing to read, is paused or closed, an event with `EvWrite` leaves its remainder
unsendable, a finished connect is re-armed, and a client that `sendPending` resumes
is read next. Of the environment, only a send buffer that fills changes a socket
without arming it. The hypothesis is needed for the same reason as above: a write to
a client that is gone re-registers the interest of whoever has its descriptor now.

Reactor, connects in progress. `Held` is `HeldIsConnecting` for what is open, and it rests
on what a batch can hold for a connection that still connects (`AwaitInv`): it asks
for writes only, an event of its descriptor reports the end of its connect and no data,
and it is neither paused nor being read. Then nothing but `finishConnect` ends it,
which sends the held request or answers it. Each hypothesis is a way in which the
property really fails. `Recycles`: a descriptor is closed and opened again while an event of the
old connection is in the batch, and the new one is served that event. `GivesUp`: the sweep or the
shutdown closes a connect, and the client, still open, keeps its request. `Reselects` is the one above.

Reactor, writes that fail. `NoPanic` needs more than that no write fails: the parser
goes on after a handler has returned, with the ring of the connection it began with. `Calm` adds
that it is open there, and `Fit` that whatever is open takes what is written to
it, so no handler closes anything behind the parser's back (`Steady`, `Mends`). The faults "full" and
"reset" are what makes a write fail. `Departs`, the dispatch of a client's CLOSE,
closes the client itself and lets the parser go on (finding 1). A reused descriptor and
a reselect bring writes to the wrong connection. The theorem says that nothing else makes the
goroutine panic.

Reactor, one answer each. `AtMostOneAnswer` counts frames at a client; the invariant
says that a request is in one place at a time. A place is an index in the input or in the
output of a connection, and `Once` says that at most one of them carries a given request,
and none one that was not asked yet. A handler that writes an answer must therefore have eaten
the request, or the upstream's answer, that it is made of: the parser takes the header off
with the dispatch, and a held request leaves with the connect. The operators are described
by what they may mark and where they took it from, and compose as the ones above do. `Deserts`
is the step where this breaks: an upstream closes, its client stays open, and `closeConn`
sends that client an ERROR with the id of the request it kept last, which may have been
answered long ago, or by `finishConnect` just before (line 233). So the property is proved of
all behaviours but those in which that happens, and the step itself shows that it must be excluded.

Health. The reason and the counters are determined by the state in `Good(e)`, a
predicate of one endpoint value, which each of the four calls preserves
(`HealthRulesProofs`). `Health` uses it of `ep`, `Endpoint` of `Settled`.

Endpoint. `FirmEjectHolds` is strengthened to: when an eject is firm, the state is
ejected and no goroutine is about to store a state (`FirmIsQuiet`). A goroutine
becomes one only by loading a state that is not ejected, or by a restore, which
ends the eject. `OneGoroutine` shows that each step of the only goroutine maps to
a call of `Health`, at the step where the call's effect is settled, or to a
stutter.

Buffers. The inductive invariant is `TypeOK`, `OneOwner`, `NothingLost` and
`ViewHeld`: what a reader looks at is not more than the ring has. One owner is
what lets a `Fill` of one connection leave the contents of every other alone, so
what was lent stays what the slices hold (`Kept`), a second invariant over the first.
`ViewIntact` then follows from the arithmetic of the two slices, and for the
refinement each action maps to its namesake on one queue: lemmas say what
`Contents` becomes when the write index or the read index moves, for every
capacity.

Routing. The inductive invariant adds to the types: `Scanning` (the mutex is held
exactly by who is in the loop), `Walked` (no
member passed by the walk is steady), `SteadyUp` (a steady member is eligible) and
`InRangeBeforeHalf`. A walk of `N` steps from a start in range passes every index
modulo `N`, hence `NilSound`.

Routing, sums. `SumOver` is a fold, and what it is for every function is an induction
over the sets of members. It is done without an induction theorem: natural numbers are
well founded, so a set of naturals has a least element (`LeastNat`), so the family of
the sets on which a claim fails, if each of its members has a smaller one in it, is
empty (`MemberSets`). From this follow that the sum exists, that a change of one value
changes it by as much, and how it bounds a value (`SumUpdate`, `SumBelow`,
`SumPositive`). `Balanced` says what the current weights add up to inside a pick:
`total`, what the pick has given out, hence `WeightsBalanced`.

Routing, shares. `Shares` says that while nothing flips `current[i]` is
`Due(i)`, picks so far times `W(i)` less `Total` for each of `i`'s own, and what a scan
has added up to where it stands (`Upto`). The best member has a positive weight when a scan ends,
because all add up to `Total`, so paying `Total` leaves it above `-Total`, which is
the first half of `FairShare`; the second is the first for the others, since
shares add up to 0. "Behind by less than one pick" would be false: with weights 2, 47,
1, 4, 4, 37, 47, 47, 4 a member falls 1.24 picks behind although nothing flips; and
once members flap, `current` passes `Total` with weights 7, 1, 1, 1. That nobody is
starved then is `NotStarved`. `Level` is the round robin's: with the
members counted that the calls in flight have reserved (`Waiting`), those before the one whose
turn is next are one ahead; `NextTurn` shows that the counter's wrap and its sign bit
either keep the turn or panic.

Lifecycle. `LoadedIsUsable` is a fact about `Validate(ApplyDefaults(f))` for all
files, proved without cases. `CleanEnd` needs to know who has been told to stop:
the invariant `IInv` says that no reactor is told before `main` is in `stop` or
`unwind`, that those `main` has passed are done, that a reactor leaves only if told
or broken, and that no reactor runs before `start`.

Only model-checked: the liveness properties (`RequestsSettle`, `Recovers`,
`StopsPicking`, `PickReturns`, `NotStarved`, `StartupSettles`, `SignalEnds`, `HupReloads`), which are
beyond the proof system.

## 5. Not modelled

* metrics, logging, clock: counters and text for display; nothing decides on them.
* The views of the admin API, its JSON and its token check: reads, without state.
* `menvctl` and the console: clients of the gateway. What they send is what
  `Reactor`'s clients send and what `Endpoint`'s operators do.
* kqueue: another platform's poller with the same interface.
* `Post` and `drainCmds`, `NewRing`, `Gather`, `Reset`, `AddIdle`, `AddQueued`,
  `upstream_ms`, `drain_ms`: nothing in the program calls or reads them.
* Descriptor numbers across reactors, so not the write to the wake-up descriptor
  that `Stop` may make after the reactor has closed it (`reactor.go:102`).
* The bytes of a header, the syntax of YAML and of addresses.

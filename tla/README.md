# TLA+ models of go-memcache

go-memcache is a memcached client for Go that speaks the meta protocol. This
directory models its concurrent core in TLA+, model-checks small instances of it
with TLC, and proves properties of it with TLAPS for every size of the instance.
Line numbers refer to the files under `src/`.

## The system

| Component | State | Operations | Module |
|---|---|---|---|
| Connection engine (`transport.go`) | per server a `serverPool` (connections, closed), per connection a `muxConn` (pending, inflight, closed, closing, served, cause, blamed, wake), per command a `request` (state, conn, onWire, err, written) | `exchange`, `enqueue`, `pickLocked`, `detach`, `close`; `run`, `writeLoop`, `flush`, `readLoop`, `expire`, `orphan`, `fail`, `teardownLocked` | `Transport` |
| Exchange contract | what a caller may rely on | one settlement per command, trustworthy written count | `ExchangeSpec` |
| Fetch and FetchMany (`fetch.go`) | `fetchFlights` and `refreshing` of each client, leases on the server | read and classify, back off, fly, load, write back, release, refresh | `Fetch` |
| Single-key verbs (`get.go`, `set.go`, `update.go`, `delete.go`, `executeMeta` and `absorb` in `client.go`) | none between calls; the item on the server | Get, Touch, Set, Add, Replace, Append, Prepend, Update, Take, Delete, Invalidate, `returnStaleWin` | `Verbs` |
| Counters (`counter.go`) and expirations (`types.go`) | none; the item and its lifetime on the server | Incr, Decr; `ExpiresIn`, `ExpiresAt`; the TTLs of Set, Touch, Invalidate and `returnStaleWin` | `Lifetimes`, `Expiry`, `CounterSpec` |
| Batches (`batch.go`, GetMany, SetMany, DeleteMany) | none between calls; per call a `batchGroup` and a `groupOutcome` for each server | `batch`, `quietCommand`, `resolveGroup`, `inferQuietResult`, `parseBatchResponse` | `Batch` |
| Routing (`RendezvousRouter`, `Client.server`) | the server list | `Pick`, `server` | `Router` |
| Wire format (`wire.go`) | the two byte streams of a connection | `marshal`, `encodeKey`, `readLine`, `readRawResponse`, `parseResponseFlags` | `Wire` |
| MetaClient (`meta.go`) | none | Batch; Execute, Debug, Noop; the builders | `Batch`, `Wire` (in part) |
| Options and construction, codec, errors | constant | validation, conversions of the application, declarations | – |

How they interact: a verb builds a command and calls `executeMeta`, which calls
`exchange` on the pool of the key's server. `exchange` queues a request on a
connection; the connection's writer goroutine claims everything queued, puts it
on the in-flight list and writes it in one go; its reader goroutine hands each
response to the request at the head of that list. Fetch uses the same commands
with vivify and recache flags, so that memcached itself elects the caller that
recomputes; inside one process the flight map elects. `Client.Close` cancels the
root context (dials, background refreshes), then closes each pool, which drains
its connections. A batch is routed key by key, and each server's share of it is one
`exchange` whose payload is a pipeline of quiet commands closed by `mn`.

What is hard in this code:

- the caller, the writer, the reader, a teardown and Close all settle requests,
  by compare-and-swap on `request.state`, and most of them hold no common mutex;
- responses carry no identity: only the order of `inflight` matches them;
- a write may fail half-way, after other requests were added or abandoned;
- a command may run after its caller has given up on it;
- leases are won by a read whose answer may be lost, and are repaid by a write
  that may be rejected;
- in a pipeline silence means success, which is only true if every response that
  did come can be attributed and the barrier came last;
- a value is found in the stream by its length alone, and an error in a frame must
  be told from an error of the framing;
- a TTL is relative or absolute depending on its size, rounded, and read by the
  server later than it was computed.

`PROJECT.json` lists these hazards one by one with the property that watches each.

## The modules

**Transport** has one process per goroutine and one action per critical section
of `muxConn.mu` or `serverPool.mu` or compare-and-swap on `request.state`.
Payloads are reduced to not, partly or fully written; time to the event that a
deadline passes. The pool's mutex is held while requests are placed one by one:
`plist` is what its holder has still to place, so `Exchange`, `PoolAdd`,
`PoolSignal` (the signal that `add` sends after its unlock), `DetachSkip`, `DetachPick` and `DetachFail` interleave with the connections'
goroutines but not with each other. A teardown under `muxConn.mu`
(`teardownLocked`) leaves its second half, which runs after the unlock, to
`TearSettle` and `TearDetach`. A flush is `Claim`, one `Write` per payload, then
`FlushDone` or `FlushFail`, then `SettleBatch`, `WriterFail` and `WriterRequeue`.
When a caller's context ends, `exchange` tries
its two compare-and-swaps once each: `GiveUpQueued` or `MissQueued`, then
`GiveUpWriting` or `MissWriting`, after which it is `blocked` and waits for `done`
alone. The reader is `ReadPart`, `ReadLast`, `Deliver`, `ReadFail`. `Answer`,
`AnswerError` and `Break` are the server and the network. `Faults` says which of
the failures an instance has.

**ExchangeSpec** is the contract of `exchange` without connections: a command is
handed to the server at most once; its outcome is set once; an outcome that says
less than everything was written means that the server has not got the command
and never will. The ambiguity rule of `executeMeta` rests on the last point.
`Transport` implements it with `sent <- puts`, `outcome <- res`.

**Fetch** has calls of Fetch and FetchMany in one or more processes. A step is one
command at the server, one critical section of `fetchMu`, one return of a loader
or one wake-up. Values are versions of the source they were loaded from, so that
"dead data" is a comparison with `floor`, the version at the last Delete or
Invalidate. Whether an item is near its expiry is chosen by each read.

**Verbs** has concurrent calls of single-key verbs on one key. A value is the
sequence of the calls that contributed to it. A command that fails after it was
written stays in `late` and may be executed at any later time, or never. `Spoil` is a
command that was executed and whose response cannot be parsed: `executeMeta` makes of
it a plain error, which may be absorbed. Whether
memcached keeps the stale mark of an item that is appended to is left open.

**Router** has `Pick` and `Client.server` as operators; the 64-bit hashes are a
constant function, of which only the order matters.

**Batch** (extends Router) is one call of MetaClient.Batch, GetMany, SetMany or
DeleteMany over several servers. `Prepare` is one turn of the loop that validates an
operation and puts it at the end of its server's group (`grown`), `Start` launches one
goroutine per group; each group's exchange is `Unsent`, `Put`, `Cut`, `Finish`, `Lose` or `GiveUp`, which are the outcomes that
Transport shows `exchange` to have, with the written count; `Resolve` is
`resolveGroup` and the verb's loop over the results; `GiveBack` is the goroutine of
`returnStaleWin`. An operation counts two units of payload, so that a pipeline can be
cut inside a command. The servers execute what arrived, also after the caller has
left, and may omit a required response, double one, or send one whose opaque token is
missing or unknown or whose flag cannot be read.

**Expiry** has `ExpiresIn` and `ExpiresAt`, and what memcached makes of a TTL.
**Lifetimes** (extends Expiry) has calls of Incr, Decr, Set, Touch, Invalidate and
Get on one key and a clock. A command carries the TTL that `ExpiresIn` computed when
the call began and is executed at any later time, or never. A read that wins a stale
item's token owes a `HandBack` with the CAS and the remaining TTL it read. `window`
names the life of the item in which a call counted; `born` remembers who set the
item's expiration. **CounterSpec** is what Incr and Decr promise to callers that know
nothing of items: one number that every call changes at most once. Lifetimes
implements it with `value <- ` the item's number, or zero if there is no live item,
and `counted <- ` the calls with a window.

**Wire** has the two streams of one connection as sequences of atoms (a space, the
halves of a line end, letters, words). `Write` is `executeMeta` up to the exchange
(or Noop), `Serve` is memcached, `Read` is one turn of `readLoop` with
`readRawResponse`, `Cut` breaks the connection at any atom. Values and keys may hold
any atom, so nothing but the lengths and the encoding keeps the streams in step.
`Numerals` spells out the numbers that are needed, `Base64` the keys; all that is
assumed of them is that they hold no space and no line end and can be told apart, and
how long base64 is.

**MCTransport, MCFetch, MCVerbs, MCBatch, MCLifetimes, MCWire** give names to the constants for TLC.
**TransportProofs, TransportFrames, TransportContract, FetchProofs, VerbsProofs,
LifetimesProofs, BatchProofs, WireProofs** hold the theorems; each extends the module
it is about (TransportFrames extends TransportProofs, and TransportContract extends
TransportFrames). What they define is the invariants of the proofs, and no model.

Definitions whose name ends in `_Something` and whose comment begins with "Slip"
are faulty variants of the definition that follows them. They are used by nothing;
replacing the definition by its variant must make TLC report the property that
`PROJECT.json` lists with it, which shows that the property can fail.

## What TLC checks

| Run | Instance | Shows |
|---|---|---|
| TransportExchange | 2 requests, one cancelable, one a batch with a deadline; 1 connection at a time, 2 identities; breaking sockets, error lines, idle retirement | `FrameForHead`, `OwnAnswers`: responses reach the request they answer, all of them. `ImplementsExchange`: the contract. `DeadlineTeardown`: a deadline takes a connection down only if everything older is settled. `NoLostWakeup` |
| TransportEnds | 2 requests, one with a deadline; cap 1; failing dials, Close; fairness | `SocketBound`: the cap counts dying and draining connections too. `LiveConnOwned`: no connection is forgotten. `TimedReturns`: a command with a deadline returns whatever the server does, unless it was requeued between the two compare-and-swaps of its caller and is then stranded in a dead connection or behind another command. `CloseDrains`: if the server answers, Close ends |
| FetchLease | 3 Fetch calls in 2 processes, one key, two of: source changes, Delete, Invalidate, eviction; failing loaders, lossy misses | `NoResurrection`, `OneHolder` (one holder of a lease), `OneOfEachLoader` (the flight map and the refresh map each admit one loader) |
| FetchEnds | a Fetch and a FetchMany joining each other; failing commands, an ended context, empty values, Close; fairness | `EveryCallReturns`, `MapsEmptied`, `LeaseRepaid` (who ran its loader leaves no placeholder, unless a command failed) |
| FetchWaits | two FetchMany of the same two keys; failing commands and loaders, an ended context, Close; fairness | `EveryCallReturns`: two calls that each lead a key the other one joins do not wait for each other |
| VerbsAnswers | any 3 verbs, failures, unreadable responses, late executions, a placeholder or an eviction | `HonestAnswers`, `UpdateAtomic`, `ConflictsAreReal`, `NoLaundering`, `Conserved` (a Take removes what it returns; appended bytes are never lost nor taken twice), `TokenReturned` |
| BatchResults | 2 or 3 operations of every kind on 2 servers, both routers, Degrade; one spoiled response, one write of another client | `HonestResults`: a result, inferred or not, agrees with what the server did. `BackendIsolation`, `NilMeansDone`, `ReadsItsWrites`, `RunsWhereRouted`, `TokenHandedBack` |
| LifetimesWindows | 3 calls, TTLs on both sides of the relative limit, 4 ticks of half a second, counters modulo 4 | `LivesAsAsked`: an item lives as long as asked to within a second. `WindowFixed`, `LimitHolds`: a fixed window does not move and tells at most L calls of Incr with a delta a number up to L. `GraceKept`: a hand-back neither shrinks nor stretches the grace period. `ImplementsCounter` |
| WireFrames | 2 commands out of 21, 4 stored values, 8 ways to spoil a response, cuts anywhere | `CommandsIntact`: the server executes what was meant. `InSync`: the i-th response delivered is the answer to the i-th command, value and key included. `NoSpuriousLoss`: an unreadable flag costs a response, not the connection |
| TransportNilCause, TransportHangs, FetchManyResurrect | see Observations | a statement of a comment that the code does not keep |

**Bounds.** Two requests are the least with which a batch can be cut in the
middle, a response can go to a wrong request, or a younger deadline can pass an
older one; one more request than the cap makes requests share a connection while
the pool is full, and lets a cap counted wrongly be exceeded; one more connection identity than the cap lets a dead connection be
replaced while its teardown still runs. An identity is reused once its goroutines
have ended, so the number of reconnections is not bounded. TransportEnds leaves out idle
retirement and breaking sockets, to keep its state graph small (the theorems about the
pool cover them); writes still fail there,
at a deadline or on a connection that was closed, and requests are requeued. In Fetch, two calls in
one process and one in another distinguish the local from the remote election;
`MaxAttempt` is 1 instead of 5 turns of backoff, which are all alike; `MaxEnv`
bounds the events of the application. In FetchWaits two calls over two keys are the least with which
each can lead a key that the other one waits for. In Verbs `MaxAttempts` is 2 instead of 8:
one turn that fails and one that ends the loop. In Batch two operations on one
server and two on different ones are the cases of `resolveGroup`, the longer plans
put a third between a write and its read; a second spoiled response only adds to
what the first one makes of `parseFailure` and `badIndex`. In Lifetimes 30 days are 2
seconds and a second is 2 ticks: durations below, at and beyond the limit, and
fractions of a second, are all offered; the behaviour starts at a time that is no
relative TTL, as every Unix time is. Three calls are a write, a read that wins the
token and one more. In Wire keys are limited to 4 and lines to 18 atoms, so that a
key is too long only once it is encoded and a line can be too long; two commands are
what it takes for one answer to be read as another's.

**Deadlock.** The runs of Transport do not check it: a request without deadline on
a silent server waits forever, and may. The others do; `Finished` is the only step
of a system whose calls have all ended.

**Fairness.** Transport: each goroutine that can take a step takes it; deadlines
pass; a dial ends, since `dialTimeout` bounds it; a write on a closed or broken
socket, or past its deadline, returns. Nothing is assumed of the server. Only
`CloseDrains` has the premise `ServerFairness`, that the server reads and answers.
Fetch: loaders return; woken waiters run; commands are answered or fail. The last is
an assumption about Transport: `TimedReturns` shows it for commands with a timeout,
except for one that was requeued while its caller gave up (TransportHangs), which hangs
the Fetch it belongs to as well.

## What is proved

`TransportProofs`: `TypeCorrect == Spec => []TypeOK`, for any set of requests and
connections and any set of faults. `TypeOK` is inductive as it stands; there is one
lemma per action, and lemmas for `Enumerations`, `Extract` and the queue operators.

In the same module, about the pool: `SocketsBounded == Spec => []SocketBound` and
`ConnsOwned == Spec => []LiveConnOwned`. Neither is inductive alone. `pickLocked`
compares the cap with the connections of the pool, so the bound holds only because no
live connection is outside of it while the pool is open; this is `LiveConnOwned` with
`DrainLater` (nothing is drained or closing before Close), and it survives `detach`
only because a connection being torn down is closed (`TornClosed`) and Close cannot
come between two requests that `detach` re-homes (`RequeueOpen`). `PoolInv` is their
conjunction with the finiteness of `LiveConns`. Most actions are shown to be
`Bystands` steps, which open no connection and leave the pool alone.

Also there is `WakeupsKept == Spec => []NoLostWakeup`. The invariant `AllWakeful`
extends the statement to writers that have not started (a request may be queued while
the connection is dialed), and `SignalHeld` says that whoever owes a signal still
holds `serverPool.mu`, so that nobody else takes `ptarget` over.

`TransportFrames`: `FramesMatch == Spec => []FrameForHead` and
`DeadlinesFair == Spec => DeadlineTeardown`. Responses carry nothing that names their
request, so the invariant `Sound` relates four queues of a connection by position. The
first k requests in flight are answered, in order, by the frames on their way back, and
the server's receive queue is what follows of the prefix handed to the socket
(`Aligned`, `Answering`, `Unanswered`); the part of `inflight` that was not handed over
is the rest of the writer's batch (`Flushing`, `Handed`, `Unwritten`); and the read
deadline is armed for a request behind settled ones only (`Armed`, `Behind`).
`LateTimed` adds that a caller that expires has a deadline. What has been settled stays
so (`SettledForGood`), which keeps `Armed` true between two arms.

`TransportContract`: `ContractKept == Spec => ImplementsExchange`, the refinement of
ExchangeSpec, and `AnswersOwn == Spec => []OwnAnswers`.

- The contract rests on where a request waits. `OnePlace`: it is in at most one of the
  list that `detach` re-homes, a connection's `pending`, a teardown's list and the
  unwritten rest of a writer's batch, there once, and has not been written. `Accounted` adds
  that a request nobody claimed was not written (`Unsent`), that a call which has not
  returned has no outcome (`Unsettled`), that what a writer is about to hand over is not
  settled as unwritten (`Promised`), and that what is in flight or being delivered was
  written (`Sent`). Each step then has an `Effect` on each call; the writer's `Write` is mapped to
  `Send`, every other step to `Settle` or a stutter.
- `Answered` carries the answers. The frames on their way back form whole answers
  (`Whole`): a batch's response is followed by its barrier. No request awaits two answers
  (`Alike`); one that awaits its answer has collected nothing, or, at the head of the
  queue, its response when the next frame is its barrier (`ReadSoFar`); and a request
  being delivered has left every queue (`Gone`) with all its frames (`Full`). Which
  request a frame is read for is `FrameForHead`.

`VerbsProofs`, for any set of calls and any bound on the attempts:

- `TypeCorrect == Spec => []TypeOK`. The bound on `attempt` is not inductive; it
  needs `TurnsLeft`: a call that has not returned has a turn left.
- `AnswersHonest == Spec => []HonestAnswers`. The invariant `Honest` adds what holds
  while a call is under way: nothing of it has been applied, and nothing is left
  at the server; afterwards a command left there is covered by the answer. That a
  failure means no effect has two exceptions, which the statement names: an
  AmbiguousWriteError, after which the command may still be applied, and the plain error of
  a response that cannot be parsed, whose command was applied once or never will be.
- `UpdateIsAtomic == Spec => UpdateAtomic`. It needs `Versions` (the CAS of the item
  and of everything read is at most the clock, and two views of the item with the
  same CAS have the same value and stale mark) and `AllLeftovers` (a late command of
  an Update is the one its last read gave rise to, or a read).

- `ConflictsReal == Spec => ConflictsAreReal`. From `Versions`: a compare-and-swap
  that is rejected met an item with another CAS, hence a changed one.
- `NothingLaundered == Spec => []NoLaundering`. `Traced`: whatever is in the item, in a
  haul or among the invalidated contributions was applied by its call, once (`Honest`).
  So a command that starts a value anew brings nothing dead with it, and one that
  extends a value met, by `Versions`, the very item its read had found fresh.
- `ContributionsConserved == Spec => []Conserved`. `ConserveInv` says that an
  applied contribution is in the item or in one haul (`OnePlace`), that only an applied
  delete fills a haul (`Hauling`), with what was read (`TakenExactly`), and that the item
  is fresh as long as nobody disturbed it (`Calm`).
- `TokenComesBack == Spec => []TokenReturned`. A token that is out always has somebody
  who answers for it (`SomeoneAnswers`): a call about to write under the item's CAS, a
  hand-back with that CAS, or a call that failed or lost its hand-back. `Outlived`: only
  a call that reported a failure leaves a command behind.

`LifetimesProofs`, for any calls, durations, widths of counters and limit of relative
TTLs:

- `TypeCorrect == Spec => []TypeOK`.
- `LivesAsAskedAlways == Spec => []LivesAsAsked`. `AllAsked` carries the arithmetic of
  `ExpiresIn` with the command: what the server will make of its TTL, now or later, is
  within a second of the duration asked for; the two sides of the 30-day switch are two
  lemmas about `ExpiresIn` and `realtime`.
- `WindowFixedAlways == Spec => WindowFixed` and `GraceKeptAlways == Spec => GraceKept`.
  The second needs `AllKept`: an item with the CAS and the slides that a read saw still
  has the expiration from which the remaining TTL was computed, and the command handing
  it back carries that TTL.
- `LimitHoldsAlways == Spec => []LimitHolds`. The calls that counted in a window and
  were told numbers up to L are mapped one to one to 1..L (`AllCounted`: in a window in
  which the counter never went down nor wrapped, no two calls were told the same number,
  none zero, and none more than the item holds).
- `CounterRefined == Spec => ImplementsCounter`: the refinement of CounterSpec. Every
  step is mapped to `Call`, `Count`, `Store`, `Reset` or a stutter; the invariant is that of
  `LivesAsAsked`.

`FetchProofs`, for any calls, processes, keys, faults and number of attempts:

- `TypeCorrect == Spec => []TypeOK`, with `AllPhase`: which slots, tokens and joins a
  call has at each point of `fetchMany`.
- `OneOfEachLoaderAlways` and `MapsEmptiedAlways`. `FlightMap` and `RefreshMap` say
  that a registered flight is that of a call between `Fly` and `Publish` and the other
  way round, and the same for refreshes: both theorems are readings of this bijection.
- `LeaseRepaidAlways == Spec => []LeaseRepaid`, from `AllPaid`: once a call
  has repaid the lease of a key it loaded, its token is no longer the item's CAS, since
  what repays it stores under a new one or deletes.
- `OneHolderAlways`: `"storeempty" \notin Events |- Spec => []OneHolder`. `Dated`
  (items and tokens have CAS values the server has given out), `Offered` (an item whose
  lease the server still has is no placeholder), `Lent` and `Alone` (who holds a token
  has it from the server, and alone) make `LeaseInv`. The hypothesis is needed: a zero-byte item that another
  program stores is no placeholder, has no lease, and every reader of it leads.
- `NoResurrectionAlways`: `Many = {} |- Spec => []NoResurrection`. `FreshInv` says that
  a value in the hands of a call whose token still matches was loaded after the last
  Delete or Invalidate. Without the hypothesis the statement is false, which is the run
  FetchManyResurrect.

`BatchProofs`, for any plans, servers, routers and faults:

- `ResultsHonest`, `BackendsIsolated`, `NilIsDone` and `RunsAtItsServer`, each
  `Spec => []P` for the property of the run. `BaseInv` says for each server in which
  stage its exchange is (`Staged`, `Queued`, `Waiting`, `Over`): what is queued comes in input
  order behind everything executed; each response that can be attributed says what the
  server did (`Reported`); each executed operation without one was suppressed, or there
  is a response that cannot be attributed (`Complete`); and from a server that spoiled
  nothing there is exactly one for each (`Sound`). `Over` relates the written count to
  what can still be executed. `Concluded` says that the results
  are those that `resolveGroup` makes of the outcomes. An operation inferred from
  silence was executed because the barrier arrived and no response is unaccounted for.
- `OwnWritesRead == Spec => []ReadsItsWrites`. Groups are in input order (`Grouped`),
  so what an executed set left is still there, was overwritten by a later operation or
  deleted (`Keeps`), and a read after it saw one of these (`ReadAfter`).
- `TokensHandedBack == Spec => []TokenHandedBack`. At most one read of the pipeline won a
  stale item's token (`OneWinner`), the token stays away until the call returns
  (`Spent`), a hand-back is then due for it (`Owed`), and one that was executed left it
  there to be won (`GivenBack`).
- That `RendezvousRouter.Pick` returns a configured server is an induction along the
  server list; it is done by a least counterexample (`LeastNatural`, from the
  well-foundedness of the naturals).

`WireProofs`, for keys, values and flags of any length and content, any commands,
stored values, limits and faults:

- `CommandsAlwaysIntact == Spec => []CommandsIntact`. `ServerInv` says what the stream
  holds until it is cut: the texts of the commands not yet served, one behind the other
  (`Holds`). That the server takes off exactly one of them (`Command`, `ServeNext`) rests
  on `JoinedFields`: words without spaces that are joined by spaces are taken apart into
  the same words (`Placed` says where each of them stands, and counting the places where
  a word starts finds them again). Nothing that `marshal` writes on a line has a space or a
  line end in it (`RequestIs`, `SentKey`), which is why it has to encode and to refuse.
- `ResponsesAlwaysInSync == Spec => []InSync` and
  `NeverSpuriouslyLost == Spec => []NoSpuriousLoss`. `ClientStream`: what the client has
  before it and what it will never see are together the texts of the answers not yet
  delivered (`Coming`). The lemma `ReadStream` is about one turn of `readRawResponse` on
  such a stream, for every kind of fault and every place of the cut: either the answer
  is delivered as it was sent and the stream begins with the next one, or the read is
  fatal, and then the stream was cut or the answer was not `Good`. `TwoCuts` tells
  whether a line, or a value, has been received whole. `ParsedFlags` reads the key and
  the unreadable flag back from the line, encoded or not, and `FieldsShape` bounds the
  line by `maxLineSize`: a response to a key that could be sent is never too long to be
  read.

Each inductive invariant was checked by TLC on the run's instance (those of
TransportContract with one fault at a time). The proofs changed the models in five
places. In Wire the numerals became a constant, with what the proofs assume of them;
`asciiFields` counts where words begin instead of recurring; and a debug line carries
its key as it was sent, encoded or not. `LimitHolds` was false for Incr with delta zero,
which repeats the number of the call before it: it now speaks of calls that add
something. The operators `semantic` of Batch and `readRawResponse` and `Answers` of Wire
had CASE arms that overlap, of which TLA+ leaves open which one is taken; they are now
disjoint. The first loop of `batch` was one operator that computed all groups and is now
an action per turn. `Fetch.BgWrite` removes the key it has written from a set instead of
rebuilding it.

The proofs use the named assumptions `TransportAssumption`, `FetchAssumption`,
`VerbsAssumption`, `RouterAssumption`, `BatchAssumption`, `WireAssumption` and those of
Expiry and Lifetimes, which TLC evaluates on every run.

**Only model-checked.** All liveness (`TimedReturns`, `CloseDrains`, `EveryCallReturns`,
`DeadlineEnds`) and the three counterexamples. The provers cannot use an induction rule with an operator
parameter; the inductions that were needed, along a list of servers (`Pick`) and along
the words of a line (`FlattenSeq`), are done by a least counterexample, from the
well-foundedness of the naturals.

## Observations

Places where the code and its comments disagree, met while modelling. The first
three are runs that end in a counterexample; for the others the statement is in the
last section of the module, and TLC refutes it when it is made the property of a
configuration with the constants given here.

| Statement | What happens |
|---|---|
| `LostHasCause` (TransportNilCause), `transport.go:443` | A draining connection closes itself while its writer flushes newly claimed requests, which are lost with a nil cause. |
| `DeadlineEnds` (TransportHangs), `transport.go:128` | When a context ends, the compare-and-swap from queued and the one from writing are tried once each. If a flush requeues the request in between (`transport.go:393`), both fail and the call waits for `done` alone: stranded in a dead connection's queue it never returns. |
| `NoResurrection` (FetchManyResurrect), `fetch.go:529` | FetchMany writes a value joined from an older flight under its own newer CAS, past a Delete. |
| `QueuedMove` (sockets break) | A request added to a connection that was torn down after `status` was read stays in the dead connection's queue, until its caller gives up or forever (`transport.go:139`). |
| `MisuseSurfaces` (Verbs, an Eternal call) | With Degrade, Append with the TTL Forever is refused by `buildSet` and, its error being no `usageError`, reported as success (`set.go:136`), although `errors.go:29` says that Degrade never absorbs a mistake. |
| `ForeverStores` | Without Degrade the same call is an error, although `options.go:87` promises it stores. |
| `FailsWithItsConn` (sockets break) | `teardownLocked` reads `onWire` after the unlock; a request requeued meanwhile is failed with the connection it left (`transport.go:545`). |
| `LateIsDeadline` (a cancelable and a timed request) | `teardownLocked` blames `inflight[0]`, not the request the read deadline was armed for (`transport.go:535`). |
| `QueuedSeeClosed` (Close) | Close cancels the root context first, so queued requests may see the canceled dial instead of `ErrClosed` (`client.go:121`). |
| `OneLoader` (an eviction, RefreshAhead) | The refresh and flight maps do not see each other (`fetch.go:316`). |
| `LeadReleased` (an eviction) | A Fetch that won a lease and joins a flight leaves its placeholder to the lease TTL (`fetch.go:223`). |
| `ManySettled` (a cancelable FetchMany) | The early returns of `fetchMany` skip the settling of leases (`fetch.go:509`). |
| `StaleRefreshed` (two Invalidates) | A token won while an older refresh runs is dropped (`fetch.go:310`). |
| `NoCacheError` (Degrade off) | A failed read ends Fetch with the cache's error (`fetch.go:144`). |
| `FreshServed` (two processes, RefreshAhead) | A fresh value whose early-recache token is out is taken for a placeholder by callers without RefreshAhead (`client.go:317`). |
| `TokenGoesBack` (failures) | An Update whose write fails keeps the token (`update.go:104`). |
| `DegradedRead` (Batch) | GetMany with Touch and Degrade: a read that touches has a side effect, so a lost answer is an ambiguous write and surfaces as an error (`get.go:144`), although `get.go:117` says a failing backend only removes its own keys. |
| `ErrorMeansNoEffect` (Batch) | A mutation that was applied and whose response has an unreadable flag gets an `Err` without `Ambiguous` (`batch.go:348`). The single-key verbs return, or with Degrade absorb, the same plain error (`client.go:195`), which `HonestAnswers` grants them; the type of it, `framedResponseError`, is for operations whose "outcome is therefore not ambiguous" (`wire.go:28`), but nothing tells the caller which outcome it is. |
| `NeverShrinks` (Lifetimes) | A read that touches a stale item reports the TTL from before the touch, and a Touch between a read and its hand-back does not change the CAS: both times `returnStaleWin` sets the shorter TTL again (`get.go:68`), although `get.go:58` says it does not shrink the window. |

The branch of `resolveGroup` for a pipeline without its barrier (`batch.go:287`) is
not reached: `exchange` ends without error only at `mn`.

## Not modelled

The construction of a client, its options and their validation have no state of
their own beyond the constants of the modules. The codec is the application's; values
are opaque, and a zero-byte value is the only one told apart. The error types are the
error values of the modules. Of MetaClient, the options that no verb uses (SetCAS,
UnlessCAS, DropValue, MetadataOnly arithmetic) are left out; of the wire format, the
numbers inside of flags (only whether they can be read is modelled), the fields of a
debug line and `validateOpaque`. A server that answers one command twice, or tags a
response with another operation's token, is outside of Batch and Wire: nothing in the
protocol lets a client notice. Panics of loaders are not modelled. The clocks of
client and server are one.

## Plan

1. Done: Transport with its contract, Fetch, Verbs; four theorems about Transport.
2. Done: Batch with Router, Lifetimes with Expiry and CounterSpec, Wire.
3. Done: every invariant, action property and refinement of Transport, Fetch, Verbs,
   Lifetimes, Batch and Wire as theorems.
4. Open: the fields of a debug line and the numbers inside of flags in Wire, and panics
   of loaders in Fetch.

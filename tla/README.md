# Cache-Pot in TLA+

Cache-Pot is a Redis-compatible in-memory server with stores for agents:
memories, a vector index, semantic, prompt and tool caches, a knowledge graph.
This directory holds its TLA+ models, the TLC configurations that check them on
small instances, and machine-checked proofs of the safety properties of every
component that keeps state. Paths are relative to the repository's `src/`;
`PROJECT.json` maps each definition to the lines it translates.

## The system: components, state, operations

| Component | State | Operations | Module |
|---|---|---|---|
| Storage engine, `internal/storage/memstore` | shards: `data`, `ttlKeys`, `versions`, a lock each; the atomic `entryCount` | the methods of `storage.Engine` | `MemStore`, `Containers` |
| TTL reaper, `internal/storage/ttl` | its loop | tick, sampled sweep of every shard, stop | `MemStore` |
| Eviction, `internal/eviction` | none | score a sample, drop the best scorer | `MemStore` |
| Connections, `internal/server/resp/conn.go`, `types.go` | read and write buffers | read a command, handle it, flush | `Conn` |
| Dispatch, `internal/server/resp`, `internal/auth` | `ClientState`: authentication, workspace, queue, watches | `Registry.Handle`, AUTH, HELLO, QUIT | `Sessions` |
| Transactions, `handlers_tx.go` | queue, watch list, the global mutex | MULTI, EXEC, DISCARD, WATCH, UNWATCH | `Sessions` |
| SCAN, `handlers_generic.go` | none (the cursor is the client's) | list, sort, page | `Scan`, `Containers` |
| Patterns, `glob.go`, `memstore/pattern.go` | none | the matchers of PSUBSCRIBE and of KEYS and SCAN | `Glob` |
| Publish/subscribe, `pubsub.go`, `handlers_pubsub.go` | broker maps, a buffered channel and a forwarder per subscriber | (P)SUBSCRIBE, (P)UNSUBSCRIBE, PUBLISH, teardown | `PubSub` |
| Agent memory, `internal/memory` | records, version history | Put, Get, History, Search, List | `AgentMemory` |
| Vector index, `internal/vector` | documents, under a mutex of its own | Upsert, Delete, Search, plain and hybrid | `Vector`, `AgentMemory` |
| Consolidation, `internal/consolidate` | none | list, dedupe, summarise, Put | `AgentMemory` |
| Semantic and prompt caches, `internal/semantic` | partitions; entries by key | Set, Get with lazy eviction | `Caches` |
| Tool cache, `internal/toolcache` | entries by tool and canonical arguments | Set, Get | `Caches` |
| Cost analytics, `internal/analytics` | total saved, bounded top list | RecordCacheHitSavings | `Tracker` |
| Knowledge graph, `internal/graph` | nodes, edges | upserts, extraction, Related | `Graph` |
| Agent commands and MCP tools, `handlers_*.go`, `internal/mcp` | none | read arguments, fill in defaults, call a store | `Doors`, `Graph` |
| Metrics, `internal/observability/metrics.go` | atomic counters, calls by tool under a mutex | count, time, Snapshot | `Metrics`, `Graph` |
| Server, `internal/server/server.go` | listener, connection slots, wait group, shutdown flag | start up, accept, serve, reject, stop | `Server`, `Conn` |
| Embedding and completion providers, HTTP pages, logging, command line | | | not modelled, see below |

How they interact. One goroutine per connection reads commands and calls a
handler through `Registry.Handle`; handlers call the stores, which lock
themselves. There is no lock above a store except the transaction mutex inside
`Engine.Exec`, which plain commands never take, so whatever a handler does in
several calls interleaves with every other connection. Background goroutines are
the reaper, one forwarder per subscriber and the shutdown goroutine. Handlers of
the agent stores call an embedding service or a language model, with no lock
held; these calls may fail. Nothing is persisted: a crash loses all state, so
there is no recovery to verify.

What is hard: the clock is read before a lock is awaited; the entry cap is
tested against a counter other shards change; RENAME holds two locks; KEYS, SCAN
and FLUSHDB visit the shards one at a time; EXEC compares versions before it
locks; PUBLISH sends after it unlocked; a search ranks before it locks the
records; a cache lookup drops under the write lock what it saw expired under the
read lock; graph extractions record upsert by upsert; commands arrive cut into
reads anywhere; counters are summed up while they move; two front ends read the
same requests with code of their own; shutdown races accept.
The `hazards` of `PROJECT.json` give these places line by line.

## The models

**`MemStore`**. `store` holds all shards' maps as functions of the composite key
(`<<workspace, name>>`) and `entryCount`; `lock[sh]` is the shard's write lock;
`op[c]` is the call of client goroutine `c`: its request, the `now` it read, its
progress. `Begin` reads the clock without a lock; then there is one action per
method. What a method does under one shard lock is one step, except that
inserting a new key is split where `entryCount`, shared by all shards, is read:
`Create`/`Set` (lookup, lock kept) → `LoadCount` → `Evict` → `Insert`. A rename
across shards is `RenameLockFirst` → `RenameAcrossShards`. The loops of DEL,
EXISTS, KEYS, SCAN and FLUSHDB are one step per key or shard. `SweepShard`
samples a shard's TTL index; `Evict` any victim some sample can give. `Score`
is exact: LRU's age, or the weighted policy's
`0.6·age/(1+age) + 0.4/(1+accesses)` as a fraction. `Containers` holds what
commands compute on hashes, lists and sorted sets, and SCAN's paging.

**`WatchSpec`** is the abstract promise of `Engine.WatchVersion`: a key's counter
never goes back, and moves on whenever the key's kind, value, expiry or absence
changes. `MemStore!WatchContract` states that the engine implements it, with
`seen` mapped to the visible part of the entries and `version` to the counters.

**`Sessions`**. `conn[c]` is the `ClientState`, `run[c]` the handler in progress.
`Registry.Handle` is one action per outcome (`RejectUnknown`, `RejectNoAuth`,
`Queue`, `QueueReject`, `RejectArity`, `Start`); handlers make one step per
engine call, so INCRBY and APPEND are a Get and a later Set, MSET one step per
pair, WATCH and EXEC's comparison one per key. `hist` is history for the
properties only. The engine's calls are atomic here, which is how they look to
others in `MemStore`.

**`PubSub`** has the command loop, the forwarder and the channel of every
connection, `wire[c]`, what was written to the client, and the two mutexes as
step boundaries. A send on a closed channel sets `panicked`. Writes have no
deadline: a client in `stalled` stays connected and never reads again, so a write
to it may go through (into a buffer) or wait for ever, until its socket is closed.

**`AgentMemory`** has records, history and index; `Put` embeds, then stores;
`Search` embeds, ranks the index (`Rank`), then locks the records (`Filter`);
`Consolidate` lists, waits for the model, then goes through `Put`. Texts are
model values with a similarity table, which may say NaN. **`LineageSpec`** is the
abstract promise of versioning (`docs/commands/versioning.md`): a slot holds a
lineage of versions, a Put adds the next one and lets go of the oldest beyond the
cap, and a lineage ends only as a whole, when its current version has expired.
`AgentMemory!LineageContract` states that records and history implement it.

**`Caches`** (extending **`Tracker`**): the three caches, each call split where it
unlocks. JSON numbers go through `canonical`, the rounding to a float64
mantissa; `MantissaBits` is 53 in the code and 3 in the instance, so that
rounding happens with small numbers. Arguments that are not JSON are refused
before anything changes and are left out.

**`Graph`** (extending **`Metrics`**): an extraction through either door is a
completion call, which may fail, and then a list of upserts done one by one;
`Related` is the breadth-first traversal. Around them the doors count: a RESP
command is timed with a sum and a compare-and-swap maximum, an MCP call is added
to the total and then, under a mutex, to its tool, completions are in flight
between two adds. `Snapshot` reads all this in three steps while it moves.

**`Conn`** is one connection: units (headers, words, line ends) are on their way
(`net`), in the read buffer (`buf`) in chunks of any size, framed by the steps of
`ReadCommand`, handled, answered into the write buffer (`out`) and flushed to the
client (`got`) when a command was handled and the read buffer is empty, or on
QUIT.
Payloads may look like frames; lines may be blank; numbers may not parse.
**`Server`** composes such connections with `Server.run`: start-up from a
configuration, which may fail, the accept loop and its slots, the session
goroutines, the MCP server beside them, the shutdown goroutine, the wait group
and the grace periods.

**`Scan`**: a client walking the keyspace while others add and delete keys.
**`Glob`**: both matchers, step for step, beside `Language`, the set of texts a
pattern stands for; what the code does by calling itself on the rest of its
slices is a function of the positions in them. **`Queries`**: what the commands on
lists and sorted sets, and the matchers, are to compute, by references that name
positions and texts instead of computing them. **`Vector`**: the store with its three metrics, metadata
filters and hybrid blending, on exact fractions: `VectorAssumption` has lengths and
distances be integers, because the model has no real square roots. **`Doors`**: every agent command
and every MCP tool as a function from its arguments to the set of calls it makes
on a store: none if it refuses, else one. Both doors are written from their own
code; `SameThroughBothDoors` gives, for an MCP input, the RESP commands that say
the same, in every order of their options, and compares the calls.

`MC*` modules only give constants values, except three. `MCContainers` also
enumerates the inputs of the pure functions: lists and sorted sets to query,
patterns, vector stores and MCP inputs. `MCCommands` puts these beside `Sessions`,
so that one run looks at either. `MCCaches` adds behaviours in which only the
tracker is driven, hit by hit. Definitions marked "Fault" are the
plausible bugs with which every property was tried: with the fault in the place
of the definition that follows it, TLC finds the property violated.

## The runs

| Run | Shows |
|---|---|
| `MemStoreData` | the reading and writing engine methods of every kind of value (SET with GET and XX; one of each mirrored pair such as LPUSH/RPOP), two clients, two shards, a cap of one entry, expiry and sweeps: `TypeOK`, `CountExact`, `TTLIndexExact`, `NewKeyStaysAbsent`, `ContentsOK` (no empty or mistyped collection stays), `WatchContract` (refinement) |
| `MemStoreEviction` | plain SET, GET and KEYS on four keys: `KeysComplete` (a listing misses no key that was there throughout), `CapBound` (concurrent inserts exceed the cap by at most one entry per further shard), `VictimNotBetter` (the victim is never both fresher and at least as often used as another) |
| `MemStoreLive` | SET, RENAME and Close, with sweeps that sample one key of a shard that holds two; liveness: `ExpiredKeysGo`, `CallsReturn` (no lock cycle; Close included) |
| `Commands` | connections: `ExecRunsWholeBlock`, `ExecSeesEarlierChanges`, `TxCountersExact` (with the mutex held exactly while a body runs), `WritesAuthorised`. Computations: `ScanSteady` (a walk misses nothing while keys are only added, and repeats nothing while they are only removed); against reference definitions: `ContainersRight`, `GlobRight` (patterns match exactly their language), `VectorRight` (searches agree with one another); `DoorsAgree` (a command and the tool call of the same meaning make the same call, one cut short makes none, and the commands `workspaces.md` lists stay within the workspace of their connection) |
| `DoorsWorkspace` | violated: `WorkspacesKeptApart`, see divergences |
| `SessionsRace` | violated: `ExecAbortsOnChange`, see divergences |
| `PubSub` | `AckBeforeMessages`, `BrokerAgrees`, and liveness: `MessagesForwarded` (what got into a client's channel is written to it if it stays and reads; a publisher gets through its targets, whoever does not read), `ForwarderStops` (also out of a write to a client that does not read) |
| `PubSubTeardown` | violated: `PublishSurvives`, see divergences |
| `AgentMemory` | `RecordsInStep` (index and history fit the records), `LineageContract` (refinement: the very versions stored are kept, and no live memory is lost), `SearchReturnsLive`, `ConsolidationSound` |
| `Caches` | `NothingLiveLost`, `SemanticBest` (the oldest of the closest live entries), `TopHoldsDearest` |
| `Graph` | `RelatedRight` (against paths), `ExtractTraceable`, `CountersExact` (no count is lost between goroutines), `SnapshotCovers` (a snapshot never shows more parts than the whole) |
| `Server` | `GracefulStop`, `SlotsExact`, `CommandsAsSent` (every command runs once and in order, however it was cut), and liveness: `RunReturns`, `Answered` (every reply is flushed to a client that only waits) |

### Bounds, and why they are enough

- Two clients or connections everywhere: every race found here is between two
  actors and shared state. Clients are interchangeable, so safety runs use
  symmetry; liveness runs do not.
- Engine: two shards are needed for cross-shard renames, the shared counter and
  listings. `MaxOps` (3 in `MemStoreData`) is enough for a write, a disturbing
  write and the call they disturb; the clock (`MaxTime`) runs as far as one TTL,
  so that a call can hold a `now` older than the expiry. `MemStoreData` has a cap
  of one, so that almost every insert evicts; `MemStoreEviction` needs four keys,
  three of them in one shard, to choose a victim among several. `MemStoreLive`
  has sweeps sample one key (20 in the code) where a shard can hold two with a
  TTL, and no evictions. In the safety runs samples are 20 and exceed the
  instance; the proofs cover every size there, but no liveness. `IntMax = 1` makes
  `AddInt64` wrap.
- `Commands`, connections: six commands, the length of two complete transactions
  (MULTI, INCRBY, EXEC twice) or of AUTH and a watched transaction with a
  disturbing write. Servers without a password and with per-workspace passwords
  are both initial states.
- `PubSub`: one channel and a pattern that matches it, so that a message reaches a
  client twice; buffers of one fill up at once; two messages. `AgentMemory`: four
  calls, enough for three versions of a memory with a history cap of one, for
  three memories and their consolidation or a search for the best two of them.
  `Caches`: four calls for the caches; a top list of two entries, which five hits
  at three costs fill, displace from and come back to.
- `Commands`, computations: all lists up to length 4 over 3 values, indices -4..4, all sorted
  sets over 3 members and 3 scores; walks over up to 5 keys with 3 changes.
  Patterns of up to 4 pieces (classes, ranges, stars, escapes) on all texts of up
  to 2 of 7 characters; stores of 3 ids with 7 possible entries; every MCP input
  over small sets of field values, with every order of options.
- `Graph`: four ids, three calls of two clients, two durations.
- `Server`: two connections to a server for one or two, started with every mix of
  settings; one burst of up to nine units, cut into reads in every way: one
  connection alone meets every framing case, while the other races the shutdown.

### Fairness

Weak fairness stands for the Go scheduler: a goroutine that can run does, a
mutex that is free is handed to a waiter. The reaper's ticker and the clock are
weakly fair. Two things are strongly fair. `ReaperStop`: Go's `select` chooses at random
among ready cases, so a cancelled context that is ready at every tick is not
passed over for ever. And, for each key, the sweep that removes it: a sample
begins at a random place of the index (the order of a Go map), so an expired key
is not left out of all samples for ever. In `PubSub` a write to a client is fair
only if the client reads on or its socket is closed: the code sets no deadline, and
nothing is assumed of a write to a client that stays and does not read. In
`Server`, start-up, the accept loop, each session, the shutdown goroutine, the
waiter and the end of `run` are weakly fair, each by itself, as goroutines are.
An accept that fails on an open listener is possible and never required. Clients
are never assumed to send, read on or hang up.
`MemStoreLive` allows the end of a behaviour (`CHECK_DEADLOCK FALSE`): after
`Close` the reaper is gone and an idle engine has nothing to do.

## Proofs

Every stateful component has its safety properties proved with TLAPS, for every
value of the constants that satisfies the modules' named assumptions: any number
of clients, connections, keys, shards and calls, any cap, limit, buffer or sample
size. (The bounds on calls, messages and time, such as `MaxOps`, are arbitrary
numbers there.) Each module has an inductive invariant and a theorem
`Invariance`; the table lists the properties that follow.

| Module | Theorem | States |
|---|---|---|
| `MemStoreProofs` | `TypeCorrect`, `CountCorrect`, `TTLIndexCorrect`, `InsertExclusive` | `[]TypeOK`, `[]CountExact`, `[]TTLIndexExact`, `[]NewKeyStaysAbsent` |
| | `WatchCorrect` | `WatchContract`: the engine implements `WatchSpec` |
| | `ContentsCorrect` | `[]ContentsOK` |
| | `ListingsComplete` | `[]KeysComplete` |
| | `VictimsRight` | `VictimNotBetter`, if the sample covers a shard: `EvictionSampleSize >= Cardinality(Keys)` |
| | `CapHolds` | `[]CapBound`, if `"Rename"` is not among the commands |
| | `QueriesCorrect` | `ContainersRight`, for every list, finite sorted set and argument |
| | `GlobCorrect` | `GlobRight`, for every pattern |
| `SessionsProofs` | `BlocksAreWhole`, `IncrementsKept`, `WritesAreAuthorised` | `ExecRunsWholeBlock`, `TxCountersExact`, `WritesAuthorised` |
| | `EarlierChangesSeen` | `[]ExecSeesEarlierChanges`, if `OneWorkspace` |
| | `WalksComplete` | `ScanSpec => []ScanSteady` |
| `PubSubProofs` | `AckFirst`, `BrokerCorrect` | `[]AckBeforeMessages`, `[]BrokerAgrees` |
| `AgentMemoryProofs` | `RecordsCorrect`, `SearchCorrect`, `ConsolidationCorrect` | `RecordsInStep`, `SearchReturnsLive`, `ConsolidationSound` |
| | `LineageCorrect` | `LineageContract`: the memory store implements `LineageSpec` |
| | `LiveKept`, `SummariesHarmless` | a live memory stays or gets its next version; no step of a consolidation changes one |
| | `VectorCorrect` | `VectorSpec => []VectorRight` |
| `CachesProofs` | `LiveKept`, `AnswersRight`, `TopCorrect` | `NothingLiveLost`, `SemanticBest`, `TopHoldsDearest` |
| `GraphProofs` | `CountersCorrect`, `SnapshotsCovered`, `RelatedAlways`, `Traceable` | `CountersExact`, `SnapshotCovers`, `RelatedRight`, `ExtractTraceable` |
| `ServerProofs` | `SlotsCorrect`, `StopIsGraceful` | `[]SlotsExact`, `[]GracefulStop` |
| | `FramingCorrect` | `[]CommandsAsSent`, if `Conforming` |

The hypotheses of single theorems are no weakening of the code. The violations
without them are real: a sample smaller than the shard may miss the best victim;
a rename inserts without the cap check; AUTH into another workspace changes what
the watched names mean (see the divergences). `Conforming` says what clients
send: frames that are bursts of requests together with the commands they stand
for. A request is a line of words, a blank line or empty array, an array of bulk
strings with any payloads, a line that only begins like an array, or an array
that breaks off at a line that is no bulk header. `InputPipelines`, `InputLines`
and `InputPayloads` show that the assumption can be met, and the five frames of
`MCServer` are of this form. The grammar is written without a reader: by
concatenation, while the code reads line by line and by length.
The theorems about pure functions are about the `input` that a run looks at:
`QueriesCorrect` and `GlobCorrect` assume only that it is a list, a finite sorted
set with integer scores, or a sequence of characters. `TextsAssumption` asks of the
texts to be matched that their parts are texts too, `VectorAssumption` of the
stored vectors that their scores are exact; both hold in the runs.

None of the properties is inductive alone. What the invariants add:

- **Engine** (`Inv`): what suspended calls have established (`CallOK`). A call
  between lookup and insertion holds its shard's lock and its key is absent; a
  rename waiting for its second lock holds the first of the two in order. Without
  it `Insert` could count a key twice. The argument is organised around
  `Good(s, t, S)`: store `t` is a correct successor of `s`, its count and index
  exact, its versions moved where something changed, and only keys of `S` newly
  present. Each shard primitive makes a good step, good steps compose
  (`GoodTrans`), each action is a composition of them, and a step whose new keys
  lie in a shard whose lock is free, or held by the stepping client, keeps
  everybody's `CallOK`. `CapHolds` adds `CapInv`: the keys present or about to be
  stored, with the shards that have neither, are at most
  `MaxEntries + NumShards - 1`; an insert that found room uses up its own shard.
- **Transactions**: what an INCRBY of the running body has read is still there when
  it writes (`TxInv`); a connection that has not authenticated runs, queues and
  watches nothing it may not (`AuthOK`); a block without an error is what the
  client sent, and EXEC takes over that block (`BlockOK`); for EXEC, a watched
  version is at most the current one, and if a key had changed when EXEC began,
  the comparison of one such key is still to come (`WatchOK`).
- **SCAN** (`WalkInv`): while nothing is deleted, every steady key before the
  cursor's position has been returned; while nothing is added, what was returned
  is before the cursor. A key's position is the number of smaller keys.
- **Publish/subscribe**: `ReachInv`. A message that may still reach a client, being
  in a PUBLISH, its channel or its forwarder's hands, is for a topic whose
  acknowledgement is written or is being written under the write mutex, unless
  the client is gone.
- **Agent memory**: what each call holds while it embeds or waits for the model
  (`CallOK`), and that a generated id is fresh until it is stored (`IdFresh`); for
  searches, that the ranking a call holds is in order and no longer than asked
  (`FoundInv`).
- **Caches**: what each suspended call carries (`CallOK`), the time a lookup read, which
  is not in the future, included; that one pass over a partition finds the oldest
  of the closest live entries is shown by induction along it (`PassRight`). The top list is sorted, without doubles,
  and no entry outside has ever cost more than one inside (`TrackerInv`).
- **Graph and metrics**: each counter plus what the calls in progress are still to
  add is what was done (`CountInv`), maxima included (`MaxInv`); what a snapshot
  has read so far is covered by what it has still to read (`SnapInv`).
- **Server**: HandleConn runs for exactly the connections that got a slot, counters
  count the sets they are meant to, and once somebody waits for the last
  connection none can be added.
- **Framing** (`FrameInv`): the input not consumed yet, on the wire and in the read
  buffer, is the rest of a stream of requests, or what is left of an array and
  then such a stream; with the commands run it makes up what the client meant.
  Every step of `ReadCommand` cuts off one line or payload and leaves such a
  state. When the client or the server has ended the connection, only the prefix
  property is claimed.

Induction over data is done by least counterexamples: `Induction` derives from
the library's well-foundedness theorems that a set of numbers has a least member,
that functions defined by recursion on their predecessor, or on all later places,
exist and stay in a set, and what sorting a finite set yields. With it, what the
traversal of `Related`, the scan of a partition, `dedupe`, the ranking of the
index, the sorted listing under SCAN and the framing of streams of any length yield
is proved for every input. So are the pure functions:

- **Lists and sorted sets**: LREM's pass keeps, of the places seen so far, those the
  reference keeps; from the tail it is the pass over the reversed list. A member's
  rank is the number of members before it, which makes `sortedMembers` a bijection;
  ZRANGEBYSCORE's pass is a count of the places within the interval.
- **Patterns**: both tables are filled from the end of the pattern. The matcher's
  entry for two rests agrees with the reference's set for the rest of the pattern
  if it does for all shorter rests: a star takes some part off the text, any other
  item its first character (`MatchesForm`, `ItemForm`), and a class is the set it
  lists (`ClassRight`).
- **Vectors**: scores are compared as fractions, whose order is shown to be a strict
  order; two rankings of the same entries whose comparisons agree are equal,
  because a member's place is the number of its betters. That nothing precedes an
  exact copy of the query but another one is, for the cosine, the inequality of
  Cauchy and Schwarz, derived from the square of `t·a - u·b`.
- **Lineages** need `RecordsInStep`: a slot without a record has no history, so a
  lineage begins with version 1 and nothing before it.

Only model-checked: all liveness, which is beyond this prover (`ExpiredKeysGo`,
`CallsReturn`, `MessagesForwarded`, `ForwarderStops`, `RunReturns`, `Answered`);
and `DoorsAgree`, over every order of the options but small sets of values: its
option loop is a RECURSIVE operator and its texts come from `ToString`, and the
prover can use neither.

## Divergences between documents and code

Three are runs that end in a violation:

- `SessionsRace`: `handlers_tx.go:82` compares the watched versions before
  `Engine.Exec` takes its mutex, which plain writes never take.
  `docs/commands/pubsub-and-transactions.md:50-52` says that none of the queued
  commands run if a watched key was modified between WATCH and EXEC.
- `PubSubTeardown`: `Publish` sends to targets it collected before it released the
  mutex (`pubsub.go:127`), while `cleanupSubscriptions` closes the channel
  (`handlers_pubsub.go:49-55`): a send on a closed channel panics, where the
  comment at `pubsub.go:102-104` says a delivery is made or dropped.

- `DoorsWorkspace`: `handleSummaryCreate` (`handlers_consolidate.go:41-83`) takes a
  WORKSPACE option and does not ask `authorizedForWorkspace`, so on a server with
  credentials per workspace a connection consolidates memories of any workspace.
  `client.go:122-125` says the check is made "by every command that takes an
  explicit workspace/namespace argument", `docs/getting-started/workspaces.md:36-38`
  that any such command is refused with NOPERM. The commands the latter lists do
  ask, which `DoorsAgree` states.

Others, seen while modelling, which the models reproduce but no run states:

- `memstore/store.go:275`: the clock is read before the lock is awaited, so a call
  delayed at the lock returns a key others already saw expired;
  `docs/architecture/storage-engine.md:55-56`: "an expired key is never observably
  alive".
- `memstore/store.go:429`: RENAME inserts into its new shard without the eviction
  check, so the floor of `store.go:166` (`max(maxEntries, one entry per populated
  shard)`) does not hold after renames; `CapBound` is about instances without.
- `memstore/store.go:940-961`: LSET leaves LastAccess alone; `types.go:51`:
  "Updated on reads and writes."
- `handlers_tx.go:83`: AUTH into another workspace between WATCH and EXEC makes
  EXEC compare other keys (`docs/architecture/redis-compatibility.md:16-18`).
  `Sessions` is therefore instantiated with one workspace that has a password.
- `handlers_string.go:117`: MSET is one engine call per pair;
  `docs/commands/strings.md:12`: "atomically".
- `memory/store.go:334`: a search ranks by agent before it locks and does not look
  again, so a memory overwritten by another agent in between is returned
  (`docs/commands/memory.md:89`), and expired records use up places among the K
  (`handlers_memory.go:186`).
- `memory/store.go:218`: Put over an expired memory that no reader has dropped
  continues its versions (`docs/commands/versioning.md:32-33`).
- `analytics/tracker.go:223-238`: a displaced entry comes back with one hit
  (`tracker.go:86-87`).
- `toolcache/toolcache.go:28`: integers beyond 2^53 share a key; line 1 says
  "exact-match".
- `graph/graph.go:183`: ids without a node are not traversed, so nodes connected
  through them only are not found (`graph.go:98-99,138`).
- `conn.go:30-37`: a blank line or an empty array after a command leaves its reply in
  the buffer until the next command, and a protocol error or the end of input
  ends the connection without a flush; `conn.go:13-15` says it flushes once
  nothing is left to read or the connection is closing. `Answered` excepts this.
- `observability/metrics.go:273` calls a Snapshot a point-in-time copy; its
  counters are read one after the other. `SnapshotCovers` states what remains.
  Nothing outside tests calls `ErrorReturned` (`metrics.go:117`), so
  `cachepot_errors_total` stays 0; PUNSUBSCRIBE is missing beside its siblings in
  `metrics_family.go:40-41`.
- `resp/glob.go:3-8` says it matches as memstore's matcher does, but only the
  latter knows `\` escapes (its own comment, `memstore/pattern.go:6-7`, leaves
  open which).
- The doors differ where a request cannot be said through the other: an empty
  string is a default in MCP and itself in RESP; GRAPH.RELATED refuses a depth
  that is not positive, `mcp/server.go:886` replaces it; `mcp/server.go:170` trims
  spaces from a metric. `mcp/server.go:207-209` says a cost `<= 0` means unknown,
  while line 230 refuses a negative one, as the RESP command does.
- `server.go:77`: when start-up fails after the port was bound, `run` returns
  without closing the listener; on shutdown it may return while MCP requests
  outlast their grace period.
- `handlers_semantic.go:120` accepts NaN as a THRESHOLD, and `cache.go:153` misses if
  the score is less: with NaN nothing does, and any prompt gets the closest entry.
  The comment at `cache.go:111-113` says the similarity is `>= threshold`. `Clears`
  and `SemanticBest` are about what the code does.
- Seconds are multiplied to nanoseconds unchecked (`handlers_string.go:53` and the
  other TTL options): a very large TTL wraps around. The models' TTLs are small.

## Not modelled, and why

- Encoding of replies, error texts, HTTP pages and logs: formatting of state that
  is modelled, without a state of its own. Counters that are only added to, beyond
  those in `Metrics`, and token usage in the tracker: nobody decides on them.
- Embedding and completion providers: remote calls, modelled where they are made
  as "answers or fails".
- The parsing of flags and environment variables: sequential, before anything
  runs. What `run` makes of a configuration is modelled.
- The MCP transport and HTTP: library code. That the MCP server serves and stops
  is an external step of `Server`.
- Floating point: scores are integers or exact fractions; NaN appears as the value
  of an undefined similarity and as a threshold.
- Lengths in `*n` and `$n` headers for which memory cannot be had: `types.go:57,74`
  calls `make` with them before anything was read, and it panics. The headers of
  `Conn` have lengths that a buffer can be made for.
- A depth that is not positive in `graph.go:145-147`: both doors replace or refuse
  it before.
- Argument parsing of the collection commands: each reads its arguments and makes
  one engine call, without defaults or a second door to disagree with.

## Plan

Modelled first: the engine, on which everything rests, then transactions and
publish/subscribe, the agent stores, and the server with its connections and
both front ends; then proofs of their safety properties. To come, in this order:

1. The tool cache as an atomic map with expiry, and `Caches` shown to implement it.
2. A liveness run for the transaction mutex.
3. `DoorsAgree` for every input, with the option loop as a function of positions.

## Running

    tlc -config MemStoreData.cfg MCMemStore
    tlapm MemStoreProofs.tla

Every run finishes within three minutes with two workers. The proofs are in
`MemStoreProofs`, `SessionsProofs`, `PubSubProofs`, `AgentMemoryProofs`,
`CachesProofs`, `GraphProofs`, `ServerProofs` and `Induction`; each takes a few
minutes.

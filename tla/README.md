# TradeCore in TLA+

A TLA+ model of TradeCore, a single-process matching engine for perpetual
futures, checked with TLC on small instances and, for its core, proved with
TLAPS. Paths below are relative to the repository.

## 1. The system

`apps/tradecored/src/main.cpp` is the daemon; it owns one object of each
library. Two threads run: the transport's receive thread and the main thread's
event loop. Signal handlers set one atomic flag.

```
datagram -> transport -> IngressPipeline::submit -> 3 SPSC lanes   (receive thread)
                                                        |
     event loop: drain new orders, cancels, replaces  <-+          (main thread)
        per frame: WAL append -> express feed -> decode -> risk check
                   -> matcher -> fills to positions and trade metadata
        per turn:  block number, snapshot every 256 blocks, status line
after a crash: replay::Driver reads the latest snapshot and the WAL behind it
```

| Component | State | Operations | Hard behaviour | What makes it correct |
|---|---|---|---|---|
| Matching engine (`libs/matcher`) | per market: order map, price levels with intrusive lists and totals, FIFO counter | submit, cancel, replace, add/clear market | loops that erase what they stand on; totals that are only adjusted; replace = remove + place | lists, levels and map agree; book not crossed; price-time priority; totals exact; FOK all or nothing; calls end |
| SPSC ring (`libs/common`) | slots, two atomic indices | push, pop | lock-free interleaving, stale loads, wrap-around | no slot shared; FIFO; nothing lost |
| Ingress pipeline (`libs/ingest`) | rate windows per account, three lanes, counters | submit, next_..., reset_stats | sender's clock, late and reordered datagrams, full lanes | limits hold; lanes bounded |
| Write-ahead log (`libs/wal`) | buffer, file, next sequence | append, flush, sync, open; reader | crash at any byte, recovery of the sequence | contiguous numbers; damage detected; synced records readable |
| Event loop (`apps/tradecored`) | lanes, resting-order contexts, block number | drain, process_fills, snapshot, shutdown | order between lanes; two views of the book; block number against log | contexts match the book; positions match trades; a metadata record per fill; snapshots' labels never above the records they cover; accepted frames logged |
| Risk engine, liquidation manager (`libs/risk`) | markets, collateral, realized profit, positions | configure, mark price, credit/debit, apply_fill, evaluate_order, evaluate | checks made before fills; averaging and turning of positions | books follow the cash; accepted orders margined |
| Snapshot store (`libs/snapshot`) | one file, one temporary file | persist with compaction, latest | crash between write, remove and rename; torn records | latest is the last persisted; limits; survives crashes |
| Replay driver (`libs/replay`) | none | execute | snapshot and log from several processes | no logged frame left out; a first process's applied once |
| API router (`libs/api`) | two bounded deques, endpoints | push, get since offset, node status | eviction before a reader comes; several records with one offset; offsets reused after a crash | the feed shows what the log has; readers notice what they miss |
| Transport (`libs/ingest`) | socket, thread, buffer, peer table, counters | start, stop, receive loop, stats | stop against receive; expiry of peers by two threads; a reused buffer | the thread uses live objects only; frames of one datagram; peers counted; stop returns |
| Authenticator (`libs/auth`) | keys of accounts | register, verify a frame | a pointer into the map that outlives the lock | only signed frames reach the loop |
| Funding engine (`libs/funding`) | per market: config, prices, premium, accumulator | configure, update | two clamps with rounding, a width nobody validates | premium fits the mark price; accumulated funding bounded |
| Telemetry sink (`libs/telemetry`) | histograms, sample buffer | push, record, drain | approximate ranks, shared slots, reset | summaries are about the records since the last drain |
| Configuration loader (`libs/config`) | none | load, validate | narrowing before validation | what passes is sound for those who get it |
| Ledger (`libs/ledger`), SBE codec, common types | a map of sums; none | credit, debit; decode | none | |
| Web UI (`apps/webui`) | mock data | none | none | not connected to the engine |

## 2. Modules

| Module | Models | Composed of |
|---|---|---|
| `PriceTimeBook` | what a market promises (abstract) | |
| `MatchingEngine` | one market shard, loop turns as actions | implements `PriceTimeBook` |
| `BoundedFifo` | what a lane promises (abstract) | |
| `SpscRing` | push and pop at every shared access | implements `BoundedFifo` |
| `IngressPipeline` | submit, limiter, lanes | lanes as queues with unseen free slots |
| `WalWriter` | writer, reader, crashes | |
| `EventLoop` | the daemon's loop | `PriceTimeBook` (INSTANCE), queues for lanes, numbered log |
| `RiskEngine` | risk engine and liquidation manager, one account | accepted orders stand for the matcher; `CxxArithmetic` |
| `CxxArithmetic` | division, conversions to narrower types | |
| `ConfigLoader` | configuration from a parsed file | operators only; `CxxArithmetic` |
| `FundingEngine` | one market's funding | `CxxArithmetic` |
| `TelemetrySink` | histograms, samples | |
| `Transport` | socket, receive thread, peer table | |
| `Authenticator` | keys and verdicts | |
| `Daemon` | main from start to exit, the callback | `Transport`, `Authenticator`; lanes as one queue |
| `ApiRouter` | feed and metadata, their readers | |
| `SnapshotStore` | persist, compaction, latest, options, crashes | |
| `Recovery` | one daemon after the other on the same files, and replay | `WalWriter`, `ApiRouter`, `SnapshotStore` (INSTANCE), step by step |
| `..._proofs` | theorems (`Recovery_proofs` also those of `WalWriter`, `Libraries_proofs` those of the three libraries with numbers) | extend the modules they are about |
| `MC...` | values of constants, symmetry | extend the module they are about |

Variables and operators keep the names of the source where there is one;
PROJECT.json maps each definition to its lines. Definitions marked "Mutant" are
wrong versions of the definition after them: the check replaces one by the
other, and the property named in PROJECT.json must then fail.

**MatchingEngine.** A call sets `pc`, `taker`, `it`, `maker`, `fills`, `result`
(the locals of place_order and consume_book) and the loops are `EnterLevel`,
`Fill`, `LeaveLevel`, `StopMatching`, `Finish`, `Return`. Shards share nothing,
so one is modelled; the arena, accounts and timestamps are carried by the code
and read by nobody, and left out. `Lesser` etc. are the obvious helpers.

**SpscRing.** An acquire load returns any value between the one read last and
the current one; own indices are read exactly. Release/acquire makes slots
visible with the index, so slots are read exactly. The class asks for a power
of two, and the model for any positive size.

**IngressPipeline.** One action per outcome of `submit` (heartbeat,
unauthentic, rate limited, queue full, accepted). A lane is a queue whose
producer may not know the slots freed last (`unseen`), as `SpscRing` shows. The
verifier's verdict and the time in the header are inputs.

**WalWriter.** The file is a sequence of parts: records, torn headers, torn
payloads. The daemon's payloads have at least 25 bytes, more than a header, so
bytes that are read across a torn header always end in an exception; the
reader takes a torn header at the very end for the end of the log. `kill` keeps
what reached the operating system, `power_loss` what was synced and perhaps
more.

**EventLoop.** `Receive` is the moment at which a pushed frame is visible to
the loop. The order in which the three process_... calls of one `+` expression
are evaluated is the compiler's choice: `DrainOrder` is a constant. The risk
engine's verdict is free, the matcher is `PriceTimeBook`; `Refused` covers
frames that do not decode, are refused by the risk engine or change nothing in
the matcher. Metadata and feed are the streams pushed to the router. The id of a
new order is made as in the code, of the low bits of account and nonce
(`SessionIds`, `LocalIds`): different accounts may have one session, and nonces
one local number. Who submitted an id last is a history (`owner`), and so is
which ids were submitted while an order rested under them (`clashed`). The
process may continue an earlier log (`FirstOffset`), and a snapshot's label is
the block number clamped to `MaxLabel`.

**RiskEngine.** Markets are configured at start, as the daemon does, or created
by the first call that names them. Orders are accepted once and filled later, at
the limit or better; a replaced order is not evaluated again. History variables keep the cash really paid, so that books
can be compared with it; `rounding` bounds what integer averages lose. Numbers
are unbounded; basis points are percent in the runs.

**SnapshotStore.** Each step of persist and of compaction is an action. As in
the log, a torn header at the end of the file is its end, and everything else
that is torn throws; nothing catches that in the daemon. Nothing is synced, so
`power_loss` may cut the file anywhere. `set_options` may change the limits between
two calls. Without limits, compact_if_needed returns before it reads the file
(`compact_unlimited`), so persist succeeds behind a torn record too.

**Transport and Authenticator.** `receive_thread` is where the thread is:
testing running_, in recvfrom, before the peers' mutex, parsing, in the
callback, or between the authenticator's lock and the use of the key. Of the
buffer each byte keeps the number of the datagram that wrote it, so a payload
that reaches past its own datagram is seen. recvfrom returns without a datagram
only because of the socket's timeout. A clock read before a mutex is a step of
its own (`now`, `stats_now`). A signature is the key that made it, and a good one may
be refused: it is over the header as a struct in memory, whose padding nothing
sets (`libs/ingest/include/tradecore/ingest/frame.hpp`, `main.cpp:175`).

**Daemon.** `main` is the line the main thread is at and `locals` its objects, in
the order of their creation; each return, early or not, destroys them from the
last one on, and the transport's destructor stops it again. An exception that
leaves main does not unwind: the process is gone at once, as after a signal
without a handler. Lanes are one queue: `IngressPipeline` and `EventLoop` have them.

**ApiRouter.** Every call is under the router's mutex, and one step. Readers are
clients of the two streams as `docs/INTEGRATION.md` describes them: they keep the last
offset and ask from there on. All fills of an order share one offset, so the
metadata reader asks from its last offset again and passes over what it has.

**Recovery.** A process logs a frame, publishes it, applies it, publishes its
fills and persists snapshots; it ends, dies or loses power at any of these steps,
inside the writer or inside persist; the next one continues the log and starts
everything else anew, readers included. A snapshot is its label, clamped to
`MaxLabel`, and its block number, as in the code: there are no books in it. What
the books held when it was taken is a history, `covered`, with which the property
compares what a replay applies. `execute` is the driver's: it asks `latest`, which
may find the last snapshot, an older one or none, or throw, and goes on from the
label plus one, which wraps around at `MaxLabel`. Log, router and store are the
whole modules, not abstractions of them.

**ConfigLoader, FundingEngine, TelemetrySink.** The loader is a function from
tables to configurations: `Bits` are the widths that numbers are narrowed to,
before they are validated. Funding and risk get what it lets pass
(`MCLibraries!LoadedMarkets`). The percentile's rank is truncated as in the code;
3 << -1 is a choice over what a build may yield. The funding history variables
`most` and `least` accumulate the caps that applied. min_ and max_ of a histogram
are left out: min_ is never read, and max_ only behind a loop that always returns.

## 3. Runs

All passing runs finish in three and a half minutes or less with two workers.

| Run | Shows |
|---|---|
| matching_queues | types, `BookIntegrity`, `BookNotCrossed`, refinement of `PriceTimeBook`: 3 ids, 2 prices, 2 quantities, 4 bookings |
| matching_flags | `AggregatesExact`, `FokAllOrNothing`, `CallsReturn`: plain, post-only, hidden and iceberg orders (no two flags at once), quantities 0, 1, 3 with display 1 (two refreshes) |
| ring_queue | `SlotsOwned`, refinement of `BoundedFifo`, `PushedIsPopped`: 4 slots, indices run around without bound |
| ingress_limits | `RateBounded`, `BudgetBounded`: 5 frames, a window of 2 ticks, times in any order |
| loop_books | `ContextsMatchBook`, `FillsBooked`, `FramesAccounted`, `SnapshotCoversLog`, `AcceptedIsLogged`: 3 frames of 2 accounts with one session, reused nonces, post-only replaces; a log that has a record already; labels up to 2 |
| libraries | `BooksFollowCash`, `FirstOrderHealthy`: 2 markets, 3 fills; `PremiumMatchesMark`, `FundingBounded`: 2 updates with reconfigurations; `SummariesExact`: 4 records in 2 slots; all from the configurations that 12 files yield |
| snapshot_compaction | `LatestIsPersisted`, `WithinLimits`, `SnapshotKept`: 4 snapshots, one size above the limit, both limits or none, 2 crashes |
| recovery | `Contiguous`, `DamageStopsWriter`, `ReplayRebuilds`, `FeedMatchesLog`, `MetadataComplete`: 5 frames, 4 log records, 3 fills, buffers of 2, 3 snapshots of which one is kept, labels up to 3, 2 crashes at any step |
| daemon_life | `ThreadUsesLiveObjects`, `FramesGenuine`, `PeersCounted`, `ShutdownCompletes`: 2 datagrams of 9 sorts from 2 peers, a window of 1 tick of 2 |
| wal_durable | violates `SyncedIsReadable` |
| loop_order | violates `IngressOrder` |
| loop_cancels | violates `CancelsReported` |

Bounds. Three orders are the fewest with which one is in front of another in a
list while a third trades; two levels are needed to go from one to the next.
Four slots with unbounded pushes wrap around. Three frames are an order, its
counterparty and a cancel or replace. Three fills open, extend and close or turn
a position. Two crashes damage a log that was recovered once already. Two
datagrams reuse the buffer, and the longer one may come first; two ticks let a
peer expire between a clock's reading and its use. Router buffers of two with
three fills evict under a reader. A snapshot every two frames with room for one
makes the second one compact, and labels up to 3 (2 in the loop) are clamped
within these frames. One session for two accounts lets ids clash. Basis points are percent, and 32 bits are 8, so
that numbers wrap within TLC's reach. The libraries of one run share no state but
the configuration, and a behaviour of that run uses one of them. All bounds are
guards on counters named `Max...`.

CHECK_DEADLOCK is off where the bound, the shutdown or a failed start ends the
behaviour. Symmetry is used for ids and values that are only compared.

Fairness. `MatchingEngine!FairSpec` and `EventLoop!FairSpec` have weak fairness
of the single thread that runs; nothing in it waits. `SpscRing!FairSpec` has it
for a consumer that polls, as the event loop does. `Daemon!FairSpec` has it for
each of its two threads: both are scheduled, and neither a datagram nor a
signal is assumed to come. The time it takes for a
store to become visible is finite in the C++ memory model (implementations
"should" make it so), and a stale load cannot go on for ever.

### What disagrees with the documentation

Three runs show a statement of the documentation that the code does not keep;
PROJECT.json quotes it.

| Run | The code |
|---|---|
| wal_durable | a torn header is taken for the end of the log and the log goes on behind it; what follows, synced or not, is unreadable from the next start on |
| loop_order | frames are logged lane by lane, not in order of arrival |
| loop_cancels | a cancel leaves no record in the trade metadata, only fills do |

The models have other behaviours that a user might not expect. The properties
are stated so that they say what the code does guarantee there:

* replace removes the resting order before the new one is checked, so a
  refused replace loses it, and `resting_orders` keeps its entry.
  `ContextsMatchBook` is about orders that rest.
* An id keeps 16 bits of the account and 32 of the nonce, and no used nonce is
  refused: an order may be submitted under the id of a resting one. It trades
  before its rest is rejected as a duplicate, and its fills reach neither positions
  nor metadata; or it fills at once and erases the other's context.
  `ContextsMatchBook` excepts the ids to which this happened, and `FillsBooked`
  the records of takers with such an id, and the positions from then on.
* The entry of a maker that was filled whole, and that of an order lost by a
  refused replace, stay in `resting_orders`. They are never looked up before the
  id rests again and they are written anew; but the map only grows.
* Around the border of two windows up to twice the rate limit passes within a
  second; `RateBounded` says that it is never more.
* A number that was published for a record still in the log's buffer is handed
  out again after a crash: by `Contiguous` the log has no gap. `FeedMatchesLog`
  holds for each process and the readers of that process; a client that outlives
  the crash has a frame under an offset that now names another one, and the
  offsets do not tell (`docs/INTEGRATION.md:25` relies on them after a failover).
* A metadata reader that pages by the offset after its last one loses the
  other fills of an order it has seen in part; `MetadataComplete` is about one that
  asks from its last offset again.
* With frames arriving faster than they are processed, the first lane is never
  found empty: the loop then sees neither the other lanes nor the shutdown flag, and
  takes no snapshot. `AcceptedIsLogged` and `ShutdownCompletes` are about finitely many frames.
* Frames that were accepted when the loop ends stay in the lanes and are never
  logged. `AcceptedIsLogged` excepts a shutdown.
* A peer that was noted after stats() read its clock is counted: `PeersCounted`
  gives the count an interval.
* A negative `clamp_bp` passes validation, and then mark price and premium no
  longer depend on the market; `FundingBounded` gives only the cap for it. A
  number above 32 bits wraps before it is validated. A queue depth that is not a
  power of two passes and ends the process in the ring's constructor.
* The 99th percentile of a single record is that of rank 0, reported as 1 ns,
  and bucket 1 (1 ns) shifts by a negative width; `SummariesExact` starts above both.
* A restarted daemon counts blocks from 0 while the log's numbers go on
  (`FirstOffset` > 1), and the label stops at 2^32 - 1. The label is then below the
  number of the last record covered: `SnapshotCoversLog` says exactly when. A replay
  applies frames again that the snapshot covers, and at the largest label the whole
  log, as the number to resume from wraps to 0. `ReplayRebuilds` asks of every
  process that none of its logged frames is left out, and for none twice only
  until a restart and below the largest label.
* A snapshot may be ahead of the flushed log. After a crash the next process's
  records get numbers that this snapshot's label covers, and a replay skips them
  until the process has a snapshot of its own; `ReplayRebuilds` is about the frames
  of the process that took the snapshot.
* A crash between the removal and the renaming in compaction leaves the
  snapshots in the temporary file, where nothing looks for them: `SnapshotKept`
  says that they are on the disk, not that latest finds them, and `ReplayRebuilds`
  that a replay without them is right nevertheless.
* A store without limits never reads its file: persist returns although its record
  is behind a torn one, where latest throws. `LatestIsPersisted` says that this is
  the only case. (The daemon's store has limits.)
* The margin check adds an order to an existing position at the old entry price:
  `FirstOrderHealthy` is about the first order in a market. A reduce-only order is
  checked by size alone and may turn a position. Equity adds realized profit to
  a collateral that has it already, as `BooksFollowCash` shows. A replace is not
  evaluated at all.
* Negative prices are refused nowhere. `FirstOrderHealthy` is proved for prices
  that are not negative, and the run has none.

Met while reading, and not modelled: a market's id is validated as 32 bits and
narrowed to 16 (`main.cpp:202`, `:267`), so that two markets may become one; the payload handed to the decoder still
starts with the 64-byte signature that the authenticator read
(`libs/auth/src/authenticator.cpp:114`, `main.cpp:319`); the daemon never
credits collateral, so with a positive margin every order is refused;
`wal_flush_threshold` is documented as a number of records and is one of bytes;
after a torn snapshot body every later daemon ends at its first snapshot.

## 4. Proofs

TLAPS proves these for every value of the constants that satisfies the named
ASSUMEs (types of the constants, null values outside the types, positive sizes).

* `MatchingEngine_proofs`: `TypeOK`, `BookIntegrity`, `BookNotCrossed` and the
  refinement of `PriceTimeBook`. The inductive invariant adds to the checked
  ones `TimePriority` (list order is FIFO order, and the running order is the
  latest) and `MatchingLoop` (the iterator is at the best level, the maker at the
  head of its list, and nothing crossed is left when the loop ends). Without
  `MatchingLoop` a step that books an order could cross the book; without
  `TimePriority` the head of a list would not be the oldest order, which the
  refinement needs. One lemma per action, then one per action for the refinement.
  Then `AggregatesExact` and `FokAllOrNothing`: a section of lemmas about sums over
  finite sets, `QuantityInv` (the totals of a level are the sums over its orders,
  every resting order shows what refresh_display would compute, and levels are
  finite) and `FokInv` (a running fill-or-kill order asks for no more than the
  levels it crosses have; when the loop ends these are none). `FokInv` needs
  `QuantityInv` where an empty level is erased: its total must be zero.
* `SpscRing_proofs`: `SlotsOwned` and the refinement of `BoundedFifo`; the types
  of the ring's variables are part of the invariant. `SeenIndices`
  says that what a thread read of the other's index lies between tail and head
  as seen from its own, `SlotsFilled` which slots hold values. The rest is
  arithmetic modulo N.
* `IngressPipeline_proofs`: `TypeOK`, `RateBounded` and `BudgetBounded`.
  `WindowsSpaced` says how the grants lie before the current window: all but the
  last `m` are a second older than its start. `BudgetBounded` is inductive with
  the types.
* `Recovery_proofs`: first about `WalWriter` alone, `Contiguous` and
  `DamageStopsWriter`, for any number of crashes. The invariant adds that nothing is
  buffered while no writer runs; the main lemma is that what a crash leaves of a
  numbered log is numbered. Then, about `Recovery`, `Contiguous` for the log that
  one daemon after the other writes, `RecoveryTypeOK`, `ReplayRebuilds`,
  `FeedMatchesLog` and `MetadataComplete`, for any crashes, limits of the store, largest
  label, and buffers of any size.
  On top of the writer's invariant, `LoopInv` says where the frame in progress is
  (numbered, logged, published), `FeedInv` and `MetadataInv` what the two buffers and
  their readers hold at each of these places, `FirstInv` that until a restart the
  n-th record of the log has number and frame n, and `OwnInv` that in any process a
  record's number is at least its place among the process's own. `TakenInv` and
  `StoreInv` say what each snapshot covers and what the store's file holds at each
  step of persist and after a crash in it: records of snapshots that were taken.
  A replay from the label of one of this process's snapshots, which is no
  more than the number of frames it covers, therefore leaves none of its frames out.
* `SnapshotStore_proofs`: `TypeOK`, `LatestIsPersisted`, `WithinLimits` and the
  action property `SnapshotKept`. The invariant has one part for each step of
  persist and compaction: what the file holds then, that it ends with the new
  snapshot, and that the copy agrees with what it was made of. The limits are a
  variable, so the theorems are for every sequence of limits, none included.
* `Daemon_proofs`: `TypeOK`, `ThreadUsesLiveObjects`, `FramesGenuine` and
  `PeersCounted`, for any datagrams, peers and times. `ThreadInv` and `SocketInv` say
  when the receive thread can exist and what it finds; `BufferInv` and `FrameInv`
  follow a datagram's bytes through the reused buffer; `PeerInv` bounds the table
  of peers by the clocks that both threads have read.
* `EventLoop_proofs`: `TypeOK`, `FramesAccounted`, `SnapshotCoversLog`,
  `ContextsMatchBook` and `FillsBooked`, for any accounts, nonces, widths of the
  ids, log and largest label, and without a hypothesis. `CallInv` says what the
  loop knows of the frame at each of its steps, `LogInv` and `LaneInv` describe the
  log, the snapshots and the lanes. `OrderInv` has, for each id that did not clash, whose order
  it is in the matcher and in the contexts. `FillInv` says which trades are still
  owed to positions and metadata: those of the order being executed, from `done`
  on; a trade of an order that is then rejected as a duplicate has a taker whose
  id is in `clashed`.

* `Libraries_proofs`: the three libraries that keep numbers, each with a
  specification of its own (`Spec`, `FundingSpec`, `TelemetrySpec`).
  `RiskEngine`: `TypeOK`; `BooksFollowCash`, whose invariant adds `Untraded` (no
  quantity and no cash where there is no market). The books and the cash are sums
  over the markets, and a fill changes one term of each: in the difference of the
  two the mark price cancels, a fill that reduces or turns a position adds nothing
  to it, and one that adds to a position at most the remainder of the averaging
  division. `FirstOrderHealthy`, under two hypotheses of the theorem: no price is
  negative, and the maintenance margin of a market is at most its initial one (the
  loader refuses others; the run draws its configurations through the loader, and
  its mutants are loaders that do not compare them, or before the numbers are
  narrowed). The invariant is `Prudent`
  (the two hypotheses, of the state); the summary that the check computes with the
  order is the one of the account after the fill, but for the order's own profit,
  which is not negative at the mark price or a better one.
  `FundingEngine`: `PremiumMatchesMark` and `FundingBounded`. Both rest on bounds
  of the division towards zero and on `ClampsAgree`, that the price and
  the premium are clamped at the same distance from the index, up to a division.
  `TelemetrySink`: `SummariesExact`. The invariant `SlotsInv` says that bucket b
  of a slot counts the recorded values whose index is b. Then the loop of percentile
  counts the values up to a bucket; as the index grows with the value, it ends in
  the bucket of the value that has the rank. The provers know nothing of powers of
  two: they come from the library's theorem on the number of subsets.

The inductive invariants are in the proof modules (`MatchingEngine`'s, `WalWriter`'s,
`SnapshotStore`'s and `SpscRing`'s in the modules themselves). The properties were
checked by TLC on the runs' instances before they were proved. Where a fact needs induction (a
sum over a sequence or a set, a scan of a log), the proof takes the least
counterexample, which the library's theorem on the well-foundedness of < gives.

Only model-checked: liveness (`CallsReturn`, `PushedIsPopped`, `AcceptedIsLogged`,
`ShutdownCompletes`), which the prover does not do. Every invariant and every action
property of the passing runs is the statement of a theorem. The configuration loader
has no property of its own: the run of the libraries uses what it lets through.

## 5. Not modelled

* Cryptography (a signature stands for the key that made it), the byte layout of
  messages (a frame decodes or throws), the TOML parser, printing, memory arenas.
* The ledger: three additions on a map that nothing calls.
* The router's endpoints and node status: look-ups that main calls once, before
  its loop. (The node state provider refers to locals of main that are destroyed
  before the router; nothing calls it then.)
* `Authenticator::unregister_account`, which would invalidate a key being used;
  `Reader::seek_sequence`. Neither has a caller in the daemon.
* 64-bit overflow of prices times quantities. A small width would make the
  properties of `RiskEngine` false without telling anything about realistic values.
* The loop's lanes are drained without limit, so an endless stream into one
  lane would starve the others and the shutdown; the bound on frames hides this.
* The ingress counters, which the status line reads without synchronisation;
  nothing depends on them.
* The web UI, which shows made-up data.

## 6. Plan

Modelled: every library that has state and a caller or an interesting operation.
Every safety property of the runs is proved. What is left is what section 5 lists;
of it, the unregistering of a key and the starvation of a lane would be the next
to model if the daemon came to use them.

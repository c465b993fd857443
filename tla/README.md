# token-analytics in TLA+

A verification development of the token-analytics back end: an indexer for the
FLaunch protocol on Base. A scanner follows the chain and publishes decoded
events to Redis streams, six processors consume the streams and write Postgres
tables and Redis caches, an API and a WebSocket gateway serve them.

    chain ──heads, logs──▶ scanner ──XADD──▶ swap, fees, meta, price, transfer
                             │                        │ consumer groups
                  headers, checkpoint, ledger     processors ──▶ Postgres, Redis
                             ▼                        │ publish
                          Postgres ◀──reads── API   gateway ──▶ browsers

All paths below are relative to the repository; the TypeScript is in `src/`.

## Inventory

| component | state it keeps | operations | what is hard | what makes it correct | module |
|---|---|---|---|---|---|
| scanner (`indexer/scanner.ts`) | `pendingBlocks`, block maps in flight | `start`, `catchUp`, `onNewHead`, `drainPendingBlocks`, `processConfirmedBlock` | `onNewHead` is not awaited; a crash between any two awaits; missed heads; a failing block among succeeding ones | every block published, or its loss explained; checkpoint behind publishing; every drain ends | `Scanner` |
| reorg cleanup (`indexer/reorg.ts`) | `block_headers`, `sync_checkpoints`, the tables it cleans | `detectAndRecover`, `backtrace`, six deletes, the checkpoint | a crash between two deletes; the order of the deletes; orphan events still in the streams | what a recovery misses, another one can find; the checkpoint has its header | `Scanner`, `Recovery` |
| publish ledger (`recordPublishLedger`, `verifyAndReplayGaps`) | `publish_ledger` | record, verify, replay | Redis comes back empty, or has trimmed; replays fail; consumer groups are created anew | what a start has verified or replayed reaches every group | `Recovery` |
| token discovery (`scanner.ts`, `utils/decoder.ts`, `processors/token.ts`) | `knownTokens`, `poolIdToToken`, `dynamicManagers`; `token_registry`, `royalty_members`, `recentTxTokens` | both decoding passes, the refetch, `refreshKnownState`, registration, fee splits | decoding fills the maps a refresh replaces; answers out of order; restarts lose the maps | events published with their block; tokens known for good in the end | `TokenDiscovery` |
| consumer loops (`processors/base-processor.ts`) | a consumer group's position, pending list and delivery counters (in Redis); the batch and attempt in memory | `readLoop`, `claimLoop`, `deadLetter`, `ensureConsumerGroup` | two loops interleave; lost replies, crashes, trimming | nothing acknowledged without a reason; bounded retries; order; pending entries settle | `StreamConsumer`, `MessageDelivery` |
| processors (`trade`, `candle`, `fees`, `position`, `price`) | `trades`, `candles`, `fee_*`, `holder_balances`, `processed_transfer_events`, `pool_state`; buffers in memory and Redis | one `handle` each | at-least-once delivery; two processors writing the same trade row; buffered pool states | writes idempotent; totals equal to the events; no state forgotten | `Candles`, `TradeMakers`, `PoolStateBuffer` |
| cache-aside (`api/cache.ts`) | cache keys, locks in Redis | `withCache`, `invalidate` | lock expiry, stale fill after invalidation | one fill at a time; staleness bounded | `CacheAside` |
| gateway (`ws/gateway.ts`) and home page (`public/app.js`) | `clientMap`, `tokenMetaMap`, the cached token list; the list shown | `onTradeUpdate`, `onCandleUpdate`, `onMetaUpdate`, `refreshTokenMeta`, `broadcastTokenList`, heartbeat, connection | refreshes interleave with updates and with each other; broken connections | live clients kept, dead ones dropped; lists in order; closes kept | `Gateway` |
| API (`api/server.ts`, `api/routes`) | none of its own | reads, one PATCH | | | none |

How they interact: the scanner writes the streams and, alone, the checkpoint,
header and ledger tables; the recovery deletes rows the processors write; the
scanner's maps are filled by its decoding and replaced from the registry that the
token processor writes from the scanner's own stream; each processor owns a
consumer group (one replica each), and `trade` and `position` share the transfer
stream through two groups and write the same `trades` row; processors invalidate
cache keys that the API fills and publish to the gateway.

## How the modules fit together

Each module is a component with its neighbours as its environment, cut where the
components meet, so that what one assumes another shows:

- `StreamConsumer` implements the abstract `MessageDelivery`. The other processor
  modules take from it what can happen to a message: attempts in order, a
  bounded number of them, and a message at work in a crash never handled again.
- `Scanner` has every overlap and fault of the live path and abstracts what a block
  is made of; `TokenDiscovery` opens a block up (logs, maps, two passes) and composes the
  scanner with the token processor through `stream:meta` and the registry; `Recovery`
  composes the scanner with the streams and the rows of the processors, with the
  deletes one by one. The latter two work at one block at a time, which `Scanner` does not.
- `Gateway` composes the gateway with the page it serves.

What would come next: the publications to the UI channels, with the gateway as
their subscriber, and a composition of `Recovery` with `Candles` in which a
replayed block meets a candle that has it already.

## The consumer loops: `StreamConsumer.tla`, `MessageDelivery.tla`

State. The Redis side of one consumer group: `added`, `trimmed`, `delivered`,
`pel`, `deliveries`, `idle` (messages are numbered by stream position). The read
loop: `readPc` is the await it is at, `cur` the message of the batch it is at
(the batch is always `cur..delivered`, since only this loop moves `delivered`),
`attempt` the failed attempts. The claim loop: `claimPc`, `scan` (the stale entries
of the pass still to visit), `data` (what `xRange` returned). `dlq` is the
dead-letter table; `attempts`, `handled`, `lost` are history.

Actions are the outcomes of one await each: `ReadGroup`/`ReadReplyLost`,
`HandleReturns`/`HandleThrows`, `AckReturns`/`AckThrows` (executed or not),
`ClaimScan`, `ClaimEntry`, `ReadExpired`, `DeadLetter` (INSERT succeeds or fails,
which the code swallows), `AckExpired`, `ClaimThrows`, `Restart`; and Redis and
time: `XAdd` with approximate trimming, `BecomeIdle`. A subclass's `handle` is
any outcome; what handlers write is left to their own modules.

Properties. `NoSilentLoss`: what the group moved past is pending, handled,
dead-lettered (or its INSERT failed) or trimmed. `HandleBudget`: `handle` runs at
most three times per message in all, since neither claiming nor restarting tries
again. `TriedInOrder`: handlers see the stream in order. `PendingSettles`: every
pending entry is let go. `DeliverySpec`: the group implements `MessageDelivery`
(messages handed out at most once, let go only for a recorded reason, and in the
end let go) under the mapping seen = `1..delivered`, pending = `pel`, reason = the
union of the reasons.

`HandleBudget` is at odds with INFRASTRUCTURE.md, where events that "fail 5 times" are dead-lettered: a
claimed message is counted and never handled, so one that was handed out in a batch that died is
dead-lettered untried.

Bounds. Two messages in one batch, so that the second waits for the first in both loops; two
faults (a lost reply and a failing call) and one crash in the batch; two attempts and two deliveries stand for three
and five; `StreamMaxLen` 1 lets trimming reach a pending message.

Fairness. Each loop is a `while` over awaits that resolve or reject, so each is
weakly fair as a whole; `BecomeIdle` is time passing. Nothing is assumed of
publishers, faults or crashes (which are bounded).

## The scanner: `Scanner.tla`

The chain is a sequence of hashes that grows (`Mine`) and whose suffix may be
replaced (`Reorg`); a hash is the number of reorgs before the block was mined, and the
events of a block are the pair of its number and hash. `pc`, `from`, `head`,
`toStore`, `fetched` are `start()` and `catchUp`; `pendingBlocks`, `step`, `todo`,
`level`, `logs` the activations of `onNewHead`, each at one await; `headers`,
`checkpoint`, `published`, `ledger` what survives. Each await is an action; code
between awaits is in the action before it. `NewHead` delivers the tip of the moment (the subscription
fetches the latest block on a notification), so heads can be skipped or repeated. `ProcessThrows`
is the `catch` in `drainPendingBlocks`, at every await; `Crash` a process death or a
throwing `start()`, after which the pod starts again.

Assumed here: blocks have events; Redis keeps its streams, so that `verifyAndReplayGaps`
has nothing to replay, and the deletes of a recovery other than that of the headers are not seen
(both are in `Recovery`); the periodic `refreshKnownState` (in `TokenDiscovery`) changes no state of
this module.

What an activation kept of a block (its logs, its place in `backtrace`) is gone when it turns to the next one, and reset.

Properties. `HolesAccounted`: the block that the chain has at each height up to the checkpoint, told from others of
that height by its hash, is published, or the scanner still holds the height for another try, or the block was given up for one of five
reasons, recorded in `gaps` by the step that gives it up: never announced (`unseen`), dropped by the cap on `pendingBlocks` (`capped`),
dropped because it revealed a reorg (`reorg`), failed and forgotten in a crash (`crash`), or put by a reorg in the place of a block that the scanner was
through with, or whose events it had fetched but not yet recorded (`replaced`): after a recovery, nothing goes back to the blocks between the
ancestor and the one that revealed the reorg. A reason is struck off when the height is announced or caught up again. There is no sixth reason,
and each of the five is needed: without it TLC finds the property violated. `CheckpointHeld`: the checkpoint has its header stored, for the parent
check of the next block, with three exceptions, each needed: between the last two steps of a recovery; after a recovery that was cut short
there by a death or by a throw that `drainPendingBlocks` caught; and after one that deleted a header which another activation was about to make the
checkpoint. The last two are on record in `unheaded` until a header of that number is stored again. `AdvanceAfterPublish`: the checkpoint moves up only to
a published height, or, at the end of a recovery that another activation overtook, to the common
ancestor: overlapping recoveries can so raise it. `HeadersLinked`: adjacent stored headers link, on which the parent check relies.
`WorkEnds`: no drain and no start-up hangs; as the run has so many heads, reorgs and deaths, the scanner comes to rest, subscribed and with no
activation at work.

Disagreement (`ScannerReorgDropped`): `ReorgReprocessed`. Two losses that the reasons also cover are milder: a block that
fails is passed by the checkpoint (and forgotten in a crash), and a
restart with exactly one new block skips it. `HeadersLinked` has three conditions, and each is needed. With two
activations that overlap, an orphaned header is stored again after the recovery that removed it. After a crash in the middle of a
catch-up, insert-if-absent keeps the headers of the interrupted batch. A block that is retried after
its successor stores a header that nobody compares with the successor's.

Bounds. Three blocks, batches of two (two batches, the second short), one reorg, three heads for
two activations, `pendingBlocks` capped at two, so that a drain holds two blocks and the third head reaches the cap; one fault and one crash.

Fairness. Calls return or throw (transports have timeouts, `withRetry` gives up), so
start-up and each activation are weakly fair. Nothing is assumed of the chain.

## Recovery and replay: `Recovery.tla`

What becomes of a block once it is published. `log` is the channels as one log of events,
`floor` the last id trimmed or lost, `at` the last id each group was handed (or that it has no group);
`pending` is `pendingBlocks`, `block` the one of it at work, `tip` the header announced last;
`rows` are the tables, each a set of the events its rows come from; `headers`,
`checkpoint` and `ledger` as in the database. The scanner is one sequence of awaits: `step` is the one it is at, `work`
whether it replays a block, catches up on a batch or works at a head, `unit` the blocks. `missing` is
what `verifyAndReplayGaps` still has to replay, `level` where `backtrace` is, and `cascade` the deletes still to come, in the
order of `detectAndRecover`.

Actions: the chain's `Mine` and `Reorg`; a processor's `Handle` and `EnsureConsumerGroup`
(only a processor that starts creates its group; one that runs while Redis loses its data reads NOGROUP errors for
ever, with its liveness file touched all along); `LoseRedis`; `Verify` (a lookup that throws counts as not found),
`ReplayThrows`, `CatchUp`, `StoreHeaders`; `NewHead`, `CheckParent`, `Backtrace`, `DeleteRows` for each table,
`DeleteHeaders`, `Rewind`; and the awaits of a unit that all three share: `FetchLogs`, `Publish` (with trimming),
`RecordPublishLedger`, `InsertBlockHeader`, `WriteCheckpoint`; `HeadThrows`, the `catch` of `drainPendingBlocks` at any await of a block or a
recovery, after which the drain goes on and a later one tries again; `Crash` at any of them. One activation of `onNewHead` is at work at a
time, and the cap of `pendingBlocks` is not reached: overlaps and the cap are in `Scanner`.

Properties. `OrphansTraceable`: a trade or fee row of an orphaned block has its header still stored, by which another recovery will find it,
unless it was handled after a delete that meant it (`late`), or its header was never stored
(`stray`). It is what makes the order of the cascade matter: with the headers deleted first, a crash
leaves rows that nothing will ever look for. What a throw or a death between the headers' delete and the checkpoint leaves behind is `CheckpointHeld`, in `Scanner`. `ReplayReachesAll`: what a
start has verified or replayed was handed, or will be, to each group, also to one created anew.
Disagreement (`RecoveryCandles`): `CandlesRolledBack`. The trades are deleted first, and the candles to delete
are found by those trades, so none is.

What the properties do not promise, and the model shows: `catchUp` checks no parents, so a reorg below the blocks it
stores is not noticed; of a batch only the last block is in the ledger and is replayed; only the last id of a row is
looked up; with a checkpoint up to `REPLAY_DEPTH` nothing is verified; a replayed block comes after
later blocks in the streams, and its candles count it twice, although the comment at `scanner.ts:513` calls replay
idempotent; a replayed block without events gets no new ledger row and is tried at each start; `withdrawals` have a delete that nothing calls,
holder balances are never rolled back, and nothing writes the `positions` that are deleted.

Bounds. Three blocks, of which the second has no events; one reorg; a replay depth of one, so that the window moves;
streams of two, so that trimming reaches the window; two faults, so that Redis is lost and a replay fails or the
scanner dies twice. The run has the trade group, whose table and the fees' are treated alike; the theorems are
for any groups. `RecoveryCandles` has the candle group beside it.
No fairness: these are safety properties, and whether groups are ever created anew is up to restarts.

## Token discovery: `TokenDiscovery.tla`

A log is a kind and a token; a token, its pool, the transaction that created it and the fee-split manager deployed
there share a name, since each determines the others in the code paths modelled. `knownTokens`,
`poolIdToToken`, `dynamicManagers` are the scanner's maps. Each actor (`start()`, and the activations) has its `step`,
its `unit` (one block, or a batch), the addresses it `asked` for, the managers it `heeded`, the `extra` tokens of the refetch, and the `events` it is
about to publish. `meta` is `stream:meta`, `registry` and `royalties` the tables, and `pos`, `doing`, `recent` the token
processor. The rest is history.

Actions: `Refresh` (the two selects are sent at once and answered in either order: `Start` or `HeadRefreshes`, then `SelectOther`, then `Replace` for
both maps at once); `CatchUp`, `TakeBlock`; `FirstPass` (decoding, which fills the pool map as it goes,
then the managers up to their cap, then the new tokens), `SecondPass` after a refetch, `Publish`, `Finish`;
`Crash`; and the token processor's `RegisterToken`, `TellAndRemember`, `StoreRoyalties`, `Ack`, with `AttemptFails` and
`ProcessorRestarts`.

Properties. `PublishedWithBlock`: transfers of tokens registered before the scanner started, and
fee splits of managers deployed in the same block or batch, are published with their block, whatever refreshes run meanwhile; of the
managers only those are excepted that the full map has no place for.
`UnresolvedExplained`: a swap or fee distribution is decoded without its token only if its creation has yet to be processed or a refresh that had read an older registry
made the scanner forget the pool. `RoyaltiesExplained`: every fee split not stored has its reason: its creation abandoned or
later in the stream, itself abandoned, or `recentTxTokens` cut or lost in a restart. `KnownInTheEnd`: a published token is
in the end known for good. Disagreement (`DiscoveryTransfers`): `TransfersOfNew`, the refetch never happens, since decoding has
put the pool into the map with which `updatePoolMappings` tells new tokens.

Also found on the way: fee splits that only their topic finds are appended after the logs found by address and sorted only if a
refetch has found logs, so a fee split may be published after what came later in its block; the `dynamic_managers` table exists, but
`dynamicManagers` starts empty after each restart.

Bounds. Three chains, one of a creation and then trades of the token in the next block (apart or in one batch), one of a
block in which two creations, a manager and its fee split cross, one of a block that deploys three managers of which two split fees; two
activations and `start()`; two managers in the map, so that it is full in the third chain and not in the second; one token in
`recentTxTokens`; one fault, in the scanner or in the processor. Blocks of two activations do not overlap here (their refreshes do), which is `Scanner`'s subject.

Fairness. `start()` and each actor's awaits are weakly fair, and so is the token processor. Some activation refreshes again and
again (`SF`): heads keep coming, and every `REFRESH_INTERVAL`-th of them refreshes.

## The candle processor: `Candles.tla`

The swaps of one token, one handler. `pc`, `res`, `attempt` are `handle()` and the attempt loop around it;
`redis` the `ohlcv:` hashes, `pg` the `candles` rows. `UpsertRedis` is the Lua script (atomic), once per
resolution; `PublishTip` the calls after it whose readers are elsewhere; `UpsertBatch` the one
statement for all resolutions. `Throw` is a failing call at any of these awaits, `Crash` a process death,
`Expire` the TTL of a key. `LuaSum` is the script's addition: Lua prints 14 significant
digits. The script's comparison of prices pads both strings with zeros to 78 digits, which orders them as
numbers, so it is one. The deletes of a reorg are in `Recovery`.

Properties. `PricesExact`: a row's open, high, low, close are those of the distinct swaps written to it,
whatever was repeated. `CacheCovers`: no written swap is missing from the row's count, and an unexpired Redis candle is never behind
the row, in trades or in range. `VolumeExact`: the Redis candle's volume is exact up to the digits Lua prints (the
comment in `redis.ts` says up to 2^53, which has 16 digits and not 14). Counts and volumes are not exact, only covered: a
batch repeated because the acknowledgement failed is counted twice.

Bounds. Two resolutions of which one divides the other, two time stamps in one coarse and two fine buckets,
three swaps with three prices (0 is skipped by the code), two faults, one crash. Every bucket and order
of prices occurs with a repeat of any swap. One digit stands for the 14.

## Makers and balances: `TradeMakers.tla`

Two processors on one transfer stream through two groups: the trade processor drains it into a Redis hash
before it looks a swap's maker up, the position processor keeps the balances and fills makers that are missing.
`tradePc` and `posPc` are the awaits of the two `handle`s; `tradeCur` and `tradeRead` (`posCur`, `posRead`) the message at work and the last one
of the batch that the read loop was handed. `Publish` is the scanner's MULTI: a transaction's transfers and its message, which is a swap, an event on which
`handle` returns before it drains (`trade.ts:133`, `:154`), or none. `DrainTransfers` reads at most `DrainCount` transfers, loses some of them if a call
fails, and gives the hash a TTL if it has none; `Expire` is that TTL running out, for all entries at once. `TradeFails` and `PositionFails` are a failing call, with another
attempt or the message left; `TradeDies` and `PositionDies` a death, which leaves the rest of the batch too. `clamped` is history: what `GREATEST(0, ...)` adds;
`missed` and `late` say why a look-up may find nothing, and which rows came after their transfers.
A transaction has at most one swap message; swaps of one transaction share its entry in the hash.

Properties. `SupplyConserved`: no transfer counts twice or in part. `MakerIsParty`: a maker is on the
right side of a transfer of its transaction, whoever wrote it. `MakerResolved`: once both are done with a
transaction its row has a maker, in every interleaving, except for a row that came after the position processor had passed all its transfers and that the hash could not
serve, for one of three reasons: a drain lost a transfer of the transaction in a failing call (`lost`), had more than `DrainCount` others before it
(`behind`), or the hash expired with the entry (`expired`). All three are real (TLC violates the property without any one of them), although the comment has the cache populated "before we look up":
only swaps drain, so a stream of plain transfers may keep the drain behind for good, and the TTL is the hash's, set once and not renewed, so that it
takes new entries with it. The balances' clamp is accounted for, not excluded: with transfers out of order it does add to a balance.

Bounds. The bundles of the run are a buy with a mint, a sell that overdraws and moves another token too, a
burn beside a message that drains nothing, and a plain transfer without a message. Three transactions, so that a drain of two falls behind; batches of two,
so that a death leaves another message; one failing call or death, one failing drain, one expiry.

## Pool states: `PoolStateBuffer.tla`

`pending` is the trade processor's `pendingPoolState` map in insertion order, `hash` its Redis copy, `poolState` and
`initial` the two columns it writes, states numbered in stream order. Each flusher (the 5 s timer and
`handle()`) has its own `pc`, the entry `cur` it applies and the pools `visited` by its iteration (a key deleted and set again is visited again).
Steps are the awaits of `flushPendingPoolState`, `applyPoolState` and the buffering; `Throws` is a failing query,
`Crash` a death, after which `RestoreRead` and `RestoreSet` run beside the read loop, as `start()` does.
The message at work when the process dies is not handled again (see `HandleBudget`). `Register` is the token
processor.

Properties. `PoolKnown`: a pool one of whose states was handled is never forgotten: it has a row, or a state of it waits, unless the cap evicted it or
Redis failed unnoticed. And what it has is up to date: the latest state handled, or a later one, waits or is in the row, in the first case of the two with
an initial price unless its `sqrtPriceX96` is 0 (`trade.ts:103`). That fails for a pool of which two states have crossed (`overtaken`), in one of these ways: a flush that has
taken an older state from the buffer applies it after a newer one was applied or buffered (`trade.ts:120`); it then deletes the entry, or the field, of the newer one
(`trade.ts:121`, `:122`); the field of a state is set after a flush has applied the state already (`trade.ts:141`); the token is registered after the handler's flush has passed the older
state over and before its own look-up (`trade.ts:135`), so that the older one is applied last; the restoring puts an older state over a newer one (`trade.ts:41`).
`BufferDrains`: a state of a registered pool does not wait for ever, also behind pools that are never registered. A state that
replaces the first in the buffer gives the "initial" price.

Bounds. Two pools, three events (two states of one pool and one of the other, or a swap), the first state of a pool without a price, a buffer of one
entry, so that the cap evicts, and one fault: a failing query, a swallowed Redis failure or a crash.
Fairness: the interval keeps firing, calls end, and `start()` goes on.

## Cache-aside: `CacheAside.tla`

One key. `pc` and `data` are the requests in `withCache`, one action per await; `cache`, `lock` are the two Redis
keys, `row` and `writer` a processor that commits and then calls `invalidate`. `ExpireKey`, `ExpireLock` and
`GiveUp` are time: any of them may happen whenever it can, and `outlasted` and `gaveUp` record when the lock has
run out under its holder and when a waiter has read Postgres itself, `late` when data was filled in that had been
read before an invalidation already completed. `owner` is history: in the code every lock has the same value and anybody's `del` deletes it.

Properties. `LockedAlone`: while no lock has run out under its holder, one request at most is between `SET NX` and
`del`, in spite of failures and locks left behind. `FillsInOrder`: if moreover no waiter has given up, the key never
goes back to older data. `FreshUnlessLate`: an answer is as new as the last invalidation before the
request, except after a late fill; that exception is real (fetch, write, invalidate, fill), against "Next
request triggers a fresh DB query" in docs/INFRASTRUCTURE.md. `RequestsEnd`: nobody waits for ever. That a key's expiry
costs one query only ("only 1 request hits the DB") is not claimed: a request that missed before
the fill and takes the lock after the `del` reads again.

Bounds. Two requests, two writes, two faults; with three requests the safety properties hold as well.
Fairness: calls return or throw and polling ends after 100 rounds; expiries and writers are left free.

## The gateway and its page: `Gateway.tla`

`peer` is the page's end of each socket it opens, `clientMap`, `alive`, `pinged` the gateway's; `cached` is the list in
Redis, as the version of the tables it was selected from; `step` and `val` are the tasks that refresh, build and send lists (one per
new socket, and the chains that updates start); `tokenMeta` is `tokenMetaMap` in insertion order, of which only the length of the sparkline is kept;
`shown`, `viaRest`, `rest` are the page. Actions: `Connect`, `Break` (with or without a close event), `Closed`, `Heartbeat`, `Terminated` (the page
learns that the gateway dropped it), `Pong`;
`CandleUpdate`, `TradeUpdate`, `MetaUpdate`, `RefreshDue`; `MetaGet`, `MetaSet` (`refreshTokenMeta`), `ListGet`, `SelectRows`, `StoreList`
(`broadcastTokenList`, and a new socket's list), `TaskThrows`; `Expire`; and the page's `RestAnswers`, `RestFails`.
A debounce either lets through or does not.

Properties. `ClosesKept`: no close received while a refresh awaits its list is lost, unless the cap evicted the token.
`ListsInOrder`: lists reach the page in the order of their selects unless two builds overlapped or REST sent the one shown. Both
exceptions are real: an overlapping build may cache the older list, and a list from REST may be newer than the one the socket sends next.
`SocketsTracked`: an open page stays registered as long as it is heard of between any two ticks (`slow` records the open pages that were
not; those a tick does drop, live or not), and a closed or silent connection is dropped in the end.

Also found on the way: a refresh replaces metadata with the items of the list, which carry no `totalSupply` and no sparkline (the sparkline is kept
explicitly, the supply is erased); a close is appended per update, not per hour; the debounce has no trailing
edge, so the last of a burst is not broadcast until something else is; with more tokens in the list than the cap, each refresh evicts the sparklines of all;
the PATCH of metadata deletes the bare `KEYS.apiTokenList()`, whereas the list routes fill keys with a suffix (`routes/tokens.ts:193`, `:196`, `:367`).

Bounds. Two sockets, the second a reconnection; one chain of updates beside the sockets' own builds, two tokens of which one is listed, a map of one token, so
that the cap evicts; one close per sparkline; two events and one broken connection.
Fairness: the interval fires, close events arrive. Nothing is assumed of the pages, whose answers may be late, or of updates or builds.

## Runs

| run | shows |
|---|---|
| `StreamConsumer` | `NoSilentLoss`, `HandleBudget`, `TriedInOrder`, `PendingSettles`, refinement of `MessageDelivery` |
| `Scanner` | `HolesAccounted`, `CheckpointHeld`, `AdvanceAfterPublish`, `HeadersLinked`, `WorkEnds` |
| `ScannerReorgDropped` | the block that reveals a reorg is never published (violation) |
| `Recovery` | `OrphansTraceable`, `ReplayReachesAll` |
| `RecoveryCandles` | the cascade deletes no candles (violation) |
| `TokenDiscovery` | `PublishedWithBlock`, `UnresolvedExplained`, `RoyaltiesExplained`, `KnownInTheEnd` |
| `DiscoveryTransfers` | transfers of a new token are not fetched again (violation) |
| `Candles` | `PricesExact`, `CacheCovers`, `VolumeExact` |
| `TradeMakers` | `SupplyConserved`, `MakerIsParty`, `MakerResolved` |
| `PoolStateBuffer` | `PoolKnown`, `BufferDrains` |
| `CacheAside` | `LockedAlone`, `FillsInOrder`, `FreshUnlessLate`, `RequestsEnd` |
| `Gateway` | `ClosesKept`, `ListsInOrder`, `SocketsTracked` |

Each passing run also checks its module's `TypeOK` (`BufferTypeOK` in `PoolStateBuffer`, which is proved about in one module with `TradeMakers` and so
has its own names).
Deadlock is not checked: consumers wait for messages, a scanner for heads, a page for updates, and the
bounds end them all.

## Proofs

What is proved holds for all values of the constants: any number of messages, blocks, reorgs, activations, tokens,
sockets, faults and crashes. Assumed are only the named assumptions on the constants (`ConsumerAssumption`,
`CacheAssumption`, `ScannerAssumption`, `RecoveryAssumption`, `DiscoveryAssumption`, `CandlesAssumption`, `MakersAssumption`,
`BufferAssumption`, `GatewayAssumption`): naturals where counts are meant, positive where zero would mean
no work at all, disjoint identities, a `None` that is no number, finite sets of tokens, wallets and pools. TLC evaluates each in a run.

`StreamConsumerProofs.tla`:

- `TypeCorrect`, from `Typed`: the types, and that the read loop works on a message
  already handed out (without which `cur` could leave its range).
- `HandledWithinBudget`, `HandledInOrder`, from `Tried`: the loop's attempt counter is the
  history's count for the message at hand, and nothing beyond that message has been
  tried. `HandleBudget` is not inductive alone: it needs to know that a message about to be
  tried has a count below the limit.
- `NothingSilentlyLost`, from `Recorded`: besides the property, when the claim loop is about to
  acknowledge an entry the reason is on record (and the same for the read loop).
- `ImplementsDelivery`: the safety part of `MessageDelivery`, by showing that each step hands out, lets
  one message go, or adds reasons.

`CacheAsideProofs.tla`:

- `TypeCorrect`, from `Typed`: the types, and that what a request is about to fill in has been read.
- `HoldersAlone`, from `Held`: whoever is at work has its own lock in place. `LockedAlone` alone is not
  inductive: a `del` could delete somebody else's lock.
- `FilledInOrder`, from `Ordered`: the holder's data is as new as the key's last. It needs `Held` (nobody else
  fills meanwhile) and `Bounded` (nothing is newer than Postgres).
- `AnswersFresh`, from `Fresh`: the key, and not only the answers, is as new as the last invalidation.

`ScannerProofs.tla`:

- `TypeCorrect`, from `Typed`: what `pendingBlocks` and the activations hold was announced, nothing is under way before the
  subscription, and recoveries walk down from an announced block.
- `HolesAreAccounted` and `CheckpointFollowsPublication`, from `Inv`: once live, the chain's block at every height up to the last one announced is
  published, held or given up for a reason (`Followed`; before that, every block the catch-up has behind it, `CaughtUp`), and what a
  batch or block being recorded has fetched is published (`BatchPublished`, `BlockPublished`). The property speaks of the blocks up to the
  checkpoint only; a step may move that up, so the invariant has to reach further.
- `CheckpointsHeld`, from `HeldInv`: the block that an activation is about to make the checkpoint, be it the block it has stored or the ancestor of its
  recovery, has its header, unless another activation's delete took it (`DueHeld`), and so has the batch at work (`BatchStored`).
- `HeadersStayLinked`, from `LinkInv`. That adjacent headers link says nothing about a block still to be stored, so the invariant also has:
  one activation at work, on the one block held (`OneBlock`); the block is above all stored headers and, past the parent check, linked to
  its stored parent (`Compared`); the cascade leaves nothing above the ancestor (`Trimmed`); and nothing is stored above the
  checkpoint between blocks (`StartBelow`). All but the last bound on heights (`Reached`) holds only without overlaps, faults and deaths at
  work (`Calm`), which is what the property says.

`RecoveryProofs.tla`:

- `TypeCorrect`, from `Typed`: what unit goes with which step and work, which suffix of the cascade is left, headers unique by number.
- `ReplaysReachAll`, from `ReplayInv`: each group has handled whatever up to its position was not lost (`Followed`), and the ids
  of what is verified are in the log (`Present`); a group that is created anew starts at 0, before all of them.
- `OrphansAreTraceable`, from `TraceInv`: rows, and entries of the log still to be handled, have their header, are `late` or `stray`, or
  belong to the block at work (`RowsTraceable`); what a delete has left above the ancestor, in the table or in the log, is on record as
  late (`Deleted`); and nothing is handled ahead of its group (`InTurn`). It rests on the headers coming after trades and fees in the cascade.

`TokenDiscoveryProofs.tla`:

- `TypeCorrect`, from `Typed`, which includes that both caps hold.
- `SplitsAreExplained`, from `RoyaltyInv`: each entry before `pos` is explained, and each creation among them abandoned, remembered or
  dropped from memory; the entry at `pos` likewise once it awaits its acknowledgement.
- `KnownArePublished`, from `Alone` (no activation is under way while `start()` is) and `BaseInv`: the tokens registered when the scanner
  started are in the registry, in `knownTokens`, in what a refresh has read and among the addresses asked for; below the cap, the
  managers a unit deploys are in the map, and a full map does not change (`BelowCap`).
- `ForgottenOrUnknown`, from `PoolInv`: a token whose creation was processed or decoded is in the pool map, or a refresh made the scanner
  forget it; a refresh that has read the pools has read a token's or missed it.

`TradeProofs.tla`, about `TradeMakers`:

- `TypeCorrect`; `MakersTookPart`, from `PartyInv`: what the hash and the looked-up maker hold is a party to the transaction they
  are kept for.
- `MakersAreResolved`, from `ResolveInv`: a swap without a maker whose transfers were drained has an entry in the hash or a reason (`Cached`, `DrainCaches`), and so
  do the look-up (`Found`) and the row (`Filled`); a row that is not `late` has its maker or a transfer still to be processed, which will bring it (`Backed`).
- `SupplyIsConserved`, from `SupplyInv`: the balances of a token sum to what the processed transfers changed, plus what was clamped. It rests on
  lemmas about sums over finite sets (`SumOfAdd`, `SumOfChange`) and on the operators of the property being such sums.

and about `PoolStateBuffer`, both from `BufferInv`:

- `BufferTypeCorrect`: what each flusher has at work is an entry (`AtWork`), and `pendingPoolState` a map (`BufferMap`) under `Map.set`,
  `Map.delete`, the cap and the fold by which `start()` restores it (`RestoredMap`).
- `PoolsStayKnown`, the first half of `PoolKnown`, which is not inductive: a death loses the map, a flush deletes fields it has not written itself. `HeldKnown`
  says of a handled pool that it has its row, or both a field in the hash (`Survives`, for the next death) and a place in the map, or in what
  `start()` has read or has yet to read (`Present`); `Applied`, that a flush deletes an entry only behind both writes, though
  another flush may have applied it meanwhile; `Stored`, that the event being buffered stays in the map until the handler returns, is
  applied by the timer's flush, or is what the cap evicts.

`CandlesProofs.tla`: `TypeCorrect`; `PricesAreExact`, from `RowInv`: besides the property, a row counts at least the swaps written to it;
`CacheCoversRows`, from `CoverInv`: the Redis candles that the loop over the resolutions has passed are ahead of their rows by the swap at work, or have
expired; `VolumesAreExact`, from `VolumeInv`: as long as no sum has reached `Pow10[SigDigits]` none was rounded (`LuaSumExact`), for any number of digits.

`GatewayProofs.tla`: `TypeCorrect`, from the three invariants here and for `SocketsTracked`; `ListsSentInOrder`, from `OrderInv`: while no builds have overlapped at
most one is about to store, its list is no older than the cached one, and what the gateway sent is no newer than either; `SparklinesKept`, from `MetaInv`: the
metadata map has no token twice and stays below its cap through eviction and the refresh's loop over the list (`AllRefreshed`), a token never
evicted has all its closes, and one that is neither there nor evicted has received none; `OpenSocketsKept`, the first half of `SocketsTracked`, from: an open
socket that is not slow is registered, and alive or pinged (`OpenHeard`).

Folds and recursive functions. The provers cannot instantiate an induction theorem. Where a proof needs induction (the folds over lists of
`Gateway` and `PoolStateBuffer`, sums of balances, `Pow10`) it is made from well-founded sets instead: the set of the numbers for which the claim holds
contains 0 and the successors of its members, hence is `Nat` (`NatSetInduction`, from the least element of the complement). The `CHOOSE` by
which the library defines folds then denotes a function because one exists on the subsets of each size (`SetFoldExists` and its like).

Only model-checked: liveness (`PendingSettles` and the fairness of `DeliverySpec`, `WorkEnds`, `KnownInTheEnd`, `BufferDrains`, `RequestsEnd`, the
second half of `SocketsTracked`), which is out of the prover's reach. Every invariant that a passing run checks is a theorem,
but for the second half of `PoolKnown`, that the latest state of a pool is not overtaken, which is model-checked only.

## Not modelled

- ABI decoding, and the kinds of log that no map decides about: pure functions of a log.
- The price feed: one rate key per event, without a state that anything could race with.
- The API: authentication, formatting and the SQL of reads keep no state; its cache is `CacheAside`. The token page
  (`public/app.js`) draws what it is sent; of the home page only the merge of lists is modelled.
- The gateway's seeding of its metadata at a start (Redis, then overwritten from Postgres, although the comment says that
  sparklines survive), which happens once and before any client.
- The publications to UI channels after inserts (fees, trades, candle tips): nothing depends on their arrival.
- Schema creation, configuration, logging, metrics, Helm and Terraform; the models take the number of replicas from the latter.

------------------------------- MODULE Candles -------------------------------
(***************************************************************************)
(* The candle processor (src/src/processors/candle.ts): every swap of one  *)
(* token updates one candle per resolution, first in Redis by a Lua script *)
(* (src/src/clients/redis.ts), then in Postgres by one batch upsert        *)
(* (src/src/utils/db/candles.ts).  A handler that fails is tried again     *)
(* from its beginning, and the attempts of base-processor.ts run in stream *)
(* order; StreamConsumer is the detailed account of them.                  *)
(***************************************************************************)
EXTENDS Integers, Sequences, FiniteSets

CONSTANTS
    Resolutions,  \* ALL_RESOLUTIONS, in the order of the loop
    Seconds,      \* CANDLE_SECONDS of each resolution
    Prices,       \* priceEth of a swap; 0 is skipped
    Volumes,      \* volumeEth of a swap
    Times,        \* block timestamps
    SigDigits,    \* significant digits Lua's tostring keeps (%.14g)
    MaxAttempts,  \* handle attempts per delivery (3)
    MaxSwaps,     \* bound: swaps published
    MaxFaults,    \* bound: failing calls
    MaxCrashes    \* bound: process deaths

ASSUME CandlesAssumption ==
    /\ Resolutions \in Seq(STRING)
    /\ Len(Resolutions) > 0
    /\ Seconds \in [{Resolutions[i] : i \in 1..Len(Resolutions)} -> Nat \ {0}]
    /\ Prices \subseteq Nat
    /\ Volumes \subseteq Nat
    /\ Times \subseteq Nat
    /\ SigDigits \in Nat \ {0}
    /\ MaxAttempts \in Nat \ {0}
    /\ MaxSwaps \in Nat
    /\ MaxFaults \in Nat
    /\ MaxCrashes \in Nat

ResolutionSet == {Resolutions[i] : i \in 1..Len(Resolutions)}

Swap == [price : Prices, volume : Volumes, time : Times]

\* getBucketTime
BucketTime(t, r) == (t \div Seconds[r]) * Seconds[r]

Key == {<<r, BucketTime(t, r)>> : r \in ResolutionSet, t \in Times}

\* The candle of swap s in resolution r.
KeyOf(s, r) == <<r, BucketTime(s.time, r)>>

\* A candle; one without trades is a row, or a Redis key, that is not there.
Candle == [open : Nat, high : Nat, low : Nat, close : Nat, volume : Nat, trades : Nat]
NoCandle == [open |-> 0, high |-> 0, low |-> 0, close |-> 0, volume |-> 0, trades |-> 0]

Max2(a, b) == IF a < b THEN b ELSE a
Min2(a, b) == IF a < b THEN a ELSE b

\* Mutant: the conflict clause keeps the price range of the last swap only.
UpsertedLast(c, s, volume) ==
    IF c.trades = 0
      THEN [open |-> s.price, high |-> s.price, low |-> s.price, close |-> s.price,
            volume |-> volume, trades |-> 1]
      ELSE [open |-> c.open, high |-> Max2(c.high, s.price), low |-> s.price,
            close |-> s.price, volume |-> volume, trades |-> c.trades + 1]

\* What both upserts make of candle c and swap s: a first swap sets all four
\* prices, a later one widens the range and sets the close; the volume is
\* added up by each in its own way.  (The script compares prices as strings
\* padded to 78 digits, which is to compare the numbers.)
Upserted(c, s, volume) ==
    IF c.trades = 0
      THEN [open |-> s.price, high |-> s.price, low |-> s.price, close |-> s.price,
            volume |-> volume, trades |-> 1]
      ELSE [open |-> c.open,
            high |-> Max2(c.high, s.price),
            low |-> Min2(c.low, s.price),
            close |-> s.price,
            volume |-> volume,
            trades |-> c.trades + 1]

Pow10[k \in Nat] == IF k = 0 THEN 1 ELSE 10 * Pow10[k - 1]

\* Mutant: the addition wraps around.
LuaSumWraps(v, w) == (v + w) % 8

\* tostring(v + w) in Lua: the sum rounded to SigDigits significant digits,
\* halves to the even digit.
LuaSum(v, w) ==
    LET n == v + w
        u == Pow10[CHOOSE k \in 0..n : n < Pow10[SigDigits + k]
                                         /\ \A j \in 0..(k - 1) : n >= Pow10[SigDigits + j]]
        down == n \div u
        rest == n % u
    IN IF 2 * rest > u \/ (2 * rest = u /\ down % 2 = 1) THEN (down + 1) * u ELSE down * u

VARIABLES
    swaps,    \* the swaps handed to handle() so far, the last one being at work
    pc,       \* await handle() is at, or "idle"
    res,      \* index of the resolution the loop is at
    attempt,  \* failed attempts at the last swap so far
    redis,    \* the ohlcv: keys
    pg,       \* the candles table
    written,  \* history: messages whose batch was upserted
    summed,   \* history: volume the Lua script was given since the key exists
    expired,  \* history: keys that have expired
    faults, crashes

handlerVars == <<pc, res, attempt>>
storeVars == <<redis, pg>>
history == <<written, summed, expired>>
budget == <<faults, crashes>>
vars == <<swaps, handlerVars, storeVars, history, budget>>

TypeOK ==
    /\ swaps \in Seq(Swap) /\ Len(swaps) <= MaxSwaps
    /\ pc \in {"idle", "lua", "tip", "batch", "ack"}
    /\ pc # "idle" => swaps # <<>>
    /\ res \in 1..Len(Resolutions)
    /\ attempt \in 0..(MaxAttempts - 1)
    /\ redis \in [Key -> Candle]
    /\ pg \in [Key -> Candle]
    /\ written \in SUBSET (1..Len(swaps))
    /\ summed \in [Key -> Nat]
    /\ expired \in SUBSET Key
    /\ faults \in 0..MaxFaults
    /\ crashes \in 0..MaxCrashes

Current == swaps[Len(swaps)]

Init ==
    /\ swaps = <<>>
    /\ pc = "idle" /\ res = 1 /\ attempt = 0
    /\ redis = [k \in Key |-> NoCandle]
    /\ pg = [k \in Key |-> NoCandle]
    /\ written = {} /\ summed = [k \in Key |-> 0] /\ expired = {}
    /\ faults = 0 /\ crashes = 0

-----------------------------------------------------------------------------
\* handle() of the next message the group hands out, in chain order; a swap
\* without a price is only acknowledged.  Messages lost with a crashed batch
\* are not handled and do not appear here.
Handle(s) ==
    /\ pc = "idle"
    /\ Len(swaps) < MaxSwaps
    /\ swaps # <<>> => swaps[Len(swaps)].time <= s.time
    /\ swaps' = Append(swaps, s)
    /\ pc' = IF s.price = 0 THEN "ack" ELSE "lua"
    /\ res' = 1 /\ attempt' = 0
    /\ UNCHANGED <<storeVars, history, budget>>

\* CANDLE_UPSERT_LUA, atomic in Redis.
UpsertRedis ==
    /\ pc = "lua"
    /\ LET s == Current
           k == KeyOf(s, Resolutions[res])
           c == redis[k]
       IN /\ redis' = [redis EXCEPT ![k] =
                 Upserted(c, s, IF c.trades = 0 THEN s.volume ELSE LuaSum(c.volume, s.volume))]
          /\ summed' = [summed EXCEPT ![k] = @ + s.volume]
    /\ pc' = "tip"
    /\ UNCHANGED <<swaps, res, attempt, pg, written, expired, budget>>

\* invalidate, setCandleTip and publishCandleUpdate, whose readers are outside
\* this module; then the next resolution.
PublishTip ==
    /\ pc = "tip"
    /\ IF res < Len(Resolutions)
         THEN res' = res + 1 /\ pc' = "lua"
         ELSE res' = 1 /\ pc' = "batch"
    /\ UNCHANGED <<swaps, attempt, storeVars, history, budget>>

\* upsertCandleBatch: one statement for all resolutions.
UpsertBatch ==
    /\ pc = "batch"
    /\ LET s == Current
           keys == {KeyOf(s, r) : r \in ResolutionSet}
       IN pg' = [k \in Key |-> IF k \in keys THEN Upserted(pg[k], s, pg[k].volume + s.volume)
                                             ELSE pg[k]]
    /\ written' = written \cup {Len(swaps)}
    /\ pc' = "ack"
    /\ UNCHANGED <<swaps, res, attempt, redis, summed, expired, budget>>

Ack ==
    /\ pc = "ack"
    /\ pc' = "idle"
    /\ UNCHANGED <<swaps, res, attempt, storeVars, history, budget>>

\* Mutant: a retry repeats the durable part only.
ThrowResumes ==
    /\ pc # "idle"
    /\ faults < MaxFaults
    /\ faults' = faults + 1
    /\ res' = 1
    /\ IF attempt + 1 < MaxAttempts
         THEN attempt' = attempt + 1 /\ pc' = IF Current.price = 0 THEN "ack" ELSE "batch"
         ELSE UNCHANGED attempt /\ pc' = "idle"
    /\ UNCHANGED <<swaps, storeVars, history, crashes>>

\* Mutant: the attempts are counted one too far.
ThrowLate ==
    /\ pc # "idle"
    /\ faults < MaxFaults
    /\ faults' = faults + 1
    /\ res' = 1
    /\ IF attempt < MaxAttempts
         THEN attempt' = attempt + 1 /\ pc' = IF Current.price = 0 THEN "ack" ELSE "lua"
         ELSE UNCHANGED attempt /\ pc' = "idle"
    /\ UNCHANGED <<swaps, storeVars, history, crashes>>

\* A call of the handler, or the xAck after it, throws: handle() starts
\* again, or after the last attempt the message is left for good.  (A call
\* executed although it threw is the call returning and the next throwing.)
Throw ==
    /\ pc # "idle"
    /\ faults < MaxFaults
    /\ faults' = faults + 1
    /\ res' = 1
    /\ IF attempt + 1 < MaxAttempts
         THEN attempt' = attempt + 1 /\ pc' = IF Current.price = 0 THEN "ack" ELSE "lua"
         ELSE UNCHANGED attempt /\ pc' = "idle"
    /\ UNCHANGED <<swaps, storeVars, history, crashes>>

\* The process dies; restarted, it reads new messages only.
Crash ==
    /\ pc # "idle"
    /\ crashes < MaxCrashes
    /\ crashes' = crashes + 1
    /\ pc' = "idle" /\ res' = 1
    /\ UNCHANGED <<swaps, attempt, storeVars, history, faults>>

\* The TTL a key got when it was created runs out.
Expire(k) ==
    /\ redis[k].trades > 0
    /\ redis' = [redis EXCEPT ![k] = NoCandle]
    /\ summed' = [summed EXCEPT ![k] = 0]
    /\ expired' = expired \cup {k}
    /\ UNCHANGED <<swaps, handlerVars, pg, written, budget>>

Next ==
    \/ \E s \in Swap : Handle(s)
    \/ UpsertRedis \/ PublishTip
    \/ UpsertBatch
    \/ Ack
    \/ Throw \/ Crash
    \/ \E k \in Key : Expire(k)

Spec == Init /\ [][Next]_vars

-----------------------------------------------------------------------------
(* Properties.                                                             *)

\* The written swaps of candle k.
WrittenIn(k) == {m \in written : KeyOf(swaps[m], k[1]) = k}

\* Prices are idempotent: whatever was retried, abandoned or crashed, the
\* four prices of a row are those of the distinct swaps written to it, in
\* stream order, and there is a row exactly when there is such a swap.
PricesExact ==
    \A k \in Key :
        LET S == WrittenIn(k)
        IN IF S = {}
             THEN pg[k].trades = 0
             ELSE /\ \E m \in S : pg[k].open = swaps[m].price /\ \A n \in S : m <= n
                  /\ \E m \in S : pg[k].close = swaps[m].price /\ \A n \in S : n <= m
                  /\ \E m \in S : pg[k].high = swaps[m].price
                  /\ \E m \in S : pg[k].low = swaps[m].price
                  /\ \A m \in S : swaps[m].price \in pg[k].low..pg[k].high

\* The three records of a candle contain one another: no written swap is
\* missing from the row's count, and the real-time candle, unless its key
\* has expired, is never behind the row in trades or in range.
CacheCovers ==
    \A k \in Key :
        /\ Cardinality(WrittenIn(k)) <= pg[k].trades
        /\ k \in expired \/ pg[k].trades <= redis[k].trades
        /\ k \notin expired /\ pg[k].trades > 0 =>
              redis[k].low <= pg[k].low /\ pg[k].high <= redis[k].high

\* The script's volume is the exact sum of what it was given, retries
\* included, as long as that sum has no more digits than Lua prints (14; the
\* script's comment names 2^53, which is more).
VolumeExact == \A k \in Key : summed[k] < Pow10[SigDigits] => redis[k].volume = summed[k]
=============================================================================

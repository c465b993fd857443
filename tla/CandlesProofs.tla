---------------------------- MODULE CandlesProofs -----------------------------
(***************************************************************************)
(* Proofs about Candles for any resolutions, prices, volumes and times,    *)
(* and any number of retries, crashes and expiries.                        *)
(***************************************************************************)
EXTENDS Candles, WellFoundedInduction, SequenceTheorems, FiniteSetTheorems, TLAPS

(* The rows and the swaps written to them.                                 *)

\* Types of the log, the rows and what was written to them.
RowsTyped ==
    /\ swaps \in Seq(Swap)
    /\ pc \in {"idle", "lua", "tip", "batch", "ack"} /\ (pc # "idle" => swaps # <<>>)
    /\ pg \in [Key -> Candle]
    /\ written \in SUBSET (1..Len(swaps))

\* A written swap's count and prices are in its row: PricesExact, and the
\* first half of CacheCovers.
Counted == \A k \in Key : Cardinality(WrittenIn(k)) <= pg[k].trades

\* The invariant behind PricesExact.
RowInv == RowsTyped /\ PricesExact /\ Counted

\* Sets of messages up to the n-th are finite; another one adds at most one.
LEMMA CountUpTo ==
    ASSUME NEW n \in Nat, NEW S, S \subseteq 1..n, NEW x
    PROVE  /\ Cardinality(S) \in Nat /\ (Cardinality(S) = 0 <=> S = {})
           /\ Cardinality(S \cup {x}) \in Nat /\ Cardinality(S \cup {x}) <= Cardinality(S) + 1
<1>1. IsFiniteSet(1..n)
  <2>1. 1 \in Int /\ n \in Int
    OBVIOUS
  <2> QED
    BY <2>1, FS_Interval
<1>2. IsFiniteSet(S)
  BY <1>1, FS_Subset
<1>3. Cardinality(S) \in Nat
  BY <1>2, FS_CardinalityType
<1>4. Cardinality(S) = 0 <=> S = {}
  BY <1>2, FS_EmptySet
<1>5. Cardinality(S \cup {x}) = IF x \in S THEN Cardinality(S) ELSE Cardinality(S) + 1
  BY <1>2, FS_AddElement
<1> QED
  BY <1>3, <1>4, <1>5

\* What a swap makes of a row.
LEMMA UpsertedTyped ==
    ASSUME NEW c \in Candle, NEW s \in Swap, NEW v \in Nat
    PROVE  /\ Upserted(c, s, v) \in Candle
           /\ Upserted(c, s, v).trades = c.trades + 1
           /\ Upserted(c, s, v).close = s.price
           /\ Upserted(c, s, v).open = IF c.trades = 0 THEN s.price ELSE c.open
           /\ Upserted(c, s, v).high = IF c.trades # 0 /\ c.high >= s.price THEN c.high ELSE s.price
           /\ Upserted(c, s, v).low = IF c.trades # 0 /\ c.low <= s.price THEN c.low ELSE s.price
<1>1. /\ s.price \in Nat /\ c.trades \in Nat /\ c.open \in Nat /\ c.high \in Nat /\ c.low \in Nat
  BY CandlesAssumption DEF Swap, Candle
<1> QED
  BY <1>1 DEF Upserted, Candle, Max2, Min2

\* A swap that comes or waits changes no row.
LEMMA RowsKept ==
    ASSUME RowInv, UNCHANGED <<pg, written>>, RowsTyped',
           \A m \in written : swaps'[m] = swaps[m]
    PROVE  RowInv'
<1>1. \A k \in Key : WrittenIn(k)' = WrittenIn(k)
  BY DEF WrittenIn
<1>2. \A k \in Key : WrittenIn(k) \subseteq written
  BY DEF WrittenIn
<1>3. Counted'
  BY <1>1 DEF RowInv, Counted
<1>4. PricesExact'
  <2> SUFFICES ASSUME NEW k \in Key
               PROVE  LET S == WrittenIn(k)
                      IN IF S = {}
                           THEN pg[k].trades = 0
                           ELSE /\ \E m \in S : pg[k].open = swaps'[m].price /\ \A n \in S : m <= n
                                /\ \E m \in S : pg[k].close = swaps'[m].price /\ \A n \in S : n <= m
                                /\ \E m \in S : pg[k].high = swaps'[m].price
                                /\ \E m \in S : pg[k].low = swaps'[m].price
                                /\ \A m \in S : swaps'[m].price \in pg[k].low..pg[k].high
    BY <1>1 DEF PricesExact
  <2>1. \A m \in WrittenIn(k) : swaps'[m] = swaps[m]
    BY <1>2
  <2> QED
    BY <2>1 DEF RowInv, PricesExact
<1> QED
  BY <1>3, <1>4 DEF RowInv

\* The batch counts its swap, the last one, in the rows of its candles.
LEMMA RowsWritten == ASSUME RowInv, UpsertBatch PROVE RowInv'
<1> DEFINE n == Len(swaps)
           s == swaps[n]
           keys == {KeyOf(s, r) : r \in ResolutionSet}
<1>0. /\ RowsTyped /\ PricesExact /\ Counted /\ swaps \in Seq(Swap) /\ pg \in [Key -> Candle]
      /\ written \in SUBSET (1..n)
  BY DEF RowInv, RowsTyped
<1>1. n \in Nat \ {0} /\ s \in Swap /\ n \in 1..n
  <2>1. swaps # <<>>
    BY <1>0 DEF RowsTyped, UpsertBatch
  <2> QED
    BY <1>0, <2>1, EmptySeq, ElementOfSeq
<1>2. /\ pg' = [k \in Key |-> IF k \in keys THEN Upserted(pg[k], s, pg[k].volume + s.volume)
                                            ELSE pg[k]]
      /\ written' = written \cup {n} /\ UNCHANGED swaps
  BY DEF UpsertBatch, Current
<1>3. \A k \in Key : KeyOf(s, k[1]) = k <=> k \in keys
  BY DEF Key, KeyOf
<1>4. \A k \in Key : WrittenIn(k)' = IF k \in keys THEN WrittenIn(k) \cup {n} ELSE WrittenIn(k)
  BY <1>2, <1>3 DEF WrittenIn
<1> HIDE DEF keys
<1>5. \A k \in Key : pg[k] \in Candle /\ pg[k].volume + s.volume \in Nat
  <2>1. s.volume \in Nat
    BY <1>1, CandlesAssumption DEF Swap
  <2>2. \A k \in Key : pg[k] \in Candle
    BY <1>0
  <2>3. \A c \in Candle : c.volume \in Nat
    BY DEF Candle
  <2> HIDE DEF s
  <2> QED
    BY <2>1, <2>2, <2>3
<1>6. \A k \in Key : WrittenIn(k) \subseteq 1..n
  BY <1>0 DEF WrittenIn
<1> HIDE DEF n, s
<1>7. RowsTyped'
  <2>1. pg' \in [Key -> Candle]
    BY <1>0, <1>1, <1>2, <1>5, UpsertedTyped
  <2>2. pc' = "ack" /\ swaps # <<>>
    BY <1>0 DEF UpsertBatch, RowsTyped
  <2> QED
    BY <1>0, <1>1, <1>2, <2>1, <2>2 DEF RowsTyped, n
<1>8. ASSUME NEW k \in Key, k \in keys
      PROVE  pg'[k] = Upserted(pg[k], s, pg[k].volume + s.volume)
  BY <1>2, <1>8
<1>9. Counted'
  <2> SUFFICES ASSUME NEW k \in Key PROVE Cardinality(WrittenIn(k)') <= pg'[k].trades
    BY DEF Counted
  <2>1. CASE k \in keys
    <3>1. /\ Cardinality(WrittenIn(k)) \in Nat /\ Cardinality(WrittenIn(k) \cup {n}) \in Nat
          /\ Cardinality(WrittenIn(k) \cup {n}) <= Cardinality(WrittenIn(k)) + 1
      BY <1>1, <1>6, CountUpTo
    <3>2. Cardinality(WrittenIn(k)) <= pg[k].trades
      BY <1>0 DEF Counted
    <3>3. WrittenIn(k)' = WrittenIn(k) \cup {n}
      BY <1>4, <2>1
    <3>4. pg[k] \in Candle /\ pg[k].volume + s.volume \in Nat
      BY <1>5
    <3>5. pg'[k] = Upserted(pg[k], s, pg[k].volume + s.volume)
      BY <1>8, <2>1
    <3>6. pg'[k].trades = pg[k].trades + 1
      BY <1>1, <3>4, <3>5, UpsertedTyped
    <3>7. pg'[k].trades = pg[k].trades + 1 /\ pg[k].trades \in Nat
      BY <3>4, <3>6 DEF Candle
    <3> QED
      BY <3>1, <3>2, <3>3, <3>7
  <2>2. CASE k \notin keys
    BY <1>0, <1>2, <1>4, <2>2 DEF Counted
  <2> QED
    BY <2>1, <2>2
<1>10. PricesExact'
  <2> SUFFICES ASSUME NEW k \in Key
               PROVE  LET S == WrittenIn(k)'
                      IN IF S = {}
                           THEN pg'[k].trades = 0
                           ELSE /\ \E m \in S : pg'[k].open = swaps[m].price /\ \A j \in S : m <= j
                                /\ \E m \in S : pg'[k].close = swaps[m].price /\ \A j \in S : j <= m
                                /\ \E m \in S : pg'[k].high = swaps[m].price
                                /\ \E m \in S : pg'[k].low = swaps[m].price
                                /\ \A m \in S : swaps[m].price \in pg'[k].low..pg'[k].high
    BY <1>2 DEF PricesExact
  <2>1. CASE k \notin keys
    BY <1>0, <1>2, <1>4, <2>1 DEF PricesExact
  <2>2. CASE k \in keys
    <3> DEFINE S == WrittenIn(k)
    <3>1. WrittenIn(k)' = S \cup {n} /\ S \subseteq 1..n /\ n \in Nat
      BY <1>1, <1>4, <1>6, <2>2
    <3>2. /\ pg'[k].trades = pg[k].trades + 1
          /\ pg'[k].close = s.price
          /\ pg'[k].open = IF pg[k].trades = 0 THEN s.price ELSE pg[k].open
          /\ pg'[k].high = IF pg[k].trades # 0 /\ pg[k].high >= s.price THEN pg[k].high ELSE s.price
          /\ pg'[k].low = IF pg[k].trades # 0 /\ pg[k].low <= s.price THEN pg[k].low ELSE s.price
      BY <1>1, <1>5, <1>8, <2>2, UpsertedTyped
    <3>3. s = swaps[n] /\ s.price \in Nat
      BY <1>1, CandlesAssumption DEF s, Swap
    <3>4. pg[k].low \in Nat /\ pg[k].high \in Nat /\ pg[k].trades \in Nat
      BY <1>5 DEF Candle
    <3>5. CASE S = {}
      <4>1. pg[k].trades = 0
        BY <1>0, <3>5 DEF PricesExact
      <4> HIDE DEF S
      <4>2. S \cup {n} = {n}
        BY <3>5
      <4> QED
        BY <3>1, <3>2, <3>3, <4>1, <4>2
    <3>6. CASE S # {}
      <4>1. /\ \E m \in S : pg[k].open = swaps[m].price /\ \A j \in S : m <= j
            /\ \E m \in S : pg[k].high = swaps[m].price
            /\ \E m \in S : pg[k].low = swaps[m].price
            /\ \A m \in S : swaps[m].price \in pg[k].low..pg[k].high
        BY <1>0, <3>6 DEF PricesExact
      <4>2. pg[k].trades # 0
        <5>1. Cardinality(S) \in Nat /\ Cardinality(S) # 0
          BY <3>1, <3>6, CountUpTo
        <5> QED
          BY <1>0, <3>4, <5>1 DEF Counted
      <4> HIDE DEF S
      <4>3. \E m \in S \cup {n} : pg'[k].open = swaps[m].price /\ \A j \in S \cup {n} : m <= j
        BY <3>1, <3>2, <4>1, <4>2
      <4>4. \E m \in S \cup {n} : pg'[k].close = swaps[m].price /\ \A j \in S \cup {n} : j <= m
        <5>1. \A j \in S \cup {n} : j <= n
          BY <3>1
        <5> QED
          BY <3>2, <3>3, <5>1
      <4>5. /\ \E m \in S \cup {n} : pg'[k].high = swaps[m].price
            /\ \E m \in S \cup {n} : pg'[k].low = swaps[m].price
        BY <3>2, <3>3, <4>1
      <4>6. \A m \in S \cup {n} : swaps[m].price \in pg'[k].low..pg'[k].high
        BY <3>2, <3>3, <3>4, <4>1, <4>2
      <4> QED
        BY <3>1, <4>3, <4>4, <4>5, <4>6
    <3> QED
      BY <3>5, <3>6
  <2> QED
    BY <2>1, <2>2
<1> QED
  BY <1>7, <1>9, <1>10 DEF RowInv

\* Every step keeps the rows.
LEMMA RowStep == RowInv /\ [Next]_vars => RowInv'
<1> SUFFICES ASSUME RowInv, [Next]_vars PROVE RowInv'
  OBVIOUS
<1>0. RowsTyped /\ swaps \in Seq(Swap) /\ written \in SUBSET (1..Len(swaps))
  BY DEF RowInv, RowsTyped
<1>1. ASSUME NEW s \in Swap, Handle(s) PROVE RowInv'
  <2>1. swaps' = Append(swaps, s) /\ UNCHANGED <<pg, written>> /\ pc' \in {"ack", "lua"}
    BY <1>1 DEF Handle, storeVars, history
  <2>2. /\ swaps' \in Seq(Swap) /\ Len(swaps') = Len(swaps) + 1 /\ Len(swaps) \in Nat
        /\ \A m \in 1..Len(swaps) : swaps'[m] = swaps[m]
    BY <1>0, <2>1, AppendProperties
  <2>3. swaps' # <<>>
    BY <2>2, EmptySeq
  <2>4. written \in SUBSET (1..Len(swaps'))
    BY <1>0, <2>2
  <2>5. RowsTyped'
    BY <1>0, <2>1, <2>2, <2>3, <2>4 DEF RowsTyped
  <2> QED
    BY <1>0, <2>1, <2>2, <2>5, RowsKept
<1>2. CASE \/ UpsertRedis \/ PublishTip \/ Ack \/ Throw \/ Crash \/ UNCHANGED vars
           \/ \E k \in Key : Expire(k)
  <2>1. UNCHANGED <<swaps, pg, written>>
    BY <1>2 DEF UpsertRedis, PublishTip, Ack, Throw, Crash, Expire, vars, storeVars, history
  <2>2. /\ pc' \in {"idle", "lua", "tip", "batch", "ack"}
        /\ pc' # "idle" => pc # "idle"
    BY <1>0, <1>2 DEF UpsertRedis, PublishTip, Ack, Throw, Crash, Expire, vars, handlerVars, RowsTyped
  <2>3. RowsTyped'
    BY <1>0, <2>1, <2>2 DEF RowsTyped
  <2> QED
    BY <2>1, <2>3, RowsKept
<1> QED
  BY <1>1, <1>2, RowsWritten DEF Next

\* The rows hold at the start.
LEMMA RowInit == Init => RowInv
<1> SUFFICES ASSUME Init PROVE RowInv
  OBVIOUS
<1>1. /\ swaps = <<>> /\ pc = "idle" /\ pg = [k \in Key |-> NoCandle] /\ written = {}
  BY DEF Init
<1>2. \A k \in Key : WrittenIn(k) = {}
  BY <1>1 DEF WrittenIn
<1>3. NoCandle \in Candle /\ NoCandle.trades = 0
  BY DEF NoCandle, Candle
<1>4. RowsTyped
  BY <1>1, <1>3 DEF RowsTyped
<1>5. Cardinality({}) = 0
  BY FS_EmptySet
<1>6. \A k \in Key : pg[k].trades = 0
  BY <1>1, <1>3
<1>7. Counted
  BY <1>2, <1>5, <1>6 DEF Counted
<1>8. PricesExact
  BY <1>2, <1>6 DEF PricesExact
<1> QED
  BY <1>4, <1>7, <1>8 DEF RowInv

\* PricesExact: a row's prices are those of the distinct swaps written to it,
\* in stream order, whatever was retried, abandoned or lost in a crash.
THEOREM PricesAreExact == Spec => []PricesExact
<1>1. Spec => []RowInv
  BY RowInit, RowStep, PTL DEF Spec
<1>2. RowInv => PricesExact
  BY DEF RowInv
<1> QED
  BY <1>1, <1>2, PTL

-----------------------------------------------------------------------------
(* The real-time candles.                                                  *)

\* Types of the real-time candles.
CacheTyped ==
    /\ redis = [k \in Key |-> redis[k]]
    /\ \A k \in Key : redis[k].trades \in Nat /\ redis[k].low \in Nat /\ redis[k].high \in Nat
    /\ res \in 1..Len(Resolutions)

\* The real-time candle is not behind the row.
Covered(k) ==
    \/ k \in expired
    \/ /\ pg[k].trades <= redis[k].trades
       /\ pg[k].trades > 0 => redis[k].low <= pg[k].low /\ pg[k].high <= redis[k].high

\* It is ahead of it by the swap at work.
Raised(i) ==
    LET k == KeyOf(Current, Resolutions[i])
    IN \/ k \in expired
       \/ /\ pg[k].trades < redis[k].trades
          /\ redis[k].low <= Current.price /\ Current.price <= redis[k].high

\* The loop has raised the candles of the resolutions it has passed.
LoopRaised ==
    \A i \in 1..Len(Resolutions) :
        ((pc = "lua" /\ i < res) \/ (pc = "tip" /\ i <= res) \/ pc = "batch")
        => Raised(i)

\* The invariant behind CacheCovers.
CoverInv == RowInv /\ CacheTyped /\ (\A k \in Key : Covered(k)) /\ LoopRaised

\* A swap's candle in a resolution is one of the keys.
LEMMA KeyOfTyped ==
    ASSUME NEW s \in Swap, NEW i \in 1..Len(Resolutions)
    PROVE  KeyOf(s, Resolutions[i]) \in Key /\ Resolutions[i] \in ResolutionSet
<1>1. s.time \in Times /\ Resolutions[i] \in ResolutionSet
  BY DEF Swap, ResolutionSet
<1> QED
  BY <1>1 DEF KeyOf, Key

\* The swap at work.
LEMMA CurrentTyped ==
    ASSUME RowsTyped, pc # "idle"
    PROVE  Current \in Swap /\ Current.price \in Nat
<1>1. swaps \in Seq(Swap) /\ swaps # <<>>
  BY DEF RowsTyped
<1>2. Len(swaps) \in Nat \ {0}
  BY <1>1, EmptySeq
<1>3. Current \in Swap
  BY <1>1, <1>2, ElementOfSeq DEF Current
<1> QED
  BY <1>3, CandlesAssumption DEF Swap

\* The candles hold at the start.
LEMMA CoverInit == Init => CoverInv
<1> SUFFICES ASSUME Init PROVE CoverInv
  OBVIOUS
<1>1. /\ pc = "idle" /\ res = 1 /\ pg = [k \in Key |-> NoCandle] /\ redis = [k \in Key |-> NoCandle]
  BY DEF Init
<1>2. NoCandle.trades = 0 /\ NoCandle.low = 0 /\ NoCandle.high = 0
  BY DEF NoCandle
<1>3. 1 \in 1..Len(Resolutions)
  BY CandlesAssumption
<1> QED
  BY <1>1, <1>2, <1>3, RowInit DEF CoverInv, CacheTyped, Covered, LoopRaised

\* The script raises one candle.
LEMMA CoverRaise == ASSUME CoverInv, RowInv', UpsertRedis PROVE CoverInv'
<1> DEFINE s == Current
           k == KeyOf(s, Resolutions[res])
<1>0. /\ RowsTyped /\ CacheTyped /\ LoopRaised /\ pg \in [Key -> Candle] /\ pc = "lua"
      /\ res \in 1..Len(Resolutions) /\ Len(Resolutions) \in Nat
  BY CandlesAssumption DEF CoverInv, RowInv, RowsTyped, CacheTyped, UpsertRedis
<1>1. s \in Swap /\ s.price \in Nat /\ k \in Key
  BY <1>0, CurrentTyped, KeyOfTyped
<1>2. /\ pc' = "tip" /\ UNCHANGED <<swaps, res, pg, expired>>
      /\ \E v : redis' = [redis EXCEPT ![k] = Upserted(redis[k], s, v)]
  BY DEF UpsertRedis
<1>3. Current' = s /\ k' = k /\ \A i \in 1..Len(Resolutions) : KeyOf(s, Resolutions[i]) \in Key
  BY <1>1, <1>2, KeyOfTyped DEF Current
<1> HIDE DEF s, k
<1>4. /\ redis' = [h \in Key |-> redis'[h]]
      /\ \A h \in Key : h # k => redis'[h] = redis[h]
      /\ redis'[k].trades = redis[k].trades + 1
      /\ redis'[k].low \in Nat /\ redis'[k].high \in Nat
      /\ redis'[k].low <= s.price /\ s.price <= redis'[k].high
      /\ redis[k].trades > 0 => redis'[k].low <= redis[k].low /\ redis[k].high <= redis'[k].high
  <2>1. PICK v : redis' = [redis EXCEPT ![k] = Upserted(redis[k], s, v)]
    BY <1>2
  <2>2. redis'[k] = Upserted(redis[k], s, v)
    BY <1>0, <1>1, <2>1 DEF CacheTyped
  <2>3. redis[k].trades \in Nat /\ redis[k].low \in Nat /\ redis[k].high \in Nat
    BY <1>0, <1>1 DEF CacheTyped
  <2>4. /\ redis'[k].trades = redis[k].trades + 1
        /\ redis'[k].low \in Nat /\ redis'[k].high \in Nat
        /\ redis'[k].low <= s.price /\ s.price <= redis'[k].high
        /\ redis[k].trades > 0 => redis'[k].low <= redis[k].low /\ redis[k].high <= redis'[k].high
    BY <1>1, <2>2, <2>3 DEF Upserted, Max2, Min2
  <2>5. redis' = [h \in Key |-> redis'[h]] /\ \A h \in Key : h # k => redis'[h] = redis[h]
    BY <1>0, <2>1 DEF CacheTyped
  <2> QED
    BY <2>4, <2>5
<1>5. CacheTyped'
  BY <1>0, <1>1, <1>2, <1>4 DEF CacheTyped
<1>6. pg[k].trades \in Nat /\ redis[k].trades \in Nat /\ redis[k].low \in Nat /\ redis[k].high \in Nat
      /\ pg[k].low \in Nat /\ pg[k].high \in Nat
  BY <1>0, <1>1 DEF CacheTyped, Candle
<1>7. Covered(k)
  BY <1>1 DEF CoverInv
<1>8. \/ k \in expired
      \/ pg[k].trades < redis'[k].trades /\ redis'[k].low <= s.price /\ s.price <= redis'[k].high
  BY <1>4, <1>6, <1>7 DEF Covered
<1>9. \A h \in Key : Covered(h)'
  <2>1. Covered(k)'
    BY <1>2, <1>3, <1>4, <1>6, <1>7 DEF Covered
  <2>2. ASSUME NEW h \in Key, h # k PROVE Covered(h)'
    BY <1>2, <1>4, <2>2 DEF CoverInv, Covered
  <2> QED
    BY <1>3, <2>1, <2>2
<1>10. LoopRaised'
  <2> SUFFICES ASSUME NEW i \in 1..Len(Resolutions), i <= res PROVE Raised(i)'
    BY <1>2 DEF LoopRaised
  <2>1. CASE KeyOf(s, Resolutions[i]) = k
    BY <1>2, <1>3, <1>8, <2>1 DEF Raised
  <2>2. CASE KeyOf(s, Resolutions[i]) # k
    <3>1. i < res
      BY <1>0, <2>2 DEF k
    <3>2. Raised(i)
      BY <1>0, <3>1 DEF LoopRaised
    <3>3. redis'[KeyOf(s, Resolutions[i])] = redis[KeyOf(s, Resolutions[i])]
      BY <1>3, <1>4, <2>2
    <3> QED
      BY <1>2, <1>3, <3>2, <3>3 DEF Raised, s
  <2> QED
    BY <2>1, <2>2
<1> QED
  BY <1>5, <1>9, <1>10 DEF CoverInv

\* The batch comes after the whole loop.
LEMMA CoverBatch == ASSUME CoverInv, RowInv', UpsertBatch PROVE CoverInv'
<1> DEFINE s == Current
           keys == {KeyOf(s, r) : r \in ResolutionSet}
<1>0. /\ RowsTyped /\ CacheTyped /\ pg \in [Key -> Candle] /\ pc = "batch"
      /\ \A i \in 1..Len(Resolutions) : Raised(i)
  BY DEF CoverInv, RowInv, RowsTyped, UpsertBatch, LoopRaised
<1>1. s \in Swap /\ s.price \in Nat /\ s.volume \in Nat
  BY <1>0, CurrentTyped, CandlesAssumption DEF Swap
<1>2. /\ pg' = [k \in Key |-> IF k \in keys THEN Upserted(pg[k], s, pg[k].volume + s.volume)
                                            ELSE pg[k]]
      /\ pc' = "ack" /\ UNCHANGED <<redis, res, expired>>
  BY DEF UpsertBatch
<1>3. \A k \in Key : Covered(k)'
  <2> SUFFICES ASSUME NEW k \in Key PROVE Covered(k)'
    OBVIOUS
  <2>0. Covered(k) /\ pg[k] \in Candle
    BY <1>0 DEF CoverInv
  <2>1. CASE k \notin keys
    BY <1>2, <2>0, <2>1 DEF Covered
  <2>2. CASE k \in keys
    <3>1. PICK i \in 1..Len(Resolutions) : k = KeyOf(s, Resolutions[i])
      BY <2>2 DEF ResolutionSet
    <3>2. \/ k \in expired
          \/ pg[k].trades < redis[k].trades /\ redis[k].low <= s.price /\ s.price <= redis[k].high
      BY <1>0, <3>1 DEF Raised
    <3>3. pg[k].volume + s.volume \in Nat /\ pg[k].trades \in Nat /\ pg[k].low \in Nat /\ pg[k].high \in Nat
      BY <1>1, <2>0 DEF Candle
    <3>4. pg'[k] = Upserted(pg[k], s, pg[k].volume + s.volume)
      BY <1>2, <2>2
    <3> HIDE DEF s, keys
    <3>4a. /\ Upserted(pg[k], s, pg[k].volume + s.volume).trades = pg[k].trades + 1
           /\ Upserted(pg[k], s, pg[k].volume + s.volume).high =
                 IF pg[k].trades # 0 /\ pg[k].high >= s.price THEN pg[k].high ELSE s.price
           /\ Upserted(pg[k], s, pg[k].volume + s.volume).low =
                 IF pg[k].trades # 0 /\ pg[k].low <= s.price THEN pg[k].low ELSE s.price
      BY <1>1, <2>0, <3>3, UpsertedTyped
    <3>5. /\ pg'[k].trades = pg[k].trades + 1
          /\ pg'[k].high = IF pg[k].trades # 0 /\ pg[k].high >= s.price THEN pg[k].high ELSE s.price
          /\ pg'[k].low = IF pg[k].trades # 0 /\ pg[k].low <= s.price THEN pg[k].low ELSE s.price
      BY <3>4, <3>4a
    <3>6. redis[k].trades \in Nat /\ redis[k].low \in Nat /\ redis[k].high \in Nat
      BY <1>0 DEF CacheTyped
    <3> QED
      BY <1>1, <1>2, <2>0, <3>2, <3>3, <3>5, <3>6 DEF Covered
  <2> QED
    BY <2>1, <2>2
<1>4. CacheTyped' /\ LoopRaised'
  BY <1>0, <1>2 DEF CacheTyped, LoopRaised
<1> QED
  BY <1>3, <1>4 DEF CoverInv

\* Every step keeps the candles.
LEMMA CoverStep == CoverInv /\ [Next]_vars => CoverInv'
<1> SUFFICES ASSUME CoverInv, [Next]_vars PROVE CoverInv'
  OBVIOUS
<1>0. /\ RowInv' /\ RowsTyped /\ CacheTyped /\ LoopRaised /\ (\A k \in Key : Covered(k))
      /\ res \in 1..Len(Resolutions) /\ Len(Resolutions) \in Nat \ {0}
  BY RowStep, CandlesAssumption DEF CoverInv, RowInv, CacheTyped
<1>1. CASE \/ Ack \/ Throw \/ Crash \/ \E s \in Swap : Handle(s)
  <2>1. /\ UNCHANGED <<redis, pg, expired>> /\ res' \in 1..Len(Resolutions)
        /\ pc' \in {"idle", "lua", "ack"} /\ (pc' = "lua" => res' = 1)
    BY <1>0, <1>1 DEF Ack, Throw, Crash, Handle, storeVars, history
  <2>2. CacheTyped' /\ \A k \in Key : Covered(k)'
    BY <1>0, <2>1 DEF CacheTyped, Covered
  <2>3. LoopRaised'
    BY <2>1 DEF LoopRaised
  <2> QED
    BY <1>0, <2>2, <2>3 DEF CoverInv
<1>2. CASE PublishTip
  <2>1. /\ UNCHANGED <<swaps, redis, pg, expired>> /\ pc = "tip"
        /\ \/ res < Len(Resolutions) /\ res' = res + 1 /\ pc' = "lua"
           \/ res >= Len(Resolutions) /\ res' = 1 /\ pc' = "batch"
    BY <1>0, <1>2 DEF PublishTip, storeVars, history
  <2>2. CacheTyped' /\ \A k \in Key : Covered(k)'
    BY <1>0, <2>1 DEF CacheTyped, Covered
  <2>3. \A i \in 1..Len(Resolutions) : Raised(i)' <=> Raised(i)
    BY <2>1 DEF Raised, Current
  <2>4. LoopRaised'
    BY <1>0, <2>1, <2>3 DEF LoopRaised
  <2> QED
    BY <1>0, <2>2, <2>4 DEF CoverInv
<1>3. ASSUME NEW k \in Key, Expire(k) PROVE CoverInv'
  <2>1. /\ redis' = [redis EXCEPT ![k] = NoCandle] /\ expired' = expired \cup {k}
        /\ UNCHANGED <<swaps, pc, res, pg>>
    BY <1>3 DEF Expire, handlerVars
  <2>2. NoCandle.trades = 0 /\ NoCandle.low = 0 /\ NoCandle.high = 0
    BY DEF NoCandle
  <2>3. \A h \in Key : h # k => redis'[h] = redis[h]
    BY <1>0, <2>1 DEF CacheTyped
  <2>4. CacheTyped'
    BY <1>0, <2>1, <2>2 DEF CacheTyped
  <2>5. \A h \in Key : Covered(h)'
    BY <1>0, <2>1, <2>3 DEF Covered
  <2>6. LoopRaised'
    <3> SUFFICES ASSUME NEW i \in 1..Len(Resolutions), pc # "idle", Raised(i) PROVE Raised(i)'
      BY <1>0, <2>1 DEF LoopRaised
    <3>1. KeyOf(Current, Resolutions[i]) \in Key /\ Current' = Current
      BY <1>0, <2>1, CurrentTyped, KeyOfTyped DEF Current
    <3> QED
      BY <2>1, <2>3, <3>1 DEF Raised
  <2> QED
    BY <1>0, <2>4, <2>5, <2>6 DEF CoverInv
<1>4. CASE UNCHANGED vars
  BY <1>0, <1>4 DEF vars, handlerVars, storeVars, history, CoverInv, CacheTyped, Covered, LoopRaised,
                    Raised, Current
<1> QED
  BY <1>0, <1>1, <1>2, <1>3, <1>4, CoverRaise, CoverBatch DEF Next

\* CacheCovers: no written swap is missing from its row's count, and until
\* its key expires the real-time candle is never behind the row.
THEOREM CacheCoversRows == Spec => []CacheCovers
<1>1. Spec => []CoverInv
  BY CoverInit, CoverStep, PTL DEF Spec
<1>2. CoverInv => CacheCovers
  BY DEF CoverInv, RowInv, Counted, Covered, CacheCovers
<1> QED
  BY <1>1, <1>2, PTL

-----------------------------------------------------------------------------
(* Induction over sets of numbers.                                         *)

\* Induction, as a statement about sets of numbers.
LEMMA NatSetInduction ==
    ASSUME NEW S \in SUBSET Nat, 0 \in S, \A n \in S : n + 1 \in S
    PROVE  S = Nat
<1> DEFINE T == Nat \ S
           R == {ss \in Nat \X Nat : ss[1] < ss[2]}
<1> SUFFICES ASSUME T # {} PROVE FALSE
  OBVIOUS
<1>1. IsWellFoundedOn(R, Nat)
  BY NatLessThanWellFounded DEF OpToRel
<1>2. \E x \in T : \A y \in T : <<y, x>> \notin R
  <2>1. T \subseteq Nat
    OBVIOUS
  <2> HIDE DEF T, R
  <2> QED
    BY <1>1, <2>1, WFMin
<1>3. PICK x \in T : \A y \in T : <<y, x>> \notin R
  BY <1>2
<1>4. x \in Nat /\ x # 0 /\ x - 1 \in Nat /\ x - 1 < x /\ (x - 1) + 1 = x
  BY <1>3
<1>5. x - 1 \in T
  BY <1>3, <1>4
<1> QED
  BY <1>3, <1>4, <1>5

\* A set of numbers has a least one.
LEMMA LeastOf ==
    ASSUME NEW S \in SUBSET Nat, S # {}
    PROVE  \E k \in S : \A j \in S : k <= j
<1> DEFINE R == {ss \in Nat \X Nat : ss[1] < ss[2]}
<1>1. IsWellFoundedOn(R, Nat)
  BY NatLessThanWellFounded DEF OpToRel
<1>2. \E x \in S : \A y \in S : <<y, x>> \notin R
  <2> HIDE DEF R
  <2> QED
    BY <1>1, WFMin
<1>3. PICK x \in S : \A y \in S : <<y, x>> \notin R
  BY <1>2
<1>4. ASSUME NEW y \in S PROVE x <= y
  <2>1. x \in Nat /\ y \in Nat
    OBVIOUS
  <2>2. ~(y < x)
    BY <1>3, <2>1
  <2> QED
    BY <2>1, <2>2
<1> QED
  BY <1>4

-----------------------------------------------------------------------------
(* Powers of ten.                                                          *)

\* f has the powers of ten up to the n-th.
Powers(f, n) == f = [k \in 0..n |-> IF k = 0 THEN 1 ELSE 10 * f[k - 1]]

\* They exist.
LEMMA PowersExist == \A n \in Nat : \E f : Powers(f, n)
<1> DEFINE N == {n \in Nat : \E f : Powers(f, n)}
<1>1. 0 \in N
  <2> DEFINE f == [k \in 0..0 |-> 1]
  <2>1. Powers(f, 0)
    BY DEF Powers
  <2> QED
    BY <2>1
<1>2. ASSUME NEW n \in N PROVE n + 1 \in N
  <2>1. PICK f : Powers(f, n)
    BY <1>2
  <2> DEFINE g == [k \in 0..(n + 1) |-> IF k = 0 THEN 1 ELSE 10 * f[k - 1]]
  <2>2. \A k \in 0..n : f[k] = IF k = 0 THEN 1 ELSE 10 * f[k - 1]
    BY <2>1, Zenon DEF Powers
  <2>3. \A k \in 0..(n + 1) : k # 0 => k - 1 \in 0..n
    BY <1>2
  <2>4. \A k \in 0..n : k \in 0..(n + 1) /\ g[k] = f[k]
    BY <1>2, <2>2
  <2>5. g = [k \in 0..(n + 1) |-> IF k = 0 THEN 1 ELSE 10 * g[k - 1]]
    BY <2>3, <2>4
  <2> HIDE DEF g
  <2>6. Powers(g, n + 1)
    BY <2>5 DEF Powers
  <2> QED
    BY <1>2, <2>6
<1>3. N = Nat
  <2> HIDE DEF N
  <2>1. N \in SUBSET Nat
    BY DEF N
  <2> QED
    BY <1>1, <1>2, <2>1, NatSetInduction
<1> QED
  BY <1>3

\* Two lists of powers agree.
LEMMA PowersAgree ==
    ASSUME NEW n \in Nat, NEW f, Powers(f, n), NEW m \in Nat, NEW g, Powers(g, m), n <= m
    PROVE  \A k \in 0..n : f[k] = g[k]
<1> DEFINE N == {k \in Nat : k <= n => f[k] = g[k]}
<1>1. \A k \in 0..n : f[k] = IF k = 0 THEN 1 ELSE 10 * f[k - 1]
  BY Zenon DEF Powers
<1>2. \A k \in 0..m : g[k] = IF k = 0 THEN 1 ELSE 10 * g[k - 1]
  BY Zenon DEF Powers
<1>3. 0 \in N
  BY <1>1, <1>2
<1>4. ASSUME NEW k \in N PROVE k + 1 \in N
  BY <1>1, <1>2, <1>4
<1>5. N = Nat
  <2> HIDE DEF N
  <2>1. N \in SUBSET Nat
    BY DEF N
  <2> QED
    BY <1>3, <1>4, <2>1, NatSetInduction
<1> QED
  BY <1>5

\* Pow10 is what its definition says.
LEMMA Pow10Def ==
    /\ Pow10[0] = 1
    /\ \A k \in Nat : Pow10[k + 1] = 10 * Pow10[k]
<1> DEFINE F(n) == CHOOSE f : Powers(f, n)
           P == [k \in Nat |-> F(k)[k]]
<1>1. \A n \in Nat : Powers(F(n), n)
  BY PowersExist
<1> HIDE DEF F
<1>2. \A n \in Nat : \A k \in 0..n : F(n)[k] = F(k)[k]
  <2> SUFFICES ASSUME NEW n \in Nat, NEW k \in 0..n PROVE F(n)[k] = F(k)[k]
    OBVIOUS
  <2>1. k \in Nat /\ k <= n /\ k \in 0..k
    OBVIOUS
  <2>2. Powers(F(n), n) /\ Powers(F(k), k)
    BY <1>1, <2>1
  <2> QED
    BY <2>1, <2>2, PowersAgree
<1>3. \A k \in Nat : P[k] = IF k = 0 THEN 1 ELSE 10 * P[k - 1]
  <2> SUFFICES ASSUME NEW k \in Nat PROVE P[k] = IF k = 0 THEN 1 ELSE 10 * P[k - 1]
    OBVIOUS
  <2>1. \A j \in 0..k : F(k)[j] = IF j = 0 THEN 1 ELSE 10 * F(k)[j - 1]
    BY <1>1, Zenon DEF Powers
  <2>2. k \in 0..k /\ (k # 0 => k - 1 \in 0..k /\ k - 1 \in Nat)
    OBVIOUS
  <2>3. k # 0 => F(k)[k - 1] = F(k - 1)[k - 1]
    BY <1>2, <2>2
  <2> QED
    BY <2>1, <2>2, <2>3
<1>4. P = [k \in Nat |-> IF k = 0 THEN 1 ELSE 10 * P[k - 1]]
  BY <1>3
<1> HIDE DEF P
<1>5. Pow10 = [k \in Nat |-> IF k = 0 THEN 1 ELSE 10 * Pow10[k - 1]]
  BY <1>4, Zenon DEF Pow10
<1>6. \A k \in Nat : Pow10[k] = IF k = 0 THEN 1 ELSE 10 * Pow10[k - 1]
  BY <1>5, Zenon
<1>7. \A k \in Nat : k + 1 \in Nat /\ k + 1 # 0 /\ (k + 1) - 1 = k
  OBVIOUS
<1>8. 0 \in Nat
  OBVIOUS
<1>9. Pow10[0] = 1
  BY <1>6, <1>8
<1>10. ASSUME NEW k \in Nat PROVE Pow10[k + 1] = 10 * Pow10[k]
  <2>1. Pow10[k + 1] = 10 * Pow10[(k + 1) - 1]
    BY <1>6, <1>7
  <2> QED
    BY <1>7, <2>1
<1> QED
  BY <1>9, <1>10

\* A power of ten is a number beyond its exponent.
LEMMA Pow10Grows == \A k \in Nat : Pow10[k] \in Nat /\ Pow10[k] > k
<1> DEFINE N == {k \in Nat : Pow10[k] \in Nat /\ Pow10[k] > k}
<1>1. 0 \in N
  BY Pow10Def
<1>2. ASSUME NEW k \in N PROVE k + 1 \in N
  BY <1>2, Pow10Def
<1>3. N = Nat
  <2> HIDE DEF N
  <2>1. N \in SUBSET Nat
    BY DEF N
  <2> QED
    BY <1>1, <1>2, <2>1, NatSetInduction
<1> QED
  BY <1>3

\* The exponent that LuaSum rounds to.
LEMMA Rounding ==
    ASSUME NEW n \in Nat
    PROVE  \E k \in 0..n : /\ n < Pow10[SigDigits + k]
                           /\ \A j \in 0..(k - 1) : n >= Pow10[SigDigits + j]
<1> DEFINE K == {k \in 0..n : n < Pow10[SigDigits + k]}
<1>0. SigDigits \in Nat
  BY CandlesAssumption
<1>1. \A j \in Nat : SigDigits + j \in Nat /\ Pow10[SigDigits + j] \in Nat
  BY <1>0, Pow10Grows
<1>2. n \in K
  <2>1. Pow10[SigDigits + n] > SigDigits + n
    BY <1>0, Pow10Grows
  <2> QED
    BY <1>0, <1>1, <2>1
<1>3. PICK k \in K : \A j \in K : k <= j
  <2>1. K \in SUBSET Nat /\ K # {}
    BY <1>2
  <2> HIDE DEF K
  <2> QED
    BY <2>1, LeastOf
<1>4. ASSUME NEW j \in 0..(k - 1) PROVE n >= Pow10[SigDigits + j]
  <2>1. j \in 0..n /\ j < k /\ j \in Nat /\ k \in Int
    BY <1>3
  <2>2. j \notin K
    BY <1>3, <2>1
  <2> QED
    BY <1>1, <2>1, <2>2
<1> QED
  BY <1>3, <1>4

\* A product of numbers is a number.
LEMMA ProductTyped == ASSUME NEW a \in Nat, NEW b \in Nat PROVE a * b \in Nat
OBVIOUS

\* The script's sum is a number, and exact as long as it has no more digits
\* than Lua prints.
LEMMA LuaSumExact ==
    ASSUME NEW v \in Nat, NEW w \in Nat
    PROVE  /\ LuaSum(v, w) \in Nat
           /\ v + w < Pow10[SigDigits] => LuaSum(v, w) = v + w
<1> DEFINE n == v + w
           P(k) == /\ n < Pow10[SigDigits + k]
                   /\ \A j \in 0..(k - 1) : n >= Pow10[SigDigits + j]
           e == CHOOSE k \in 0..n : P(k)
           u == Pow10[e]
           down == n \div u
           rest == n % u
<1>0. n \in Nat /\ SigDigits \in Nat
  BY CandlesAssumption
<1>1. e \in 0..n /\ P(e)
  <2>1. \E k \in 0..n : P(k)
    BY <1>0, Rounding
  <2> HIDE DEF n, P
  <2> QED
    BY <2>1
<1>2. LuaSum(v, w) = IF 2 * rest > u \/ (2 * rest = u /\ down % 2 = 1) THEN (down + 1) * u ELSE down * u
  BY DEF LuaSum
<1> HIDE DEF n, e
<1>3. u \in Nat /\ u > 0
  <2>1. e \in Nat
    BY <1>0, <1>1
  <2> QED
    BY <2>1, Pow10Grows
<1>4. ASSUME n < Pow10[SigDigits] PROVE u = 1
  <2>1. e = 0
    <3> SUFFICES ASSUME e # 0 PROVE FALSE
      OBVIOUS
    <3>1. 0 \in 0..(e - 1) /\ SigDigits + 0 = SigDigits
      BY <1>0, <1>1
    <3>2. n >= Pow10[SigDigits]
      BY <1>1, <3>1
    <3>3. Pow10[SigDigits] \in Nat
      BY <1>0, Pow10Grows
    <3> QED
      BY <1>0, <1>4, <3>2, <3>3
  <2> QED
    BY <2>1, Pow10Def
<1> HIDE DEF u
<1>5. down \in Nat /\ rest \in Nat
  BY <1>0, <1>3
<1>6. LuaSum(v, w) \in Nat
  <2>1. down * u \in Nat /\ (down + 1) * u \in Nat
    BY <1>3, <1>5, ProductTyped
  <2> QED
    BY <1>2, <2>1
<1>7. ASSUME n < Pow10[SigDigits] PROVE LuaSum(v, w) = n
  <2>1. u = 1
    BY <1>4, <1>7
  <2>2. down = n /\ rest = 0
    BY <1>0, <2>1
  <2> QED
    BY <1>0, <1>2, <2>1, <2>2
<1> QED
  BY <1>6, <1>7 DEF n

-----------------------------------------------------------------------------
(* Type correctness and the script's volume.                               *)

\* The types hold at the start.
LEMMA TypeInit == Init => TypeOK
<1> SUFFICES ASSUME Init PROVE TypeOK
  OBVIOUS
<1>1. NoCandle \in Candle
  BY DEF NoCandle, Candle
<1>2. swaps = <<>> /\ swaps \in Seq(Swap) /\ Len(swaps) = 0
  BY EmptySeq DEF Init
<1> QED
  BY <1>1, <1>2, CandlesAssumption DEF Init, TypeOK

\* A candle upserted with a volume that is a number.
LEMMA RaisedTyped ==
    ASSUME TypeOK, UpsertRedis
    PROVE  LET s == Current
               k == KeyOf(s, Resolutions[res])
           IN /\ s.volume \in Nat /\ k \in Key
              /\ redis' \in [Key -> Candle] /\ summed' \in [Key -> Nat]
              /\ redis'[k].trades = redis[k].trades + 1
              /\ redis'[k].volume = IF redis[k].trades = 0 THEN s.volume
                                                           ELSE LuaSum(redis[k].volume, s.volume)
              /\ \A h \in Key : h # k => redis'[h] = redis[h]
<1> DEFINE s == Current
           k == KeyOf(s, Resolutions[res])
           c == redis[k]
           v == IF c.trades = 0 THEN s.volume ELSE LuaSum(c.volume, s.volume)
<1>0. RowsTyped /\ pc # "idle" /\ res \in 1..Len(Resolutions) /\ redis \in [Key -> Candle]
      /\ summed \in [Key -> Nat]
  BY DEF TypeOK, RowsTyped, UpsertRedis
<1>1. s \in Swap /\ k \in Key /\ s.volume \in Nat
  BY <1>0, CurrentTyped, KeyOfTyped, CandlesAssumption DEF Swap
<1>2. c \in Candle /\ c.volume \in Nat
  BY <1>0, <1>1 DEF Candle
<1>3. redis' = [redis EXCEPT ![k] = Upserted(c, s, v)] /\ summed' = [summed EXCEPT ![k] = @ + s.volume]
  BY DEF UpsertRedis
<1> HIDE DEF s, k
<1>4. v \in Nat
  BY <1>1, <1>2, LuaSumExact
<1> HIDE DEF v
<1>5. Upserted(c, s, v) \in Candle /\ Upserted(c, s, v).trades = c.trades + 1
  BY <1>1, <1>2, <1>4, UpsertedTyped
<1>6. Upserted(c, s, v).volume = v
  BY DEF Upserted
<1> HIDE DEF c
<1>7. /\ redis' \in [Key -> Candle] /\ redis'[k] = Upserted(c, s, v)
      /\ \A h \in Key : h # k => redis'[h] = redis[h]
  BY <1>0, <1>1, <1>3, <1>5
<1>8. summed' \in [Key -> Nat]
  BY <1>0, <1>1, <1>3
<1> QED
  BY <1>1, <1>5, <1>6, <1>7, <1>8 DEF s, k, c, v

\* Every step keeps the types.
LEMMA TypeStep == TypeOK /\ RowInv /\ [Next]_vars => TypeOK'
<1> SUFFICES ASSUME TypeOK, RowInv, [Next]_vars PROVE TypeOK'
  OBVIOUS
<1>0. /\ RowInv' /\ swaps' \in Seq(Swap) /\ pg' \in [Key -> Candle]
      /\ pc' \in {"idle", "lua", "tip", "batch", "ack"}
      /\ (pc' # "idle" => swaps' # <<>>)
      /\ written' \in SUBSET (1..Len(swaps'))
  BY RowStep DEF RowInv, RowsTyped
<1>1. /\ MaxAttempts \in Nat \ {0} /\ MaxSwaps \in Nat /\ MaxFaults \in Nat /\ MaxCrashes \in Nat
      /\ Len(Resolutions) \in Nat \ {0}
  BY CandlesAssumption
<1>2. /\ Len(swaps) <= MaxSwaps /\ res \in 1..Len(Resolutions) /\ attempt \in 0..(MaxAttempts - 1)
      /\ redis \in [Key -> Candle] /\ summed \in [Key -> Nat] /\ expired \in SUBSET Key
      /\ faults \in 0..MaxFaults /\ crashes \in 0..MaxCrashes /\ swaps \in Seq(Swap)
  BY DEF TypeOK
<1>3. Len(swaps') <= MaxSwaps
  <2>1. CASE \E s \in Swap : Handle(s)
    <3>1. PICK s \in Swap : Len(swaps) < MaxSwaps /\ swaps' = Append(swaps, s)
      BY <2>1 DEF Handle
    <3>2. Len(swaps') = Len(swaps) + 1 /\ Len(swaps) \in Nat
      BY <1>2, <3>1, AppendProperties, LenProperties
    <3> QED
      BY <1>1, <3>1, <3>2
  <2>2. CASE swaps' = swaps
    BY <1>2, <2>2
  <2> QED
    BY <2>1, <2>2 DEF Next, UpsertRedis, PublishTip, UpsertBatch, Ack, Throw, Crash, Expire, vars
<1>4. res' \in 1..Len(Resolutions) /\ attempt' \in 0..(MaxAttempts - 1)
  BY <1>1, <1>2 DEF Next, Handle, UpsertRedis, PublishTip, UpsertBatch, Ack, Throw, Crash, Expire,
                    vars, handlerVars
<1>5. faults' \in 0..MaxFaults /\ crashes' \in 0..MaxCrashes
  BY <1>1, <1>2 DEF Next, Handle, UpsertRedis, PublishTip, UpsertBatch, Ack, Throw, Crash, Expire,
                    vars, budget
<1>6. redis' \in [Key -> Candle] /\ summed' \in [Key -> Nat] /\ expired' \in SUBSET Key
  <2>1. CASE UpsertRedis
    <3>1. expired' = expired
      BY <2>1 DEF UpsertRedis
    <3> QED
      BY <1>2, <2>1, <3>1, RaisedTyped
  <2>2. ASSUME NEW k \in Key, Expire(k)
        PROVE  redis' \in [Key -> Candle] /\ summed' \in [Key -> Nat] /\ expired' \in SUBSET Key
    <3>1. NoCandle \in Candle
      BY DEF NoCandle, Candle
    <3> QED
      BY <1>2, <2>2, <3>1 DEF Expire
  <2>3. CASE UNCHANGED <<redis, summed, expired>>
    BY <1>2, <2>3
  <2>4. UpsertRedis \/ (\E k \in Key : Expire(k)) \/ UNCHANGED <<redis, summed, expired>>
    BY DEF Next, Handle, PublishTip, UpsertBatch, Ack, Throw, Crash, vars, storeVars, history
  <2> QED
    BY <2>1, <2>2, <2>3, <2>4
<1> QED
  BY <1>0, <1>2, <1>3, <1>4, <1>5, <1>6 DEF TypeOK

\* Type correctness: volumes stay numbers through the script's rounding, an
\* attempt is one of those allowed, and a written swap was handed out.
THEOREM TypeCorrect == Spec => []TypeOK
<1>1. Spec => []RowInv
  BY RowInit, RowStep, PTL DEF Spec
<1> QED
  BY <1>1, TypeInit, TypeStep, PTL DEF Spec

\* A key without trades was given nothing, and a sum that Lua can print is
\* the volume.
VolumeInv ==
    /\ \A k \in Key : redis[k].trades = 0 => summed[k] = 0
    /\ VolumeExact

\* Every step keeps the volumes.
LEMMA VolumeStep == TypeOK /\ VolumeInv /\ [Next]_vars => VolumeInv'
<1> SUFFICES ASSUME TypeOK, VolumeInv, [Next]_vars PROVE VolumeInv'
  OBVIOUS
<1>0. redis \in [Key -> Candle] /\ summed \in [Key -> Nat]
  BY DEF TypeOK
<1>1. CASE UpsertRedis
  <2> DEFINE s == Current
             k == KeyOf(s, Resolutions[res])
  <2>1. /\ s.volume \in Nat /\ k \in Key
        /\ redis'[k].trades = redis[k].trades + 1
        /\ redis'[k].volume = IF redis[k].trades = 0 THEN s.volume
                                                     ELSE LuaSum(redis[k].volume, s.volume)
        /\ \A h \in Key : h # k => redis'[h] = redis[h]
    BY <1>1, RaisedTyped
  <2>2. summed' = [summed EXCEPT ![k] = @ + s.volume]
    BY <1>1 DEF UpsertRedis
  <2> HIDE DEF s, k
  <2>3. redis[k].trades \in Nat /\ redis[k].volume \in Nat /\ summed[k] \in Nat
    BY <1>0, <2>1 DEF Candle
  <2>4. summed'[k] = summed[k] + s.volume /\ \A h \in Key : h # k => summed'[h] = summed[h]
    BY <1>0, <2>1, <2>2
  <2>5. Pow10[SigDigits] \in Nat
    BY Pow10Grows, CandlesAssumption
  <2>6. ASSUME summed'[k] < Pow10[SigDigits] PROVE redis'[k].volume = summed'[k]
    <3>1. summed[k] < Pow10[SigDigits]
      BY <2>1, <2>3, <2>4, <2>5, <2>6
    <3>2. redis[k].volume = summed[k]
      BY <2>1, <3>1 DEF VolumeInv, VolumeExact
    <3>3. CASE redis[k].trades = 0
      BY <2>1, <2>4, <3>3 DEF VolumeInv
    <3>4. CASE redis[k].trades # 0
      <4>1. LuaSum(redis[k].volume, s.volume) = redis[k].volume + s.volume
        BY <2>1, <2>3, <2>4, <2>6, <3>2, LuaSumExact
      <4> QED
        BY <2>1, <2>4, <3>2, <3>4, <4>1
    <3> QED
      BY <3>3, <3>4
  <2>7. redis'[k].trades # 0
    BY <2>1, <2>3
  <2> QED
    BY <2>1, <2>4, <2>6, <2>7 DEF VolumeInv, VolumeExact
<1>2. ASSUME NEW k \in Key, Expire(k) PROVE VolumeInv'
  <2>1. redis' = [redis EXCEPT ![k] = NoCandle] /\ summed' = [summed EXCEPT ![k] = 0]
    BY <1>2 DEF Expire
  <2>2. NoCandle.trades = 0 /\ NoCandle.volume = 0
    BY DEF NoCandle
  <2>3. /\ redis'[k] = NoCandle /\ summed'[k] = 0
        /\ \A h \in Key : h # k => redis'[h] = redis[h] /\ summed'[h] = summed[h]
    BY <1>0, <2>1
  <2> QED
    BY <2>2, <2>3 DEF VolumeInv, VolumeExact
<1>3. CASE UNCHANGED <<redis, summed>>
  BY <1>3 DEF VolumeInv, VolumeExact
<1>4. UpsertRedis \/ (\E k \in Key : Expire(k)) \/ UNCHANGED <<redis, summed>>
  BY DEF Next, Handle, PublishTip, UpsertBatch, Ack, Throw, Crash, vars, storeVars, history
<1> QED
  BY <1>1, <1>2, <1>3, <1>4

\* VolumeExact: the real-time volume is the exact sum of what the script was
\* given while that sum has no more digits than Lua prints.
THEOREM VolumesAreExact == Spec => []VolumeExact
<1>1. Spec => []TypeOK
  BY TypeCorrect
<1>2. Init => VolumeInv
  <2> SUFFICES ASSUME Init PROVE VolumeInv
    OBVIOUS
  <2>1. \A k \in Key : redis[k].volume = 0 /\ summed[k] = 0
    BY DEF Init, NoCandle
  <2> QED
    BY <2>1 DEF VolumeInv, VolumeExact
<1>3. VolumeInv => VolumeExact
  BY DEF VolumeInv
<1> QED
  BY <1>1, <1>2, <1>3, VolumeStep, PTL DEF Spec
=============================================================================

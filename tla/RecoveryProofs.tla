---------------------------- MODULE RecoveryProofs ----------------------------
(***************************************************************************)
(* Proofs about Recovery for any set of groups, any batch size, replay     *)
(* depth and trimming, and any number of reorgs and faults.                *)
(***************************************************************************)
EXTENDS Recovery, SequenceTheorems, TLAPS

(* Type correctness.                                                       *)

\* Steps that store a unit, that a head or a recovery takes, and that a replay takes.
Storing == {"headers", "logs", "publish", "ledger", "header", "checkpoint"}
Heading == {"parent", "backtrace", "delete", "header"}
Replaying == {"logs", "publish", "ledger"}

\* The unit is an interval of blocks.
UnitShape ==
    step \in Storing => \E n, m \in 1..Len(chain) : n <= m /\ unit = n..m

\* On a new head it is that block, in a replay one block.
HeadShape ==
    step \in Heading \/ (work = "head" /\ step \in Storing) =>
        /\ block \in Block /\ block.number \in 1..Len(chain)
        /\ unit = {block.number} /\ work = "head"

\* A replay stores no headers and works on one block; a batch begins with its headers.
ReplayShape ==
    /\ work = "replay" => step \notin {"headers", "checkpoint", "header"}
    /\ work = "replay" /\ step \in Replaying => \E n \in 1..Len(chain) : unit = {n}
    /\ step = "headers" => work = "batch"

\* What can be left of the cascade.
CascadesLeft == {<<"trades", "candles", "positions", "fees", "headers", "checkpoint">>,
             <<"candles", "positions", "fees", "headers", "checkpoint">>,
             <<"positions", "fees", "headers", "checkpoint">>,
             <<"fees", "headers", "checkpoint">>,
             <<"headers", "checkpoint">>,
             <<"checkpoint">>}

\* Recovery goes down the chain, and through the deletes.
CascadeShape == level <= Len(chain) /\ (step = "delete" => cascade \in CascadesLeft)

\* The ledger has no blocks the chain has not reached.
LedgerShape == \A n \in Heights : ledger[n] > 0 => n <= Len(chain)

\* What the scanner holds is of the chain's numbers.
PendingShape == \A b \in pending : b.number \in 1..Len(chain)

\* The types, with all of these.
Typed ==
    TypeOK /\ UnitShape /\ HeadShape /\ ReplayShape /\ CascadeShape /\ LedgerShape /\ PendingShape

\* The last block of an interval.
LEMMA EndOfInterval ==
    ASSUME NEW n \in Nat, NEW m \in Nat, n <= m
    PROVE  EndOf(n..m) = m
<1>1. m \in n..m /\ \A k \in n..m : k <= m
  OBVIOUS
<1>2. \A k \in n..m : (\A j \in n..m : j <= k) => k = m
  <2> SUFFICES ASSUME NEW k \in n..m, \A j \in n..m : j <= k PROVE k = m
    OBVIOUS
  <2>1. m <= k /\ k <= m
    BY <1>1
  <2> QED
    BY <2>1
<1> QED
  BY <1>1, <1>2 DEF EndOf

\* The last block of the unit is one of its blocks.
LEMMA EndOfUnit ==
    ASSUME Typed, step \in Storing
    PROVE  EndOf(unit) \in 1..Len(chain) /\ EndOf(unit) \in unit
<1>1. PICK n, m \in 1..Len(chain) : n <= m /\ unit = n..m
  BY DEF Typed, UnitShape
<1>2. EndOf(unit) = m
  BY <1>1, EndOfInterval DEF Typed, TypeOK
<1> QED
  BY <1>1, <1>2

\* Blocks of the chain are blocks.
LEMMA HeaderTyped ==
    ASSUME TypeOK, NEW n \in 1..Len(chain)
    PROVE  HeaderAt(n) \in Block /\ HeaderAt(n).number = n /\ HeaderAt(n).hash = chain[n]
<1>1. n \in Heights /\ chain[n] \in Hashes /\ 0 \in Hashes
  BY RecoveryAssumption DEF TypeOK, Heights, Hashes
<1>2. n # 1 => chain[n - 1] \in Hashes
  BY DEF TypeOK
<1> QED
  BY <1>1, <1>2 DEF HeaderAt, Block

\* The events of a unit, put in order.
LEMMA InOrderTyped ==
    ASSUME NEW S, NEW s \in InOrder(S)
    PROVE  /\ s \in Seq(S) /\ Len(s) \in Nat
           /\ \A e \in S : \E i \in 1..Len(s) : s[i] = e
<1>1. PICK m \in 0..BatchSize : s \in [1..m -> S]
  BY DEF InOrder, SeqOf
<1>2. m \in Nat
  BY <1>1, RecoveryAssumption
<1>3. s \in Seq(S)
  BY <1>1, <1>2, SeqDef
<1>4. ToSet(s) = S /\ DOMAIN s = 1..Len(s) /\ Len(s) \in Nat
  BY <1>3, LenProperties DEF InOrder
<1> QED
  BY <1>3, <1>4 DEF ToSet

\* A delete leaves the deletes that come after it.
LEMMA SuffixStep ==
    ASSUME NEW c \in CascadesLeft
    PROVE  /\ c \in Seq(Tables \cup {"headers", "checkpoint"})
           /\ Head(c) \in Tables => Tail(c) \in CascadesLeft
           /\ Head(c) = "headers" => Tail(c) = <<"checkpoint">>
<1>1. CASE c = <<"trades", "candles", "positions", "fees", "headers", "checkpoint">>
  BY <1>1 DEF CascadesLeft, Tables
<1>2. CASE c = <<"candles", "positions", "fees", "headers", "checkpoint">>
  BY <1>2 DEF CascadesLeft, Tables
<1>3. CASE c = <<"positions", "fees", "headers", "checkpoint">>
  BY <1>3 DEF CascadesLeft, Tables
<1>4. CASE c = <<"fees", "headers", "checkpoint">>
  BY <1>4 DEF CascadesLeft, Tables
<1>5. CASE c = <<"headers", "checkpoint">>
  BY <1>5 DEF CascadesLeft, Tables
<1>6. CASE c = <<"checkpoint">>
  BY <1>6 DEF CascadesLeft, Tables
<1> QED
  BY <1>1, <1>2, <1>3, <1>4, <1>5, <1>6 DEF CascadesLeft

\* Types hold at the start.
LEMMA TypedInit == Init => Typed
<1> SUFFICES ASSUME Init PROVE Typed
  OBVIOUS
<1> USE RecoveryAssumption
<1>1. /\ chain \in Seq(Hashes) /\ Len(chain) = 0 /\ log \in Seq(Event) /\ Len(log) = 0
  BY DEF Init
<1>2. /\ at \in [Groups -> None..Len(log)] /\ rows \in [Tables -> SUBSET Event]
      /\ ledger \in [Heights -> 0..Len(log)]
      /\ cascade \in Seq(Tables \cup {"headers", "checkpoint"})
  BY <1>1 DEF Init, None
<1>3. /\ floor \in 0..Len(log) /\ checkpoint \in 0..Len(chain) /\ head \in 0..Len(chain)
      /\ Len(chain) <= MaxHeight /\ reorgs \in 0..MaxReorgs /\ level \in 0..MaxHeight
      /\ faults \in 0..MaxFaults
  BY <1>1 DEF Init
<1>4. TypeOK
  BY <1>1, <1>2, <1>3 DEF Init, TypeOK
<1>5. LedgerShape
  BY DEF Init, LedgerShape
<1>6. CascadeShape
  <2>1. level = 0 /\ step = "down"
    BY DEF Init
  <2> QED
    BY <1>1, <2>1 DEF CascadeShape
<1> QED
  BY <1>4, <1>5, <1>6 DEF Init, Typed, UnitShape, HeadShape, ReplayShape, PendingShape, Storing,
                          Heading, Replaying

\* The chain grows or changes.
LEMMA TypedChain ==
    ASSUME Typed, Mine \/ \E n \in 0..MaxHeight : Reorg(n)
    PROVE  Typed'
<1> USE RecoveryAssumption
<1>1. /\ chain' \in Seq(Hashes) /\ Len(chain') <= MaxHeight /\ Len(chain') >= Len(chain)
      /\ Len(chain) \in Nat /\ Len(chain') \in Nat
      /\ reorgs' \in 0..MaxReorgs
      /\ UNCHANGED <<streamVars, rows, storeVars, scanVars, faults>>
  <2>0. chain \in Seq(Hashes) /\ Len(chain) \in Nat /\ reorgs \in 0..MaxReorgs
    BY DEF Typed, TypeOK
  <2>1. CASE Mine
    BY <2>0, <2>1 DEF Mine, Hashes
  <2>2. ASSUME NEW n \in 0..MaxHeight, Reorg(n) PROVE <1>1!:
    <3>1. reorgs' \in 0..MaxReorgs /\ reorgs' \in Hashes
      BY <2>0, <2>2 DEF Reorg, Hashes
    <3>2. chain' = [i \in 1..Len(chain) |-> IF i <= n THEN chain[i] ELSE reorgs']
      BY <2>2 DEF Reorg
    <3>3. chain' \in [1..Len(chain) -> Hashes]
      BY <2>0, <3>1, <3>2
    <3>4. chain' \in Seq(Hashes) /\ Len(chain') = Len(chain)
      BY <2>0, <3>3, SeqDef
    <3> QED
      BY <2>0, <2>2, <3>1, <3>4 DEF Reorg, Typed, TypeOK
  <2> QED
    BY <2>1, <2>2
<1>2. TypeOK'
  <2>1. /\ checkpoint' \in 0..Len(chain') /\ head' \in 0..Len(chain')
        /\ unit' \subseteq 1..Len(chain') /\ missing' \subseteq 1..Len(chain')
    BY <1>1 DEF Typed, TypeOK, storeVars, scanVars, headVars
  <2> QED
    BY <1>1, <2>1 DEF Typed, TypeOK, streamVars, storeVars, scanVars, headVars
<1>3. UnitShape' /\ HeadShape' /\ ReplayShape'
  BY <1>1 DEF Typed, UnitShape, HeadShape, ReplayShape, scanVars, headVars
<1>4. LedgerShape'
  BY <1>1 DEF Typed, LedgerShape, storeVars, Heights
<1>5. CascadeShape'
  <2>1. level \in Nat /\ level <= Len(chain) /\ UNCHANGED <<level, step, cascade>>
    BY <1>1 DEF Typed, TypeOK, CascadeShape, scanVars, headVars
  <2> QED
    BY <1>1, <2>1 DEF Typed, CascadeShape
<1>6. PendingShape'
  BY <1>1 DEF Typed, TypeOK, PendingShape, Block, Heights, scanVars, headVars
<1> QED
  BY <1>2, <1>3, <1>4, <1>5, <1>6 DEF Typed

\* A processor.
LEMMA TypedHandle ==
    ASSUME Typed, NEW g \in Groups, Handle(g) \/ EnsureConsumerGroup(g)
    PROVE  Typed'
<1>1. CASE Handle(g)
  <2> DEFINE i == IF at[g] < floor THEN floor + 1 ELSE at[g] + 1
  <2>1. /\ i <= Len(log)
        /\ rows' = [t \in Tables |-> IF t \in Writes(g) THEN rows[t] \cup {log[i]} ELSE rows[t]]
        /\ at' = [at EXCEPT ![g] = i]
        /\ at[g] # None
        /\ UNCHANGED <<chainVars, log, floor, storeVars, scanVars, verified, late, stray, faults>>
    BY <1>1 DEF Handle
  <2>2. /\ at \in [Groups -> None..Len(log)] /\ floor \in 0..Len(log) /\ Len(log) \in Nat
        /\ log \in Seq(Event) /\ rows \in [Tables -> SUBSET Event]
    BY DEF Typed, TypeOK
  <2>3. i \in 1..Len(log)
    BY <2>1, <2>2 DEF None
  <2> HIDE DEF i
  <2>4. at' \in [Groups -> None..Len(log)]
    BY <2>1, <2>2, <2>3 DEF None
  <2>5. log[i] \in Event
    BY <2>2, <2>3
  <2>6. rows' \in [Tables -> SUBSET Event]
    BY <2>1, <2>2, <2>5
  <2> QED
    BY <2>1, <2>4, <2>6 DEF Typed, TypeOK, UnitShape, HeadShape, ReplayShape, CascadeShape,
                            LedgerShape, PendingShape, chainVars, storeVars, scanVars, headVars
<1>2. CASE EnsureConsumerGroup(g)
  <2>1. at' \in [Groups -> None..Len(log)]
    BY <1>2 DEF EnsureConsumerGroup, CreatedAt, None, Typed, TypeOK
  <2> QED
    BY <1>2, <2>1 DEF EnsureConsumerGroup, Typed, TypeOK, UnitShape, HeadShape, ReplayShape,
                      CascadeShape, LedgerShape, PendingShape, chainVars, storeVars, scanVars, headVars
<1> QED
  BY <1>1, <1>2

\* Redis loses its data.
LEMMA TypedLoseRedis == ASSUME Typed, LoseRedis PROVE Typed'
<1>1. /\ floor' \in 0..Len(log) /\ at' \in [Groups -> None..Len(log)] /\ faults' \in 0..MaxFaults
  BY RecoveryAssumption DEF LoseRedis, Typed, TypeOK, None
<1> QED
  BY <1>1 DEF LoseRedis, Typed, TypeOK, UnitShape, HeadShape, ReplayShape, CascadeShape,
              LedgerShape, PendingShape, chainVars, storeVars, scanVars, headVars

\* The next replay, out of blocks of the chain.
LEMMA NextReplayTyped ==
    ASSUME Typed, NEW left \in SUBSET (1..Len(chain)), NextReplay(left)
    PROVE  /\ work' = "replay" /\ missing' \subseteq 1..Len(chain) /\ unit' \subseteq 1..Len(chain)
           /\ step' \in {"start", "logs"}
           /\ step' = "logs" => \E n \in 1..Len(chain) : unit' = {n}
  BY DEF NextReplay

\* The next batch.
LEMMA NextBatchTyped ==
    ASSUME Typed, NEW n \in Nat \ {0}, NextBatch(n), head' \in 0..Len(chain)
    PROVE  /\ work' = "batch" /\ step' \in {"headers", "idle"} /\ unit' \subseteq 1..Len(chain)
           /\ step' = "headers" => \E m \in 1..Len(chain) : n \in 1..Len(chain) /\ n <= m /\ unit' = n..m
<1> DEFINE m == IF n + BatchSize - 1 < head' THEN n + BatchSize - 1 ELSE head'
<1>1. /\ work' = "batch" /\ step' = (IF n <= head' THEN "headers" ELSE "idle") /\ unit' = n..m
  BY DEF NextBatch
<1>2. Len(chain) \in Nat /\ head' \in Nat /\ head' <= Len(chain)
  BY DEF Typed, TypeOK
<1>3. m \in Int /\ m <= head' /\ (n <= head' => m \in n..head')
  BY <1>2, RecoveryAssumption
<1> HIDE DEF m
<1> QED
  BY <1>1, <1>2, <1>3

\* The next block of a drain, or its end.
LEMMA NextBlockTyped ==
    ASSUME Typed, NEW left \in SUBSET Block, \A b \in left : b.number \in 1..Len(chain), NextBlock(left)
    PROVE  /\ level' = 0 /\ cascade' = <<>> /\ fetched' = {} /\ step' \in {"idle", "parent"}
           /\ unit' \subseteq 1..Len(chain) /\ block' \in Block \cup {<<>>}
           /\ step' = "parent" => /\ block' \in Block /\ block'.number \in 1..Len(chain)
                                  /\ unit' = {block'.number}
  BY DEF NextBlock

\* A step of a drain from one block to the next.
LEMMA DrainTyped ==
    ASSUME Typed, NEW left \in SUBSET Block, \A b \in left : b.number \in 1..Len(chain), NextBlock(left),
           UNCHANGED <<chainVars, streamVars, rows, headers, ledger, head, missing>>, work' = "head",
           checkpoint' \in 0..Len(chain), faults' \in 0..MaxFaults, tip' \in Block \cup {<<>>},
           pending' \subseteq Block, \A b \in pending' : b.number \in 1..Len(chain)
    PROVE  Typed'
<1>1. /\ level' = 0 /\ cascade' = <<>> /\ fetched' = {} /\ step' \in {"idle", "parent"}
      /\ unit' \subseteq 1..Len(chain) /\ block' \in Block \cup {<<>>}
      /\ step' = "parent" => /\ block' \in Block /\ block'.number \in 1..Len(chain)
                             /\ unit' = {block'.number}
  BY NextBlockTyped
<1>2. level' \in 0..MaxHeight /\ level' <= Len(chain) /\ Len(chain) \in Nat
      /\ cascade' \in Seq(Tables \cup {"headers", "checkpoint"})
  BY <1>1, RecoveryAssumption DEF Typed, TypeOK
<1>3. TypeOK'
  BY <1>1, <1>2 DEF Typed, TypeOK, chainVars, streamVars
<1>4. UnitShape' /\ HeadShape' /\ ReplayShape'
  BY <1>1 DEF UnitShape, HeadShape, ReplayShape, Storing, Heading, Replaying, chainVars
<1>5. CascadeShape' /\ LedgerShape' /\ PendingShape'
  BY <1>1, <1>2 DEF Typed, CascadeShape, LedgerShape, PendingShape, chainVars
<1> QED
  BY <1>3, <1>4, <1>5 DEF Typed

\* The steps of a unit.
LEMMA TypedUnit ==
    ASSUME Typed,
           FetchLogs \/ Publish \/ RecordPublishLedger \/ WriteCheckpoint \/ StoreHeaders
           \/ InsertBlockHeader
    PROVE  Typed'
<1> USE RecoveryAssumption
<1>0. /\ unit \subseteq 1..Len(chain) /\ chain \in Seq(Hashes) /\ Len(chain) \in Nat
      /\ log \in Seq(Event) /\ Len(log) \in Nat /\ headers \subseteq Block
      /\ Len(chain) <= MaxHeight /\ floor \in 0..Len(log)
  BY DEF Typed, TypeOK
<1>1. CASE FetchLogs
  <2>1. fetched' \subseteq Event
    <3> SUFFICES ASSUME NEW n \in unit PROVE <<n, chain[n]>> \in Event
      BY <1>1 DEF FetchLogs
    <3>1. n \in Heights /\ chain[n] \in Hashes
      BY <1>0 DEF Heights
    <3> QED
      BY <3>1 DEF Event
  <2> QED
    BY <1>1, <2>1 DEF FetchLogs, Typed, TypeOK, UnitShape, HeadShape, ReplayShape, CascadeShape,
                      LedgerShape, PendingShape, Storing, Heading, Replaying, chainVars, streamVars, storeVars,
                      history, headVars
<1>2. CASE Publish
  <2>1. PICK s \in InOrder(fetched) : log' = log \o s
    BY <1>2 DEF Publish
  <2>2. s \in Seq(Event) /\ Len(s) \in Nat
    <3>1. s \in Seq(fetched) /\ fetched \subseteq Event
      BY InOrderTyped DEF Typed, TypeOK
    <3> QED
      BY <3>1, SeqMonotonic, LenProperties
  <2>3. log' \in Seq(Event) /\ Len(log') = Len(log) + Len(s)
    BY <1>0, <2>1, <2>2, ConcatProperties
  <2>4. floor' \in 0..Len(log')
    BY <1>0, <1>2, <2>2, <2>3 DEF Publish
  <2>5. at' \in [Groups -> None..Len(log')] /\ ledger' \in [Heights -> 0..Len(log')]
    <3>1. at' = at /\ ledger' = ledger
      BY <1>2 DEF Publish, storeVars
    <3>2. at \in [Groups -> None..Len(log)] /\ ledger \in [Heights -> 0..Len(log)]
      BY DEF Typed, TypeOK
    <3>3. \A x \in None..Len(log) : x \in None..Len(log')
      BY <1>0, <2>2, <2>3 DEF None
    <3>4. \A x \in 0..Len(log) : x \in 0..Len(log')
      BY <1>0, <2>2, <2>3
    <3> QED
      BY <3>1, <3>2, <3>3, <3>4
  <2> QED
    BY <1>2, <2>3, <2>4, <2>5
    DEF Publish, Typed, TypeOK, UnitShape, HeadShape, ReplayShape, CascadeShape, LedgerShape,
        PendingShape, Storing, Heading, Replaying, chainVars, storeVars, headVars
<1>3. CASE RecordPublishLedger
  <2>1. EndOf(unit) \in 1..Len(chain)
    BY <1>3, EndOfUnit DEF RecordPublishLedger, Storing
  <2>2. ledger' \in [Heights -> 0..Len(log)] /\ LedgerShape'
    BY <1>0, <1>3, <2>1 DEF RecordPublishLedger, LedgerShape, Typed, TypeOK, Heights, chainVars
  <2>3. CASE work = "replay"
    <3>1. NextReplay(missing \ unit) /\ missing \ unit \in SUBSET (1..Len(chain)) /\ fetched' = {}
      BY <1>3, <2>3 DEF RecordPublishLedger, Typed, TypeOK
    <3>2. /\ work' = "replay" /\ missing' \subseteq 1..Len(chain) /\ unit' \subseteq 1..Len(chain)
          /\ step' \in {"start", "logs"}
          /\ step' = "logs" => \E n \in 1..Len(chain) : unit' = {n}
      BY <3>1, NextReplayTyped
    <3>3. step' = "logs" => \E n, m \in 1..Len(chain) : n <= m /\ unit' = n..m
      <4> SUFFICES ASSUME NEW n \in 1..Len(chain), unit' = {n} PROVE n <= n /\ unit' = n..n
        BY <3>2
      <4> QED
        OBVIOUS
    <3> QED
      BY <1>3, <2>2, <3>1, <3>2, <3>3
      DEF RecordPublishLedger, Typed, TypeOK, UnitShape, HeadShape, ReplayShape, CascadeShape,
          PendingShape, Storing, Heading, Replaying, chainVars, streamVars, headVars
  <2>4. CASE work # "replay"
    <3>1. step = "ledger" /\ step' \in {"checkpoint", "header"} /\ UNCHANGED <<work, unit, missing, fetched>>
          /\ (step' = "header" => work # "batch")
      BY <1>3, <2>4 DEF RecordPublishLedger
    <3>2. work # "batch" => work = "head"
      BY <2>4 DEF Typed, TypeOK
    <3> QED
      BY <1>3, <2>2, <2>4, <3>1, <3>2
      DEF RecordPublishLedger, Typed, TypeOK, UnitShape, HeadShape, ReplayShape, CascadeShape,
          PendingShape, Storing, Heading, Replaying, chainVars, streamVars, headVars
  <2> QED
    BY <2>3, <2>4
<1>4. CASE WriteCheckpoint
  <2>0. step = "checkpoint" /\ checkpoint' = EndOf(unit) /\ head' = head
    BY <1>4 DEF WriteCheckpoint
  <2>1. EndOf(unit) \in 1..Len(chain) /\ checkpoint' = EndOf(unit) /\ head' = head /\ work # "replay"
    <3>1. EndOf(unit) \in 1..Len(chain)
      BY <2>0, EndOfUnit DEF Storing
    <3> QED
      BY <2>0, <3>1 DEF Typed, ReplayShape
  <2>2. CASE work = "batch"
    <3>1. NextBatch(checkpoint' + 1) /\ checkpoint' + 1 \in Nat \ {0} /\ head' \in 0..Len(chain)
      BY <1>4, <2>1, <2>2 DEF WriteCheckpoint, Typed, TypeOK
    <3>2. /\ work' = "batch" /\ step' \in {"headers", "idle"} /\ unit' \subseteq 1..Len(chain)
          /\ step' = "headers" => \E n, m \in 1..Len(chain) : n <= m /\ unit' = n..m
      BY <3>1, NextBatchTyped
    <3>3. /\ UNCHANGED <<chain, reorgs, log, floor, at, rows, headers, ledger, headVars, head, missing,
                         faults>>
          /\ fetched' = {} /\ step = "checkpoint"
      BY <1>4, <2>0, <2>2 DEF WriteCheckpoint, chainVars, streamVars
    <3>4. TypeOK'
      BY <2>1, <3>2, <3>3 DEF Typed, TypeOK, headVars
    <3>5. UnitShape' /\ HeadShape' /\ ReplayShape'
      BY <3>2, <3>3 DEF UnitShape, HeadShape, ReplayShape, Storing, Heading, Replaying
    <3>6. CascadeShape' /\ LedgerShape' /\ PendingShape'
      BY <3>2, <3>3 DEF Typed, CascadeShape, LedgerShape, PendingShape, headVars
    <3> QED
      BY <3>4, <3>5, <3>6 DEF Typed
  <2>3. CASE work # "batch"
    <3>1. work = "head"
      BY <2>1, <2>3 DEF Typed, TypeOK
    <3>2. /\ Later \subseteq pending /\ pending \subseteq Block
          /\ \A b \in pending : b.number \in 1..Len(chain)
          /\ tip \in Block \cup {<<>>} /\ faults \in 0..MaxFaults
      BY DEF Later, Typed, TypeOK, PendingShape
    <3>3. /\ UNCHANGED <<chainVars, streamVars, rows, headers, ledger, head, missing, work, tip, faults>>
          /\ NextBlock(Later) /\ pending' \subseteq pending
      BY <1>4, <2>0, <2>3 DEF WriteCheckpoint
    <3> QED
      BY <2>1, <3>1, <3>2, <3>3, DrainTyped
  <2> QED
    BY <2>2, <2>3
<1>5. CASE StoreHeaders
  <2>1. \A n \in unit : HeaderAt(n) \in Block /\ HeaderAt(n).number = n
    BY <1>0, HeaderTyped DEF Typed
  <2>2. /\ headers' \subseteq Block
        /\ \A h, k \in headers' : h.number = k.number => h = k
    <3>1. \A h, k \in headers : h.number = k.number => h = k
      BY DEF Typed, TypeOK
    <3>2. headers' = headers \cup {HeaderAt(n) : n \in unit \ Numbers(headers)}
      BY <1>5 DEF StoreHeaders
    <3>3. \A h \in headers' : h \in headers \/ \E n \in unit \ Numbers(headers) : h = HeaderAt(n)
      BY <3>2
    <3>4. \A h \in headers : h.number \in Numbers(headers)
      BY DEF Numbers
    <3>5. \A h \in headers' :
             \/ h \in headers /\ h.number \in Numbers(headers)
             \/ h.number \in unit \ Numbers(headers) /\ h = HeaderAt(h.number) /\ h \in Block
      BY <2>1, <3>3, <3>4
    <3> QED
      BY <1>0, <3>1, <3>5
  <2> QED
    BY <1>5, <2>2 DEF StoreHeaders, Typed, TypeOK, UnitShape, HeadShape, ReplayShape, CascadeShape,
                      LedgerShape, PendingShape, Storing, Heading, Replaying, chainVars,
                      streamVars, history, headVars
<1>6. CASE InsertBlockHeader
  <2>1. block \in Block /\ work = "head"
    BY <1>6 DEF InsertBlockHeader, Typed, HeadShape, Heading
  <2>2. /\ headers' \subseteq Block
        /\ \A h, k \in headers' : h.number = k.number => h = k
    BY <1>0, <1>6, <2>1 DEF InsertBlockHeader, Insert, Numbers, Typed, TypeOK
  <2> QED
    BY <1>6, <2>1, <2>2 DEF InsertBlockHeader, Typed, TypeOK, UnitShape, HeadShape, ReplayShape,
                      CascadeShape, LedgerShape, PendingShape, Storing, Heading, Replaying, chainVars,
                      streamVars, history, headVars
<1> QED
  BY <1>1, <1>2, <1>3, <1>4, <1>5, <1>6

\* start().
LEMMA TypedStart == ASSUME Typed, Verify \/ ReplayThrows \/ CatchUp PROVE Typed'
<1> USE RecoveryAssumption
<1>0. Recorded \subseteq 1..Len(chain)
  BY DEF Recorded, Typed, LedgerShape, Heights
<1>1. ASSUME NEW left \in SUBSET (1..Len(chain)), NextReplay(left), fetched' \subseteq fetched,
             faults' \in 0..MaxFaults,
             UNCHANGED <<chainVars, streamVars, rows, storeVars, headVars, head>>
      PROVE  Typed'
  <2>1. /\ work' = "replay" /\ missing' \subseteq 1..Len(chain) /\ unit' \subseteq 1..Len(chain)
        /\ step' \in {"start", "logs"}
        /\ step' = "logs" => \E n \in 1..Len(chain) : unit' = {n}
    BY <1>1, NextReplayTyped
  <2>2. step' = "logs" => \E n, m \in 1..Len(chain) : n <= m /\ unit' = n..m
    <3> SUFFICES ASSUME NEW n \in 1..Len(chain), unit' = {n} PROVE n <= n /\ unit' = n..n
      BY <2>1
    <3> QED
      OBVIOUS
  <2>3. fetched' \subseteq Event
    BY <1>1 DEF Typed, TypeOK
  <2> QED
    BY <1>1, <2>1, <2>2, <2>3
    DEF Typed, TypeOK, UnitShape, HeadShape, ReplayShape, CascadeShape, LedgerShape,
        PendingShape, Storing, Heading, Replaying, chainVars, streamVars, storeVars, headVars
<1>2. CASE Verify
  <2>1. \E left \in SUBSET (1..Len(chain)) : NextReplay(left)
    <3>1. CASE checkpoint <= ReplayDepth
      BY <1>2, <3>1 DEF Verify
    <3>2. CASE ~(checkpoint <= ReplayDepth)
      <4>1. PICK thrown \in SUBSET Window : NextReplay({n \in Window : ledger[n] <= floor} \cup thrown)
        BY <1>2, <3>2 DEF Verify
      <4>2. {n \in Window : ledger[n] <= floor} \cup thrown \in SUBSET (1..Len(chain))
        BY <1>0 DEF Window
      <4> QED
        BY <4>1, <4>2
    <3> QED
      BY <3>1, <3>2
  <2>2. faults' \in 0..MaxFaults
    BY <1>2 DEF Verify, Typed, TypeOK
  <2> QED
    BY <1>1, <1>2, <2>1, <2>2 DEF Verify
<1>3. CASE ReplayThrows
  <2>1. NextReplay(missing \ unit) /\ missing \ unit \in SUBSET (1..Len(chain))
    BY <1>3 DEF ReplayThrows, Typed, TypeOK
  <2>2. faults' \in 0..MaxFaults /\ fetched' \subseteq fetched
    BY <1>3 DEF ReplayThrows, Typed, TypeOK
  <2> QED
    BY <1>1, <1>3, <2>1, <2>2 DEF ReplayThrows
<1>4. CASE CatchUp
  <2>1. step = "start" /\ head' = Len(chain) /\ head' \in 0..Len(chain)
    BY <1>4 DEF CatchUp, Typed, TypeOK
  <2>2. CASE checkpoint + 1 < head'
    <3>1. NextBatch(checkpoint + 1) /\ checkpoint + 1 \in Nat \ {0}
      BY <1>4, <2>2 DEF CatchUp, Typed, TypeOK
    <3>2. /\ work' = "batch" /\ step' \in {"headers", "idle"} /\ unit' \subseteq 1..Len(chain)
          /\ step' = "headers" => \E n, m \in 1..Len(chain) : n <= m /\ unit' = n..m
      BY <2>1, <3>1, NextBatchTyped
    <3> QED
      BY <1>4, <2>1, <3>2
      DEF CatchUp, Typed, TypeOK, UnitShape, HeadShape, ReplayShape, CascadeShape, LedgerShape, PendingShape,
          Storing, Heading, Replaying, chainVars, streamVars, storeVars, history, headVars
  <2>3. CASE ~(checkpoint + 1 < head')
    BY <1>4, <2>1, <2>3
    DEF CatchUp, Typed, TypeOK, UnitShape, HeadShape, ReplayShape, CascadeShape, LedgerShape,
        PendingShape, Storing, Heading, Replaying, chainVars, streamVars, storeVars, history, headVars
  <2> QED
    BY <2>2, <2>3
<1> QED
  BY <1>2, <1>3, <1>4

\* A new head, and the recovery it may begin.
LEMMA TypedHead ==
    ASSUME Typed,
           \/ NewHead \/ CheckParent \/ Backtrace \/ DeleteRows \/ DeleteHeaders \/ Rewind
           \/ HeadThrows
    PROVE  Typed'
<1> USE RecoveryAssumption
<1>0. /\ chain \in Seq(Hashes) /\ Len(chain) \in Nat /\ Len(chain) <= MaxHeight
      /\ level \in 0..MaxHeight
  BY DEF Typed, TypeOK
<1>1. CASE NewHead
  <2>1. Len(chain) \in 1..Len(chain)
    BY <1>0, <1>1 DEF NewHead
  <2>2. tip' \in Block /\ tip'.number = Len(chain)
    BY <1>1, <2>1, HeaderTyped DEF NewHead, Typed
  <2>3. pending' \subseteq Block /\ \A b \in pending' : b.number \in 1..Len(chain)
    BY <1>1, <2>1, <2>2 DEF NewHead, Typed, TypeOK, PendingShape
  <2>4. checkpoint \in 0..Len(chain) /\ faults \in 0..MaxFaults
    BY DEF Typed, TypeOK
  <2> QED
    BY <1>1, <2>2, <2>3, <2>4, DrainTyped DEF NewHead, storeVars
<1>2. CASE CheckParent
  <2>1. /\ block \in Block /\ block.number \in 1..Len(chain) /\ unit = {block.number} /\ work = "head"
    BY <1>2 DEF CheckParent, Typed, HeadShape, Heading
  <2>2. level' \in 0..MaxHeight /\ level' <= Len(chain)
    BY <1>0, <1>2, <2>1 DEF CheckParent, Typed, CascadeShape
  <2>3. \E n, m \in 1..Len(chain) : n <= m /\ unit = n..m
    BY <2>1
  <2> QED
    BY <1>2, <2>1, <2>2, <2>3
    DEF CheckParent, Typed, TypeOK, UnitShape, HeadShape, ReplayShape, CascadeShape, LedgerShape,
        PendingShape, Storing, Heading, Replaying, chainVars, streamVars, storeVars, history
<1>3. CASE Backtrace
  <2>1. level' \in 0..MaxHeight /\ level' <= Len(chain)
    BY <1>0, <1>3 DEF Backtrace, Typed, CascadeShape
  <2>2. Cascade \in CascadesLeft
    BY DEF Cascade, CascadesLeft
  <2>3. /\ cascade' \in Seq(Tables \cup {"headers", "checkpoint"})
        /\ step' = "delete" => cascade' \in CascadesLeft
        /\ step' \in {"delete", "backtrace"}
    BY <1>3, <2>2, SuffixStep DEF Backtrace, Typed, TypeOK
  <2> QED
    BY <1>3, <2>1, <2>3
    DEF Backtrace, Typed, TypeOK, UnitShape, HeadShape, ReplayShape, CascadeShape, LedgerShape,
        PendingShape, Storing, Heading, Replaying, chainVars, streamVars, storeVars, history
<1>4. CASE DeleteRows
  <2>1. cascade \in CascadesLeft /\ Head(cascade) \in Tables /\ cascade' = Tail(cascade)
    BY <1>4 DEF DeleteRows, Typed, CascadeShape
  <2>2. cascade' \in CascadesLeft
    BY <2>1, SuffixStep
  <2>3. cascade' \in Seq(Tables \cup {"headers", "checkpoint"})
    BY <2>2, SuffixStep
  <2>4. rows' \in [Tables -> SUBSET Event]
    BY <1>4 DEF DeleteRows, Typed, TypeOK
  <2> QED
    BY <1>4, <2>2, <2>3, <2>4
    DEF DeleteRows, Typed, TypeOK, UnitShape, HeadShape, ReplayShape, CascadeShape, LedgerShape,
        PendingShape, Storing, Heading, Replaying, chainVars, streamVars, storeVars
<1>5. CASE DeleteHeaders
  <2>1. cascade \in CascadesLeft /\ Head(cascade) = "headers" /\ cascade' = Tail(cascade)
    BY <1>5 DEF DeleteHeaders, Typed, CascadeShape
  <2>2. cascade' \in CascadesLeft
    BY <2>1, SuffixStep DEF CascadesLeft
  <2>3. cascade' \in Seq(Tables \cup {"headers", "checkpoint"})
    BY <2>2, SuffixStep
  <2> QED
    BY <1>5, <2>2, <2>3
    DEF DeleteHeaders, Kept, Typed, TypeOK, UnitShape, HeadShape, ReplayShape, CascadeShape,
        LedgerShape, PendingShape, Storing, Heading, Replaying, chainVars, streamVars, history
<1>6. CASE Rewind \/ HeadThrows
  <2>1. work = "head"
    BY <1>6 DEF Rewind, HeadThrows, Typed, HeadShape, Heading
  <2>2. /\ Later \subseteq pending /\ pending \subseteq Block
        /\ \A b \in pending : b.number \in 1..Len(chain)
        /\ tip \in Block \cup {<<>>} /\ level \in 0..Len(chain) /\ checkpoint \in 0..Len(chain)
    BY <1>0 DEF Later, Typed, TypeOK, PendingShape, CascadeShape
  <2>3. /\ UNCHANGED <<chainVars, streamVars, rows, headers, ledger, head, missing, work, tip>>
        /\ NextBlock(Later) /\ pending' \subseteq pending /\ checkpoint' \in {checkpoint, level}
    BY <1>6 DEF Rewind, HeadThrows, storeVars
  <2>4. faults' \in 0..MaxFaults
    BY <1>6 DEF Rewind, HeadThrows, Typed, TypeOK
  <2> QED
    BY <2>1, <2>2, <2>3, <2>4, DrainTyped
<1> QED
  BY <1>1, <1>2, <1>3, <1>4, <1>5, <1>6

\* A death of the scanner.
LEMMA TypedCrash == ASSUME Typed, Crash PROVE Typed'
<1>1. Len(chain) \in Nat /\ <<>> \in Seq(Tables \cup {"headers", "checkpoint"})
  BY DEF Typed, TypeOK
<1> QED
  BY <1>1, RecoveryAssumption
  DEF Crash, Typed, TypeOK, UnitShape, HeadShape, ReplayShape, CascadeShape, LedgerShape, PendingShape,
      Storing, Heading, Replaying, chainVars, streamVars, storeVars

\* Types are kept by every step.
LEMMA TypedStep == Typed /\ [Next]_vars => Typed'
<1> SUFFICES ASSUME Typed, [Next]_vars PROVE Typed'
  OBVIOUS
<1>1. CASE Next
  BY <1>1, TypedChain, TypedHandle, TypedLoseRedis, TypedStart, TypedHead, TypedUnit, TypedCrash
  DEF Next
<1>2. CASE UNCHANGED vars
  BY <1>2 DEF vars, chainVars, streamVars, storeVars, scanVars, headVars, history, Typed, TypeOK,
              UnitShape, HeadShape, ReplayShape, CascadeShape, LedgerShape, PendingShape
<1> QED
  BY <1>1, <1>2

\* TypeOK of Recovery: among it, that the checkpoint, the common ancestor and
\* what is replayed stay on the chain, and that a number has one header.
THEOREM TypeCorrect == Spec => []TypeOK
<1>1. Spec => []Typed
  BY TypedInit, TypedStep, PTL DEF Spec
<1>2. Typed => TypeOK
  BY DEF Typed
<1> QED
  BY <1>1, <1>2, PTL

-----------------------------------------------------------------------------
(* Replays reach every group.                                              *)

\* A group has handled everything up to where it is, but what Redis lost.
Followed == \A g \in Groups : \A i \in (floor + 1)..at[g] : <<g, i>> \in handled

\* Of the rows verified or replayed, the last ids exist, and between a
\* publication and its row in the ledger, so does the last id of the log.
Present ==
    /\ \A n \in verified : n \in Heights /\ ledger[n] > floor
    /\ step = "ledger" /\ fetched # {} => floor < Len(log) \/ verified = {}

\* The invariant behind ReplayReachesAll.
ReplayInv == Typed /\ Followed /\ Present

\* An interval that begins later is part of one that begins earlier.
LEMMA Above ==
    \A a, b \in Nat : \A c \in Int : a <= b => \A j \in (b + 1)..c : j \in (a + 1)..c
  OBVIOUS

\* The invariant holds at the start.
LEMMA ReplayInit == Init => ReplayInv
  BY TypedInit DEF Init, ReplayInv, Followed, Present

\* The entries of the log are kept: a step publishes, or leaves them alone.
LEMMA ReplayStep == ReplayInv /\ [Next]_vars => ReplayInv'
<1> SUFFICES ASSUME ReplayInv, [Next]_vars PROVE ReplayInv'
  OBVIOUS
<1> USE RecoveryAssumption
<1>0. /\ Typed /\ Typed' /\ Followed /\ Present
      /\ at \in [Groups -> None..Len(log)] /\ floor \in 0..Len(log) /\ log \in Seq(Event)
      /\ Len(log) \in Nat /\ ledger \in [Heights -> 0..Len(log)]
  <2>1. Typed /\ Followed /\ Present
    BY DEF ReplayInv
  <2>2. Typed'
    BY <2>1, TypedStep
  <2>3. /\ at \in [Groups -> None..Len(log)] /\ floor \in 0..Len(log) /\ log \in Seq(Event)
        /\ Len(log) \in Nat /\ ledger \in [Heights -> 0..Len(log)]
    BY <2>1 DEF Typed, TypeOK
  <2> QED
    BY <2>1, <2>2, <2>3
<1>1. ASSUME NEW g \in Groups, Handle(g) PROVE ReplayInv'
  <2> DEFINE i == IF at[g] < floor THEN floor + 1 ELSE at[g] + 1
  <2>1. /\ at' = [at EXCEPT ![g] = i] /\ handled' = handled \cup {<<g, i>>}
        /\ UNCHANGED <<floor, log, ledger, verified, step, fetched>>
    BY <1>1 DEF Handle, storeVars, scanVars, headVars
  <2>2. /\ i \in Int /\ \A j \in (floor + 1)..i : j = i \/ j \in (floor + 1)..at[g]
    BY <1>0 DEF None
  <2> HIDE DEF i
  <2>3. Followed'
    <3> SUFFICES ASSUME NEW h \in Groups, NEW j \in (floor + 1)..at'[h] PROVE <<h, j>> \in handled'
      BY <2>1 DEF Followed
    <3>1. CASE h = g
      <4>1. at'[g] = i
        BY <1>0, <2>1
      <4> QED
        BY <1>0, <2>1, <2>2, <3>1, <4>1 DEF Followed
    <3>2. CASE h # g
      BY <1>0, <2>1, <3>2 DEF Followed
    <3> QED
      BY <3>1, <3>2
  <2> QED
    BY <1>0, <2>1, <2>3 DEF ReplayInv, Present
<1>2. ASSUME NEW g \in Groups, EnsureConsumerGroup(g) PROVE ReplayInv'
  <2>1. /\ at' = [at EXCEPT ![g] = 0]
        /\ UNCHANGED <<floor, log, ledger, verified, handled, step, fetched>>
    BY <1>2 DEF EnsureConsumerGroup, CreatedAt, storeVars, scanVars, headVars, history
  <2>2. Followed'
    <3> SUFFICES ASSUME NEW h \in Groups, NEW j \in (floor + 1)..at'[h] PROVE <<h, j>> \in handled
      BY <2>1 DEF Followed
    <3>1. h # g
      <4>1. at'[g] = 0 /\ floor >= 0
        BY <1>0, <2>1
      <4> QED
        BY <1>0, <4>1
    <3> QED
      BY <1>0, <2>1, <3>1 DEF Followed
  <2> QED
    BY <1>0, <2>1, <2>2 DEF ReplayInv, Present
<1>3. CASE LoseRedis
  BY <1>0, <1>3 DEF LoseRedis, None, ReplayInv, Followed, Present
<1>4. CASE Publish
  <2>1. PICK s \in InOrder(fetched) : log' = log \o s
    BY <1>4 DEF Publish
  <2>2. s \in Seq(Event) /\ Len(s) \in Nat /\ (fetched # {} => Len(s) > 0)
    <3>1. s \in Seq(fetched) /\ fetched \subseteq Event
      BY InOrderTyped, <1>0 DEF Typed, TypeOK
    <3>2. fetched # {} => Len(s) # 0
      BY InOrderTyped
    <3> QED
      BY <3>1, <3>2, SeqMonotonic, LenProperties
  <2>3. Len(log') = Len(log) + Len(s)
    BY <1>0, <2>1, <2>2, ConcatProperties
  <2>4. /\ floor' >= floor /\ floor' \in Nat
        /\ floor' > floor => Len(log') - floor' >= StreamMaxLen
        /\ verified' = {n \in verified : ledger[n] > floor'}
        /\ UNCHANGED <<at, handled, ledger, fetched>>
    BY <1>0, <1>4, <2>2, <2>3 DEF Publish, storeVars
  <2>5. Followed'
    <3> SUFFICES ASSUME NEW h \in Groups, NEW j \in (floor' + 1)..at[h] PROVE <<h, j>> \in handled
      BY <2>4 DEF Followed
    <3>1. at[h] \in Int /\ floor \in Nat
      BY <1>0 DEF None
    <3>2. floor' >= floor /\ floor' \in Nat
      BY <2>4
    <3>3. j \in (floor + 1)..at[h]
      BY <3>1, <3>2, Above
    <3> QED
      BY <1>0, <3>3 DEF Followed
  <2>6. fetched # {} => floor' < Len(log')
    BY <1>0, <2>2, <2>3, <2>4
  <2>7. Present'
    BY <1>0, <2>4, <2>6 DEF Present
  <2> QED
    BY <1>0, <2>5, <2>7 DEF ReplayInv
<1>5. CASE RecordPublishLedger
  <2>1. /\ step = "ledger"
        /\ ledger' = IF fetched = {} THEN ledger ELSE [ledger EXCEPT ![EndOf(unit)] = Len(log)]
        /\ UNCHANGED <<at, floor, log, handled>>
    BY <1>5 DEF RecordPublishLedger, streamVars
  <2>2. EndOf(unit) \in Heights /\ unit \subseteq Heights
    <3>1. EndOf(unit) \in 1..Len(chain)
      BY <1>0, <2>1, EndOfUnit DEF Storing
    <3>2. Typed
      BY <1>0
    <3>3. unit \subseteq 1..Len(chain) /\ Len(chain) \in Nat /\ Len(chain) <= MaxHeight
      BY <3>2 DEF Typed, TypeOK
    <3> QED
      BY <3>1, <3>3 DEF Heights
  <2>3. \A n \in verified : ledger'[n] > floor
    BY <1>0, <2>1, <2>2 DEF Present
  <2>4. step' # "ledger"
    BY <1>5 DEF RecordPublishLedger, NextReplay
  <2>5. \A n \in verified' : n \in Heights /\ ledger'[n] > floor
    <3>1. CASE work = "replay"
      <4>1. verified' = verified \cup (IF fetched # {} /\ floor < Len(log) THEN unit ELSE {})
        BY <1>5, <3>1 DEF RecordPublishLedger
      <4>2. \A n \in unit : n = EndOf(unit)
        <5>1. PICK m \in 1..Len(chain) : unit = {m}
          BY <1>0, <2>1, <3>1 DEF Typed, ReplayShape, Replaying
        <5> QED
          BY <1>0, <2>1, <5>1, EndOfUnit DEF Storing
      <4>3. fetched # {} /\ floor < Len(log) => \A n \in unit : ledger'[n] > floor
        BY <1>0, <2>1, <2>2, <4>2
      <4> QED
        BY <1>0, <2>2, <2>3, <4>1, <4>3 DEF Present
    <3>2. CASE work # "replay"
      BY <1>0, <1>5, <2>3, <3>2 DEF RecordPublishLedger, Present
    <3> QED
      BY <3>1, <3>2
  <2> QED
    BY <1>0, <2>1, <2>4, <2>5 DEF ReplayInv, Followed, Present
<1>6. CASE Verify
  <2>1. /\ step' # "ledger"
        /\ UNCHANGED <<at, floor, log, handled, ledger>>
        /\ \A n \in verified' : n \in Heights /\ ledger[n] > floor
    <3>1. step' # "ledger" /\ UNCHANGED <<at, floor, log, handled, ledger>>
      BY <1>6 DEF Verify, NextReplay, streamVars, storeVars
    <3>2. CASE checkpoint <= ReplayDepth
      BY <1>6, <3>1, <3>2 DEF Verify
    <3>3. CASE ~(checkpoint <= ReplayDepth)
      <4>1. PICK thrown \in SUBSET Window :
                /\ NextReplay({n \in Window : ledger[n] <= floor} \cup thrown)
                /\ verified' = Window \ missing'
        BY <1>6, <3>3 DEF Verify
      <4>2. missing' = {n \in Window : ledger[n] <= floor} \cup thrown
        BY <4>1 DEF NextReplay
      <4>3. \A n \in Window : n \in Heights
        BY DEF Window, Recorded
      <4> QED
        BY <1>0, <3>1, <4>1, <4>2, <4>3
    <3> QED
      BY <3>2, <3>3
  <2> QED
    BY <1>0, <2>1 DEF ReplayInv, Followed, Present
<1>7. CASE Crash
  BY <1>0, <1>7 DEF Crash, streamVars, storeVars, ReplayInv, Followed, Present
<1>8. ASSUME UNCHANGED <<at, floor, log, handled, ledger, verified>>, step' # "ledger"
      PROVE  ReplayInv'
  BY <1>0, <1>8 DEF ReplayInv, Followed, Present
<1>9. CASE \/ ReplayThrows \/ CatchUp \/ StoreHeaders \/ NewHead \/ CheckParent \/ Backtrace
           \/ DeleteRows \/ DeleteHeaders \/ Rewind \/ FetchLogs \/ InsertBlockHeader
           \/ WriteCheckpoint \/ HeadThrows
  BY <1>8, <1>9 DEF ReplayThrows, CatchUp, StoreHeaders, NewHead, CheckParent, Backtrace,
           DeleteRows, DeleteHeaders, Rewind, FetchLogs, InsertBlockHeader, WriteCheckpoint,
           HeadThrows, NextReplay, NextBatch, NextBlock, streamVars, storeVars, history
<1>10. CASE UNCHANGED vars \/ Mine \/ \E n \in 0..MaxHeight : Reorg(n)
  BY <1>0, <1>10 DEF vars, Mine, Reorg, streamVars, storeVars, scanVars, headVars, history, ReplayInv,
                     Followed, Present
<1> QED
  BY <1>1, <1>2, <1>3, <1>4, <1>5, <1>6, <1>7, <1>9, <1>10 DEF Next

\* ReplayReachesAll: whatever Redis loses or trims and whenever the scanner
\* dies, a row that a start has verified or replayed, and that has not been
\* lost since, has been or will be read by every group.
THEOREM ReplaysReachAll == Spec => []ReplayReachesAll
<1>1. Spec => []ReplayInv
  BY ReplayInit, ReplayStep, PTL DEF Spec
<1>2. ReplayInv => ReplayReachesAll
  <2> SUFFICES ASSUME ReplayInv, NEW n \in verified, NEW g \in Groups
               PROVE  <<g, ledger[n]>> \in handled \/ (at[g] < ledger[n] /\ ledger[n] > floor)
    BY DEF ReplayReachesAll
  <2>1. /\ at \in [Groups -> None..Len(log)] /\ floor \in 0..Len(log) /\ Len(log) \in Nat
        /\ n \in Heights /\ ledger[n] > floor /\ ledger[n] \in 0..Len(log)
    BY DEF ReplayInv, Typed, TypeOK, Present
  <2>2. CASE ledger[n] \in (floor + 1)..at[g]
    BY <2>2 DEF ReplayInv, Followed
  <2>3. CASE ledger[n] \notin (floor + 1)..at[g]
    BY <2>1, <2>3 DEF None
  <2> QED
    BY <2>2, <2>3
<1> QED
  BY <1>1, <1>2, PTL

-----------------------------------------------------------------------------
(* Rows of orphaned blocks can be found again.                             *)

\* The tables OrphansTraceable is about.
Traced == {"trades", "fees"}

\* Row e of table t has its header, or never will have, for one of the
\* reasons; or the scanner is at work on its block.
Traceable(t, e) ==
    \/ Headed(e) \/ <<t, e>> \in late \/ e \in stray
    \/ step \in {"ledger", "header", "checkpoint"} /\ e \in fetched

\* Entry i of the log is still to be handled by group g.
Ahead(g, i) == i \in 1..Len(log) /\ i > floor /\ i > at[g]

\* So has every row, and every row still to come from the log.
RowsTraceable ==
    \A t \in Traced :
        /\ \A e \in rows[t] : Traceable(t, e)
        /\ \A g \in Groups : t \in Writes(g) => \A i \in Nat : Ahead(g, i) => Traceable(t, log[i])

\* The cascade, of which c is left, is past the delete from table t.
Past(c, t) == \/ t = "trades" /\ Head(c) # "trades"
              \/ t = "fees" /\ Head(c) \in {"headers", "checkpoint"}

\* What a delete has left above the ancestor, or will find too late.
Deleted ==
    step = "delete" =>
        \A t \in Traced : Past(cascade, t) =>
            /\ \A e \in rows[t] : e[1] > level => <<t, e>> \in late
            /\ \A g \in Groups : t \in Writes(g) =>
                  \A i \in Nat : Ahead(g, i) /\ log[i][1] > level => <<t, log[i]>> \in late

\* Nothing is handled ahead of its group.
InTurn ==
    \A g \in Groups : \A i \in Nat : <<g, i>> \in handled => i <= Len(log) /\ ~Ahead(g, i)

\* The invariant behind OrphansTraceable.
TraceInv == Typed /\ RowsTraceable /\ Deleted /\ InTurn

\* What the steps below need of it.
LEMMA TraceFacts ==
    ASSUME TraceInv
    PROVE  /\ log \in Seq(Event) /\ Len(log) \in Nat
           /\ at \in [Groups -> None..Len(log)] /\ floor \in 0..Len(log)
           /\ rows \in [Tables -> SUBSET Event] /\ fetched \subseteq Event /\ level \in Nat
           /\ RowsTraceable /\ Deleted /\ InTurn
<1>1. TypeOK /\ RowsTraceable /\ Deleted /\ InTurn
  BY DEF TraceInv, Typed
<1>2. log \in Seq(Event)
  BY <1>1 DEF TypeOK
<1>3. Len(log) \in Nat
  BY <1>2, LenProperties
<1>4. /\ at \in [Groups -> None..Len(log)] /\ floor \in 0..Len(log)
      /\ rows \in [Tables -> SUBSET Event] /\ fetched \subseteq Event
  BY <1>1 DEF TypeOK
<1>5. level \in Nat
  BY <1>1, RecoveryAssumption DEF TypeOK
<1> QED
  BY <1>1, <1>2, <1>3, <1>4, <1>5

\* The invariant holds at the start.
LEMMA TraceInit == Init => TraceInv
<1> SUFFICES ASSUME Init PROVE TraceInv
  OBVIOUS
<1>1. /\ rows = [t \in Tables |-> {}] /\ handled = {} /\ step = "down" /\ Len(log) = 0
  BY DEF Init
<1>2. \A g \in Groups, i \in Nat : ~Ahead(g, i)
  BY <1>1 DEF Ahead
<1> QED
  BY <1>1, <1>2, TypedInit DEF TraceInv, RowsTraceable, Deleted, InTurn, Traced, Tables

\* The scanner's steps but for Publish, the deletes and their end leave the
\* log, the groups and the rows alone, and what was traceable remains so.
LEMMA TraceKept ==
    ASSUME TraceInv, Typed',
           UNCHANGED <<log, floor, at, rows, handled>>,
           \A t \in Traced, e \in Event : Traceable(t, e) => Traceable(t, e)',
           step' = "delete" => \/ UNCHANGED <<step, level, cascade, late>>
                               \/ Head(cascade') = "trades"
    PROVE  TraceInv'
<1>1. /\ rows \in [Tables -> SUBSET Event] /\ log \in Seq(Event)
  BY DEF TraceInv, Typed, TypeOK
<1>2. RowsTraceable'
  <2>1. \A t \in Traced : rows[t] \subseteq Event
    BY <1>1 DEF Traced, Tables
  <2>2. \A g \in Groups, i \in Nat : Ahead(g, i)' => Ahead(g, i) /\ log[i] \in Event
    BY <1>1 DEF Ahead
  <2> QED
    BY <2>1, <2>2 DEF TraceInv, RowsTraceable
<1>3. Deleted'
  <2>1. CASE step' = "delete" /\ UNCHANGED <<step, level, cascade, late>>
    <3>1. /\ UNCHANGED <<step, level, cascade, late>> /\ Deleted
      BY <2>1 DEF TraceInv
    <3>2. \A t \in Traced : Past(cascade, t)' <=> Past(cascade, t)
      BY <3>1 DEF Past
    <3>3. \A g \in Groups, i \in Nat : Ahead(g, i)' <=> Ahead(g, i)
      BY DEF Ahead
    <3> QED
      BY <2>1, <3>1, <3>2, <3>3 DEF Deleted
  <2>2. CASE step' # "delete"
    BY <2>2 DEF Deleted
  <2>3. CASE Head(cascade') = "trades"
    BY <2>3 DEF Deleted, Past
  <2> QED
    BY <2>1, <2>2, <2>3
<1>4. InTurn'
  BY DEF TraceInv, InTurn, Ahead
<1> QED
  BY <1>2, <1>3, <1>4 DEF TraceInv

\* The processors and Redis.
LEMMA TraceRead ==
    ASSUME TraceInv, Typed', LoseRedis \/ \E g \in Groups : Handle(g) \/ EnsureConsumerGroup(g)
    PROVE  TraceInv'
<1>0. /\ at \in [Groups -> None..Len(log)] /\ floor \in 0..Len(log) /\ Len(log) \in Nat
      /\ log \in Seq(Event) /\ rows \in [Tables -> SUBSET Event]
      /\ RowsTraceable /\ Deleted /\ InTurn
  BY TraceFacts
<1>1. CASE LoseRedis
  <2>1. /\ UNCHANGED <<log, rows, headers, step, fetched, level, cascade, late, stray, handled>>
        /\ floor' = Len(log)
    BY <1>1 DEF LoseRedis, storeVars, scanVars, headVars
  <2>2. \A g \in Groups, i \in Nat : ~Ahead(g, i)'
    BY <1>0, <2>1 DEF Ahead
  <2> QED
    BY <1>0, <2>1, <2>2 DEF TraceInv, RowsTraceable, Deleted, InTurn, Traceable, Headed, Past
<1>2. ASSUME NEW g \in Groups, EnsureConsumerGroup(g) PROVE TraceInv'
  <2>1. /\ UNCHANGED <<log, floor, rows, headers, step, fetched, level, cascade, late, stray, handled>>
        /\ at[g] = None /\ at' = [at EXCEPT ![g] = 0]
    BY <1>2 DEF EnsureConsumerGroup, CreatedAt, storeVars, scanVars, headVars, history
  <2>2. \A h \in Groups, i \in Nat : Ahead(h, i)' <=> Ahead(h, i)
    BY <1>0, <2>1 DEF Ahead, None
  <2> QED
    BY <1>0, <2>1, <2>2 DEF TraceInv, RowsTraceable, Deleted, InTurn, Traceable, Headed, Past
<1>3. ASSUME NEW g \in Groups, Handle(g) PROVE TraceInv'
  <2> DEFINE i == IF at[g] < floor THEN floor + 1 ELSE at[g] + 1
  <2>1. /\ i <= Len(log)
        /\ rows' = [t \in Tables |-> IF t \in Writes(g) THEN rows[t] \cup {log[i]} ELSE rows[t]]
        /\ at' = [at EXCEPT ![g] = i]
        /\ handled' = handled \cup {<<g, i>>}
        /\ UNCHANGED <<log, floor, headers, step, fetched, level, cascade, late, stray>>
    BY <1>3 DEF Handle, storeVars, scanVars, headVars
  <2>2. i \in Nat /\ Ahead(g, i) /\ i >= at[g]
    BY <1>0, <2>1 DEF Ahead, None
  <2> HIDE DEF i
  <2>3. \A h \in Groups, j \in Nat : Ahead(h, j)' => Ahead(h, j)
    <3> SUFFICES ASSUME NEW h \in Groups, NEW j \in Nat, Ahead(h, j)' PROVE Ahead(h, j)
      OBVIOUS
    <3>1. CASE h = g
      <4>1. at'[g] = i /\ at[g] \in Int
        BY <1>0, <2>1 DEF None
      <4> QED
        BY <1>0, <2>1, <2>2, <3>1, <4>1 DEF Ahead
    <3>2. CASE h # g
      BY <1>0, <2>1, <3>2 DEF Ahead
    <3> QED
      BY <3>1, <3>2
  <2>4. ~(i > at'[g])
    <3>1. at'[g] = i
      BY <1>0, <2>1
    <3> QED
      BY <2>2, <3>1
  <2>5. \A t \in Traced : \A e \in rows'[t] : e \in rows[t] \/ (t \in Writes(g) /\ e = log[i])
    BY <1>0, <2>1 DEF Traced, Tables
  <2>6. \A t \in Traced, e \in Event : Traceable(t, e) => Traceable(t, e)'
    BY <2>1 DEF Traceable, Headed
  <2>6a. \A t \in Traced : t \in Writes(g) => Traceable(t, log[i])
    BY <1>0, <2>2 DEF RowsTraceable
  <2>7. log[i] \in Event /\ \A t \in Traced : rows[t] \subseteq Event
    BY <1>0, <2>2 DEF Ahead, Traced, Tables
  <2>8. RowsTraceable'
    <3>1. ASSUME NEW t \in Traced, NEW e \in rows'[t] PROVE Traceable(t, e)'
      <4>1. Traceable(t, e) /\ e \in Event
        BY <1>0, <2>5, <2>6a, <2>7, <3>1 DEF RowsTraceable
      <4> QED
        BY <2>6, <4>1
    <3>2. ASSUME NEW t \in Traced, NEW h \in Groups, t \in Writes(h), NEW j \in Nat, Ahead(h, j)'
          PROVE  Traceable(t, log[j])'
      <4>1. Ahead(h, j) /\ log[j] \in Event
        BY <1>0, <2>3, <3>2 DEF Ahead
      <4> QED
        BY <1>0, <2>1, <2>6, <3>2, <4>1 DEF RowsTraceable
    <3> QED
      BY <2>1, <3>1, <3>2 DEF RowsTraceable
  <2>9. Deleted'
    <3> SUFFICES ASSUME step = "delete", NEW t \in Traced, Past(cascade, t)
                 PROVE  /\ \A e \in rows'[t] : e[1] > level => <<t, e>> \in late
                        /\ \A h \in Groups : t \in Writes(h) =>
                              \A j \in Nat : Ahead(h, j)' /\ log[j][1] > level => <<t, log[j]>> \in late
      BY <2>1 DEF Deleted, Past
    <3>1. /\ \A e \in rows[t] : e[1] > level => <<t, e>> \in late
          /\ \A h \in Groups : t \in Writes(h) =>
                \A j \in Nat : Ahead(h, j) /\ log[j][1] > level => <<t, log[j]>> \in late
      BY <1>0 DEF Deleted
    <3>2. \A e \in rows'[t] : e[1] > level => <<t, e>> \in late
      BY <2>2, <2>5, <3>1
    <3> QED
      BY <2>3, <3>1, <3>2
  <2>10. InTurn'
    <3> SUFFICES ASSUME NEW h \in Groups, NEW j \in Nat, <<h, j>> \in handled'
                 PROVE  j <= Len(log) /\ ~Ahead(h, j)'
      BY <2>1 DEF InTurn
    <3>1. CASE <<h, j>> \in handled
      BY <1>0, <2>3, <3>1 DEF InTurn
    <3>2. CASE h = g /\ j = i
      BY <2>1, <2>4, <3>2 DEF Ahead
    <3> QED
      BY <2>1, <3>1, <3>2
  <2> QED
    BY <2>8, <2>9, <2>10 DEF TraceInv
<1> QED
  BY <1>1, <1>2, <1>3

\* The scanner's steps that neither publish nor delete.
LEMMA TraceScan ==
    ASSUME TraceInv, Typed',
           \/ Mine \/ \E n \in 0..MaxHeight : Reorg(n)
           \/ Verify \/ ReplayThrows \/ CatchUp \/ StoreHeaders
           \/ NewHead \/ CheckParent \/ Backtrace \/ Rewind
           \/ FetchLogs \/ RecordPublishLedger \/ InsertBlockHeader \/ WriteCheckpoint
           \/ HeadThrows \/ Crash \/ UNCHANGED vars
    PROVE  TraceInv'
<1> DEFINE Working == {"ledger", "header", "checkpoint"}
           Stays == /\ UNCHANGED <<log, floor, at, rows, handled, late>>
                    /\ headers \subseteq headers' /\ stray \subseteq stray'
                    /\ step \in Working =>
                          \A e \in fetched : Headed(e)' \/ e \in stray'
                                                \/ (step' \in Working /\ e \in fetched')
                    /\ step' = "delete" => \/ UNCHANGED <<step, level, cascade>>
                                           \/ Head(cascade') = "trades"
<1>1. ASSUME Stays PROVE TraceInv'
  <2>1. \A e \in Event : Headed(e) => Headed(e)'
    BY <1>1 DEF Headed
  <2>2. \A t \in Traced, e \in Event : Traceable(t, e) => Traceable(t, e)'
    BY <1>1, <2>1 DEF Traceable
  <2> QED
    BY <1>1, <2>2, TraceKept
<1>2. CASE Mine \/ \E n \in 0..MaxHeight : Reorg(n)
  <2>1. Stays
    BY <1>2 DEF Mine, Reorg, streamVars, storeVars, scanVars, headVars, history, Headed
  <2> QED
    BY <1>1, <2>1
<1>3. CASE Verify \/ CatchUp
  <2>1. /\ UNCHANGED <<log, floor, at, rows, handled, late, headers, stray>>
        /\ step \in {"down", "start"} /\ step' # "delete"
    BY <1>3 DEF Verify, CatchUp, NextReplay, NextBatch, streamVars, storeVars, history
  <2>2. Stays
    BY <2>1
  <2> QED
    BY <1>1, <2>2
<1>4. CASE ReplayThrows
  <2>1. /\ UNCHANGED <<log, floor, at, rows, handled, late, headers>> /\ step' # "delete"
        /\ step \in {"logs", "publish", "ledger"}
        /\ IF step = "ledger" THEN stray' = stray \cup {e \in fetched : ~Headed(e)}
                              ELSE stray' = stray
    BY <1>4 DEF ReplayThrows, GiveUp, Leave, NextReplay, streamVars, storeVars
  <2>2. Stays
    BY <2>1 DEF Headed
  <2> QED
    BY <1>1, <2>2
<1>5. CASE StoreHeaders \/ NewHead \/ CheckParent \/ FetchLogs
  <2>1. /\ UNCHANGED <<log, floor, at, rows, handled, late, stray>> /\ headers \subseteq headers'
        /\ step \in {"headers", "idle", "parent", "logs"} /\ step' # "delete"
    BY <1>5 DEF StoreHeaders, NewHead, CheckParent, FetchLogs, NextBlock, streamVars, storeVars,
                history
  <2>2. Stays
    BY <2>1
  <2> QED
    BY <1>1, <2>2
<1>6. CASE Backtrace
  <2>1. /\ UNCHANGED <<log, floor, at, rows, handled, late, headers, stray>>
        /\ step = "backtrace"
        /\ step' = "backtrace" \/ cascade' = <<"trades", "candles", "positions", "fees", "headers", "checkpoint">>
    BY <1>6 DEF Backtrace, Cascade, streamVars, storeVars, history
  <2>2. Head(<<"trades", "candles", "positions", "fees", "headers", "checkpoint">>) = "trades"
    OBVIOUS
  <2>3. Stays
    BY <2>1, <2>2
  <2> QED
    BY <1>1, <2>3
<1>7. CASE Rewind
  <2>1. /\ UNCHANGED <<log, floor, at, rows, handled, late, headers, stray>>
        /\ step = "delete" /\ step' # "delete"
    BY <1>7 DEF Rewind, NextBlock, streamVars, history
  <2>2. Stays
    BY <2>1
  <2> QED
    BY <1>1, <2>2
<1>8. CASE RecordPublishLedger
  <2>1. /\ UNCHANGED <<log, floor, at, rows, handled, late, headers>> /\ step' # "delete"
        /\ \/ stray' = stray \cup {e \in fetched : ~Headed(e)}
           \/ stray' = stray /\ fetched' = fetched /\ step' \in {"checkpoint", "header"}
    BY <1>8 DEF RecordPublishLedger, Leave, NextReplay, streamVars
  <2>2. Stays
    BY <2>1 DEF Headed
  <2> QED
    BY <1>1, <2>2
<1>9. CASE InsertBlockHeader
  <2>1. /\ UNCHANGED <<log, floor, at, rows, handled, late, stray, fetched>> /\ headers \subseteq headers'
        /\ step' = "checkpoint"
    BY <1>9 DEF InsertBlockHeader, Insert, streamVars, history
  <2>2. Stays
    BY <2>1
  <2> QED
    BY <1>1, <2>2
<1>10. CASE WriteCheckpoint
  <2>1. /\ UNCHANGED <<log, floor, at, rows, handled, late, headers>> /\ step' # "delete"
        /\ stray' = stray \cup {e \in fetched : ~Headed(e)}
    BY <1>10 DEF WriteCheckpoint, Leave, NextBatch, NextBlock, streamVars
  <2>2. Stays
    BY <2>1 DEF Headed
  <2> QED
    BY <1>1, <2>2
<1>11. CASE HeadThrows \/ Crash
  <2>1. /\ UNCHANGED <<log, floor, at, rows, handled, late, headers>> /\ step' # "delete"
        /\ \/ stray' = stray \cup {e \in fetched : ~Headed(e)}
           \/ stray' = stray /\ step \in {"logs", "publish"}
    BY <1>11 DEF HeadThrows, Crash, GiveUp, Leave, NextBlock, streamVars, storeVars
  <2>2. Stays
    BY <2>1 DEF Headed
  <2> QED
    BY <1>1, <2>2
<1>12. CASE UNCHANGED vars
  <2>1. Stays
    BY <1>12 DEF vars, streamVars, storeVars, scanVars, headVars, history, Headed
  <2> QED
    BY <1>1, <2>1
<1> QED
  BY <1>2, <1>3, <1>4, <1>5, <1>6, <1>7, <1>8, <1>9, <1>10, <1>11, <1>12

\* What is published is at work on until its header is stored.
LEMMA TracePublish == ASSUME TraceInv, Typed', Publish PROVE TraceInv'
<1>0. /\ at \in [Groups -> None..Len(log)] /\ floor \in 0..Len(log) /\ Len(log) \in Nat
      /\ log \in Seq(Event) /\ rows \in [Tables -> SUBSET Event] /\ fetched \subseteq Event
      /\ RowsTraceable /\ InTurn
  BY TraceFacts
<1>1. PICK s \in InOrder(fetched) : log' = log \o s
  BY DEF Publish
<1>2. /\ s \in Seq(fetched) /\ Len(s) \in Nat
  BY <1>1, InOrderTyped
<1>3. /\ s \in Seq(Event)
      /\ \A i \in 1..Len(s) : s[i] \in fetched
  BY <1>0, <1>2
<1>4. /\ Len(log') = Len(log) + Len(s)
      /\ \A i \in 1..Len(log) : log'[i] = log[i]
      /\ \A i \in (Len(log) + 1)..(Len(log) + Len(s)) : log'[i] = s[i - Len(log)]
  BY <1>0, <1>1, <1>3, ConcatProperties
<1>5. \A i \in 1..Len(log') : i <= Len(log) \/ log'[i] \in fetched
  <2> SUFFICES ASSUME NEW i \in 1..Len(log'), ~(i <= Len(log)) PROVE log'[i] \in fetched
    OBVIOUS
  <2>1. i \in (Len(log) + 1)..(Len(log) + Len(s)) /\ i - Len(log) \in 1..Len(s)
    BY <1>0, <1>2, <1>4
  <2> QED
    BY <1>3, <1>4, <2>1
<1>6. /\ UNCHANGED <<at, rows, headers, fetched, late, stray, handled>>
      /\ step = "publish" /\ step' = "ledger"
      /\ floor' \in floor..Len(log')
  BY DEF Publish, storeVars
<1>7. \A t \in Traced, e \in Event : Traceable(t, e) \/ e \in fetched => Traceable(t, e)'
  BY <1>6 DEF Traceable, Headed
<1>8. \A g \in Groups, i \in Nat : Ahead(g, i)' => Ahead(g, i) \/ (i > Len(log) /\ log'[i] \in fetched)
  BY <1>0, <1>4, <1>5, <1>6 DEF Ahead
<1>9. RowsTraceable'
  <2>1. ASSUME NEW t \in Traced, NEW e \in rows'[t] PROVE Traceable(t, e)'
    <3>1. e \in Event /\ Traceable(t, e)
      BY <1>0, <1>6, <2>1 DEF RowsTraceable, Traced, Tables
    <3> QED
      BY <1>7, <3>1
  <2>2. ASSUME NEW t \in Traced, NEW g \in Groups, t \in Writes(g), NEW i \in Nat, Ahead(g, i)'
        PROVE  Traceable(t, log[i])'
    <3>1. CASE Ahead(g, i)
      <4>1. log'[i] = log[i] /\ log[i] \in Event
        BY <1>0, <1>4, <3>1 DEF Ahead
      <4> QED
        BY <1>0, <1>7, <2>2, <3>1, <4>1 DEF RowsTraceable
    <3>2. CASE log'[i] \in fetched
      BY <1>0, <1>7, <3>2
    <3> QED
      BY <1>8, <2>2, <3>1, <3>2
  <2> QED
    BY <2>1, <2>2 DEF RowsTraceable
<1>10. Deleted'
  BY <1>6 DEF Deleted
<1>11. InTurn'
  BY <1>0, <1>2, <1>4, <1>6, <1>8 DEF InTurn
<1> QED
  BY <1>9, <1>10, <1>11 DEF TraceInv

\* What one delete of the cascade adds to the tables it is past.
LEMMA PastStep ==
    ASSUME NEW c \in CascadesLeft, Head(c) \in Tables, NEW t \in Traced, Past(Tail(c), t)
    PROVE  Past(c, t) \/ t = Head(c)
<1>1. CASE c = <<"trades", "candles", "positions", "fees", "headers", "checkpoint">>
  BY <1>1 DEF Past, Traced
<1>2. CASE c = <<"candles", "positions", "fees", "headers", "checkpoint">>
  BY <1>2 DEF Past, Traced
<1>3. CASE c = <<"positions", "fees", "headers", "checkpoint">>
  BY <1>3 DEF Past, Traced
<1>4. CASE c = <<"fees", "headers", "checkpoint">>
  BY <1>4 DEF Past, Traced
<1>5. CASE c = <<"headers", "checkpoint">>
  BY <1>5 DEF Past, Traced
<1>6. CASE c = <<"checkpoint">>
  BY <1>6 DEF Past, Traced, Tables
<1> QED
  BY <1>1, <1>2, <1>3, <1>4, <1>5, <1>6 DEF CascadesLeft

\* The deletes of rows leave none above the ancestor, now or later, but late
\* ones.
LEMMA TraceDeleteRows == ASSUME TraceInv, Typed', DeleteRows PROVE TraceInv'
<1>0. /\ Len(log) \in Nat /\ log \in Seq(Event) /\ rows \in [Tables -> SUBSET Event]
      /\ RowsTraceable /\ Deleted /\ InTurn
  BY TraceFacts
<1> DEFINE d == Head(cascade)
<1>1. /\ step = "delete" /\ d \in Tables
      /\ rows' = [rows EXCEPT ![d] = @ \ Doomed(d)]
      /\ late' = late \cup ({d} \X {e \in Unhandled(d) : e[1] > level})
      /\ cascade' = Tail(cascade)
      /\ UNCHANGED <<log, floor, at, headers, step, fetched, level, handled, stray>>
  BY DEF DeleteRows, streamVars, storeVars
<1>2. \A t \in Tables : rows'[t] \subseteq rows[t]
  BY <1>0, <1>1
<1>3. \A g \in Groups, i \in Nat : Ahead(g, i)' <=> Ahead(g, i)
  BY <1>1 DEF Ahead
<1>4. \A t \in Traced, e \in Event : Traceable(t, e) => Traceable(t, e)'
  BY <1>1 DEF Traceable, Headed
<1>5. \A t \in Traced : rows[t] \subseteq Event /\ t \in Tables
  BY <1>0 DEF Traced, Tables
<1>6. \A g \in Groups, i \in Nat : Ahead(g, i) => log[i] \in Event /\ i \in DOMAIN log
  BY <1>0 DEF Ahead
<1>7. RowsTraceable'
  BY <1>0, <1>1, <1>2, <1>3, <1>4, <1>5, <1>6 DEF RowsTraceable
<1>8. InTurn'
  BY <1>0, <1>1, <1>3 DEF InTurn
<1>9. Deleted'
  <2> SUFFICES ASSUME NEW t \in Traced, Past(Tail(cascade), t)
               PROVE  /\ \A e \in rows'[t] : e[1] > level => <<t, e>> \in late'
                      /\ \A g \in Groups : t \in Writes(g) =>
                            \A i \in Nat : Ahead(g, i) /\ log[i][1] > level => <<t, log[i]>> \in late'
    BY <1>1, <1>3 DEF Deleted
  <2>1. CASE Past(cascade, t)
    <3>1. /\ \A e \in rows[t] : e[1] > level => <<t, e>> \in late
          /\ \A g \in Groups : t \in Writes(g) =>
                \A i \in Nat : Ahead(g, i) /\ log[i][1] > level => <<t, log[i]>> \in late
      BY <1>0, <1>1, <2>1 DEF Deleted
    <3>2. rows'[t] \subseteq rows[t] /\ late \subseteq late'
      BY <1>1, <1>2, <1>5
    <3> QED
      BY <3>1, <3>2
  <2>2. CASE t = d
    <3>1. \A e \in rows'[t] : ~(e[1] > level)
      BY <1>0, <1>1, <1>5, <2>2 DEF Doomed, Traced
    <3>2. ASSUME NEW g \in Groups, t \in Writes(g), NEW i \in Nat, Ahead(g, i), log[i][1] > level
          PROVE  <<t, log[i]>> \in late'
      <4>1. <<g, i>> \notin handled /\ i \in DOMAIN log
        BY <1>0, <1>6, <3>2 DEF InTurn
      <4>2. log[i] \in Unhandled(t)
        BY <3>2, <4>1 DEF Unhandled
      <4> QED
        BY <1>1, <2>2, <3>2, <4>2
    <3> QED
      BY <3>1, <3>2
  <2>3. cascade \in CascadesLeft
    BY <1>1 DEF TraceInv, Typed, CascadeShape
  <2> QED
    BY <1>1, <2>1, <2>2, <2>3, PastStep
<1> QED
  BY <1>7, <1>8, <1>9 DEF TraceInv

\* So the headers above it are not missed.
LEMMA TraceDeleteHeaders == ASSUME TraceInv, Typed', DeleteHeaders PROVE TraceInv'
<1>0. /\ log \in Seq(Event) /\ rows \in [Tables -> SUBSET Event] /\ level \in Nat
      /\ RowsTraceable /\ Deleted /\ InTurn
  BY TraceFacts
<1>1. /\ step = "delete" /\ Head(cascade) = "headers" /\ cascade' = Tail(cascade)
      /\ headers' = {h \in headers : h.number <= level}
      /\ UNCHANGED <<log, floor, at, rows, step, fetched, level, handled, late, stray>>
  BY DEF DeleteHeaders, Kept, streamVars, history
<1>2. \A t \in Traced : Past(cascade, t)
  BY <1>1 DEF Past, Traced
<1>3. \A g \in Groups, i \in Nat : Ahead(g, i)' <=> Ahead(g, i)
  BY <1>1 DEF Ahead
<1>4. \A t \in Traced, e \in Event : Traceable(t, e) /\ (e[1] > level => <<t, e>> \in late)
                                        => Traceable(t, e)'
  <2> SUFFICES ASSUME NEW t \in Traced, NEW e \in Event, Traceable(t, e),
                      e[1] > level => <<t, e>> \in late, <<t, e>> \notin late, e \notin stray
               PROVE  Headed(e)'
    BY <1>1 DEF Traceable
  <2>1. e[1] \in Int
    BY DEF Event, Heights
  <2>2. Headed(e) /\ e[1] <= level
    BY <1>0, <1>1, <2>1 DEF Traceable
  <2> QED
    BY <1>1, <2>2 DEF Headed
<1>5. \A t \in Traced : rows[t] \subseteq Event
  BY <1>0 DEF Traced, Tables
<1>6. \A g \in Groups, i \in Nat : Ahead(g, i) => log[i] \in Event
  BY <1>0 DEF Ahead
<1>7. \A t \in Traced :
          /\ \A e \in rows[t] : e[1] > level => <<t, e>> \in late
          /\ \A g \in Groups : t \in Writes(g) =>
                \A i \in Nat : Ahead(g, i) /\ log[i][1] > level => <<t, log[i]>> \in late
  BY <1>0, <1>1, <1>2 DEF Deleted
<1>8. RowsTraceable'
  BY <1>0, <1>1, <1>3, <1>4, <1>5, <1>6, <1>7 DEF RowsTraceable
<1>9. Deleted'
  BY <1>1, <1>3, <1>7 DEF Deleted
<1>10. InTurn'
  BY <1>0, <1>1, <1>3 DEF InTurn
<1> QED
  BY <1>8, <1>9, <1>10 DEF TraceInv

\* Every step keeps the invariant.
LEMMA TraceStep == TraceInv /\ [Next]_vars => TraceInv'
<1> SUFFICES ASSUME TraceInv, [Next]_vars PROVE TraceInv'
  OBVIOUS
<1>1. Typed'
  BY TypedStep DEF TraceInv
<1> QED
  BY <1>1, TraceRead, TraceScan, TracePublish, TraceDeleteRows, TraceDeleteHeaders DEF Next

\* OrphansTraceable: the order of the cascade leaves no trade or fee of an
\* orphaned block without its header, except those it names.
THEOREM OrphansAreTraceable == Spec => []OrphansTraceable
<1>1. Spec => []TraceInv
  BY TraceInit, TraceStep, PTL DEF Spec
<1>2. TraceInv => OrphansTraceable
  <2> SUFFICES ASSUME TraceInv, NEW t \in Traced, NEW e \in rows[t]
               PROVE  Headed(e) \/ <<t, e>> \in late \/ e \in stray \/ e \in fetched
    BY DEF OrphansTraceable, Traced
  <2> QED
    BY DEF TraceInv, RowsTraceable, Traceable
<1> QED
  BY <1>1, <1>2, PTL
=============================================================================

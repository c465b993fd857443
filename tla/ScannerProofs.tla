---------------------------- MODULE ScannerProofs ----------------------------
(***************************************************************************)
(* Proofs about Scanner for any number of activations, any batch size,     *)
(* start block and cap on pendingBlocks, and any number of reorgs, heads,  *)
(* faults and crashes.                                                     *)
(***************************************************************************)
EXTENDS Scanner, FiniteSetTheorems, TLAPS

(* The inductive invariant.                                                *)

\* Steps of a batch, of a recovery, and of recording what was published.
Batching == {"headers", "logs", "publish", "ledger", "checkpoint"}
Recovering == {"backtrace", "delete", "rewind"}
Recording == {"ledger", "header", "checkpoint"}

\* What the scanner holds, has been announced.
Announced ==
    /\ from >= 1
    /\ \A b \in pendingBlocks : b.number <= lastSeen /\ b.number <= Len(chain)
    /\ \A a \in Activations : \A b \in todo[a] : b.number <= lastSeen /\ b.number <= Len(chain)

\* Nothing is under way on the live path before the subscription.
Silent ==
    pc # "live" => /\ pendingBlocks = {}
                   /\ \A a \in Activations : step[a] = "idle" /\ todo[a] = {}

\* A batch begins below the head.
Bounded == pc \in Batching => from <= head

\* Recovery goes down from an announced block.
Descending == \A a \in Activations : step[a] \in Recovering => level[a] <= lastSeen

\* What is caught up or announced is on the chain, or below the start block.
Inside ==
    /\ from <= Len(chain) + 1 \/ from <= StartBlock
    /\ lastSeen <= Len(chain) \/ lastSeen < StartBlock

\* The types, with all of these.
Typed == TypeOK /\ Announced /\ Silent /\ Bounded /\ Descending /\ Inside

\* The chain's block is published, its number still held, or it is given up
\* for a reason.
Accounted(n) ==
    \/ n < StartBlock
    \/ <<n, chain[n]>> \in published
    \/ n \in Numbers(pendingBlocks)
    \/ \E r \in Reasons : <<n, r>> \in gaps

\* So is every block the catch-up has behind it, and then every block up to
\* the last one announced.
CaughtUp == pc # "down" => \A n \in 1..(from - 1) : Accounted(n)
\* Once live, every block announced is.
Followed == pc = "live" => \A n \in 1..lastSeen : Accounted(n)

\* The batch is fetched in whole before it is published, and published
\* before it is recorded.
BatchPublished ==
    /\ pc \in {"publish", "ledger", "checkpoint"} =>
          \A n \in from..BatchEnd(from, head) : \E e \in fetched : e[1] = n
    /\ pc \in {"ledger", "checkpoint"} => fetched \subseteq published

\* So is a block.
BlockPublished ==
    \A a \in Activations : \A b \in todo[a] :
        step[a] \in Recording /\ Working(a, b) => <<b.number, logs[a]>> \in published

\* The invariant behind HolesAccounted and AdvanceAfterPublish.
Inv == Typed /\ HolesAccounted /\ CaughtUp /\ Followed /\ BatchPublished /\ BlockPublished

-----------------------------------------------------------------------------
(* Type correctness.                                                       *)

\* Blocks of the chain are blocks.
LEMMA HeaderTyped ==
    ASSUME TypeOK, NEW n \in 1..Len(chain)
    PROVE  HeaderAt(n) \in Block /\ HeaderAt(n).number = n
<1>1. n \in Heights /\ chain[n] \in Hashes /\ 0 \in Hashes
  BY ScannerAssumption DEF TypeOK, Heights, Hashes
<1>2. n # 1 => chain[n - 1] \in Hashes
  BY DEF TypeOK
<1> QED
  BY <1>1, <1>2 DEF HeaderAt, Block

\* The last block of a batch.
LEMMA BatchEndTyped ==
    ASSUME NEW n \in Nat, NEW m \in Nat, n <= m
    PROVE  BatchEnd(n, m) \in n..m
  BY ScannerAssumption DEF BatchEnd

\* The current batch lies within the chain.
LEMMA BatchInside ==
    ASSUME Typed, pc \in Batching
    PROVE  /\ from \in Nat /\ from >= 1 /\ head \in Nat /\ head <= Len(chain) /\ head <= MaxHeight
           /\ Len(chain) \in Nat
           /\ BatchEnd(from, head) \in from..head
           /\ BatchEnd(from, head) \in Heights
<1>1. /\ from \in Nat /\ from >= 1 /\ from <= head
  BY DEF Typed, TypeOK, Announced, Bounded
<1>2. chain \in Seq(Hashes) /\ head \in 0..Len(chain) /\ Len(chain) <= MaxHeight
  BY DEF Typed, TypeOK
<1>3. /\ head \in Nat /\ Len(chain) \in Nat /\ head <= MaxHeight
  BY <1>2, ScannerAssumption
<1>4. BatchEnd(from, head) \in from..head
  BY <1>1, <1>3, BatchEndTyped
<1>5. BatchEnd(from, head) \in Heights
  BY <1>1, <1>3, <1>4, ScannerAssumption DEF Heights
<1> QED
  BY <1>1, <1>2, <1>3, <1>4, <1>5

\* Types hold at the start.
LEMMA TypedInit == Init => Typed
<1> SUFFICES ASSUME Init PROVE Typed
  OBVIOUS
<1> USE ScannerAssumption
<1>1. /\ chain \in Seq(Hashes) /\ Len(chain) = 0 /\ DOMAIN chain = {}
  BY DEF Init
<1>2. /\ step \in [Activations -> LiveSteps]
      /\ todo \in [Activations -> SUBSET Block]
      /\ level \in [Activations -> 0..Len(chain)]
      /\ logs \in [Activations -> Hashes]
  BY <1>1 DEF Init, LiveSteps, Hashes
<1>3. /\ head \in 0..Len(chain) /\ \A n \in DOMAIN chain : chain[n] <= reorgs
      /\ toStore \in SUBSET (1..Len(chain))
  BY <1>1 DEF Init
<1>4. TypeOK
  <2>1. /\ pc = "down" /\ from = 1 /\ fetched = {} /\ pendingBlocks = {} /\ headers = {}
        /\ checkpoint = 0 /\ published = {} /\ ledger = {} /\ lastSeen = 0 /\ gaps = {}
        /\ unheaded = {} /\ overlapped = FALSE /\ interrupted = FALSE
        /\ reorgs = 0 /\ heads = 0 /\ faults = 0 /\ crashes = 0
    BY DEF Init
  <2>2. /\ from \in Nat /\ lastSeen \in Nat /\ checkpoint \in 0..Len(chain)
        /\ reorgs \in 0..MaxReorgs /\ heads \in 0..MaxHeads /\ faults \in 0..MaxFaults
        /\ crashes \in 0..MaxCrashes /\ Len(chain) <= MaxHeight
    BY <1>1, <2>1
  <2> QED
    BY <1>1, <1>2, <1>3, <2>1, <2>2 DEF TypeOK, StartSteps
<1> QED
  BY <1>1, <1>4 DEF Init, Typed, Announced, Silent, Bounded, Descending, Inside, Batching, Recovering

\* The chain grows or changes, nothing gets shorter.
LEMMA TypedChain ==
    ASSUME Typed, Mine \/ \E n \in 0..MaxHeight : Reorg(n)
    PROVE  Typed'
<1> USE ScannerAssumption
<1>1. /\ chain' \in Seq(Hashes) /\ Len(chain') <= MaxHeight /\ Len(chain') >= Len(chain)
      /\ \A n \in DOMAIN chain' : chain'[n] <= reorgs'
      /\ reorgs' \in 0..MaxReorgs
      /\ gaps' \in SUBSET (Heights \X Reasons)
      /\ UNCHANGED <<startVars, liveVars, storeVars, lastSeen, unheaded, overlapped, interrupted, budget>>
  <2>1. CASE Mine
    BY <2>1 DEF Mine, Typed, TypeOK, Hashes, history
  <2>2. ASSUME NEW n \in 0..MaxHeight, Reorg(n) PROVE <1>1!:
    <3>1. /\ chain' \in Seq(Hashes) /\ Len(chain') <= MaxHeight /\ Len(chain') >= Len(chain)
          /\ \A i \in DOMAIN chain' : chain'[i] <= reorgs'
          /\ reorgs' \in 0..MaxReorgs
      BY <2>2 DEF Reorg, Typed, TypeOK, Hashes
    <3>2. \A i \in (n + 1)..Len(chain) : <<i, "replaced">> \in Heights \X Reasons
      BY DEF Typed, TypeOK, Heights, Reasons
    <3>3. gaps' \in SUBSET (Heights \X Reasons)
      BY <2>2, <3>2 DEF Reorg, Typed, TypeOK
    <3> QED
      BY <2>2, <3>1, <3>3 DEF Reorg
  <2> QED
    BY <2>1, <2>2
<1>2. TypeOK'
  <2>1. /\ head' \in 0..Len(chain') /\ toStore' \in SUBSET (1..Len(chain'))
        /\ checkpoint' \in 0..Len(chain')
    BY <1>1 DEF Typed, TypeOK, startVars, storeVars
  <2>2. level' \in [Activations -> 0..Len(chain')]
    BY <1>1 DEF Typed, TypeOK, liveVars
  <2> QED
    BY <1>1, <2>1, <2>2 DEF Typed, TypeOK, startVars, liveVars, storeVars, budget
<1>3. Announced' /\ Inside'
  BY <1>1 DEF Typed, TypeOK, Announced, Inside, startVars, liveVars, Block, Heights
<1> QED
  BY <1>1, <1>2, <1>3
  DEF Typed, Silent, Bounded, Descending, startVars, liveVars, storeVars

\* A step of start().
LEMMA TypedStart == ASSUME Typed, StartUp PROVE Typed'
<1> USE ScannerAssumption
<1>1. CASE ResolveStartBlock
  BY <1>1 DEF ResolveStartBlock, Typed, TypeOK, Announced, Silent, Bounded, Descending, Inside, Batching,
              StartSteps, chainVars, liveVars, storeVars, history, budget
<1>2. CASE ReadHead
  <2>1. /\ pc' \in {"headers", "subscribe"} /\ toStore' \in SUBSET (1..Len(chain))
        /\ pc' = "headers" => from <= head'
        /\ head' \in 0..Len(chain)
    <3>1. CASE from < Len(chain)
      <4>1. from <= Len(chain) => BatchEnd(from, Len(chain)) \in from..Len(chain)
        BY BatchEndTyped DEF Typed, TypeOK
      <4> QED
        BY <1>2, <3>1, <4>1 DEF ReadHead, BeginBatch, Typed, TypeOK, Announced
    <3> QED
      BY <1>2, <3>1 DEF ReadHead, Typed, TypeOK
  <2> QED
    BY <1>2, <2>1 DEF ReadHead, Typed, TypeOK, Announced, Silent, Bounded, Descending, Inside, Batching,
              StartSteps, chainVars, liveVars, storeVars, history, budget
<1>3. ASSUME NEW n \in Heights, StoreHeader(n) PROVE Typed'
  <2>1. HeaderAt(n) \in Block
    BY <1>3, HeaderTyped DEF StoreHeader, Typed, TypeOK
  <2>2. headers' \in SUBSET Block
    BY <1>3, <2>1 DEF StoreHeader, Insert, Typed, TypeOK
  <2> QED
    BY <1>3, <2>2 DEF StoreHeader, Typed, TypeOK, Announced, Silent, Bounded, Descending, Inside, Batching,
              StartSteps, chainVars, liveVars, history, budget
<1>4. CASE FetchBatch
  <2>1. \A n \in from..BatchEnd(from, head) : n \in Heights /\ chain[n] \in Hashes
    <3> SUFFICES ASSUME NEW n \in from..BatchEnd(from, head) PROVE n \in Heights /\ chain[n] \in Hashes
      OBVIOUS
    <3>1. /\ from \in Nat /\ from >= 1 /\ head <= Len(chain) /\ head <= MaxHeight /\ Len(chain) \in Nat
          /\ head \in Nat /\ BatchEnd(from, head) \in from..head
      BY <1>4, BatchInside DEF FetchBatch, Batching
    <3>2. n \in 1..MaxHeight /\ n \in 1..Len(chain)
      BY <3>1
    <3> QED
      BY <3>2 DEF Typed, TypeOK, Heights
  <2>2. fetched' \in SUBSET (Heights \X Hashes)
    BY <1>4, <2>1 DEF FetchBatch
  <2> QED
    BY <1>4, <2>2 DEF FetchBatch, Typed, TypeOK, Announced, Silent, Bounded, Descending, Inside, Batching,
              StartSteps, chainVars, liveVars, storeVars, history, budget
<1>5. CASE PublishBatch
  BY <1>5 DEF PublishBatch, Typed, TypeOK, Announced, Silent, Bounded, Descending, Inside, Batching,
              StartSteps, chainVars, liveVars, history, budget
<1>6. CASE RecordBatch
  <2>1. BatchEnd(from, head) \in Heights
    BY <1>6, BatchInside DEF RecordBatch, Batching
  <2> QED
    BY <1>6, <2>1 DEF RecordBatch, Typed, TypeOK, Announced, Silent, Bounded, Descending, Inside, Batching,
              StartSteps, chainVars, liveVars, history, budget
<1>7. CASE CheckpointBatch
  <2>1. /\ BatchEnd(from, head) \in from..head /\ head \in Nat /\ head <= Len(chain)
        /\ Len(chain) \in Nat /\ Len(chain) <= MaxHeight /\ from >= 1
    BY <1>7, BatchInside DEF CheckpointBatch, Batching, Typed, TypeOK
  <2>2. from' <= head => BatchEnd(from', head) \in from'..head
    <3>1. from' \in Nat
      BY <1>7, <2>1 DEF CheckpointBatch, Typed, TypeOK
    <3> QED
      BY <2>1, <3>1, BatchEndTyped
  <2>3. /\ from' = BatchEnd(from, head) + 1 /\ checkpoint' = BatchEnd(from, head)
        /\ BeginBatch(from', head)
    BY <1>7 DEF CheckpointBatch
  <2>4. /\ checkpoint' \in 0..Len(chain) /\ from' \in Nat /\ from' >= 1
        /\ from' <= Len(chain) + 1
    BY <2>1, <2>3 DEF Typed, TypeOK, Announced
  <2>5. /\ pc' \in {"headers", "subscribe"}
        /\ pc' = "headers" => from' <= head'
        /\ head' \in 0..Len(chain)
    BY <2>1, <2>3 DEF BeginBatch
  <2>6. toStore' \in SUBSET (1..Len(chain))
    <3>1. CASE from' <= head
      <4>1. toStore' = from'..BatchEnd(from', head) /\ BatchEnd(from', head) \in from'..head
        BY <3>1, <2>2, <2>3 DEF BeginBatch
      <4>2. head <= Len(chain) /\ head \in Nat /\ Len(chain) \in Nat
        BY DEF Typed, TypeOK
      <4> QED
        BY <4>1, <4>2, <2>4
    <3>2. CASE ~(from' <= head)
      BY <3>2, <2>3 DEF BeginBatch, Typed, TypeOK
    <3> QED
      BY <3>1, <3>2
  <2>7. gaps' \in SUBSET (Heights \X Reasons)
    <3>1. \A n \in from..checkpoint' : <<n, "replaced">> \in Heights \X Reasons
      BY <2>1, <2>3 DEF Typed, TypeOK, Heights, Reasons
    <3> QED
      BY <1>7, <3>1 DEF CheckpointBatch, Typed, TypeOK
  <2> QED
    BY <1>7, <2>4, <2>5, <2>6, <2>7
    DEF CheckpointBatch, Typed, TypeOK, Announced, Silent, Bounded, Descending, Inside, Batching, StartSteps,
        chainVars, liveVars, budget
<1>8. CASE Subscribe
  BY <1>8 DEF Subscribe, Typed, TypeOK, Announced, Silent, Bounded, Descending, Inside, Batching,
              Recovering, StartSteps, chainVars, liveVars, storeVars, budget
<1> QED
  BY <1>1, <1>2, <1>3, <1>4, <1>5, <1>6, <1>7, <1>8 DEF StartUp

\* A new head: what is announced, kept and given up.
LEMMA NewHeadPending ==
    ASSUME Typed, NEW a \in Activations, NewHead(a)
    PROVE  \E b \in Block : \E dropped \in SUBSET Block :
              /\ b.number \in 1..Len(chain)
              /\ \A h \in Block : h.number <= Len(chain) => h.number <= b.number
              /\ dropped \subseteq Put(pendingBlocks, b)
              /\ pendingBlocks' = Put(pendingBlocks, b) \ dropped
              /\ gaps' = {g \in gaps : g[1] # b.number}
                            \cup (Numbers(dropped) \X {"capped"})
                            \cup (((lastSeen + 1)..(b.number - 1)) \X {"unseen"})
              /\ lastSeen' = IF lastSeen < b.number THEN b.number ELSE lastSeen
<1> DEFINE b == HeaderAt(Len(chain))
           all == Put(pendingBlocks, b)
           dropped == IF Cardinality(all) > MaxPending THEN Lowest(all) ELSE {}
<1>1. Len(chain) \in 1..Len(chain) /\ TypeOK
  BY DEF NewHead, Typed, TypeOK
<1>2. b \in Block /\ b.number = Len(chain)
  BY <1>1, HeaderTyped
<1>3. /\ pendingBlocks' = all \ dropped
      /\ gaps' = {g \in gaps : g[1] # b.number}
                    \cup (Numbers(dropped) \X {"capped"})
                    \cup (((lastSeen + 1)..(b.number - 1)) \X {"unseen"})
      /\ lastSeen' = IF lastSeen < b.number THEN b.number ELSE lastSeen
  BY DEF NewHead
<1>4. all \in SUBSET Block
  BY <1>1, <1>2 DEF Put, TypeOK
<1>5. dropped \subseteq all
  BY DEF Lowest
<1> HIDE DEF b, dropped
<1>6. /\ dropped \in SUBSET Block /\ dropped \subseteq Put(pendingBlocks, b)
      /\ pendingBlocks' = Put(pendingBlocks, b) \ dropped
  BY <1>3, <1>4, <1>5
<1>7. /\ b.number \in 1..Len(chain)
      /\ \A h \in Block : h.number <= Len(chain) => h.number <= b.number
  BY <1>1, <1>2
<1> QED
  BY <1>2, <1>3, <1>6, <1>7

\* A new head.
LEMMA TypedNewHead == ASSUME Typed, NEW a \in Activations, NewHead(a) PROVE Typed'
<1> USE ScannerAssumption
<1>1. PICK b \in Block, dropped \in SUBSET Block :
              /\ b.number \in 1..Len(chain)
              /\ dropped \subseteq Put(pendingBlocks, b)
              /\ pendingBlocks' = Put(pendingBlocks, b) \ dropped
              /\ gaps' = {g \in gaps : g[1] # b.number}
                            \cup (Numbers(dropped) \X {"capped"})
                            \cup (((lastSeen + 1)..(b.number - 1)) \X {"unseen"})
              /\ lastSeen' = IF lastSeen < b.number THEN b.number ELSE lastSeen
  BY NewHeadPending
<1>2. /\ step[a] = "idle" /\ pc = "live"
      /\ todo' = [todo EXCEPT ![a] = pendingBlocks']
      /\ step' = [step EXCEPT ![a] = "parent"]
      /\ heads' = heads + 1 /\ heads < MaxHeads
      /\ overlapped' = (overlapped \/ \E c \in Activations : step[c] # "idle")
      /\ UNCHANGED <<level, logs, unheaded, interrupted, chainVars, startVars, storeVars, faults,
                     crashes>>
  BY DEF NewHead, Goto
<1>3. /\ pendingBlocks' \in SUBSET Block /\ lastSeen' \in Nat /\ lastSeen' >= lastSeen
      /\ \A x \in pendingBlocks' : x.number <= lastSeen' /\ x.number <= Len(chain)
  <2>1. lastSeen \in Nat /\ pendingBlocks \in SUBSET Block
        /\ \A x \in pendingBlocks : x.number <= lastSeen /\ x.number <= Len(chain)
    BY DEF Typed, TypeOK, Announced
  <2>2. b.number \in Nat /\ lastSeen' \in Nat /\ lastSeen' >= lastSeen /\ lastSeen' >= b.number
    BY <1>1, <2>1
  <2>3. \A x \in Block : x.number \in Nat
    BY DEF Block, Heights
  <2> QED
    BY <1>1, <2>1, <2>2, <2>3 DEF Put
<1>4. gaps' \in SUBSET (Heights \X Reasons)
  <2>1. \A n \in (lastSeen + 1)..(b.number - 1) : n \in Heights
    BY <1>1 DEF Typed, TypeOK, Heights
  <2>2. Numbers(dropped) \in SUBSET Heights
    BY DEF Numbers, Block
  <2> QED
    BY <1>1, <2>1, <2>2 DEF Typed, TypeOK, Reasons
<1>5. step' \in [Activations -> LiveSteps] /\ todo' \in [Activations -> SUBSET Block]
  BY <1>2, <1>3 DEF Typed, TypeOK, LiveSteps
<1>6. TypeOK'
  BY <1>2, <1>3, <1>4, <1>5 DEF Typed, TypeOK, chainVars, startVars, storeVars
<1>7. Announced'
  <2>1. from' >= 1 /\ chain' = chain
    BY <1>2 DEF Typed, Announced, chainVars, startVars
  <2>2. \A c \in Activations : \A x \in todo'[c] : x.number <= lastSeen' /\ x.number <= Len(chain)
    <3> SUFFICES ASSUME NEW c \in Activations, NEW x \in todo'[c]
                 PROVE  x.number <= lastSeen' /\ x.number <= Len(chain)
      OBVIOUS
    <3>1. CASE c = a
      BY <3>1, <1>2, <1>3 DEF Typed, TypeOK
    <3>2. CASE c # a
      BY <3>2, <1>2, <1>3 DEF Typed, TypeOK, Announced, Block, Heights
    <3> QED
      BY <3>1, <3>2
  <2> QED
    BY <1>3, <2>1, <2>2 DEF Announced
<1>8. Inside'
  <2>1. /\ b.number <= Len(chain) /\ Len(chain) \in Nat /\ b.number \in Nat
        /\ lastSeen' = lastSeen \/ lastSeen' = b.number
        /\ chain' = chain /\ from' = from
    BY <1>1, <1>2 DEF Typed, TypeOK, chainVars, startVars
  <2> QED
    BY <2>1 DEF Typed, Inside
<1>9. Silent' /\ Bounded'
  BY <1>2 DEF Silent, Bounded, Batching, startVars
<1>10. Descending'
  BY <1>2, <1>3 DEF Typed, TypeOK, Descending, Recovering
<1> QED
  BY <1>6, <1>7, <1>8, <1>9, <1>10 DEF Typed

\* What Leave does to the list of an activation and to its place.
LEMMA LeaveTyped ==
    ASSUME Typed, NEW a \in Activations, NEW b \in todo[a], Leave(a, b)
    PROVE  /\ todo' \in [Activations -> SUBSET Block]
           /\ step' \in [Activations -> LiveSteps]
           /\ level' \in [Activations -> 0..Len(chain)] /\ logs' \in [Activations -> Hashes]
           /\ \A c \in Activations : todo'[c] \subseteq todo[c]
           /\ step'[a] \in {"idle", "parent"}
           /\ \A c \in Activations : c # a => step'[c] = step[c] /\ level'[c] = level[c]
<1>1. /\ step \in [Activations -> LiveSteps] /\ todo \in [Activations -> SUBSET Block]
      /\ level \in [Activations -> 0..Len(chain)] /\ logs \in [Activations -> Hashes]
      /\ 0 \in 0..Len(chain) /\ 0 \in Hashes
  BY ScannerAssumption DEF Typed, TypeOK, Hashes
<1>2. /\ todo' = [todo EXCEPT ![a] = @ \ {b}] /\ level' = [level EXCEPT ![a] = 0]
      /\ logs' = [logs EXCEPT ![a] = 0]
  BY DEF Leave
<1>3. \E s \in {"idle", "parent"} : step' = [step EXCEPT ![a] = s]
  BY DEF Leave, Goto
<1> QED
  BY <1>1, <1>2, <1>3 DEF LiveSteps

\* A recovery that is cut short leaves the checkpoint without its header.
LEMMA CutShortTyped ==
    ASSUME TypeOK, NEW A, CutShort(A)
    PROVE  unheaded' \in SUBSET Heights
<1>1. checkpoint # 0 => checkpoint \in Heights
  BY ScannerAssumption DEF TypeOK, Heights
<1> QED
  BY <1>1 DEF CutShort, TypeOK

\* An await of an activation.
LEMMA TypedProceed ==
    ASSUME Typed, NEW a \in Activations, Proceed(a) \/ \E b \in todo[a] : ProcessThrows(a, b)
    PROVE  Typed'
<1> USE ScannerAssumption
<1>1. /\ UNCHANGED <<chainVars, startVars, lastSeen, overlapped, interrupted, heads, crashes>>
      /\ pendingBlocks' \subseteq pendingBlocks
      /\ \A c \in Activations : todo'[c] \subseteq todo[c]
      /\ step[a] # "idle"
  <2>1. ASSUME NEW b \in todo[a], CheckParent(a, b) PROVE <1>1!:
    BY <2>1 DEF CheckParent, Goto, history, budget
  <2>2. CASE Backtrace(a)
    BY <2>2 DEF Backtrace, history, budget
  <2>3. CASE DeleteAbove(a)
    BY <2>3 DEF DeleteAbove, history, budget
  <2>4. ASSUME NEW b \in todo[a], Rewind(a, b) PROVE <1>1!:
    BY <2>4, LeaveTyped DEF Rewind, Done, budget
  <2>5. ASSUME NEW b \in todo[a], FetchLogs(a, b) PROVE <1>1!:
    BY <2>5 DEF FetchLogs, history, budget
  <2>6. ASSUME NEW b \in todo[a], PublishToChannels(a, b) PROVE <1>1!:
    BY <2>6 DEF PublishToChannels, history, budget
  <2>7. ASSUME NEW b \in todo[a], RecordPublishLedger(a, b) PROVE <1>1!:
    BY <2>7 DEF RecordPublishLedger, history, budget
  <2>8. ASSUME NEW b \in todo[a], InsertBlockHeader(a, b) PROVE <1>1!:
    BY <2>8 DEF InsertBlockHeader, history, budget
  <2>9. ASSUME NEW b \in todo[a], WriteCheckpoint(a, b) PROVE <1>1!:
    BY <2>9, LeaveTyped DEF WriteCheckpoint, Done, budget
  <2>10. ASSUME NEW b \in todo[a], ProcessThrows(a, b) PROVE <1>1!:
    BY <2>10, LeaveTyped DEF ProcessThrows, history
  <2> QED
    BY <2>1, <2>2, <2>3, <2>4, <2>5, <2>6, <2>7, <2>8, <2>9, <2>10 DEF Proceed
<1>2. /\ step' \in [Activations -> LiveSteps]
      /\ todo' \in [Activations -> SUBSET Block]
      /\ level' \in [Activations -> 0..Len(chain)]
      /\ Descending'
  <2>0. /\ step \in [Activations -> LiveSteps] /\ todo \in [Activations -> SUBSET Block]
        /\ level \in [Activations -> 0..Len(chain)] /\ lastSeen \in Nat /\ lastSeen' = lastSeen
        /\ Descending /\ Len(chain) \in Nat
    BY <1>1 DEF Typed, TypeOK
  <2>1. ASSUME NEW b \in todo[a], CheckParent(a, b) PROVE <1>2!:
    <3>1. b.number \in 1..Len(chain) /\ b.number <= lastSeen
      BY DEF Typed, TypeOK, Announced, Block, Heights
    <3>2. /\ todo' = todo
          /\ \/ level' = [level EXCEPT ![a] = b.number - 1] /\ step' = [step EXCEPT ![a] = "backtrace"]
             \/ level' = level /\ step' = [step EXCEPT ![a] = "logs"]
      BY <2>1 DEF CheckParent, Goto
    <3>3. b.number - 1 \in 0..Len(chain) /\ b.number - 1 <= lastSeen
      BY <3>1, <2>0
    <3> QED
      BY <2>0, <3>2, <3>3 DEF Descending, Recovering, LiveSteps
  <2>2. CASE Backtrace(a)
    <3>1. CASE Common(level[a])
      BY <2>0, <2>2, <3>1 DEF Backtrace, Goto, Descending, Recovering, LiveSteps
    <3>2. CASE ~Common(level[a])
      <4>1. level[a] \in 1..Len(chain)
        BY <2>0, <3>2 DEF Common
      <4>2. level' = [level EXCEPT ![a] = @ - 1] /\ step' = step /\ todo' = todo
        BY <2>2, <3>2 DEF Backtrace
      <4> QED
        BY <2>0, <4>1, <4>2 DEF Descending
    <3> QED
      BY <3>1, <3>2
  <2>3. CASE DeleteAbove(a)
    BY <2>0, <2>3 DEF DeleteAbove, Goto, Descending, Recovering, LiveSteps
  <2>4. ASSUME NEW b \in todo[a], Rewind(a, b) PROVE <1>2!:
    BY <2>0, <2>4, LeaveTyped DEF Rewind, Done, Descending, Recovering
  <2>5. ASSUME NEW b \in todo[a], FetchLogs(a, b) PROVE <1>2!:
    BY <2>0, <2>5 DEF FetchLogs, Goto, Descending, Recovering, LiveSteps
  <2>6. ASSUME NEW b \in todo[a], PublishToChannels(a, b) PROVE <1>2!:
    BY <2>0, <2>6 DEF PublishToChannels, Goto, Descending, Recovering, LiveSteps
  <2>7. ASSUME NEW b \in todo[a], RecordPublishLedger(a, b) PROVE <1>2!:
    BY <2>0, <2>7 DEF RecordPublishLedger, Goto, Descending, Recovering, LiveSteps
  <2>8. ASSUME NEW b \in todo[a], InsertBlockHeader(a, b) PROVE <1>2!:
    BY <2>0, <2>8 DEF InsertBlockHeader, Goto, Descending, Recovering, LiveSteps
  <2>9. ASSUME NEW b \in todo[a], WriteCheckpoint(a, b) PROVE <1>2!:
    BY <2>0, <2>9, LeaveTyped DEF WriteCheckpoint, Done, Descending, Recovering
  <2>10. ASSUME NEW b \in todo[a], ProcessThrows(a, b) PROVE <1>2!:
    BY <2>0, <2>10, LeaveTyped DEF ProcessThrows, Descending, Recovering
  <2> QED
    BY <2>1, <2>2, <2>3, <2>4, <2>5, <2>6, <2>7, <2>8, <2>9, <2>10 DEF Proceed
<1>3. /\ logs' \in [Activations -> Hashes] /\ headers' \in SUBSET Block
      /\ checkpoint' \in 0..Len(chain) /\ published' \in SUBSET (Heights \X Hashes)
      /\ ledger' \in SUBSET Heights /\ gaps' \in SUBSET (Heights \X Reasons)
      /\ faults' \in 0..MaxFaults /\ unheaded' \in SUBSET Heights
  <2>0. /\ logs \in [Activations -> Hashes] /\ headers \in SUBSET Block
        /\ checkpoint \in 0..Len(chain) /\ published \in SUBSET (Heights \X Hashes)
        /\ ledger \in SUBSET Heights /\ gaps \in SUBSET (Heights \X Reasons)
        /\ faults \in 0..MaxFaults /\ level \in [Activations -> 0..Len(chain)]
        /\ unheaded \in SUBSET Heights
    BY DEF Typed, TypeOK
  <2>1. \A b \in todo[a] : /\ b \in Block /\ b.number \in Heights /\ chain[b.number] \in Hashes
                           /\ b.number \in 0..Len(chain)
    BY DEF Typed, TypeOK, Announced, Block, Heights
  <2>2. ASSUME NEW b \in todo[a], CheckParent(a, b) PROVE <1>3!:
    BY <2>0, <2>2 DEF CheckParent, storeVars, history, budget
  <2>3. CASE Backtrace(a)
    BY <2>0, <2>3 DEF Backtrace, storeVars, history, budget
  <2>4. CASE DeleteAbove(a)
    BY <2>0, <2>4 DEF DeleteAbove, history, budget
  <2>5. ASSUME NEW b \in todo[a], Rewind(a, b) PROVE <1>3!:
    BY <2>0, <2>1, <2>5, LeaveTyped DEF Rewind, Done, budget, Reasons
  <2>6. ASSUME NEW b \in todo[a], FetchLogs(a, b) PROVE <1>3!:
    BY <2>0, <2>1, <2>6 DEF FetchLogs, storeVars, history, budget
  <2>7. ASSUME NEW b \in todo[a], PublishToChannels(a, b) PROVE <1>3!:
    BY <2>0, <2>1, <2>7 DEF PublishToChannels, history, budget
  <2>8. ASSUME NEW b \in todo[a], RecordPublishLedger(a, b) PROVE <1>3!:
    BY <2>0, <2>1, <2>8 DEF RecordPublishLedger, history, budget
  <2>9. ASSUME NEW b \in todo[a], InsertBlockHeader(a, b) PROVE <1>3!:
    BY <2>0, <2>1, <2>9 DEF InsertBlockHeader, Insert, history, budget
  <2>10. ASSUME NEW b \in todo[a], WriteCheckpoint(a, b) PROVE <1>3!:
    BY <2>0, <2>1, <2>10, LeaveTyped DEF WriteCheckpoint, Done, budget, Reasons
  <2>11. ASSUME NEW b \in todo[a], ProcessThrows(a, b) PROVE <1>3!:
    <3>1. unheaded' \in SUBSET Heights
      BY <2>11, CutShortTyped DEF ProcessThrows, Typed
    <3> QED
      BY <2>0, <2>11, <3>1, LeaveTyped DEF ProcessThrows, storeVars
  <2> QED
    BY <2>2, <2>3, <2>4, <2>5, <2>6, <2>7, <2>8, <2>9, <2>10, <2>11 DEF Proceed
<1>4. TypeOK'
  BY <1>1, <1>2, <1>3 DEF Typed, TypeOK, chainVars, startVars
<1>5. pc = "live" /\ pc' = pc /\ from' = from /\ head' = head
  BY <1>1 DEF Typed, Silent, startVars
<1> QED
  BY <1>1, <1>2, <1>4, <1>5 DEF Typed, Announced, Silent, Bounded, Inside, chainVars

\* A death of the process.
LEMMA TypedCrash == ASSUME Typed, Crash PROVE Typed'
<1>1. \A n \in Numbers(pendingBlocks) : n \in Heights
  BY DEF Numbers, Typed, TypeOK, Block
<1>2. gaps' \in SUBSET (Heights \X Reasons)
  BY <1>1 DEF Crash, Typed, TypeOK, Reasons
<1>3. /\ step' \in [Activations -> LiveSteps] /\ todo' \in [Activations -> SUBSET Block]
      /\ level' \in [Activations -> 0..Len(chain)] /\ logs' \in [Activations -> Hashes]
      /\ Len(chain) \in Nat
  BY ScannerAssumption DEF Crash, LiveSteps, Hashes, Typed, TypeOK
<1>4. unheaded' \in SUBSET Heights
  BY CutShortTyped DEF Crash, Typed
<1>5. TypeOK'
  BY <1>2, <1>3, <1>4, ScannerAssumption DEF Crash, Typed, TypeOK, StartSteps, chainVars, storeVars
<1> QED
  BY <1>3, <1>5
  DEF Crash, Typed, Announced, Silent, Bounded, Descending, Inside, Batching, Recovering, chainVars

\* Types are kept by every step.
LEMMA TypedStep == Typed /\ [Next]_vars => Typed'
<1> SUFFICES ASSUME Typed, [Next]_vars PROVE Typed'
  OBVIOUS
<1>1. CASE Next
  BY <1>1, TypedChain, TypedStart, TypedNewHead, TypedProceed, TypedCrash DEF Next
<1>2. CASE UNCHANGED vars
  BY <1>2 DEF vars, chainVars, startVars, liveVars, storeVars, history, budget, Typed, TypeOK,
              Announced, Silent, Bounded, Descending, Inside
<1> QED
  BY <1>1, <1>2

\* TypeOK of the scanner: every variable stays within its type, so that
\* backtrace never goes below block 0 and the checkpoint stays on the chain.
THEOREM TypeCorrect == Spec => []TypeOK
<1>1. Spec => []Typed
  BY TypedInit, TypedStep, PTL DEF Spec
<1>2. Typed => TypeOK
  BY DEF Typed
<1> QED
  BY <1>1, <1>2, PTL

-----------------------------------------------------------------------------
(* Every block is accounted for.                                           *)

\* The whole invariant holds at the start.
LEMMA InvInit == Init => Inv
<1> SUFFICES ASSUME Init PROVE Inv
  OBVIOUS
<1>1. Typed
  BY TypedInit
<1> QED
  BY <1>1 DEF Init, Inv, HolesAccounted, CaughtUp, Followed, BatchPublished, BlockPublished

\* What a new head does to the account of a block: held blocks are held on,
\* or dropped by the cap, and the blocks up to the new one are seen.
LEMMA NewHeadAccounted ==
    ASSUME Inv, NEW a \in Activations, NewHead(a)
    PROVE  /\ \A n \in Nat : Accounted(n) => Accounted(n)'
           /\ \A n \in 1..lastSeen' : n > lastSeen => Accounted(n)'
<1>1. PICK b \in Block, dropped \in SUBSET Block :
              /\ b.number \in 1..Len(chain)
              /\ dropped \subseteq Put(pendingBlocks, b)
              /\ pendingBlocks' = Put(pendingBlocks, b) \ dropped
              /\ gaps' = {g \in gaps : g[1] # b.number}
                            \cup (Numbers(dropped) \X {"capped"})
                            \cup (((lastSeen + 1)..(b.number - 1)) \X {"unseen"})
              /\ lastSeen' = IF lastSeen < b.number THEN b.number ELSE lastSeen
  BY NewHeadPending DEF Inv
<1>2. published' = published /\ chain' = chain /\ lastSeen \in Nat
  BY DEF NewHead, storeVars, chainVars, Inv, Typed, TypeOK
<1>3. \A n \in Nat : n \in Numbers(Put(pendingBlocks, b)) =>
          n \in Numbers(pendingBlocks)' \/ <<n, "capped">> \in gaps'
  BY <1>1 DEF Numbers
<1>4. \A n \in Nat : n \in Numbers(pendingBlocks) => n \in Numbers(Put(pendingBlocks, b))
  BY DEF Numbers, Put
<1>5. b.number \in Numbers(Put(pendingBlocks, b))
  BY DEF Numbers, Put
<1>6. ASSUME NEW n \in Nat, Accounted(n) PROVE Accounted(n)'
  <2>1. CASE n = b.number
    BY <2>1, <1>3, <1>5 DEF Accounted, Reasons
  <2>2. CASE n # b.number
    <3>1. ASSUME NEW why, <<n, why>> \in gaps PROVE <<n, why>> \in gaps'
      BY <1>1, <2>2, <3>1
    <3> QED
      BY <1>2, <1>3, <1>4, <1>6, <3>1 DEF Accounted, Reasons
  <2> QED
    BY <2>1, <2>2
<1>7. ASSUME NEW n \in 1..lastSeen', n > lastSeen PROVE Accounted(n)'
  <2>1. b.number \in Nat /\ lastSeen' = b.number
    BY <1>1, <1>2, <1>7
  <2>2. CASE n = b.number
    BY <2>1, <2>2, <1>3, <1>5 DEF Accounted, Reasons
  <2>3. CASE n # b.number
    <3>1. n \in (lastSeen + 1)..(b.number - 1)
      BY <1>2, <1>7, <2>1, <2>3
    <3>2. <<n, "unseen">> \in gaps'
      BY <1>1, <3>1
    <3> QED
      BY <3>2 DEF Accounted, Reasons
  <2> QED
    BY <2>2, <2>3
<1> QED
  BY <1>6, <1>7

\* An await of an activation loses no block either: one it is through with
\* has been published or revealed a reorg.
LEMMA ProceedAccounted ==
    ASSUME Inv, NEW a \in Activations, Proceed(a) \/ \E b \in todo[a] : ProcessThrows(a, b)
    PROVE  \A n \in Nat : Accounted(n) => Accounted(n)'
<1> SUFFICES ASSUME NEW n \in Nat, Accounted(n) PROVE Accounted(n)'
  OBVIOUS
<1>1. ASSUME NEW b \in todo[a], Rewind(a, b) PROVE Accounted(n)'
  <2>1. b.number # n \/ <<n, "reorg">> \in gaps'
    BY <1>1 DEF Rewind
  <2> QED
    BY <1>1, <2>1 DEF Rewind, Done, chainVars, Accounted, Numbers, Reasons
<1>2. ASSUME NEW b \in todo[a], WriteCheckpoint(a, b) PROVE Accounted(n)'
  <2>1. <<b.number, logs[a]>> \in published
    BY <1>2 DEF WriteCheckpoint, Inv, BlockPublished, Recording
  <2>2. <<b.number, chain[b.number]>> \in published \/ <<b.number, "replaced">> \in gaps'
    BY <1>2, <2>1 DEF WriteCheckpoint
  <2>3. gaps \subseteq gaps' /\ published' = published /\ chain' = chain
        /\ pendingBlocks' = {x \in pendingBlocks : x.number # b.number}
    BY <1>2 DEF WriteCheckpoint, Done, chainVars
  <2>4. CASE n = b.number
    BY <2>2, <2>3, <2>4 DEF Accounted, Reasons
  <2>5. CASE n # b.number
    BY <2>3, <2>5 DEF Accounted, Numbers
  <2> QED
    BY <2>4, <2>5
<1>3. ASSUME NEW b \in todo[a], PublishToChannels(a, b) PROVE Accounted(n)'
  BY <1>3 DEF PublishToChannels, chainVars, Accounted, Numbers, history
<1>4. ASSUME UNCHANGED <<chain, pendingBlocks, published, gaps>> PROVE Accounted(n)'
  BY <1>4 DEF Accounted, Numbers
<1>5. ASSUME NEW b \in todo[a],
             \/ CheckParent(a, b) \/ FetchLogs(a, b) \/ RecordPublishLedger(a, b)
             \/ InsertBlockHeader(a, b) \/ ProcessThrows(a, b)
      PROVE  Accounted(n)'
  BY <1>4, <1>5 DEF CheckParent, FetchLogs, RecordPublishLedger, InsertBlockHeader, ProcessThrows,
                    storeVars, history, chainVars
<1>6. CASE Backtrace(a) \/ DeleteAbove(a)
  BY <1>4, <1>6 DEF Backtrace, DeleteAbove, storeVars, history, chainVars
<1> QED
  BY <1>1, <1>2, <1>3, <1>5, <1>6 DEF Proceed

\* The lowest block of a list has one number.
LEMMA WorkingUnique ==
    ASSUME Typed, NEW a \in Activations, NEW b \in todo[a], NEW c \in todo[a],
           Working(a, b), Working(a, c)
    PROVE  b.number = c.number
<1>1. b \in Block /\ c \in Block
  BY DEF Typed, TypeOK
<1> QED
  BY <1>1 DEF Working, Block, Heights

\* A block is published before it is recorded.
LEMMA BlockPublishedStep ==
    ASSUME Inv, NEW a \in Activations,
           NewHead(a) \/ Proceed(a) \/ \E b \in todo[a] : ProcessThrows(a, b)
    PROVE  BlockPublished'
<1> SUFFICES ASSUME NEW c \in Activations, NEW x \in todo'[c], step'[c] \in Recording,
                    Working(c, x)'
             PROVE  <<x.number, logs'[c]>> \in published'
  BY DEF BlockPublished
<1>0. /\ step \in [Activations -> LiveSteps] /\ todo \in [Activations -> SUBSET Block]
      /\ published \subseteq published'
      /\ \A d \in Activations : d # a => step'[d] = step[d] /\ todo'[d] = todo[d] /\ logs'[d] = logs[d]
  <2>1. /\ step \in [Activations -> LiveSteps] /\ todo \in [Activations -> SUBSET Block]
        /\ logs \in [Activations -> Hashes]
    BY DEF Inv, Typed, TypeOK
  <2>2. CASE NewHead(a)
    BY <2>1, <2>2 DEF NewHead, Goto, storeVars
  <2>3. CASE Backtrace(a) \/ DeleteAbove(a)
    BY <2>1, <2>3 DEF Backtrace, DeleteAbove, Goto, storeVars
  <2>4. ASSUME NEW b \in todo[a],
               \/ CheckParent(a, b) \/ FetchLogs(a, b) \/ RecordPublishLedger(a, b)
               \/ InsertBlockHeader(a, b) \/ PublishToChannels(a, b)
        PROVE  <1>0!:
    BY <2>1, <2>4 DEF CheckParent, FetchLogs, RecordPublishLedger, InsertBlockHeader,
                      PublishToChannels, Goto, storeVars
  <2>5. ASSUME NEW b \in todo[a], Rewind(a, b) \/ WriteCheckpoint(a, b) \/ ProcessThrows(a, b)
        PROVE  <1>0!:
    BY <2>1, <2>5 DEF Rewind, WriteCheckpoint, ProcessThrows, Done, Leave, Goto, storeVars
  <2> QED
    BY <2>2, <2>3, <2>4, <2>5 DEF Proceed
<1>1. ASSUME c # a PROVE <<x.number, logs'[c]>> \in published'
  <2>1. step[c] \in Recording /\ x \in todo[c] /\ Working(c, x)
    BY <1>0, <1>1 DEF Working
  <2>2. <<x.number, logs[c]>> \in published
    BY <2>1 DEF Inv, BlockPublished
  <2> QED
    BY <1>0, <1>1, <2>2
<1>2. ASSUME c = a PROVE <<x.number, logs'[c]>> \in published'
  <2>1. CASE NewHead(a)
    BY <1>0, <1>2, <2>1 DEF NewHead, Goto, Recording
  <2>2. CASE Backtrace(a) \/ DeleteAbove(a)
    BY <1>0, <1>2, <2>2 DEF Backtrace, DeleteAbove, Goto, Recording
  <2>3. ASSUME NEW b \in todo[a], CheckParent(a, b) \/ FetchLogs(a, b) PROVE <<x.number, logs'[c]>> \in published'
    BY <1>0, <1>2, <2>3 DEF CheckParent, FetchLogs, Goto, Recording
  <2>4. ASSUME NEW b \in todo[a], Rewind(a, b) \/ WriteCheckpoint(a, b) \/ ProcessThrows(a, b)
        PROVE  <<x.number, logs'[c]>> \in published'
    BY <1>0, <1>2, <2>4 DEF Rewind, WriteCheckpoint, ProcessThrows, Done, Leave, Goto, Recording
  <2>5. ASSUME NEW b \in todo[a], PublishToChannels(a, b) PROVE <<x.number, logs'[c]>> \in published'
    <3>1. x \in todo[a] /\ Working(a, x) /\ Working(a, b)
      BY <1>2, <2>5 DEF PublishToChannels, Working
    <3>2. Typed
      BY DEF Inv
    <3>3. x.number = b.number
      BY <3>1, <3>2, WorkingUnique
    <3>4. <<b.number, logs[a]>> \in published' /\ logs' = logs
      BY <2>5 DEF PublishToChannels
    <3> QED
      BY <1>2, <3>3, <3>4
  <2>6. ASSUME NEW b \in todo[a], RecordPublishLedger(a, b) \/ InsertBlockHeader(a, b)
        PROVE  <<x.number, logs'[c]>> \in published'
    <3>1. x \in todo[a] /\ Working(a, x) /\ step[a] \in Recording
      BY <1>2, <2>6 DEF RecordPublishLedger, InsertBlockHeader, Working, Recording
    <3>2. <<x.number, logs[c]>> \in published /\ logs' = logs
      BY <1>2, <2>6, <3>1 DEF Inv, BlockPublished, RecordPublishLedger, InsertBlockHeader
    <3> QED
      BY <1>0, <3>2
  <2> QED
    BY <2>1, <2>2, <2>3, <2>4, <2>5, <2>6 DEF Proceed
<1> QED
  BY <1>1, <1>2

\* The live path keeps the account.
LEMMA LiveStep ==
    ASSUME Inv, NEW a \in Activations,
           NewHead(a) \/ Proceed(a) \/ \E b \in todo[a] : ProcessThrows(a, b)
    PROVE  HolesAccounted' /\ CaughtUp' /\ Followed' /\ BatchPublished'
<1>1. /\ \A n \in Nat : Accounted(n) => Accounted(n)'
      /\ \A n \in 1..lastSeen' : n > lastSeen => Accounted(n)'
      /\ pc = "live" /\ UNCHANGED <<pc, from>> /\ lastSeen' >= lastSeen
      /\ lastSeen \in Nat /\ lastSeen' \in Nat /\ from \in Nat /\ checkpoint \in Nat
  <2>0. lastSeen \in Nat /\ from \in Nat /\ checkpoint \in Nat
    BY ScannerAssumption DEF Inv, Typed, TypeOK
  <2>1. CASE NewHead(a)
    <3>1. pc = "live" /\ UNCHANGED <<pc, from>>
      BY <2>1 DEF NewHead, startVars
    <3>2. lastSeen' \in Nat /\ lastSeen' >= lastSeen
      BY <2>0, <2>1, NewHeadPending DEF Inv, Block, Heights
    <3> QED
      BY <2>0, <2>1, <3>1, <3>2, NewHeadAccounted
  <2>2. CASE Proceed(a) \/ \E b \in todo[a] : ProcessThrows(a, b)
    <3>1. step[a] # "idle" /\ UNCHANGED <<startVars, lastSeen>>
      BY <2>2 DEF Proceed, CheckParent, Backtrace, DeleteAbove, Rewind, FetchLogs,
                  PublishToChannels, RecordPublishLedger, InsertBlockHeader, WriteCheckpoint,
                  ProcessThrows, history
    <3>2. pc = "live"
      BY <3>1 DEF Inv, Typed, Silent
    <3> QED
      BY <2>0, <2>2, <3>1, <3>2, ProceedAccounted DEF startVars
  <2> QED
    BY <2>1, <2>2
<1>2. Followed'
  <2> SUFFICES ASSUME NEW n \in 1..lastSeen' PROVE Accounted(n)'
    BY DEF Followed
  <2>1. n <= lastSeen => Accounted(n)
    BY <1>1 DEF Inv, Followed
  <2> QED
    BY <1>1, <2>1
<1>3. CaughtUp'
  <2> SUFFICES ASSUME NEW n \in 1..(from - 1) PROVE Accounted(n)'
    BY <1>1 DEF CaughtUp
  <2>1. Accounted(n)
    BY <1>1 DEF Inv, CaughtUp
  <2> QED
    BY <1>1, <2>1
<1>4. checkpoint' = checkpoint \/ checkpoint' \in 0..lastSeen
  <2>1. ASSUME NEW b \in todo[a], Rewind(a, b) PROVE checkpoint' \in 0..lastSeen
    <3>1. /\ level \in [Activations -> 0..Len(chain)] /\ lastSeen \in Nat /\ Len(chain) \in Nat
          /\ level[a] <= lastSeen
      BY <2>1, ScannerAssumption DEF Rewind, Inv, Typed, TypeOK, Descending, Recovering
    <3> QED
      BY <2>1, <3>1 DEF Rewind
  <2>2. ASSUME NEW b \in todo[a], WriteCheckpoint(a, b) PROVE checkpoint' \in 0..lastSeen
    BY <1>1, <2>2 DEF WriteCheckpoint, Inv, Typed, TypeOK, Announced, Block, Heights
  <2> QED
    BY <2>1, <2>2 DEF NewHead, Proceed, CheckParent, Backtrace, DeleteAbove, FetchLogs,
                      PublishToChannels, RecordPublishLedger, InsertBlockHeader, ProcessThrows,
                      storeVars
<1>5. HolesAccounted'
  <2> SUFFICES ASSUME NEW n \in 1..checkpoint' PROVE Accounted(n)'
    BY DEF HolesAccounted, Accounted
  <2>1. CASE checkpoint' = checkpoint
    <3>1. Accounted(n)
      BY <2>1 DEF Inv, HolesAccounted, Accounted
    <3> QED
      BY <1>1, <2>1, <3>1
  <2>2. CASE checkpoint' \in 0..lastSeen
    <3>1. n \in 1..lastSeen
      BY <1>1, <2>2
    <3>2. Accounted(n)
      BY <1>1, <3>1 DEF Inv, Followed
    <3> QED
      BY <1>1, <3>1, <3>2
  <2> QED
    BY <1>4, <2>1, <2>2
<1>6. BatchPublished'
  BY <1>1 DEF BatchPublished
<1> QED
  BY <1>2, <1>3, <1>5, <1>6

\* The blocks of a batch have been published when the checkpoint is written,
\* unless the chain has replaced them.
LEMMA CaughtUpBatch ==
    ASSUME Inv, CheckpointBatch
    PROVE  \A n \in from..checkpoint' : Accounted(n)'
<1> SUFFICES ASSUME NEW n \in from..checkpoint' PROVE Accounted(n)'
  OBVIOUS
<1>1. /\ fetched \subseteq published /\ published' = published /\ chain' = chain
      /\ <<n, chain[n]>> \notin fetched => <<n, "replaced">> \in gaps'
  BY DEF CheckpointBatch, Inv, BatchPublished, chainVars
<1> QED
  BY <1>1 DEF Accounted, Reasons

\* So does start(), which hands a batch on only when it is published.
LEMMA StartStep ==
    ASSUME Inv, StartUp
    PROVE  HolesAccounted' /\ CaughtUp' /\ Followed' /\ BatchPublished'
<1>0. /\ from \in Nat /\ from >= 1 /\ checkpoint \in Nat /\ lastSeen \in Nat
      /\ pc # "live"
      /\ UNCHANGED <<chain, pendingBlocks>> /\ published \subseteq published'
      /\ CheckpointBatch \/ gaps' = gaps
  <2>1. from \in Nat /\ from >= 1 /\ checkpoint \in Nat /\ lastSeen \in Nat
    BY ScannerAssumption DEF Inv, Typed, TypeOK, Announced
  <2> QED
    BY <2>1 DEF StartUp, ResolveStartBlock, ReadHead, StoreHeader, FetchBatch, PublishBatch,
                RecordBatch, CheckpointBatch, Subscribe, liveVars, storeVars, chainVars, history
<1>1. \A n \in Nat : Accounted(n) => Accounted(n)'
  <2> SUFFICES ASSUME NEW n \in Nat, Accounted(n) PROVE Accounted(n)'
    OBVIOUS
  <2>1. CASE gaps' = gaps
    BY <1>0, <2>1 DEF Accounted, Numbers
  <2>2. CASE CheckpointBatch /\ n \notin from..checkpoint'
    <3>1. \A g \in gaps : g[1] = n => g \in gaps'
      BY <2>2 DEF CheckpointBatch
    <3> QED
      BY <1>0, <3>1 DEF Accounted, Numbers
  <2>3. CASE CheckpointBatch /\ n \in from..checkpoint'
    BY <2>3, CaughtUpBatch
  <2> QED
    BY <1>0, <2>1, <2>2, <2>3
<1>2. ASSUME checkpoint' = checkpoint PROVE HolesAccounted'
  <2> SUFFICES ASSUME NEW n \in 1..checkpoint PROVE Accounted(n)'
    BY <1>2 DEF HolesAccounted, Accounted
  <2>1. Accounted(n)
    BY DEF Inv, HolesAccounted, Accounted
  <2> QED
    BY <1>0, <1>1, <2>1
<1>3. ASSUME from' = from, pc # "down" PROVE CaughtUp'
  <2> SUFFICES ASSUME NEW n \in 1..(from - 1) PROVE Accounted(n)'
    BY <1>3 DEF CaughtUp
  <2>1. Accounted(n)
    BY <1>3 DEF Inv, CaughtUp
  <2> QED
    BY <1>0, <1>1, <2>1
<1>4. CASE ResolveStartBlock
  <2>1. CaughtUp'
    <3> SUFFICES ASSUME NEW n \in 1..(from' - 1) PROVE Accounted(n)'
      BY DEF CaughtUp
    <3>1. n < StartBlock \/ n \in 1..checkpoint
      BY <1>0, <1>4, ScannerAssumption DEF ResolveStartBlock
    <3>2. n \in Nat /\ Accounted(n)
      BY <3>1 DEF Inv, HolesAccounted, Accounted
    <3> QED
      BY <1>1, <3>2
  <2> QED
    BY <1>2, <1>4, <2>1 DEF ResolveStartBlock, storeVars, Followed, BatchPublished
<1>5. CASE ReadHead
  <2>1. pc' \in {"headers", "subscribe"}
    BY <1>5 DEF ReadHead, BeginBatch
  <2> QED
    BY <1>2, <1>3, <1>5, <2>1 DEF ReadHead, storeVars, Followed, BatchPublished
<1>6. ASSUME NEW m \in Heights, StoreHeader(m)
      PROVE  HolesAccounted' /\ CaughtUp' /\ Followed' /\ BatchPublished'
  BY <1>2, <1>3, <1>6 DEF StoreHeader, Followed, BatchPublished
<1>7. CASE FetchBatch
  <2>1. ASSUME NEW n \in from..BatchEnd(from, head) PROVE \E e \in fetched' : e[1] = n
    <3>1. <<n, chain[n]>> \in fetched' /\ <<n, chain[n]>>[1] = n
      BY <1>7 DEF FetchBatch
    <3> QED
      BY <3>1
  <2>2. BatchPublished'
    BY <1>7, <2>1 DEF FetchBatch, BatchPublished
  <2> QED
    BY <1>2, <1>3, <1>7, <2>2 DEF FetchBatch, storeVars, Followed
<1>8. CASE PublishBatch
  <2>1. BatchPublished'
    BY <1>8 DEF PublishBatch, Inv, BatchPublished
  <2> QED
    BY <1>2, <1>3, <1>8, <2>1 DEF PublishBatch, Followed
<1>9. CASE RecordBatch
  <2>1. BatchPublished'
    BY <1>9 DEF RecordBatch, Inv, BatchPublished
  <2> QED
    BY <1>2, <1>3, <1>9, <2>1 DEF RecordBatch, Followed
<1>10. CASE CheckpointBatch
  <2>1. BatchEnd(from, head) \in Nat
    BY <1>10, BatchInside DEF CheckpointBatch, Batching, Inv, Heights
  <2>2. ASSUME NEW n \in 1..BatchEnd(from, head) PROVE Accounted(n)'
    <3>1. CASE n < from
      <4>1. Accounted(n) /\ n \in Nat
        BY <1>0, <1>10, <3>1 DEF CheckpointBatch, Inv, CaughtUp
      <4> QED
        BY <1>1, <4>1
    <3>2. CASE ~(n < from)
      <4>1. n \in from..BatchEnd(from, head) /\ checkpoint' = BatchEnd(from, head)
        BY <1>0, <1>10, <2>1, <3>2 DEF CheckpointBatch
      <4> QED
        BY <1>10, <4>1, CaughtUpBatch
    <3> QED
      BY <3>1, <3>2
  <2>3. checkpoint' = BatchEnd(from, head) /\ from' - 1 = BatchEnd(from, head)
    BY <1>10, <2>1 DEF CheckpointBatch
  <2>5. HolesAccounted'
    BY <2>2, <2>3 DEF HolesAccounted, Accounted
  <2>6. CaughtUp'
    BY <2>2, <2>3 DEF CaughtUp
  <2>4. pc' \in {"headers", "subscribe"}
    BY <1>10 DEF CheckpointBatch, BeginBatch
  <2> QED
    BY <2>4, <2>5, <2>6 DEF Followed, BatchPublished
<1>11. CASE Subscribe
  <2>1. Followed'
    <3> SUFFICES ASSUME NEW n \in 1..(from - 1) PROVE Accounted(n)'
      BY <1>11 DEF Subscribe, Followed
    <3>1. n \in Nat /\ Accounted(n)
      BY <1>0, <1>11 DEF Subscribe, Inv, CaughtUp
    <3> QED
      BY <1>1, <3>1
  <2> QED
    BY <1>2, <1>3, <1>11, <2>1 DEF Subscribe, storeVars, BatchPublished
<1> QED
  BY <1>4, <1>5, <1>6, <1>7, <1>8, <1>9, <1>10, <1>11 DEF StartUp

\* The chain moves: a block that is replaced is held, or its number is one
\* the scanner is through with.
LEMMA ChainStep ==
    ASSUME Inv, Mine \/ \E k \in 0..MaxHeight : Reorg(k)
    PROVE  HolesAccounted' /\ CaughtUp' /\ Followed' /\ BatchPublished' /\ BlockPublished'
<1>0. /\ Len(chain) \in Nat /\ StartBlock \in Nat /\ checkpoint \in 0..Len(chain) /\ Inside
      /\ from \in Nat /\ lastSeen \in Nat /\ chain \in Seq(Hashes)
  BY ScannerAssumption DEF Inv, Typed, TypeOK
<1>1. UNCHANGED <<checkpoint, published, pendingBlocks, pc, from, head, fetched, lastSeen, step, todo,
                  logs>>
  BY DEF Mine, Reorg, startVars, liveVars, storeVars, history
<1>2. ASSUME NEW n \in Nat \ {0}, n <= Len(chain) \/ n < StartBlock, Accounted(n)
      PROVE  Accounted(n)'
  <2>1. CASE n < StartBlock
    BY <2>1 DEF Accounted
  <2>2. CASE n <= Len(chain) /\ Mine
    <3>1. chain'[n] = chain[n] /\ gaps' = gaps
      BY <1>0, <2>2 DEF Mine, history
    <3> QED
      BY <1>1, <1>2, <3>1 DEF Accounted, Numbers
  <2>3. ASSUME n <= Len(chain), NEW k \in 0..MaxHeight, Reorg(k) PROVE Accounted(n)'
    <3>0. /\ chain' = [i \in 1..Len(chain) |-> IF i <= k THEN chain[i] ELSE reorgs']
          /\ gaps' = {g \in gaps : g[1] <= k}
                       \cup {<<m, "replaced">> : m \in {i \in (k + 1)..Len(chain) :
                                                Through(i) /\ i \notin Numbers(pendingBlocks)}}
          /\ k \in Nat /\ n \in 1..Len(chain)
      BY <1>0, <2>3, ScannerAssumption DEF Reorg
    <3>1. CASE n <= k
      <4>1. chain'[n] = chain[n] /\ \A g \in gaps : g[1] = n => g \in gaps'
        BY <3>0, <3>1
      <4> QED
        BY <1>1, <1>2, <4>1 DEF Accounted, Numbers
    <3>2. CASE n > k /\ n \notin Numbers(pendingBlocks) /\ ~(n < StartBlock)
      <4>1. Through(n)
        BY <1>2, <3>2 DEF Accounted, Through, PublishedAt
      <4>2. n \in (k + 1)..Len(chain)
        BY <1>0, <3>0, <3>2
      <4>3. <<n, "replaced">> \in gaps'
        BY <3>0, <3>2, <4>1, <4>2
      <4> QED
        BY <4>3 DEF Accounted, Reasons
    <3>3. CASE n \in Numbers(pendingBlocks)
      BY <1>1, <3>3 DEF Accounted, Numbers
    <3> QED
      BY <2>1, <3>0, <3>1, <3>2, <3>3
  <2> QED
    BY <1>2, <2>1, <2>2, <2>3
<1>3. HolesAccounted'
  <2> SUFFICES ASSUME NEW n \in 1..checkpoint PROVE Accounted(n)'
    BY <1>1 DEF HolesAccounted, Accounted
  <2>1. Accounted(n)
    BY DEF Inv, HolesAccounted, Accounted
  <2>3. n <= Len(chain) /\ n \in Nat \ {0}
    BY <1>0
  <2> QED
    BY <1>2, <2>1, <2>3
<1>4. CaughtUp'
  <2> SUFFICES ASSUME pc # "down", NEW n \in 1..(from - 1) PROVE Accounted(n)'
    BY <1>1 DEF CaughtUp
  <2>1. Accounted(n)
    BY DEF Inv, CaughtUp
  <2>2. n \in Nat \ {0} /\ (n <= Len(chain) \/ n < StartBlock)
    BY <1>0 DEF Inside
  <2> QED
    BY <1>2, <2>1, <2>2
<1>5. Followed'
  <2> SUFFICES ASSUME pc = "live", NEW n \in 1..lastSeen PROVE Accounted(n)'
    BY <1>1 DEF Followed
  <2>1. Accounted(n)
    BY DEF Inv, Followed
  <2>2. n \in Nat \ {0} /\ (n <= Len(chain) \/ n < StartBlock)
    BY <1>0 DEF Inside
  <2> QED
    BY <1>2, <2>1, <2>2
<1>6. BatchPublished' /\ BlockPublished'
  BY <1>1 DEF Inv, BatchPublished, BlockPublished, Working
<1> QED
  BY <1>3, <1>4, <1>5, <1>6

\* The invariant is kept by every step.
LEMMA InvStep == Inv /\ [Next]_vars => Inv'
<1> SUFFICES ASSUME Inv, [Next]_vars PROVE Inv'
  OBVIOUS
<1>1. Typed'
  BY TypedStep DEF Inv
<1>2. CASE UNCHANGED vars
  BY <1>1, <1>2 DEF vars, chainVars, startVars, liveVars, storeVars, history, budget, Inv, HolesAccounted,
                    CaughtUp, Followed, BatchPublished, BlockPublished, Numbers, Accounted, Working
<1>3. CASE Mine \/ \E n \in 0..MaxHeight : Reorg(n)
  BY <1>1, <1>3, ChainStep DEF Inv
<1>4. CASE StartUp
  <2>1. pc # "live" /\ UNCHANGED <<step, todo>>
    BY <1>4 DEF StartUp, ResolveStartBlock, ReadHead, StoreHeader, FetchBatch, PublishBatch,
                RecordBatch, CheckpointBatch, Subscribe, liveVars
  <2>2. BlockPublished'
    BY <2>1 DEF Inv, Typed, Silent, BlockPublished
  <2> QED
    BY <1>1, <1>4, <2>2, StartStep DEF Inv
<1>5. ASSUME NEW a \in Activations,
             NewHead(a) \/ Proceed(a) \/ \E b \in todo[a] : ProcessThrows(a, b)
      PROVE  Inv'
  BY <1>1, <1>5, LiveStep, BlockPublishedStep DEF Inv
<1>6. CASE Crash
  <2>1. /\ checkpoint \in Nat /\ checkpoint' = checkpoint /\ published' = published /\ chain' = chain
        /\ pc' = "down" /\ \A a \in Activations : todo'[a] = {}
    BY <1>6, ScannerAssumption DEF Crash, storeVars, chainVars, Inv, Typed, TypeOK
  <2>2. HolesAccounted'
    <3> SUFFICES ASSUME NEW n \in 1..checkpoint PROVE Accounted(n)'
      BY <2>1 DEF HolesAccounted, Accounted
    <3>1. Accounted(n) /\ n <= checkpoint
      BY <2>1 DEF Inv, HolesAccounted, Accounted
    <3>2. gaps' = gaps \cup ({m \in Numbers(pendingBlocks) : m <= checkpoint} \X {"crash"})
      BY <1>6 DEF Crash
    <3> QED
      BY <2>1, <3>1, <3>2 DEF Accounted, Reasons
  <2> QED
    BY <1>1, <2>1, <2>2 DEF Inv, CaughtUp, Followed, BatchPublished, BlockPublished
<1> QED
  BY <1>2, <1>3, <1>4, <1>5, <1>6 DEF Next

\* HolesAccounted: whatever faults, deaths, reorgs and overlaps there are,
\* the block the chain has at a number below the checkpoint is published,
\* held, or given up for one of the reasons.
THEOREM HolesAreAccounted == Spec => []HolesAccounted
<1>1. Spec => []Inv
  BY InvInit, InvStep, PTL DEF Spec
<1>2. Inv => HolesAccounted
  BY DEF Inv
<1> QED
  BY <1>1, <1>2, PTL

\* One step: only the end of a batch, the end of a block and the end of a
\* recovery write the checkpoint.
LEMMA AdvanceStep ==
    ASSUME Inv, [Next]_vars, checkpoint' > checkpoint
    PROVE  \/ PublishedAt(checkpoint')
           \/ \E a \in Activations : step[a] = "rewind" /\ checkpoint' = level[a]
<1>1. checkpoint' # checkpoint
  BY ScannerAssumption DEF Inv, Typed, TypeOK
<1>2. CASE CheckpointBatch
  <2>1. BatchEnd(from, head) \in from..BatchEnd(from, head)
    BY <1>2, BatchInside DEF CheckpointBatch, Batching, Inv, Heights
  <2>2. PublishedAt(BatchEnd(from, head))
    BY <1>2, <2>1 DEF CheckpointBatch, Inv, BatchPublished, PublishedAt
  <2> QED
    BY <1>2, <2>2 DEF CheckpointBatch
<1>3. ASSUME NEW a \in Activations, NEW b \in todo[a], WriteCheckpoint(a, b)
      PROVE  PublishedAt(checkpoint')
  <2>1. <<b.number, logs[a]>> \in published
    BY <1>3 DEF WriteCheckpoint, Inv, BlockPublished, Recording
  <2>2. <<b.number, logs[a]>>[1] = b.number
    OBVIOUS
  <2> QED
    BY <1>3, <2>1, <2>2 DEF WriteCheckpoint, PublishedAt
<1>4. ASSUME NEW a \in Activations, NEW b \in todo[a], Rewind(a, b)
      PROVE  step[a] = "rewind" /\ checkpoint' = level[a]
  BY <1>4 DEF Rewind
<1>5. \/ CheckpointBatch
      \/ \E a \in Activations : \E b \in todo[a] : WriteCheckpoint(a, b) \/ Rewind(a, b)
  BY <1>1 DEF Next, vars, Mine, Reorg, StartUp, ResolveStartBlock, ReadHead, StoreHeader,
              FetchBatch, PublishBatch, RecordBatch, Subscribe, NewHead, Proceed, CheckParent,
              Backtrace, DeleteAbove, FetchLogs, PublishToChannels, RecordPublishLedger,
              InsertBlockHeader, ProcessThrows, Crash, storeVars
<1> QED
  BY <1>2, <1>3, <1>4, <1>5

\* AdvanceAfterPublish: the checkpoint goes up only to a block that has been
\* published, or to the ancestor that a recovery has found.
THEOREM CheckpointFollowsPublication == Spec => AdvanceAfterPublish
<1>1. Spec => []Inv
  BY InvInit, InvStep, PTL DEF Spec
<1>2. Inv /\ [Next]_vars
        => [checkpoint' > checkpoint =>
               \/ PublishedAt(checkpoint')
               \/ \E a \in Activations : step[a] = "rewind" /\ checkpoint' = level[a]]_vars
  BY AdvanceStep
<1> QED
  BY <1>1, <1>2, PTL DEF Spec, AdvanceAfterPublish

-----------------------------------------------------------------------------
(* The checkpoint has a header.                                            *)

\* Block n has a stored header, or is recorded as without one.
Held(n) == n \in Numbers(headers) \cup {0} \cup unheaded

\* So has whatever an activation is about to make the checkpoint.
DueHeld == \A a \in Activations : \A n \in 0..MaxHeight : Due(a, n) => Held(n)

\* So have the blocks of a batch once its headers are stored.
BatchStored ==
    pc \in Batching =>
        \A n \in from..BatchEnd(from, head) : n \in Numbers(headers) \/ (pc = "headers" /\ n \in toStore)

\* The invariant behind CheckpointHeld.
HeldInv == CheckpointHeld /\ DueHeld /\ BatchStored

\* A step of one activation leaves what the others are about to do.
LEMMA DueKept ==
    ASSUME DueHeld, NEW a \in Activations,
           \A n \in 0..MaxHeight : Held(n) => Held(n)',
           \A c \in Activations \ {a} : /\ step'[c] = step[c] /\ level'[c] = level[c]
                                        /\ todo'[c] = todo[c],
           \A n \in 0..MaxHeight : Due(a, n)' => Held(n)'
    PROVE  DueHeld'
<1> SUFFICES ASSUME NEW c \in Activations, NEW n \in 0..MaxHeight, Due(c, n)' PROVE Held(n)'
  BY DEF DueHeld
<1>1. CASE c = a
  BY <1>1
<1>2. CASE c # a
  <2>1. Due(c, n)
    BY <1>2 DEF Due, Working
  <2> QED
    BY <2>1 DEF DueHeld
<1> QED
  BY <1>1, <1>2

\* Inserting a header takes none away.
LEMMA InsertKeeps ==
    ASSUME NEW S, NEW b
    PROVE  Numbers(Insert(S, b)) = Numbers(S) \cup {b.number}
  BY DEF Insert, Numbers

\* The invariant holds at the start.
LEMMA HeldInit == Init => HeldInv
  BY DEF Init, HeldInv, CheckpointHeld, DueHeld, Due, BatchStored, Batching

\* The live path: an activation comes to its checkpoint with the header
\* stored, to its ancestor with the header found, and the delete records
\* what it takes from the others.
LEMMA HeldLive ==
    ASSUME Typed, HeldInv, NEW a \in Activations,
           NewHead(a) \/ Proceed(a) \/ \E b \in todo[a] : ProcessThrows(a, b)
    PROVE  HeldInv'
<1>0. /\ step \in [Activations -> LiveSteps] /\ todo \in [Activations -> SUBSET Block]
      /\ level \in [Activations -> 0..Len(chain)] /\ Len(chain) \in 0..MaxHeight
      /\ checkpoint \in 0..Len(chain) /\ headers \in SUBSET Block
      /\ CheckpointHeld /\ DueHeld /\ MaxHeight \in Nat
  BY ScannerAssumption DEF Typed, TypeOK, HeldInv
<1>1. BatchStored'
  <2>1. pc = "live" \/ \A c \in Activations : step[c] = "idle" /\ todo[c] = {}
    BY DEF Typed, Silent
  <2>2. pc' = "live"
    BY <2>1 DEF NewHead, Proceed, CheckParent, Backtrace, DeleteAbove, Rewind, FetchLogs,
                PublishToChannels, RecordPublishLedger, InsertBlockHeader, WriteCheckpoint,
                ProcessThrows, startVars
  <2> QED
    BY <2>2 DEF BatchStored, Batching
<1>2. ASSUME UNCHANGED <<headers, checkpoint, unheaded>>, step[a] # "rewind",
             \A c \in Activations \ {a} : /\ step'[c] = step[c] /\ level'[c] = level[c]
                                          /\ todo'[c] = todo[c],
             step'[a] \notin {"checkpoint", "delete", "rewind"}
      PROVE  HeldInv'
  <2>1. \A n \in 0..MaxHeight : (Held(n) => Held(n)') /\ ~Due(a, n)'
    BY <1>2 DEF Held, Due, Numbers
  <2>2. DueHeld'
    BY <1>0, <1>2, <2>1, DueKept
  <2>3. CheckpointHeld'
    BY <1>0, <1>2 DEF CheckpointHeld, Numbers
  <2> QED
    BY <1>1, <2>2, <2>3 DEF HeldInv
<1>3. CASE NewHead(a)
  BY <1>0, <1>2, <1>3 DEF NewHead, Goto, storeVars
<1>4. ASSUME NEW b \in todo[a], CheckParent(a, b) PROVE HeldInv'
  BY <1>0, <1>2, <1>4 DEF CheckParent, Goto, storeVars, history
<1>5. ASSUME NEW b \in todo[a],
             FetchLogs(a, b) \/ PublishToChannels(a, b) \/ RecordPublishLedger(a, b)
      PROVE  HeldInv'
  BY <1>0, <1>2, <1>5 DEF FetchLogs, PublishToChannels, RecordPublishLedger, Goto, storeVars, history
<1>6. CASE Backtrace(a)
  <2>1. /\ UNCHANGED <<headers, checkpoint, unheaded, todo>> /\ step[a] = "backtrace"
        /\ \/ Common(level[a]) /\ level' = level /\ step' = [step EXCEPT ![a] = "delete"]
           \/ step' = step /\ level' = [level EXCEPT ![a] = @ - 1]
    BY <1>6 DEF Backtrace, Goto, storeVars, history
  <2>2. CASE step' = step
    BY <1>0, <1>2, <2>1, <2>2
  <2>3. CASE Common(level[a]) /\ level' = level /\ step' = [step EXCEPT ![a] = "delete"]
    <3>1. Held(level[a])
      BY <2>3 DEF Common, Held, Numbers
    <3>2. \A n \in 0..MaxHeight : (Held(n) => Held(n)') /\ (Due(a, n)' => n = level[a])
      BY <1>0, <2>1, <2>3 DEF Held, Due, Numbers
    <3>3. DueHeld'
      BY <1>0, <2>1, <2>3, <3>1, <3>2, DueKept
    <3>4. CheckpointHeld'
      BY <1>0, <2>1, <2>3 DEF CheckpointHeld, Numbers
    <3> QED
      BY <1>1, <3>3, <3>4 DEF HeldInv
  <2> QED
    BY <2>1, <2>2, <2>3
<1>7. CASE DeleteAbove(a)
  <2>1. /\ step[a] = "delete" /\ step' = [step EXCEPT ![a] = "rewind"] /\ level' = level /\ todo' = todo
        /\ headers' = {h \in headers : h.number <= level[a]}
        /\ unheaded' = unheaded \cup {n \in Heights : n > level[a] /\ \E c \in Activations : Due(c, n)}
    BY <1>7 DEF DeleteAbove, Goto
  <2>2. ASSUME NEW c \in Activations, NEW n \in 0..MaxHeight, Due(c, n)' PROVE Held(n)'
    <3>1. Due(c, n)
      <4>1. CASE c = a
        BY <1>0, <2>1, <2>2, <4>1 DEF Due
      <4>2. CASE c # a
        BY <1>0, <2>1, <2>2, <4>2 DEF Due, Working
      <4> QED
        BY <4>1, <4>2
    <3>2. CASE n > level[a]
      <4>1. n \in Heights
        BY <1>0, <3>2 DEF Heights
      <4> QED
        BY <2>1, <3>1, <3>2, <4>1 DEF Held
    <3>3. CASE n <= level[a]
      <4>1. n \in Numbers(headers) => n \in Numbers(headers)'
        BY <2>1, <3>3 DEF Numbers
      <4> QED
        BY <1>0, <2>1, <3>1, <4>1 DEF DueHeld, Held
    <3> QED
      BY <1>0, <3>2, <3>3
  <2>3. CheckpointHeld'
    BY <1>0, <2>1 DEF CheckpointHeld
  <2> QED
    BY <1>1, <2>2, <2>3 DEF HeldInv, DueHeld
<1>8. ASSUME NEW b \in todo[a], Rewind(a, b) \/ WriteCheckpoint(a, b) PROVE HeldInv'
  <2>1. /\ UNCHANGED <<headers, unheaded>> /\ Leave(a, b)
        /\ todo' = [todo EXCEPT ![a] = @ \ {b}]
        /\ Due(a, checkpoint')
    BY <1>8 DEF Rewind, WriteCheckpoint, Done, Leave, Due
  <2>2. checkpoint' \in 0..MaxHeight
    <3>1. b.number \in 1..Len(chain)
      BY DEF Typed, TypeOK, Announced, Block, Heights
    <3> QED
      BY <1>0, <1>8, <3>1 DEF Rewind, WriteCheckpoint
  <2>3. Held(checkpoint')
    BY <1>0, <2>1, <2>2 DEF DueHeld
  <2>4. \A n \in 0..MaxHeight : (Held(n) => Held(n)') /\ ~Due(a, n)'
    BY <2>1, LeaveTyped DEF Held, Due, Numbers
  <2>5. \A c \in Activations \ {a} : /\ step'[c] = step[c] /\ level'[c] = level[c]
                                     /\ todo'[c] = todo[c]
    BY <1>0, <2>1, LeaveTyped
  <2>6. DueHeld'
    BY <1>0, <2>4, <2>5, DueKept
  <2>7. CheckpointHeld'
    BY <2>1, <2>3 DEF CheckpointHeld, Held, Numbers
  <2> QED
    BY <1>1, <2>6, <2>7 DEF HeldInv
<1>9. ASSUME NEW b \in todo[a], InsertBlockHeader(a, b) PROVE HeldInv'
  <2>1. /\ step[a] = "header" /\ Working(a, b) /\ step' = [step EXCEPT ![a] = "checkpoint"]
        /\ headers' = Insert(headers, b) /\ unheaded' = unheaded \ {b.number}
        /\ UNCHANGED <<todo, level, checkpoint>>
    BY <1>9 DEF InsertBlockHeader, Goto
  <2>2. Numbers(headers') = Numbers(headers) \cup {b.number}
    BY <2>1, InsertKeeps
  <2>3. \A n \in 0..MaxHeight : Held(n) => Held(n)'
    BY <2>1, <2>2 DEF Held, Numbers
  <2>4. ASSUME NEW n \in 0..MaxHeight, Due(a, n)' PROVE Held(n)'
    <3>1. PICK x \in todo[a] : Working(a, x) /\ x.number = n
      BY <1>0, <2>1, <2>4 DEF Due, Working
    <3>2. n = b.number
      BY <2>1, <3>1, WorkingUnique
    <3> QED
      BY <2>2, <3>2 DEF Held, Numbers
  <2>5. DueHeld'
    BY <1>0, <2>1, <2>3, <2>4, DueKept
  <2>6. CheckpointHeld'
    BY <1>0, <2>1, <2>2 DEF CheckpointHeld, Numbers
  <2> QED
    BY <1>1, <2>5, <2>6 DEF HeldInv
<1>10. ASSUME NEW b \in todo[a], ProcessThrows(a, b) PROVE HeldInv'
  <2>1. /\ Leave(a, b) /\ CutShort({a}) /\ UNCHANGED <<headers, checkpoint>>
        /\ todo' = [todo EXCEPT ![a] = @ \ {b}]
    BY <1>10 DEF ProcessThrows, Leave, storeVars
  <2>2. \A n \in 0..MaxHeight : (Held(n) => Held(n)') /\ ~Due(a, n)'
    BY <2>1, LeaveTyped DEF Held, Due, Numbers, CutShort
  <2>3. \A c \in Activations \ {a} : /\ step'[c] = step[c] /\ level'[c] = level[c]
                                     /\ todo'[c] = todo[c]
    BY <1>0, <2>1, LeaveTyped
  <2>4. DueHeld'
    BY <1>0, <2>2, <2>3, DueKept
  <2>5. CheckpointHeld'
    BY <1>0, <2>1, <2>3 DEF CheckpointHeld, CutShort, Numbers
  <2> QED
    BY <1>1, <2>4, <2>5 DEF HeldInv
<1> QED
  BY <1>3, <1>4, <1>5, <1>6, <1>7, <1>8, <1>9, <1>10 DEF Proceed

\* The start-up: the blocks of a batch have their headers before the
\* checkpoint passes them.
LEMMA HeldStart == ASSUME Typed, HeldInv, StartUp PROVE HeldInv'
<1>1. /\ pc # "live" /\ UNCHANGED <<step, todo, level>> /\ \A a \in Activations : step[a] = "idle"
  <2>1. pc # "live" /\ UNCHANGED liveVars
    BY DEF StartUp, ResolveStartBlock, ReadHead, StoreHeader, FetchBatch, PublishBatch,
           RecordBatch, CheckpointBatch, Subscribe
  <2> QED
    BY <2>1 DEF Typed, Silent, liveVars
<1>2. DueHeld'
  BY <1>1 DEF DueHeld, Due
<1>3. checkpoint \in Numbers(headers) \cup {0} \cup unheaded
  BY <1>1 DEF HeldInv, CheckpointHeld
<1>4. CASE ResolveStartBlock \/ ReadHead \/ Subscribe
  <2>1. UNCHANGED <<headers, checkpoint, unheaded>>
    BY <1>4 DEF ResolveStartBlock, ReadHead, Subscribe, storeVars, history
  <2>2. CheckpointHeld'
    BY <1>3, <2>1 DEF CheckpointHeld, Numbers
  <2>3. BatchStored'
    BY <1>4 DEF ResolveStartBlock, ReadHead, Subscribe, BeginBatch, BatchStored, Batching
  <2> QED
    BY <1>2, <2>2, <2>3 DEF HeldInv
<1>5. ASSUME NEW n \in Heights, StoreHeader(n) PROVE HeldInv'
  <2>1. /\ pc = "headers" /\ headers' = Insert(headers, HeaderAt(n)) /\ unheaded' = unheaded \ {n}
        /\ toStore' = toStore \ {n} /\ pc' = IF toStore' = {} THEN "logs" ELSE "headers"
        /\ UNCHANGED <<from, head, checkpoint>>
    BY <1>5 DEF StoreHeader
  <2>2. Numbers(headers') = Numbers(headers) \cup {n}
    BY <2>1, InsertKeeps DEF HeaderAt
  <2>3. CheckpointHeld'
    BY <1>3, <2>1, <2>2 DEF CheckpointHeld, Numbers
  <2>4. BatchStored'
    <3> SUFFICES ASSUME NEW m \in from..BatchEnd(from, head)
                 PROVE  m \in Numbers(headers') \/ (pc' = "headers" /\ m \in toStore')
      BY <2>1 DEF BatchStored, BatchEnd, Numbers
    <3>1. m \in Numbers(headers) \/ m \in toStore
      BY <2>1 DEF HeldInv, BatchStored, Batching
    <3>2. CASE m \in Numbers(headers) \/ m = n
      BY <2>2, <3>2
    <3>3. CASE m \in toStore /\ m # n
      BY <2>1, <3>3
    <3> QED
      BY <3>1, <3>2, <3>3
  <2> QED
    BY <1>2, <2>3, <2>4 DEF HeldInv
<1>6. CASE FetchBatch \/ PublishBatch \/ RecordBatch
  <2>1. /\ UNCHANGED <<headers, checkpoint, unheaded, from, head>>
        /\ pc \in Batching \ {"headers"} /\ pc' \in Batching \ {"headers"}
    BY <1>6 DEF FetchBatch, PublishBatch, RecordBatch, storeVars, history, Batching
  <2>2. CheckpointHeld'
    BY <1>3, <2>1 DEF CheckpointHeld, Numbers
  <2>3. BatchStored'
    <3> SUFFICES ASSUME NEW m \in from..BatchEnd(from, head) PROVE m \in Numbers(headers')
      BY <2>1 DEF BatchStored, BatchEnd, Numbers
    <3> QED
      BY <2>1 DEF HeldInv, BatchStored
  <2> QED
    BY <1>2, <2>2, <2>3 DEF HeldInv
<1>7. CASE CheckpointBatch
  <2>1. /\ pc = "checkpoint" /\ checkpoint' = BatchEnd(from, head) /\ headers' = headers
    BY <1>7 DEF CheckpointBatch
  <2>2. BatchEnd(from, head) \in from..BatchEnd(from, head)
    BY <1>7, BatchInside DEF CheckpointBatch, Batching, Heights
  <2>3. CheckpointHeld'
    BY <2>1, <2>2 DEF HeldInv, BatchStored, Batching, CheckpointHeld, Numbers
  <2>4. BatchStored'
    BY <1>7 DEF CheckpointBatch, BeginBatch, BatchStored, BatchEnd, Batching
  <2> QED
    BY <1>2, <2>3, <2>4 DEF HeldInv
<1> QED
  BY <1>4, <1>5, <1>6, <1>7 DEF StartUp

\* The invariant is kept by every step.
LEMMA HeldStep == Typed /\ HeldInv /\ [Next]_vars => HeldInv'
<1> SUFFICES ASSUME Typed, HeldInv, [Next]_vars PROVE HeldInv'
  OBVIOUS
<1>1. ASSUME UNCHANGED <<step, todo, level, headers, checkpoint, unheaded, pc, from, head, toStore>>
      PROVE  HeldInv'
  BY <1>1 DEF HeldInv, CheckpointHeld, DueHeld, Due, Working, Held, BatchStored, BatchEnd, Numbers
<1>2. CASE Mine \/ (\E n \in 0..MaxHeight : Reorg(n)) \/ UNCHANGED vars
  BY <1>1, <1>2 DEF Mine, Reorg, vars, startVars, liveVars, storeVars, history
<1>3. CASE Crash
  <2>1. /\ step' = [a \in Activations |-> "idle"] /\ CutShort(Activations)
        /\ UNCHANGED <<headers, checkpoint>> /\ pc' = "down"
    BY <1>3 DEF Crash, storeVars
  <2> QED
    BY <2>1 DEF HeldInv, CheckpointHeld, DueHeld, Due, BatchStored, Batching, CutShort, Numbers
<1> QED
  BY <1>2, <1>3, HeldStart, HeldLive DEF Next

\* CheckpointHeld: the checkpoint has its header, but between the last two
\* steps of a recovery, or after one was cut short or overtaken there.
THEOREM CheckpointsHeld == Spec => []CheckpointHeld
<1>1. Spec => [](Typed /\ HeldInv)
  BY TypedInit, TypedStep, HeldInit, HeldStep, PTL DEF Spec
<1>2. HeldInv => CheckpointHeld
  BY DEF HeldInv
<1> QED
  BY <1>1, <1>2, PTL

-----------------------------------------------------------------------------
(* Stored headers link.                                                    *)

\* No two activations have overlapped, none was cut short, and none failed.
Calm == ~overlapped /\ ~interrupted /\ faults = 0

\* Nothing is stored above n; from n on, adjacent headers link.
Below(S, n) == \A h \in S : h.number <= n
Linked(S, n) == \A h, k \in S : (h.number >= n /\ k.number = h.number + 1) => k.parent = h.hash

\* No activation is under way.
AllIdle == \A a \in Activations : step[a] = "idle"

\* An activation is alone at work, on the one block the scanner holds.
OneBlock ==
    /\ \A a, c \in Activations : step[a] # "idle" /\ step[c] # "idle" => a = c
    /\ \A a \in Activations :
          step[a] # "idle" => \E b \in Block : todo[a] = {b} /\ pendingBlocks = {b}
    /\ AllIdle => pendingBlocks = {}

\* The block comes on top of the stored headers, and once past the parent
\* check it links to its stored parent.
Compared ==
    \A a \in Activations : \A b \in todo[a] :
        /\ step[a] # "idle" => Below(headers, b.number)
        /\ step[a] \in {"logs", "publish", "ledger", "header"} => ~Mismatch(b)

\* The cascade of deletes leaves nothing above the ancestor.
Trimmed == \A a \in Activations : step[a] = "rewind" => Below(headers, level[a])

\* Between blocks nothing is stored above the checkpoint, and start()
\* resumes there unless it is told otherwise.
StartBelow ==
    /\ pc \notin Batching /\ AllIdle => Below(headers, checkpoint)
    /\ pc = "head" => from = IF StartBlock > 0 THEN StartBlock ELSE checkpoint + 1

\* As long as the chain has not outgrown the start block, nothing is caught up.
NoCatchUp ==
    StartBlock > 0 /\ Len(chain) <= StartBlock =>
        /\ Linked(headers, StartBlock - 1)
        /\ pc # "down" => from = StartBlock
        /\ pc \notin Batching

\* What the scanner has stored is linked above the caught-up part.
Chained ==
    /\ OneBlock /\ Compared /\ Trimmed /\ StartBelow /\ NoCatchUp
    /\ pc \in {"subscribe", "live"} => Linked(headers, from - 1)

\* Nothing is stored that the chain does not reach, and the catch-up stores
\* nothing above the head it has read.
Reached ==
    /\ Below(headers, Len(chain))
    /\ pc \in Batching => Below(headers, head) /\ \A n \in toStore : n <= head

\* The invariant behind HeadersLinked.
LinkInv == Reached /\ (Calm => Chained)

\* Nothing at all above n links trivially.
LEMMA BelowLinked ==
    ASSUME NEW S \in SUBSET Block, NEW n \in Int, Below(S, n)
    PROVE  Linked(S, n)
BY DEF Below, Linked, Block, Heights

\* A block on top of the others that agrees with its parent links.
LEMMA LinkedInsert ==
    ASSUME NEW S \in SUBSET Block, NEW b \in Block, NEW n \in Int,
           Below(S, b.number), Linked(S, n),
           \A h \in S : h.number = b.number - 1 => h.hash = b.parent
    PROVE  Linked(S \cup {b}, n)
<1> SUFFICES ASSUME NEW h \in S \cup {b}, NEW k \in S \cup {b},
                    h.number >= n, k.number = h.number + 1
             PROVE  k.parent = h.hash
  BY DEF Linked
<1>1. h \in Block /\ k \in Block /\ b.number \in Int /\ h.number \in Int /\ k.number \in Int
  BY DEF Block, Heights
<1>2. CASE h \in S /\ k \in S
  BY <1>2 DEF Linked
<1>3. CASE h \in S /\ k = b
  BY <1>1, <1>3
<1>4. CASE h = b
  <2>1. k \in S
    BY <1>1, <1>4
  <2> QED
    BY <1>1, <1>4, <2>1 DEF Below
<1> QED
  BY <1>2, <1>3, <1>4

\* What is stored is below what the chain reaches, at every step.
LEMMA ReachedStep ==
    ASSUME Typed, Reached, [Next]_vars
    PROVE  Reached'
<1>0. /\ headers \in SUBSET Block /\ \A h \in Block : h.number \in Nat
      /\ chain \in Seq(Hashes) /\ Len(chain) \in Nat /\ head \in Nat
  BY ScannerAssumption DEF Typed, TypeOK, Block, Heights
<1>1. ASSUME UNCHANGED <<headers, chain, pc, head, toStore>> PROVE Reached'
  BY <1>1 DEF Reached, Below
<1>2. CASE Mine \/ \E n \in 0..MaxHeight : Reorg(n)
  <2>1. Len(chain') \in Nat /\ Len(chain') >= Len(chain)
    BY <1>0, <1>2 DEF Mine, Reorg
  <2>2. UNCHANGED <<startVars, storeVars>>
    BY <1>2 DEF Mine, Reorg
  <2> QED
    BY <1>0, <2>1, <2>2 DEF Reached, Below, startVars, storeVars
<1>3. CASE ResolveStartBlock \/ Subscribe
  BY <1>3 DEF ResolveStartBlock, Subscribe, Reached, Below, Batching, chainVars, storeVars
<1>4. CASE ReadHead
  <2>1. /\ headers' = headers /\ chain' = chain
        /\ pc' \in Batching => /\ head' = Len(chain) /\ toStore' = from..BatchEnd(from, head')
                               /\ from <= head'
    BY <1>4 DEF ReadHead, BeginBatch, Batching, chainVars, storeVars
  <2>3. from \in Nat
    BY DEF Typed, TypeOK
  <2>4. from <= Len(chain) => BatchEnd(from, Len(chain)) \in from..Len(chain)
    BY <1>0, <2>3, BatchEndTyped
  <2>2. pc' \in Batching => \A n \in toStore' : n <= head'
    BY <1>0, <2>1, <2>3, <2>4
  <2> QED
    BY <2>1, <2>2 DEF Reached, Below
<1>5. ASSUME NEW n \in Heights, StoreHeader(n) PROVE Reached'
  <2>1. /\ n \in toStore /\ toStore' \subseteq toStore /\ pc \in Batching
        /\ headers' \subseteq headers \cup {HeaderAt(n)} /\ UNCHANGED <<chain, head>>
    BY <1>5 DEF StoreHeader, Insert, Batching, chainVars
  <2>2. HeaderAt(n).number = n /\ n <= head /\ n \in 1..Len(chain)
    BY <2>1, HeaderTyped DEF Reached, Typed, TypeOK
  <2> QED
    BY <1>0, <2>1, <2>2 DEF Reached, Below
<1>6. CASE FetchBatch \/ PublishBatch \/ RecordBatch
  BY <1>6 DEF FetchBatch, PublishBatch, RecordBatch, Reached, Below, Batching, chainVars,
              storeVars
<1>7. CASE CheckpointBatch
  <2>1. BatchEnd(from, head) \in Nat /\ from' = BatchEnd(from, head) + 1
    BY <1>7, BatchInside DEF CheckpointBatch, Batching, Heights
  <2>2. from' <= head => BatchEnd(from', head) \in from'..head
    BY <1>0, <2>1, BatchEndTyped
  <2>3. /\ UNCHANGED <<headers, chain>> /\ pc \in Batching
        /\ pc' \in Batching => /\ toStore' = from'..BatchEnd(from', head) /\ from' <= head
                               /\ head' = head
    BY <1>7 DEF CheckpointBatch, BeginBatch, Batching, chainVars
  <2>4. pc' \in Batching => \A n \in toStore' : n <= head'
    BY <1>0, <2>1, <2>2, <2>3
  <2> QED
    BY <2>3, <2>4 DEF Reached, Below
<1>8. ASSUME NEW a \in Activations,
             NewHead(a) \/ Proceed(a) \/ \E b \in todo[a] : ProcessThrows(a, b)
      PROVE  Reached'
  <2>1. pc = "live" /\ UNCHANGED <<chain, pc, head, toStore>>
    <3>1. CASE NewHead(a)
      BY <3>1 DEF NewHead, chainVars, startVars
    <3>2. CASE Proceed(a) \/ \E b \in todo[a] : ProcessThrows(a, b)
      <4>1. step[a] # "idle" /\ UNCHANGED <<chainVars, startVars>>
        BY <3>2 DEF Proceed, CheckParent, Backtrace, DeleteAbove, Rewind, FetchLogs,
                    PublishToChannels, RecordPublishLedger, InsertBlockHeader, WriteCheckpoint,
                    ProcessThrows
      <4> QED
        BY <4>1 DEF Typed, Silent, chainVars, startVars
    <3> QED
      BY <1>8, <3>1, <3>2
  <2>2. headers' \subseteq headers \/ \E b \in todo[a] : headers' = Insert(headers, b)
    BY <1>8 DEF NewHead, Proceed, CheckParent, Backtrace, DeleteAbove, Rewind, FetchLogs,
                PublishToChannels, RecordPublishLedger, InsertBlockHeader, WriteCheckpoint,
                ProcessThrows, storeVars
  <2>3. \A b \in todo[a] : b.number <= Len(chain)
    BY DEF Typed, Announced
  <2> QED
    BY <2>1, <2>2, <2>3 DEF Reached, Below, Insert, Batching
<1>9. CASE Crash
  BY <1>9 DEF Crash, Reached, Below, Batching, chainVars, storeVars
<1>10. CASE UNCHANGED vars
  BY <1>1, <1>10 DEF vars, chainVars, startVars, storeVars
<1> QED
  BY <1>2, <1>3, <1>4, <1>5, <1>6, <1>7, <1>8, <1>9, <1>10 DEF Next, StartUp

\* The chain moving changes nothing the scanner has stored or holds.
LEMMA ChainedChain ==
    ASSUME Typed, Chained, Mine \/ \E n \in 0..MaxHeight : Reorg(n)
    PROVE  Chained'
<1>1. Len(chain') >= Len(chain) /\ Len(chain) \in Nat /\ Len(chain') \in Nat
  BY DEF Mine, Reorg, Typed, TypeOK
<1>2. UNCHANGED <<startVars, liveVars, storeVars>>
  BY DEF Mine, Reorg
<1>3. (OneBlock /\ Compared /\ Trimmed /\ StartBelow)'
  BY <1>2 DEF Chained, OneBlock, Compared, Trimmed, StartBelow, AllIdle, Below, Mismatch,
              startVars, liveVars, storeVars
<1>4. NoCatchUp'
  BY <1>1, <1>2, ScannerAssumption DEF Chained, NoCatchUp, startVars, storeVars
<1> QED
  BY <1>2, <1>3, <1>4 DEF Chained, startVars, storeVars

\* start() works while no activation does.  It subscribes either after the
\* last batch, with nothing stored above its head, or without any batch.
LEMMA ChainedStart ==
    ASSUME Typed, Reached, Chained, StartUp
    PROVE  Chained'
<1>0. /\ headers \in SUBSET Block /\ from \in Nat /\ from >= 1 /\ head \in Nat
      /\ Len(chain) \in Nat /\ checkpoint \in Nat /\ StartBlock \in Nat
  BY ScannerAssumption DEF Typed, TypeOK, Announced
<1>1. /\ pc # "live" /\ UNCHANGED <<pendingBlocks, step, todo, level, chain>>
      /\ pendingBlocks = {} /\ \A a \in Activations : step[a] = "idle" /\ todo[a] = {}
  <2>1. pc # "live" /\ UNCHANGED <<liveVars, chainVars>>
    BY DEF StartUp, ResolveStartBlock, ReadHead, StoreHeader, FetchBatch, PublishBatch,
           RecordBatch, CheckpointBatch, Subscribe
  <2> QED
    BY <2>1 DEF Typed, Silent, liveVars, chainVars
<1>2. (OneBlock /\ Compared /\ Trimmed)'
  BY <1>1 DEF OneBlock, Compared, Trimmed
<1>3. AllIdle
  BY <1>1 DEF AllIdle
<1>4. CASE ResolveStartBlock
  <2>1. /\ pc = "down" /\ pc' = "head" /\ UNCHANGED <<headers, checkpoint>>
        /\ from' = IF StartBlock > 0 THEN StartBlock ELSE checkpoint + 1
    BY <1>4 DEF ResolveStartBlock, storeVars
  <2>2. Below(headers, checkpoint)
    BY <1>3, <2>1 DEF Chained, StartBelow, Batching
  <2> QED
    BY <1>1, <1>2, <2>1, <2>2 DEF Chained, StartBelow, NoCatchUp, Batching
<1>5. CASE ReadHead
  <2>1. /\ pc = "head" /\ UNCHANGED <<headers, checkpoint, from>>
        /\ IF from < Len(chain) THEN pc' = "headers" \/ ~(from <= Len(chain))
                                ELSE pc' = "subscribe"
        /\ pc' \in {"headers", "subscribe"}
    BY <1>5 DEF ReadHead, BeginBatch, storeVars
  <2>2. Below(headers, checkpoint)
    BY <1>3, <2>1 DEF Chained, StartBelow, Batching
  <2>3. StartBelow'
    BY <2>1, <2>2 DEF StartBelow
  <2>4. NoCatchUp'
    BY <1>0, <1>1, <2>1 DEF Chained, NoCatchUp, Batching
  <2>5. pc' = "subscribe" => Linked(headers, from - 1)
    <3> SUFFICES ASSUME pc' = "subscribe" PROVE Linked(headers, from - 1)
      OBVIOUS
    <3>1. Len(chain) <= from
      BY <1>0, <2>1
    <3>2. CASE StartBlock > 0
      <4>1. from = StartBlock
        BY <2>1, <3>2 DEF Chained, StartBelow
      <4> QED
        BY <3>1, <3>2, <4>1 DEF Chained, NoCatchUp
    <3>3. CASE ~(StartBlock > 0)
      <4>1. from = checkpoint + 1
        BY <2>1, <3>3 DEF Chained, StartBelow
      <4>2. Linked(headers, checkpoint) /\ from - 1 = checkpoint
        BY <1>0, <2>2, <4>1, BelowLinked
      <4> QED
        BY <4>2
    <3> QED
      BY <3>2, <3>3
  <2> QED
    BY <1>2, <2>1, <2>3, <2>4, <2>5 DEF Chained
<1>6. ASSUME pc \in Batching, pc' \in Batching, from' = from PROVE Chained'
  BY <1>1, <1>2, <1>6 DEF Chained, StartBelow, NoCatchUp, Batching
<1>7. CASE FetchBatch \/ PublishBatch \/ RecordBatch \/ \E n \in Heights : StoreHeader(n)
  BY <1>6, <1>7 DEF FetchBatch, PublishBatch, RecordBatch, StoreHeader, Batching
<1>8. CASE CheckpointBatch
  <2>1. BatchEnd(from, head) \in from..head
    BY <1>8, BatchInside DEF CheckpointBatch, Batching
  <2>2. /\ from' = BatchEnd(from, head) + 1 /\ checkpoint' = BatchEnd(from, head)
        /\ headers' = headers /\ pc = "checkpoint" /\ pc' \in {"headers", "subscribe"}
        /\ pc' = "subscribe" => ~(from' <= head)
    BY <1>8 DEF CheckpointBatch, BeginBatch
  <2>3. pc' = "subscribe" => /\ Below(headers, checkpoint')
                             /\ Linked(headers, from' - 1)
    <3> SUFFICES ASSUME pc' = "subscribe" PROVE Below(headers, checkpoint') /\ Linked(headers, from' - 1)
      OBVIOUS
    <3>1. checkpoint' = head /\ from' - 1 = head
      BY <1>0, <2>1, <2>2
    <3>2. Below(headers, head)
      BY <2>2 DEF Reached, Batching
    <3>3. Linked(headers, head)
      BY <1>0, <3>2, BelowLinked
    <3> QED
      BY <3>1, <3>2, <3>3
  <2> QED
    BY <1>1, <1>2, <2>2, <2>3 DEF Chained, StartBelow, NoCatchUp, Batching
<1>9. CASE Subscribe
  <2>1. pc = "subscribe" /\ pc' = "live" /\ UNCHANGED <<headers, checkpoint, from>>
    BY <1>9 DEF Subscribe, storeVars
  <2> QED
    BY <1>1, <1>2, <1>3, <2>1 DEF Chained, StartBelow, NoCatchUp, Batching
<1> QED
  BY <1>4, <1>5, <1>7, <1>8, <1>9 DEF StartUp

\* A new head that finds nobody at work is the only block then held: the
\* cap drops none.
LEMMA ChainedNewHead ==
    ASSUME Typed, Reached, Chained, NEW a \in Activations, NewHead(a), ~overlapped'
    PROVE  Chained'
<1> DEFINE b == HeaderAt(Len(chain))
<1>1. AllIdle /\ pendingBlocks = {}
  BY DEF NewHead, Chained, OneBlock, AllIdle
<1>2. b \in Block /\ b.number = Len(chain)
  <2>1. Len(chain) \in 1..Len(chain) /\ TypeOK
    BY DEF NewHead, Typed, TypeOK
  <2> QED
    BY <2>1, HeaderTyped
<1>3. pendingBlocks' = Put(pendingBlocks, b)
                        \ IF Cardinality(Put(pendingBlocks, b)) > MaxPending
                            THEN Lowest(Put(pendingBlocks, b)) ELSE {}
  BY DEF NewHead
<1> HIDE DEF b
<1>4. pendingBlocks' = {b}
  <2>1. Put(pendingBlocks, b) = {b}
    BY <1>1 DEF Put
  <2>2. Cardinality({b}) = 1
    BY FS_Singleton
  <2>3. ~(1 > MaxPending)
    BY ScannerAssumption
  <2> QED
    BY <1>3, <2>1, <2>2, <2>3
<1>5. /\ pc = "live" /\ step' = [step EXCEPT ![a] = "parent"]
      /\ todo' = [todo EXCEPT ![a] = {b}]
      /\ UNCHANGED <<level, chain, pc, from, headers, checkpoint>>
  <2>1. /\ pc = "live" /\ step' = [step EXCEPT ![a] = "parent"]
        /\ todo' = [todo EXCEPT ![a] = pendingBlocks']
        /\ UNCHANGED <<level, chainVars, startVars, storeVars>>
    BY DEF NewHead, Goto
  <2> QED
    BY <1>4, <2>1 DEF chainVars, startVars, storeVars
<1>6. /\ step'[a] = "parent" /\ todo'[a] = {b}
      /\ \A c \in Activations : c # a => step'[c] = "idle"
  BY <1>1, <1>5 DEF AllIdle, Typed, TypeOK
<1>7. OneBlock'
  BY <1>2, <1>4, <1>6 DEF OneBlock, AllIdle
<1>8. Compared' /\ Trimmed'
  BY <1>2, <1>5, <1>6 DEF Reached, Compared, Trimmed
<1>9. StartBelow' /\ NoCatchUp'
  BY <1>5, <1>6 DEF Chained, StartBelow, NoCatchUp, AllIdle, Batching
<1> QED
  BY <1>5, <1>7, <1>8, <1>9 DEF Chained

\* The activation at work takes its one block a step further.
LEMMA ChainedGoOn ==
    ASSUME Typed, Chained, NEW a \in Activations, NEW b \in Block, NEW s \in LiveSteps \ {"idle"},
           pc = "live", step[a] # "idle", todo[a] = {b}, step' = [step EXCEPT ![a] = s],
           UNCHANGED <<chain, pc, from, pendingBlocks, todo>>,
           Below(headers', b.number),
           s \in {"logs", "publish", "ledger", "header"} =>
               \A h \in headers' : h.number = b.number - 1 => h.hash = b.parent,
           s = "rewind" => Below(headers', level'[a]),
           \A n \in Int : Linked(headers, n) => Linked(headers', n)
    PROVE  Chained'
<1>1. /\ step'[a] = s /\ \A c \in Activations : c # a => step'[c] = "idle"
  <2>1. \A c \in Activations : c # a => step[c] = "idle"
    BY DEF Chained, OneBlock
  <2> QED
    BY <2>1 DEF Typed, TypeOK
<1>2. pendingBlocks = {b} /\ todo'[a] = {b}
  BY DEF Chained, OneBlock
<1>3. OneBlock'
  BY <1>1, <1>2 DEF OneBlock, AllIdle
<1>4. Compared' /\ Trimmed'
  BY <1>1, <1>2 DEF Compared, Trimmed, Mismatch
<1>5. StartBelow'
  BY <1>1 DEF StartBelow, AllIdle
<1>6. from - 1 \in Int /\ StartBlock - 1 \in Int
  BY ScannerAssumption DEF Typed, TypeOK
<1>7. NoCatchUp' /\ Linked(headers', from - 1)
  BY <1>6 DEF Chained, NoCatchUp, Batching
<1> QED
  BY <1>3, <1>4, <1>5, <1>7 DEF Chained

\* The activation at work is through with its block, and nothing is stored
\* above the checkpoint it leaves.
LEMMA ChainedDone ==
    ASSUME Typed, Chained, NEW a \in Activations, NEW b \in Block,
           pc = "live", step[a] # "idle", todo[a] = {b}, Done(a, b),
           UNCHANGED <<chain, pc, from, headers>>,
           Below(headers, checkpoint')
    PROVE  Chained'
<1>1. pendingBlocks = {b} /\ \A c \in Activations : c # a => step[c] = "idle"
  BY DEF Chained, OneBlock
<1>2. pendingBlocks' = {} /\ \A c \in Activations : step'[c] = "idle"
  BY <1>1 DEF Done, Leave, Goto, Typed, TypeOK
<1>3. OneBlock' /\ Compared' /\ Trimmed'
  BY <1>2 DEF OneBlock, Compared, Trimmed
<1>4. StartBelow' /\ NoCatchUp'
  BY DEF Chained, StartBelow, NoCatchUp, Batching
<1> QED
  BY <1>3, <1>4 DEF Chained

\* An await of the activation at work: past the parent check, it stores only
\* a block that links; below a mismatch, it deletes down to the ancestor.
LEMMA ChainedProceed ==
    ASSUME Typed, Chained, NEW a \in Activations, Proceed(a)
    PROVE  Chained'
<1>0. /\ headers \in SUBSET Block /\ pc = "live" /\ step[a] # "idle"
      /\ UNCHANGED <<chain, pc, from>>
  <2>1. step[a] # "idle" /\ UNCHANGED <<chainVars, startVars>>
    BY DEF Proceed, CheckParent, Backtrace, DeleteAbove, Rewind, FetchLogs, PublishToChannels,
           RecordPublishLedger, InsertBlockHeader, WriteCheckpoint
  <2> QED
    BY <2>1 DEF Typed, TypeOK, Silent, chainVars, startVars
<1>1. PICK b \in Block : todo[a] = {b}
  BY <1>0 DEF Chained, OneBlock
<1>2. Below(headers, b.number)
  BY <1>0, <1>1 DEF Chained, Compared
<1>3. ASSUME NEW s \in LiveSteps \ {"idle"}, step' = [step EXCEPT ![a] = s],
             UNCHANGED <<pendingBlocks, todo, headers>>,
             s \in {"logs", "publish", "ledger", "header"} => ~Mismatch(b),
             s = "rewind" => Below(headers', level'[a])
      PROVE  Chained'
  BY <1>0, <1>1, <1>2, <1>3, ChainedGoOn DEF Mismatch
<1>4. CASE CheckParent(a, b)
  <2>1. /\ UNCHANGED <<pendingBlocks, todo, headers>>
        /\ IF Mismatch(b) THEN step' = [step EXCEPT ![a] = "backtrace"]
                          ELSE step' = [step EXCEPT ![a] = "logs"]
    BY <1>4 DEF CheckParent, Goto, storeVars
  <2> QED
    BY <1>3, <2>1 DEF LiveSteps
<1>5. CASE Backtrace(a)
  <2>1. /\ UNCHANGED <<pendingBlocks, todo, headers>> /\ step[a] = "backtrace"
        /\ step' = [step EXCEPT ![a] = "delete"] \/ step' = step
    BY <1>5 DEF Backtrace, Goto, storeVars
  <2>2. step' = step => step' = [step EXCEPT ![a] = "backtrace"]
    BY <2>1 DEF Typed, TypeOK
  <2> QED
    BY <1>3, <2>1, <2>2 DEF LiveSteps
<1>6. CASE DeleteAbove(a)
  <2>1. /\ UNCHANGED <<pendingBlocks, todo, level>>
        /\ headers' = {h \in headers : h.number <= level[a]}
        /\ step' = [step EXCEPT ![a] = "rewind"]
    BY <1>6 DEF DeleteAbove, Goto
  <2>2. /\ Below(headers', b.number) /\ Below(headers', level'[a])
        /\ \A n \in Int : Linked(headers, n) => Linked(headers', n)
    BY <1>2, <2>1 DEF Below, Linked
  <2> QED
    BY <1>0, <1>1, <2>1, <2>2, ChainedGoOn DEF LiveSteps
<1>7. CASE Rewind(a, b)
  <2>1. Below(headers, level[a])
    BY <1>7 DEF Rewind, Chained, Trimmed
  <2> QED
    BY <1>0, <1>1, <1>7, <2>1, ChainedDone DEF Rewind
<1>8. CASE FetchLogs(a, b) \/ PublishToChannels(a, b) \/ RecordPublishLedger(a, b)
  <2>1. /\ step[a] \in {"logs", "publish", "ledger"}
        /\ UNCHANGED <<pendingBlocks, todo, headers>>
        /\ \E s \in {"publish", "ledger", "header"} : step' = [step EXCEPT ![a] = s]
    BY <1>8 DEF FetchLogs, PublishToChannels, RecordPublishLedger, Goto, storeVars
  <2>2. ~Mismatch(b)
    BY <1>1, <2>1 DEF Chained, Compared
  <2> QED
    BY <1>3, <2>1, <2>2 DEF LiveSteps
<1>9. CASE InsertBlockHeader(a, b)
  <2>1. /\ step[a] = "header" /\ UNCHANGED <<pendingBlocks, todo>>
        /\ headers' = Insert(headers, b) /\ step' = [step EXCEPT ![a] = "checkpoint"]
    BY <1>9 DEF InsertBlockHeader, Goto
  <2>2. \A h \in headers : h.number = b.number - 1 => h.hash = b.parent
    BY <1>1, <2>1 DEF Chained, Compared, Mismatch
  <2>3. Below(headers', b.number)
    BY <1>2, <2>1 DEF Below, Insert, Block, Heights
  <2>4. \A n \in Int : Linked(headers, n) => Linked(headers', n)
    BY <1>0, <1>2, <2>1, <2>2, LinkedInsert DEF Insert
  <2> QED
    BY <1>0, <1>1, <2>1, <2>3, <2>4, ChainedGoOn DEF LiveSteps
<1>10. CASE WriteCheckpoint(a, b)
  BY <1>0, <1>1, <1>2, <1>10, ChainedDone DEF WriteCheckpoint
<1> QED
  BY <1>1, <1>4, <1>5, <1>6, <1>7, <1>8, <1>9, <1>10 DEF Proceed

\* The process dies between blocks, or it has been interrupted.
LEMMA ChainedCrash ==
    ASSUME Typed, Chained, Crash, ~interrupted'
    PROVE  Chained'
<1>1. /\ pc = "live" /\ pendingBlocks = {} /\ pc' = "down" /\ pendingBlocks' = {}
      /\ \A a \in Activations : step'[a] = "idle"
      /\ UNCHANGED <<chain, headers, checkpoint>>
  BY DEF Crash, chainVars, storeVars
<1>2. AllIdle
  BY <1>1 DEF Chained, OneBlock, AllIdle
<1>3. Below(headers, checkpoint)
  BY <1>1, <1>2 DEF Chained, StartBelow, Batching
<1>4. (OneBlock /\ Compared /\ Trimmed)'
  BY <1>1 DEF OneBlock, Compared, Trimmed
<1> QED
  BY <1>1, <1>3, <1>4 DEF Chained, StartBelow, NoCatchUp, Batching

\* Nothing is stored at the start.
LEMMA LinkInit == Init => LinkInv
<1> SUFFICES ASSUME Init PROVE LinkInv
  OBVIOUS
<1>1. Linked(headers, StartBlock - 1) /\ Below(headers, checkpoint) /\ Below(headers, Len(chain))
  BY DEF Init, Linked, Below
<1> QED
  BY <1>1
  DEF Init, LinkInv, Reached, Chained, OneBlock, Compared, Trimmed, StartBelow, NoCatchUp,
      Batching

\* Once two activations overlap, one fails or one dies at work, nothing is
\* claimed of the links any more; until then every step keeps them.
LEMMA LinkStep == Typed /\ LinkInv /\ [Next]_vars => LinkInv'
<1> SUFFICES ASSUME Typed, LinkInv, [Next]_vars PROVE LinkInv'
  OBVIOUS
<1>1. Reached /\ Reached'
  BY ReachedStep DEF LinkInv
<1>2. Calm' => Calm
  <2>1. faults \in Nat /\ overlapped \in BOOLEAN /\ interrupted \in BOOLEAN
    BY ScannerAssumption DEF Typed, TypeOK
  <2>2. /\ overlapped' = overlapped \/ overlapped' = (overlapped \/ \E c \in Activations : step[c] # "idle")
        /\ \/ interrupted' = interrupted
           \/ interrupted' = (interrupted \/ pc # "live" \/ pendingBlocks # {})
        /\ faults' = faults \/ faults' = faults + 1
    BY DEF Next, vars, Mine, Reorg, StartUp, ResolveStartBlock, ReadHead, StoreHeader, FetchBatch,
           PublishBatch, RecordBatch, CheckpointBatch, Subscribe, NewHead, Proceed, CheckParent,
           Backtrace, DeleteAbove, Rewind, FetchLogs, PublishToChannels, RecordPublishLedger,
           InsertBlockHeader, WriteCheckpoint, ProcessThrows, Crash, history, budget
  <2> QED
    BY <2>1, <2>2 DEF Calm
<1>3. ASSUME Calm' PROVE Chained'
  <2>1. Chained
    BY <1>2, <1>3 DEF LinkInv
  <2>2. CASE Mine \/ \E n \in 0..MaxHeight : Reorg(n)
    BY <2>1, <2>2, ChainedChain
  <2>3. CASE StartUp
    BY <1>1, <2>1, <2>3, ChainedStart
  <2>4. ASSUME NEW a \in Activations, NewHead(a) PROVE Chained'
    BY <1>1, <1>3, <2>1, <2>4, ChainedNewHead DEF Calm
  <2>5. ASSUME NEW a \in Activations, Proceed(a) PROVE Chained'
    BY <2>1, <2>5, ChainedProceed
  <2>6. ASSUME NEW a \in Activations, NEW b \in todo[a], ProcessThrows(a, b) PROVE FALSE
    BY <1>3, <2>6, ScannerAssumption DEF ProcessThrows, Calm, Typed, TypeOK
  <2>7. CASE Crash
    BY <1>3, <2>1, <2>7, ChainedCrash DEF Calm
  <2>8. CASE UNCHANGED vars
    BY <2>1, <2>8
    DEF vars, chainVars, startVars, liveVars, storeVars, Chained, OneBlock, Compared, Trimmed,
        StartBelow, NoCatchUp, AllIdle, Mismatch
  <2> QED
    BY <2>2, <2>3, <2>4, <2>5, <2>6, <2>7, <2>8 DEF Next
<1> QED
  BY <1>1, <1>3 DEF LinkInv

\* HeadersLinked: while activations neither overlap nor fail nor die at
\* work, the headers above the caught-up part link, so that the parent check
\* of the next block sees a reorg of the last one.
THEOREM HeadersStayLinked == Spec => []HeadersLinked
<1>1. Spec => [](Typed /\ LinkInv)
  BY TypedInit, TypedStep, LinkInit, LinkStep, PTL DEF Spec
<1>2. Typed /\ LinkInv => HeadersLinked
  BY DEF LinkInv, Calm, Chained, Linked, HeadersLinked
<1> QED
  BY <1>1, <1>2, PTL
=============================================================================

------------------------------- MODULE Scanner -------------------------------
(***************************************************************************)
(* The indexer's scanner (src/src/indexer/scanner.ts with reorg.ts and     *)
(* utils/db/checkpoint.ts): the start-up catch-up, the live path from a    *)
(* new head to the checkpoint, reorg recovery, crashes and restarts,       *)
(* against a chain that grows and reorganises.                             *)
(*                                                                         *)
(* Every await is a step.  onNewHead is called without awaiting it, so     *)
(* several of its activations run at once over the same pendingBlocks.     *)
(*                                                                         *)
(* A block is its number, its hash and its parent's hash; the hash of a    *)
(* block is the number of reorgs the chain had undergone when it was       *)
(* mined, which with the number identifies it.  The events of a block are  *)
(* one item, <<number, hash>>; the tables other than block_headers,        *)
(* publish_ledger and sync_checkpoints are outside this module.            *)
(***************************************************************************)
EXTENDS Integers, Sequences, FiniteSets

CONSTANTS
    Activations,  \* numbers for the concurrent activations of onNewHead
    BatchSize,    \* config.batchSize, blocks per catch-up batch
    StartBlock,   \* config.startBlock, 0 when there is no override
    MaxPending,   \* cap on pendingBlocks (100)
    MaxHeight,    \* bound: length of the chain
    MaxReorgs,    \* bound: reorganisations of the chain
    MaxHeads,     \* bound: newHeads notifications
    MaxFaults,    \* bound: failing RPC, Redis or Postgres calls
    MaxCrashes    \* bound: process deaths, a failing start() included

ASSUME ScannerAssumption ==
    /\ Activations \subseteq Nat
    /\ BatchSize \in Nat \ {0}
    /\ StartBlock \in Nat
    /\ MaxPending \in Nat \ {0}
    /\ MaxHeight \in Nat
    /\ MaxReorgs \in Nat
    /\ MaxHeads \in Nat
    /\ MaxFaults \in Nat
    /\ MaxCrashes \in Nat

Heights == 1..MaxHeight
Hashes == 0..MaxReorgs
Block == [number : Heights, hash : Hashes, parent : Hashes]

\* Why a block may never be published: it was mined outside the catch-up
\* and never announced; the pendingBlocks cap dropped it; it revealed a
\* reorg; it had failed, and the process died with it in pendingBlocks; it
\* replaced one that the scanner was through with, or the chain changed
\* between the fetch of its number's events and the checkpoint.
Reasons == {"unseen", "capped", "reorg", "crash", "replaced"}

VARIABLES
    chain,          \* the canonical chain: chain[n] is the hash of block n
    reorgs,         \* reorganisations so far
    pc,             \* where start() is, "live" once subscribed
    from,           \* first block of the current catch-up batch
    head,           \* the head start() read
    toStore,        \* blocks of the batch whose header is still to be stored
    fetched,        \* events fetched for the batch
    pendingBlocks,  \* the scanner's pendingBlocks map
    step,           \* await each activation is at, or "idle"
    todo,           \* blocks of its snapshot an activation has yet to finish
    level,          \* the block backtrace is at, then the common ancestor
    logs,           \* hash of the block whose events an activation fetched
    headers,        \* block_headers
    checkpoint,     \* sync_checkpoints, 0 when there is none
    published,      \* events XADDed to the streams
    ledger,         \* block numbers with publish_ledger rows
    lastSeen,       \* history: highest block caught up or announced
    gaps,           \* history: blocks of the chain given up, each with the reason
    unheaded,       \* history: numbers without a header, for a recovery overtaken or cut short
    overlapped,     \* history: two activations have been at work at once
    interrupted,    \* history: the process has died in the middle of something
    heads, faults, crashes

chainVars == <<chain, reorgs>>
startVars == <<pc, from, head, toStore, fetched>>
liveVars  == <<pendingBlocks, step, todo, level, logs>>
storeVars == <<headers, checkpoint, published, ledger>>
history   == <<lastSeen, gaps, unheaded, overlapped, interrupted>>
budget    == <<heads, faults, crashes>>
vars == <<chainVars, startVars, liveVars, storeVars, history, budget>>

StartSteps == {"down", "head", "headers", "logs", "publish", "ledger", "checkpoint",
               "subscribe", "live"}
LiveSteps == {"idle", "parent", "backtrace", "delete", "rewind", "logs", "publish",
              "ledger", "header", "checkpoint"}

TypeOK ==
    /\ chain \in Seq(Hashes)
    /\ Len(chain) <= MaxHeight
    /\ \A n \in DOMAIN chain : chain[n] <= reorgs
    /\ reorgs \in 0..MaxReorgs
    /\ pc \in StartSteps
    /\ from \in Nat
    /\ head \in 0..Len(chain)
    /\ toStore \in SUBSET (1..Len(chain))
    /\ fetched \in SUBSET (Heights \X Hashes)
    /\ pendingBlocks \in SUBSET Block
    /\ step \in [Activations -> LiveSteps]
    /\ todo \in [Activations -> SUBSET Block]
    /\ level \in [Activations -> 0..Len(chain)]
    /\ logs \in [Activations -> Hashes]
    /\ headers \in SUBSET Block
    /\ checkpoint \in 0..Len(chain)
    /\ published \in SUBSET (Heights \X Hashes)
    /\ ledger \in SUBSET Heights
    /\ lastSeen \in Nat
    /\ gaps \in SUBSET (Heights \X Reasons)
    /\ unheaded \in SUBSET Heights
    /\ overlapped \in BOOLEAN /\ interrupted \in BOOLEAN
    /\ heads \in 0..MaxHeads
    /\ faults \in 0..MaxFaults
    /\ crashes \in 0..MaxCrashes

Init ==
    /\ chain = <<>> /\ reorgs = 0
    /\ pc = "down" /\ from = 1 /\ head = 0 /\ toStore = {} /\ fetched = {}
    /\ pendingBlocks = {}
    /\ step = [a \in Activations |-> "idle"]
    /\ todo = [a \in Activations |-> {}]
    /\ level = [a \in Activations |-> 0]
    /\ logs = [a \in Activations |-> 0]
    /\ headers = {} /\ checkpoint = 0 /\ published = {} /\ ledger = {}
    /\ lastSeen = 0 /\ gaps = {} /\ unheaded = {} /\ overlapped = FALSE /\ interrupted = FALSE
    /\ heads = 0 /\ faults = 0 /\ crashes = 0

\* Numbers of a set of blocks; the map and table keys.
Numbers(S) == {b.number : b \in S}

\* What the RPC returns for block n.
HeaderAt(n) == [number |-> n, hash |-> chain[n], parent |-> IF n = 1 THEN 0 ELSE chain[n - 1]]

\* pendingBlocks.set: a block replaces one of the same number.
Put(S, b) == {x \in S : x.number # b.number} \cup {b}

\* insertBlockHeader: ON CONFLICT (block_number) DO NOTHING.
Insert(S, b) == IF b.number \in Numbers(S) THEN S ELSE S \cup {b}

-----------------------------------------------------------------------------
(* The chain.                                                              *)

Mine ==
    /\ Len(chain) < MaxHeight
    /\ chain' = Append(chain, reorgs)
    /\ UNCHANGED <<reorgs, startVars, liveVars, storeVars, history, budget>>

\* Published with one hash or another.
PublishedAt(n) == \E e \in published : e[1] = n

\* The scanner has published the number or given it up.
Through(n) == PublishedAt(n) \/ \E g \in gaps : g[1] = n

\* The blocks above block n are replaced by as many others.  Those whose
\* numbers the scanner is through with, and does not hold, are given up.
Reorg(n) ==
    /\ reorgs < MaxReorgs
    /\ n < Len(chain)
    /\ reorgs' = reorgs + 1
    /\ chain' = [i \in 1..Len(chain) |-> IF i <= n THEN chain[i] ELSE reorgs']
    /\ gaps' = {g \in gaps : g[1] <= n}
               \cup {<<m, "replaced">> : m \in {i \in (n + 1)..Len(chain) :
                                                 Through(i) /\ i \notin Numbers(pendingBlocks)}}
    /\ UNCHANGED <<lastSeen, unheaded, overlapped, interrupted, startVars, liveVars, storeVars,
                   budget>>

-----------------------------------------------------------------------------
(* start(): resolveStartBlock, catchUp, watchBlocks.                       *)

\* resolveStartBlock: the override, the block after the checkpoint, or the
\* earliest block (here 1).  verifyAndReplayGaps, which runs before it,
\* publishes nothing while Redis keeps its streams; that is assumed here,
\* and Recovery models what happens when it does not.
ResolveStartBlock ==
    /\ pc = "down"
    /\ pc' = "head"
    /\ from' = IF StartBlock > 0 THEN StartBlock ELSE checkpoint + 1
    /\ UNCHANGED <<head, toStore, fetched, chainVars, liveVars, storeVars, history, budget>>

BatchEnd(first, last) == IF first + BatchSize - 1 < last THEN first + BatchSize - 1 ELSE last

\* Begin the batch at block n, or leave the loop.
BeginBatch(n, last) ==
    IF n <= last
      THEN /\ pc' = "headers"
           /\ toStore' = n..BatchEnd(n, last) /\ head' = last
      ELSE /\ pc' = "subscribe"
           /\ toStore' = {} /\ head' = 0

\* getBlockNumber, then catchUp only if startBlock < currentHead.
ReadHead ==
    /\ pc = "head"
    /\ IF from < Len(chain)
         THEN BeginBatch(from, Len(chain))
         ELSE pc' = "subscribe" /\ UNCHANGED <<head, toStore>>
    /\ UNCHANGED <<from, fetched, chainVars, liveVars, storeVars, history, budget>>

\* Headers of the batch are fetched and stored in parallel, in any order.
StoreHeader(n) ==
    /\ pc = "headers"
    /\ n \in toStore
    /\ headers' = Insert(headers, HeaderAt(n))
    /\ toStore' = toStore \ {n}
    /\ pc' = IF toStore' = {} THEN "logs" ELSE "headers"
    /\ unheaded' = unheaded \ {n}
    /\ UNCHANGED <<from, head, fetched, checkpoint, published, ledger, lastSeen, gaps, overlapped,
                   interrupted, chainVars, liveVars, budget>>

\* getLogs by block number: the events of whatever blocks are canonical now.
FetchBatch ==
    /\ pc = "logs"
    /\ fetched' = {<<n, chain[n]>> : n \in from..BatchEnd(from, head)}
    /\ pc' = "publish"
    /\ UNCHANGED <<from, head, toStore, chainVars, liveVars, storeVars, history, budget>>

PublishBatch ==
    /\ pc = "publish"
    /\ published' = published \cup fetched
    /\ pc' = "ledger"
    /\ UNCHANGED <<from, head, toStore, fetched, headers, checkpoint, ledger, chainVars,
                   liveVars, history, budget>>

\* One ledger entry, under the last block of the batch.
RecordBatch ==
    /\ pc = "ledger"
    /\ ledger' = ledger \cup {BatchEnd(from, head)}
    /\ pc' = "checkpoint"
    /\ UNCHANGED <<from, head, toStore, fetched, headers, checkpoint, published, chainVars,
                   liveVars, history, budget>>

\* What was given up of the batch before, has been published after all,
\* unless the chain has changed since the fetch.
CheckpointBatch ==
    /\ pc = "checkpoint"
    /\ checkpoint' = BatchEnd(from, head)
    /\ from' = BatchEnd(from, head) + 1
    /\ BeginBatch(from', head)
    /\ fetched' = {}
    /\ gaps' = {g \in gaps : g[1] \notin from..checkpoint'}
               \cup {<<n, "replaced">> : n \in {i \in from..checkpoint' : <<i, chain[i]>> \notin fetched}}
    /\ UNCHANGED <<headers, published, ledger, lastSeen, unheaded, overlapped, interrupted,
                   chainVars, liveVars, budget>>

\* watchBlocks: from now on new heads are announced.
Subscribe ==
    /\ pc = "subscribe"
    /\ pc' = "live"
    /\ lastSeen' = from - 1
    /\ UNCHANGED <<from, head, toStore, fetched, gaps, unheaded, overlapped, interrupted, chainVars,
                   liveVars, storeVars, budget>>

-----------------------------------------------------------------------------
(* onNewHead, drainPendingBlocks, processConfirmedBlock.                   *)

\* The block an activation is working on: the lowest left of its snapshot.
Working(a, b) == b \in todo[a] /\ \A x \in todo[a] : b.number <= x.number

Goto(a, s) == step' = [step EXCEPT ![a] = s]

\* The activation is through with block b, and takes the next one; what
\* processConfirmedBlock kept of b is gone.
Leave(a, b) ==
    /\ todo' = [todo EXCEPT ![a] = @ \ {b}]
    /\ level' = [level EXCEPT ![a] = 0]
    /\ logs' = [logs EXCEPT ![a] = 0]
    /\ Goto(a, IF todo[a] = {b} THEN "idle" ELSE "parent")

\* pendingBlocks.delete(block.number), once processConfirmedBlock returned.
Done(a, b) ==
    /\ Leave(a, b)
    /\ pendingBlocks' = {x \in pendingBlocks : x.number # b.number}

Lowest(S) == {b \in S : \A x \in S : b.number <= x.number}

\* A new head is announced: the chain's tip at that moment.  Heads in
\* between may never be announced.  Everything up to the first await runs
\* at once: the map update, the cap, the snapshot.  A block announced again
\* is not given up any more.
NewHead(a) ==
    /\ pc = "live"
    /\ step[a] = "idle" /\ \A c \in Activations : step[c] = "idle" => a <= c
    /\ Len(chain) > 0
    /\ heads < MaxHeads
    /\ heads' = heads + 1
    /\ LET b == HeaderAt(Len(chain))
           all == Put(pendingBlocks, b)
           dropped == IF Cardinality(all) > MaxPending THEN Lowest(all) ELSE {}
       IN /\ pendingBlocks' = all \ dropped
          /\ gaps' = {g \in gaps : g[1] # b.number}
                     \cup (Numbers(dropped) \X {"capped"})
                     \cup (((lastSeen + 1)..(b.number - 1)) \X {"unseen"})
          /\ lastSeen' = IF lastSeen < b.number THEN b.number ELSE lastSeen
    /\ todo' = [todo EXCEPT ![a] = pendingBlocks']
    /\ overlapped' = (overlapped \/ \E c \in Activations : step[c] # "idle")
    /\ Goto(a, "parent")
    /\ UNCHANGED <<level, logs, unheaded, interrupted, chainVars, startVars, storeVars, faults,
                   crashes>>

\* Mutant: the parent is looked up under the number of the block itself.
MismatchNever(b) == \E h \in headers : h.number = b.number /\ h.hash # b.hash

\* detectAndRecover: compare with the stored header of the parent, if any.
Mismatch(b) == \E h \in headers : h.number = b.number - 1 /\ h.hash # b.parent

CheckParent(a, b) ==
    /\ step[a] = "parent" /\ Working(a, b)
    /\ IF Mismatch(b)
         THEN Goto(a, "backtrace") /\ level' = [level EXCEPT ![a] = b.number - 1]
         ELSE Goto(a, "logs") /\ UNCHANGED level
    /\ UNCHANGED <<pendingBlocks, todo, logs, chainVars, startVars, storeVars, history, budget>>

\* Mutant: the walk does not stop at block 0.
CommonNoFloor(n) == \E h \in headers : h.number = n /\ h.hash = chain[n]

\* A block both sides agree on ends the walk; so does block 0.
Common(n) == n = 0 \/ \E h \in headers : h.number = n /\ h.hash = chain[n]

\* Mutant: a block without a stored header is looked at again.
BacktraceStuck(a) ==
    /\ step[a] = "backtrace"
    /\ IF Common(level[a])
         THEN Goto(a, "delete") /\ UNCHANGED level
         ELSE /\ level' = [level EXCEPT ![a] = IF @ \in Numbers(headers) THEN @ - 1 ELSE @]
              /\ UNCHANGED step
    /\ UNCHANGED <<pendingBlocks, todo, logs, chainVars, startVars, storeVars, history, budget>>

Backtrace(a) ==
    /\ step[a] = "backtrace"
    /\ IF Common(level[a])
         THEN Goto(a, "delete") /\ UNCHANGED level
         ELSE level' = [level EXCEPT ![a] = @ - 1] /\ UNCHANGED step
    /\ UNCHANGED <<pendingBlocks, todo, logs, chainVars, startVars, storeVars, history, budget>>

\* Activation a is about to make block n the checkpoint.
Due(a, n) ==
    \/ step[a] = "checkpoint" /\ \E b \in todo[a] : Working(a, b) /\ b.number = n
    \/ step[a] \in {"delete", "rewind"} /\ level[a] = n

\* Mutant: the ancestor's own header goes too.
DeleteFromAncestor(a) ==
    /\ step[a] = "delete"
    /\ headers' = {h \in headers : h.number < level[a]}
    /\ Goto(a, "rewind")
    /\ unheaded' = unheaded \cup {n \in Heights : n > level[a] /\ \E c \in Activations : Due(c, n)}
    /\ UNCHANGED <<pendingBlocks, todo, level, logs, checkpoint, published, ledger, lastSeen, gaps,
                   overlapped, interrupted, chainVars, startVars, budget>>

\* The cascade of deletes; the last one is of the headers, also of one that
\* another activation is about to make the checkpoint.
DeleteAbove(a) ==
    /\ step[a] = "delete"
    /\ headers' = {h \in headers : h.number <= level[a]}
    /\ Goto(a, "rewind")
    /\ unheaded' = unheaded \cup {n \in Heights : n > level[a] /\ \E c \in Activations : Due(c, n)}
    /\ UNCHANGED <<pendingBlocks, todo, level, logs, checkpoint, published, ledger, lastSeen, gaps,
                   overlapped, interrupted, chainVars, startVars, budget>>

\* A recovery of one of the activations in A is cut short, if it has come to
\* the checkpoint, whose header may be gone.
CutShort(A) ==
    unheaded' = unheaded \cup {n \in {checkpoint} \ (Numbers(headers) \cup {0}) :
                                  \E a \in A : step[a] = "rewind"}

\* The checkpoint goes back to the ancestor, and processConfirmedBlock
\* returns without having processed the block that revealed the reorg.
Rewind(a, b) ==
    /\ step[a] = "rewind" /\ Working(a, b)
    /\ checkpoint' = level[a]
    /\ gaps' = gaps \cup {<<b.number, "reorg">>}
    /\ Done(a, b)
    /\ UNCHANGED <<headers, published, ledger, lastSeen, unheaded, overlapped, interrupted,
                   chainVars, startVars, budget>>

\* Mutant: the publication is not awaited, and fails.
FetchLogsUnawaited(a, b) ==
    /\ step[a] = "logs" /\ Working(a, b)
    /\ logs' = [logs EXCEPT ![a] = chain[b.number]]
    /\ Goto(a, "ledger")
    /\ UNCHANGED <<pendingBlocks, todo, level, chainVars, startVars, storeVars, history, budget>>

FetchLogs(a, b) ==
    /\ step[a] = "logs" /\ Working(a, b)
    /\ logs' = [logs EXCEPT ![a] = chain[b.number]]
    /\ Goto(a, "publish")
    /\ UNCHANGED <<pendingBlocks, todo, level, chainVars, startVars, storeVars, history, budget>>

PublishToChannels(a, b) ==
    /\ step[a] = "publish" /\ Working(a, b)
    /\ published' = published \cup {<<b.number, logs[a]>>}
    /\ Goto(a, "ledger")
    /\ UNCHANGED <<pendingBlocks, todo, level, logs, headers, checkpoint, ledger, chainVars,
                   startVars, history, budget>>

RecordPublishLedger(a, b) ==
    /\ step[a] = "ledger" /\ Working(a, b)
    /\ ledger' = ledger \cup {b.number}
    /\ Goto(a, "header")
    /\ UNCHANGED <<pendingBlocks, todo, level, logs, headers, checkpoint, published, chainVars,
                   startVars, history, budget>>

InsertBlockHeader(a, b) ==
    /\ step[a] = "header" /\ Working(a, b)
    /\ headers' = Insert(headers, b)
    /\ unheaded' = unheaded \ {b.number}
    /\ Goto(a, "checkpoint")
    /\ UNCHANGED <<pendingBlocks, todo, level, logs, checkpoint, published, ledger, lastSeen, gaps,
                   overlapped, interrupted, chainVars, startVars, budget>>

WriteCheckpoint(a, b) ==
    /\ step[a] = "checkpoint" /\ Working(a, b)
    /\ checkpoint' = b.number
    /\ gaps' = IF logs[a] = chain[b.number] THEN gaps ELSE gaps \cup {<<b.number, "replaced">>}
    /\ Done(a, b)
    /\ UNCHANGED <<headers, published, ledger, lastSeen, unheaded, overlapped, interrupted,
                   chainVars, startVars, budget>>

\* Mutant: a block is dropped from pendingBlocks whether it failed or not.
ProcessThrowsDone(a, b) ==
    /\ step[a] # "idle" /\ Working(a, b)
    /\ faults < MaxFaults
    /\ faults' = faults + 1
    /\ Done(a, b) /\ CutShort({a})
    /\ UNCHANGED <<heads, crashes, lastSeen, gaps, overlapped, interrupted, chainVars, startVars,
                   storeVars>>

\* The catch in drainPendingBlocks: a call of processConfirmedBlock throws.
\* The block stays in pendingBlocks and the activation goes on to the next.
\* (A call that was executed although it threw is the call returning and
\* the next one throwing.)
ProcessThrows(a, b) ==
    /\ step[a] # "idle" /\ Working(a, b)
    /\ faults < MaxFaults
    /\ faults' = faults + 1
    /\ Leave(a, b) /\ CutShort({a})
    /\ UNCHANGED <<pendingBlocks, heads, crashes, lastSeen, gaps, overlapped, interrupted, chainVars,
                   startVars, storeVars>>

\* The process dies (or start() throws, and main exits); the pod restarts.
\* Blocks it held are caught up again if they are above the checkpoint.
Crash ==
    /\ pc # "down"
    /\ crashes < MaxCrashes
    /\ crashes' = crashes + 1
    /\ pc' = "down"
    /\ from' = 1 /\ head' = 0 /\ toStore' = {} /\ fetched' = {}
    /\ pendingBlocks' = {} /\ lastSeen' = 0
    /\ step' = [a \in Activations |-> "idle"]
    /\ todo' = [a \in Activations |-> {}]
    /\ level' = [a \in Activations |-> 0] /\ logs' = [a \in Activations |-> 0]
    /\ gaps' = gaps \cup ({n \in Numbers(pendingBlocks) : n <= checkpoint} \X {"crash"})
    /\ interrupted' = (interrupted \/ pc # "live" \/ pendingBlocks # {})
    /\ CutShort(Activations)
    /\ UNCHANGED <<overlapped, heads, faults, chainVars, storeVars>>

-----------------------------------------------------------------------------
StartUp ==
    \/ ResolveStartBlock \/ ReadHead
    \/ \E n \in Heights : StoreHeader(n)
    \/ FetchBatch \/ PublishBatch \/ RecordBatch \/ CheckpointBatch
    \/ Subscribe

\* One await of activation a, without a fault.
Proceed(a) ==
    \/ \E b \in todo[a] : CheckParent(a, b)
    \/ Backtrace(a) \/ DeleteAbove(a)
    \/ \E b \in todo[a] : Rewind(a, b)
    \/ \E b \in todo[a] : FetchLogs(a, b)
    \/ \E b \in todo[a] : PublishToChannels(a, b)
    \/ \E b \in todo[a] : RecordPublishLedger(a, b)
    \/ \E b \in todo[a] : InsertBlockHeader(a, b)
    \/ \E b \in todo[a] : WriteCheckpoint(a, b)

Next ==
    \/ Mine
    \/ \E n \in 0..MaxHeight : Reorg(n)
    \/ StartUp
    \/ \E a \in Activations :
          \/ NewHead(a)
          \/ Proceed(a)
          \/ \E b \in todo[a] : ProcessThrows(a, b)
    \/ Crash

\* Calls return or throw (transports have timeouts and withRetry gives up
\* after five attempts), so an activation and start() move on.  Nothing is
\* assumed of the chain or of its announcements.
Fairness ==
    /\ WF_vars(StartUp)
    /\ \A a \in Activations : WF_vars(Proceed(a))

Spec == Init /\ [][Next]_vars /\ Fairness

-----------------------------------------------------------------------------
(* Properties.                                                             *)

\* The block the chain has at each number up to the checkpoint, and not just
\* one of that number, has been published; or the scanner still holds the
\* number for another try; or the block is given up for one of the reasons,
\* and has been neither announced nor caught up since.  There is no other
\* way to lose a block.
HolesAccounted ==
    \A n \in 1..checkpoint :
        \/ n < StartBlock
        \/ <<n, chain[n]>> \in published
        \/ n \in Numbers(pendingBlocks)
        \/ \E r \in Reasons : <<n, r>> \in gaps

\* docs: "Checkpoint only advances after successful publish": a step that
\* moves the checkpoint up moves it to a block whose events are in the
\* streams, unless it is the end of a recovery, whose ancestor is above the
\* checkpoint that an overlapping activation has set meanwhile.
AdvanceAfterPublish ==
    [][checkpoint' > checkpoint =>
          \/ PublishedAt(checkpoint')
          \/ \E a \in Activations : step[a] = "rewind" /\ checkpoint' = level[a]]_vars

\* Above the caught-up part, stored headers of adjacent blocks link, so that
\* the parent check of the next block sees a reorg of the last one, as long
\* as no two activations have overlapped, no process died at work and no
\* block is tried again: one that is, may come after its successor.
HeadersLinked ==
    pc = "live" /\ ~overlapped /\ ~interrupted /\ faults = 0 =>
        \A h, k \in headers : h.number >= from - 1 /\ k.number = h.number + 1
                                  => k.parent = h.hash

\* The block that the checkpoint is at has its header stored, for the parent
\* check of the block after it, except between the last two steps of a
\* recovery; and, until a header of its number is stored again, when a
\* recovery was cut short there by a death or a failing call, or deleted the
\* header while another activation was about to make the block the
\* checkpoint.
CheckpointHeld ==
    \/ checkpoint \in Numbers(headers) \cup {0}
    \/ \E a \in Activations : step[a] = "rewind"
    \/ checkpoint \in unheaded

\* Every activation of onNewHead comes to an end, and so does the start-up,
\* however the chain moves meanwhile: no drain hangs in backtrace or on a
\* block that cannot be finished.  As there are MaxHeads heads in all, and
\* MaxCrashes deaths, the scanner comes to rest, subscribed and idle.
WorkEnds == []<>(pc = "live" /\ \A a \in Activations : step[a] = "idle")

\* docs, of reorgs: "Cascade delete + checkpoint reset + re-process.": the
\* checkpoint does not pass the block that revealed a reorg before that
\* block's events have been published.
ReorgReprocessed ==
    \A n \in 1..checkpoint : <<n, "reorg">> \in gaps => <<n, chain[n]>> \in published
=============================================================================

------------------------------ MODULE Recovery ------------------------------
(***************************************************************************)
(* What becomes of published blocks: the rows the processors write from    *)
(* the streams, the cascade that a reorg recovery deletes them with        *)
(* (indexer/reorg.ts), and the verification of the publish ledger that     *)
(* replays blocks a dead Redis has taken along (indexer/scanner.ts).       *)
(*                                                                         *)
(* The events of a block are one item <<number, hash>>, hashes as in       *)
(* Scanner.  The channels are one log, which the groups read each at its   *)
(* own pace; ids are indices.  One activation of onNewHead is at work at a *)
(* time, and never so many blocks fail that pendingBlocks comes to its     *)
(* cap: overlaps and the cap are Scanner's subject, as the handlers'       *)
(* attempts are StreamConsumer's.                                          *)
(***************************************************************************)
EXTENDS Integers, Sequences, FiniteSets, SequencesExt

CONSTANTS
    Groups,       \* consumer groups: "trade", "candle", "fee"
    BatchSize,    \* config.batchSize
    ReplayDepth,  \* REPLAY_DEPTH (100)
    StreamMaxLen, \* STREAM_MAX_LEN (10 000)
    Quiet,        \* heights of blocks without events of interest
    MaxHeight,    \* bound: length of the chain
    MaxReorgs,    \* bound: reorganisations
    MaxFaults     \* bound: deaths of the scanner, times Redis loses its data, and
                  \* failing replays and blocks

Tables == {"trades", "candles", "positions", "fees", "withdrawals"}

\* The tables a group's handler inserts into; nothing writes positions.
Writes(g) == CASE g = "trade" -> {"trades"}
               [] g = "candle" -> {"candles"}
               [] g = "fee" -> {"fees", "withdrawals"}

ASSUME RecoveryAssumption ==
    /\ Groups \subseteq {"trade", "candle", "fee"}
    /\ BatchSize \in Nat \ {0} /\ ReplayDepth \in Nat /\ StreamMaxLen \in Nat \ {0}
    /\ Quiet \subseteq Nat
    /\ MaxHeight \in Nat /\ MaxReorgs \in Nat
    /\ MaxFaults \in Nat

Heights == 1..MaxHeight
Hashes == 0..MaxReorgs
Event == Heights \X Hashes
Block == [number : Heights, hash : Hashes, parent : Hashes]

VARIABLES
    chain, reorgs,     \* as in Scanner
    log,               \* events XADDed
    floor,             \* last id trimmed or lost
    at,                \* last id delivered to each group, or None: no such group
    rows,              \* rows of each table, by the event they come from
    headers, checkpoint, ledger,  \* ledger[n]: last id recorded, 0 for no row
    step,              \* await the scanner is at
    work,              \* what for: "replay", "batch" or "head"
    unit,              \* blocks it is working on
    tip,               \* header announced last
    pending,           \* the scanner's pendingBlocks map
    block,             \* block of it that is being processed
    head,              \* head that start() read
    missing,           \* blocks still to be replayed
    fetched,           \* events of the unit
    level,             \* block backtrace is at, then the common ancestor
    cascade,           \* deletes still to come
    handled,           \* history: <<group, id>> handled
    verified,          \* history: rows this start has verified or replayed, not lost since
    late,              \* history: <<table, event>> unhandled at a delete that meant it
    stray,             \* history: events left published without their header
    faults

None == 0 - 1
chainVars == <<chain, reorgs>>
streamVars == <<log, floor, at>>
storeVars == <<headers, checkpoint, ledger>>
headVars == <<tip, pending, block, level, cascade>>
scanVars == <<step, work, unit, head, missing, fetched, headVars>>
history == <<handled, verified, late, stray>>
vars == <<chainVars, streamVars, rows, storeVars, scanVars, history, faults>>

HeaderAt(n) == [number |-> n, hash |-> chain[n], parent |-> IF n = 1 THEN 0 ELSE chain[n - 1]]
Numbers(S) == {h.number : h \in S}
Headed(e) == \E h \in headers : h.number = e[1] /\ h.hash = e[2]
Orphan(e) == chain[e[1]] # e[2]
EndOf(S) == CHOOSE n \in S : \A m \in S : m <= n

\* Mutant: a second header of the same number is stored beside the first.
InsertAlways(S, b) == S \cup {b}

\* ON CONFLICT (block_number) DO NOTHING.
Insert(S, b) == IF b.number \in Numbers(S) THEN S ELSE S \cup {b}

TypeOK ==
    /\ chain \in Seq(Hashes) /\ Len(chain) <= MaxHeight /\ reorgs \in 0..MaxReorgs
    /\ log \in Seq(Event) /\ floor \in 0..Len(log)
    /\ at \in [Groups -> None..Len(log)]
    /\ rows \in [Tables -> SUBSET Event]
    /\ headers \subseteq Block /\ \A h, k \in headers : h.number = k.number => h = k
    /\ checkpoint \in 0..Len(chain)
    /\ ledger \in [Heights -> 0..Len(log)]
    /\ step \in {"down", "start", "headers", "idle", "parent", "backtrace", "delete",
                 "logs", "publish", "ledger", "header", "checkpoint"}
    /\ work \in {"replay", "batch", "head"}
    /\ unit \subseteq 1..Len(chain) /\ head \in 0..Len(chain)
    /\ tip \in Block \cup {<<>>} /\ pending \subseteq Block /\ block \in Block \cup {<<>>}
    /\ missing \subseteq 1..Len(chain) /\ fetched \subseteq Event
    /\ level \in 0..MaxHeight
    /\ cascade \in Seq(Tables \cup {"headers", "checkpoint"})
    /\ faults \in 0..MaxFaults

Init ==
    /\ chain = <<>> /\ reorgs = 0
    /\ log = <<>> /\ floor = 0 /\ at = [g \in Groups |-> 0]
    /\ rows = [t \in Tables |-> {}]
    /\ headers = {} /\ checkpoint = 0 /\ ledger = [n \in Heights |-> 0]
    /\ step = "down" /\ work = "head" /\ unit = {} /\ head = 0
    /\ tip = <<>> /\ pending = {} /\ block = <<>>
    /\ missing = {} /\ fetched = {} /\ level = 0 /\ cascade = <<>>
    /\ handled = {} /\ verified = {} /\ late = {} /\ stray = {}
    /\ faults = 0

-----------------------------------------------------------------------------
(* The chain.                                                              *)

Mine ==
    /\ Len(chain) < MaxHeight
    /\ chain' = Append(chain, reorgs)
    /\ UNCHANGED <<reorgs, streamVars, rows, storeVars, scanVars, history, faults>>

Reorg(n) ==
    /\ reorgs < MaxReorgs /\ n < Len(chain)
    /\ reorgs' = reorgs + 1
    /\ chain' = [i \in 1..Len(chain) |-> IF i <= n THEN chain[i] ELSE reorgs']
    /\ UNCHANGED <<streamVars, rows, storeVars, scanVars, history, faults>>

-----------------------------------------------------------------------------
(* The processors.                                                         *)

\* The next entry is handled: inserts with ON CONFLICT DO NOTHING, keyed by
\* the event's id; of a candle only that the event went into it is kept.
Handle(g) ==
    /\ at[g] # None
    /\ LET i == IF at[g] < floor THEN floor + 1 ELSE at[g] + 1
       IN /\ i <= Len(log)
          /\ rows' = [t \in Tables |-> IF t \in Writes(g) THEN rows[t] \cup {log[i]} ELSE rows[t]]
          /\ at' = [at EXCEPT ![g] = i]
          /\ handled' = handled \cup {<<g, i>>}
    /\ UNCHANGED <<chainVars, log, floor, storeVars, scanVars, verified, late, stray, faults>>

\* Mutant: a group starts with what comes after it.
CreatedAtEnd == Len(log)

\* xGroupCreate(stream, group, "0").
CreatedAt == 0

\* A processor starts and finds no group; one that runs never creates it.
EnsureConsumerGroup(g) ==
    /\ at[g] = None
    /\ at' = [at EXCEPT ![g] = CreatedAt]
    /\ UNCHANGED <<chainVars, log, floor, rows, storeVars, scanVars, history, faults>>

\* Redis comes back empty.
LoseRedis ==
    /\ faults < MaxFaults /\ Len(log) > floor
    /\ faults' = faults + 1
    /\ floor' = Len(log)
    /\ at' = [g \in Groups |-> None]
    /\ verified' = {}
    /\ UNCHANGED <<chainVars, log, rows, storeVars, scanVars, handled, late, stray>>

-----------------------------------------------------------------------------
(* The steps of the scanner that a replay, a batch and a head share.       *)

Recorded == {n \in Heights : ledger[n] > 0}

\* The next block to replay, or resolveStartBlock.
NextReplay(left) ==
    /\ missing' = left
    /\ work' = "replay"
    /\ \/ left = {} /\ step' = "start" /\ unit' = {}
       \/ \E n \in left : (\A m \in left : n <= m) /\ step' = "logs" /\ unit' = {n}

\* The batch that begins at block n, or the subscription.
NextBatch(n) ==
    /\ work' = "batch"
    /\ step' = IF n <= head' THEN "headers" ELSE "idle"
    /\ unit' = n..(IF n + BatchSize - 1 < head' THEN n + BatchSize - 1 ELSE head')

\* The block of the drain that comes next, or its end.  Whatever
\* processConfirmedBlock kept of the last one is gone.
NextBlock(left) ==
    /\ level' = 0 /\ cascade' = <<>> /\ fetched' = {}
    /\ \/ left = {} /\ step' = "idle" /\ unit' = {} /\ block' = <<>>
       \/ \E b \in left : /\ \A c \in left : b.number <= c.number
                         /\ step' = "parent" /\ unit' = {b.number} /\ block' = b

\* The blocks that the drain has still to come to.
Later == {b \in pending : b.number > block.number}

\* Blocks whose header is not the one of what was published are left so.
Leave == stray' = stray \cup {e \in fetched : ~Headed(e)}

\* A unit is given up; nothing is left of it if it is not published yet.
GiveUp == IF step \in {"logs", "publish"} THEN UNCHANGED stray ELSE Leave

FetchLogs ==
    /\ step = "logs"
    /\ fetched' = {<<n, chain[n]>> : n \in unit \ Quiet}
    /\ step' = "publish"
    /\ UNCHANGED <<chainVars, streamVars, rows, storeVars, work, unit, head, missing, headVars,
                   history, faults>>

\* The events in the order of their logs.
InOrder(S) == {s \in SeqOf(S, BatchSize) :
                  ToSet(s) = S /\ \A i, j \in DOMAIN s : i < j => s[i][1] < s[j][1]}

\* xAdd in that order; MAXLEN ~ trims at least down to the length.
Publish ==
    /\ step = "publish"
    /\ \E s \in InOrder(fetched) : log' = log \o s
    /\ \E f \in floor..Len(log') :
          /\ f > floor => Len(log') - f >= StreamMaxLen
          /\ floor' = f
          /\ verified' = {n \in verified : ledger[n] > f}
    /\ step' = "ledger"
    /\ UNCHANGED <<chainVars, at, rows, storeVars, work, unit, head, missing, fetched, headVars,
                   handled, late, stray, faults>>

\* One row under the last block of the unit; none if nothing was published.
RecordPublishLedger ==
    /\ step = "ledger"
    /\ ledger' = IF fetched = {} THEN ledger ELSE [ledger EXCEPT ![EndOf(unit)] = Len(log)]
    /\ IF work = "replay"
         THEN /\ verified' = verified \cup (IF fetched # {} /\ floor < Len(log) THEN unit ELSE {})
              /\ NextReplay(missing \ unit)
              /\ fetched' = {} /\ Leave
         ELSE /\ step' = IF work = "batch" THEN "checkpoint" ELSE "header"
              /\ UNCHANGED <<verified, work, unit, missing, fetched, stray>>
    /\ UNCHANGED <<chainVars, streamVars, rows, headers, checkpoint, head, headVars, handled, late,
                   faults>>

\* The checkpoint, and what comes next.
WriteCheckpoint ==
    /\ step = "checkpoint"
    /\ checkpoint' = EndOf(unit)
    /\ UNCHANGED head
    /\ IF work = "batch"
         THEN NextBatch(checkpoint' + 1) /\ fetched' = {} /\ UNCHANGED headVars
         ELSE NextBlock(Later) /\ pending' = pending \ {block} /\ UNCHANGED <<work, tip>>
    /\ Leave
    /\ UNCHANGED <<chainVars, streamVars, rows, headers, ledger, missing, handled, verified, late,
                   faults>>

-----------------------------------------------------------------------------
(* start(): verifyAndReplayGaps, resolveStartBlock, catchUp.               *)

Window == {n \in Recorded : n > checkpoint - ReplayDepth}

\* The last id of each row is looked up; a lookup that throws counts as
\* not found.
Verify ==
    /\ step = "down"
    /\ IF checkpoint <= ReplayDepth
         THEN NextReplay({}) /\ verified' = {}
         ELSE \E thrown \in SUBSET Window :
                /\ NextReplay({n \in Window : ledger[n] <= floor} \cup thrown)
                /\ verified' = Window \ missing'
    /\ UNCHANGED <<chainVars, streamVars, rows, storeVars, head, fetched, headVars, handled, late,
                   stray, faults>>

\* A replay that throws is left to the next start.
ReplayThrows ==
    /\ work = "replay" /\ step \in {"logs", "publish", "ledger"}
    /\ faults < MaxFaults
    /\ faults' = faults + 1
    /\ NextReplay(missing \ unit)
    /\ fetched' = {} /\ GiveUp
    /\ UNCHANGED <<chainVars, streamVars, rows, storeVars, head, headVars, handled, verified, late>>

CatchUp ==
    /\ step = "start"
    /\ head' = Len(chain)
    /\ IF checkpoint + 1 < head'
         THEN NextBatch(checkpoint + 1)
         ELSE step' = "idle" /\ UNCHANGED <<work, unit>>
    /\ UNCHANGED <<chainVars, streamVars, rows, storeVars, missing, fetched, headVars, history,
                   faults>>

\* The headers of a batch, which Scanner stores one by one.
StoreHeaders ==
    /\ step = "headers"
    /\ headers' = headers \cup {HeaderAt(n) : n \in unit \ Numbers(headers)}
    /\ step' = "logs"
    /\ UNCHANGED <<chainVars, streamVars, rows, checkpoint, ledger, work, unit, head, missing, fetched,
                   headVars, history, faults>>

-----------------------------------------------------------------------------
(* A new head: the drain, detectAndRecover, or the block.                  *)

\* The tip is announced, once; others may never be.  The drain takes up
\* again what failed before.
NewHead ==
    /\ step = "idle" /\ Len(chain) > 0
    /\ tip' = HeaderAt(Len(chain))
    /\ tip' # tip
    /\ pending' = {b \in pending : b.number # tip'.number} \cup {tip'}
    /\ work' = "head" /\ NextBlock(pending')
    /\ UNCHANGED <<chainVars, streamVars, rows, storeVars, head, missing, history, faults>>

CheckParent ==
    /\ step = "parent"
    /\ IF \E h \in headers : h.number = block.number - 1 /\ h.hash # block.parent
         THEN step' = "backtrace" /\ level' = block.number - 1
         ELSE step' = "logs" /\ UNCHANGED level
    /\ UNCHANGED <<chainVars, streamVars, rows, storeVars, work, unit, tip, pending, block, head,
                   missing, fetched, cascade, history, faults>>

\* Mutant: the headers go first.
CascadeHeadersFirst == <<"headers", "trades", "candles", "positions", "fees", "checkpoint">>

\* Each element is an await of its own.  Withdrawals have a delete too, but
\* nothing calls it.
Cascade == <<"trades", "candles", "positions", "fees", "headers", "checkpoint">>

Backtrace ==
    /\ step = "backtrace"
    /\ IF level = 0 \/ \E h \in headers : h.number = level /\ h.hash = chain[level]
         THEN step' = "delete" /\ cascade' = Cascade /\ UNCHANGED level
         ELSE level' = level - 1 /\ UNCHANGED <<step, cascade>>
    /\ UNCHANGED <<chainVars, streamVars, rows, storeVars, work, unit, tip, pending, block, head,
                   missing, fetched, history, faults>>

\* The rows that the delete from table t removes.  Those of candles and of
\* positions are found by way of the trades above the ancestor: buckets
\* (here, blocks) from the first of them on.
Doomed(t) ==
    LET touched == {e \in rows["trades"] : e[1] > level}
    IN CASE t \in {"trades", "fees"} -> {e \in rows[t] : e[1] > level}
         [] t \in {"candles", "positions"} -> {e \in rows[t] : \E f \in touched : f[1] <= e[1]}

Unhandled(t) ==
    {log[i] : i \in {j \in DOMAIN log : \E g \in Groups : t \in Writes(g) /\ <<g, j>> \notin handled}}

DeleteRows ==
    /\ step = "delete" /\ Head(cascade) \in Tables
    /\ LET t == Head(cascade)
       IN /\ rows' = [rows EXCEPT ![t] = @ \ Doomed(t)]
          /\ late' = late \cup ({t} \X {e \in Unhandled(t) : e[1] > level})
    /\ cascade' = Tail(cascade)
    /\ UNCHANGED <<chainVars, streamVars, storeVars, step, work, unit, tip, pending, block, head,
                   missing, fetched, level, handled, verified, stray, faults>>

Kept == {h \in headers : h.number <= level}

DeleteHeaders ==
    /\ step = "delete" /\ Head(cascade) = "headers"
    /\ headers' = Kept
    /\ cascade' = Tail(cascade)
    /\ UNCHANGED <<chainVars, streamVars, rows, checkpoint, ledger, step, work, unit, tip, pending,
                   block, head, missing, fetched, level, history, faults>>

\* The last await of the recovery; the block that revealed it is done with.
Rewind ==
    /\ step = "delete" /\ Head(cascade) = "checkpoint"
    /\ checkpoint' = level
    /\ NextBlock(Later) /\ pending' = pending \ {block}
    /\ UNCHANGED <<chainVars, streamVars, rows, headers, ledger, work, tip, head, missing, history,
                   faults>>

InsertBlockHeader ==
    /\ step = "header"
    /\ headers' = Insert(headers, block)
    /\ step' = "checkpoint"
    /\ UNCHANGED <<chainVars, streamVars, rows, checkpoint, ledger, work, unit, head, missing, fetched,
                   headVars, history, faults>>

\* The catch of drainPendingBlocks: an await of processConfirmedBlock throws,
\* those of a recovery included.  The block stays in pendingBlocks, and the
\* drain goes on to the next.
HeadThrows ==
    /\ work = "head" /\ step \notin {"down", "idle"}
    /\ faults < MaxFaults
    /\ faults' = faults + 1
    /\ NextBlock(Later) /\ GiveUp
    /\ UNCHANGED <<chainVars, streamVars, rows, storeVars, work, tip, pending, head, missing, handled,
                   verified, late>>

\* The scanner dies, or start() throws and main exits.
Crash ==
    /\ step # "down" /\ faults < MaxFaults
    /\ faults' = faults + 1
    /\ step' = "down" /\ work' = "head" /\ unit' = {} /\ missing' = {}
    /\ fetched' = {} /\ GiveUp
    /\ pending' = {} /\ block' = <<>> /\ level' = 0 /\ cascade' = <<>> /\ head' = 0
    /\ verified' = {}
    /\ UNCHANGED <<chainVars, streamVars, rows, storeVars, tip, handled, late>>

-----------------------------------------------------------------------------
Next ==
    \/ Mine \/ \E n \in 0..MaxHeight : Reorg(n)
    \/ \E g \in Groups : Handle(g) \/ EnsureConsumerGroup(g)
    \/ LoseRedis
    \/ Verify \/ ReplayThrows \/ CatchUp \/ StoreHeaders
    \/ NewHead \/ CheckParent \/ Backtrace \/ DeleteRows \/ DeleteHeaders \/ Rewind
    \/ FetchLogs \/ Publish \/ RecordPublishLedger \/ InsertBlockHeader \/ WriteCheckpoint
    \/ HeadThrows \/ Crash

Spec == Init /\ [][Next]_vars

-----------------------------------------------------------------------------
(* Properties.                                                             *)

\* A trade or a fee distribution of an orphaned block has its header still
\* stored, so that another recovery can find it, unless it was handled after
\* a delete that meant it, or its block never had its header stored.  The
\* order of the cascade is what this rests on.
OrphansTraceable ==
    \A t \in {"trades", "fees"} : \A e \in rows[t] :
        Orphan(e) => Headed(e) \/ <<t, e>> \in late \/ e \in stray \/ e \in fetched

\* What a start has verified or replayed reaches every group, also those
\* whose group Redis has lost and that are created anew.
ReplayReachesAll ==
    \A n \in verified, g \in Groups :
        \/ <<g, ledger[n]>> \in handled
        \/ at[g] < ledger[n] /\ ledger[n] > floor

\* candles.ts:66-68, "delete all candle buckets that start at or after that
\* boundary for any token touched by the reorg'd trades": once recovery is
\* through, no candle holds an event above the ancestor but late ones.
CandlesRolledBack ==
    step = "delete" /\ Head(cascade) = "checkpoint" =>
        \A e \in rows["candles"] : e[1] > level => <<"candles", e>> \in late

=============================================================================

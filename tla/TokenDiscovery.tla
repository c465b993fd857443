--------------------------- MODULE TokenDiscovery ---------------------------
(***************************************************************************)
(* How the indexer learns of tokens: the two decoding passes of a block    *)
(* and the refetch between them (indexer/scanner.ts, utils/decoder.ts),    *)
(* the maps they read and fill, refreshKnownState, and the token processor *)
(* that registers what was published (processors/token.ts,                 *)
(* utils/db/tokens.ts).                                                    *)
(*                                                                         *)
(* A token, its pool, the transaction that created it and the fee-split    *)
(* manager deployed in that transaction bear one name.  A log is           *)
(* <<kind, token>>; kinds and logs that no map decides about are left out, *)
(* and so are reorgs and faults of a block, which Scanner models, and the  *)
(* replays of Recovery: a block tried again is one taken later.            *)
(***************************************************************************)
EXTENDS Integers, Sequences, FiniteSets, SequencesExt

CONSTANTS
    Tokens,
    Chains,       \* the chains considered: sequences of blocks, sequences of logs
    Activations,  \* identities for concurrent activations of onNewHead
    Main,         \* identity of start()
    BatchSize,    \* config.batchSize
    MaxManagers,  \* cap on dynamicManagers (50 000)
    MaxRecent,    \* cap on recentTxTokens (1 000)
    MaxFaults     \* bound: deaths of the scanner and of the token processor, and
                  \* failing calls of the latter

Actors == Activations \cup {Main}
RegistryKinds == {"PoolCreated", "FeeSplit"}
PoolKinds == {"Swap", "Fees"}
Kinds == RegistryKinds \cup PoolKinds \cup {"ManagerDeployed", "Transfer"}

ASSUME DiscoveryAssumption ==
    /\ Main \notin Activations
    /\ IsFiniteSet(Tokens)
    /\ \A c \in Chains : c \in Seq(Seq(Kinds \X Tokens))
    /\ BatchSize \in Nat \ {0}
    /\ MaxManagers \in Nat /\ MaxRecent \in Nat
    /\ MaxFaults \in Nat

VARIABLES
    chain, height,     \* the blocks to come, and how many have been mined
    checkpoint, from, head,  \* last block processed; first one left to the heads; the
                       \* head start() read
    knownTokens, poolIdToToken, dynamicManagers,  \* the scanner's maps, as sets of names
    step,              \* await each actor is at
    unit,              \* blocks an actor fetches: one, or a catch-up batch
    asked, heeded,  \* knownTokens and dynamicManagers when it called getLogs
    extra,             \* tokens whose logs it refetches
    events,            \* events it is about to publish
    readTokens, readPools,  \* refresh: their answers
    meta,              \* stream:meta, without the entries the processor ignores
    registry, royalties,    \* token_registry, royalty_members, as sets of tokens
    pos, doing, recent,  \* token processor: entry, await, recentTxTokens
    processed,         \* history: blocks published and checkpointed
    base,              \* history: tokens registered when the scanner last started
    missed,            \* history: tokens not registered when a refresh read the pools
    behind,            \* history: tokens a refresh made the scanner forget so
    unlinked,          \* history: transactions dropped from recentTxTokens
    abandoned,         \* history: entries of stream:meta given up
    faults

chainVars == <<chain, height>>
mapVars == <<knownTokens, poolIdToToken, dynamicManagers>>
blockVars == <<unit, asked, heeded, extra, events>>
refreshVars == <<readTokens, readPools>>
storeVars == <<registry, royalties>>
procVars == <<pos, doing, recent, unlinked, abandoned>>
scanHistory == <<processed, base, missed, behind>>
vars == <<chainVars, checkpoint, from, head, mapVars, step, blockVars, refreshVars, meta,
          storeVars, procVars, scanHistory, faults>>

\* A log is found at <<block, index>>, and logs come in that order.
Kind(p) == chain[p[1]][p[2]][1]
Token(p) == chain[p[1]][p[2]][2]
Before(p, q) == p[1] < q[1] \/ (p[1] = q[1] /\ p[2] < q[2])
Logs(blocks) == UNION {{n} \X DOMAIN chain[n] : n \in blocks}
Named(kind, L) == {Token(p) : p \in {q \in L : Kind(q) = kind}}
Event == [at : Nat \X Nat, resolved : BOOLEAN]

TypeOK ==
    /\ chain \in Chains /\ height \in 0..Len(chain)
    /\ checkpoint \in 0..height /\ from \in 1..(height + 1) /\ head \in 0..height
    /\ knownTokens \subseteq Tokens /\ poolIdToToken \subseteq Tokens
    /\ dynamicManagers \subseteq Tokens /\ Cardinality(dynamicManagers) <= MaxManagers
    /\ step \in [Actors -> {"down", "idle", "tokens", "pools", "replace", "head", "fetch", "extra", "publish",
                            "checkpoint"}]
    /\ unit \in [Actors -> SUBSET (1..height)]
    /\ asked \in [Actors -> SUBSET Tokens] /\ heeded \in [Actors -> SUBSET dynamicManagers]
    /\ extra \in [Actors -> SUBSET Tokens]
    /\ \A a \in Actors : \A e \in events[a] : e \in Event /\ e.at \in Logs(1..height)
    /\ readTokens \in [Actors -> SUBSET registry] /\ readPools \in [Actors -> SUBSET registry]
    /\ meta \in Seq(RegistryKinds \X Tokens)
    /\ registry \subseteq Named("PoolCreated", Logs(1..height))
    /\ royalties \subseteq registry
    /\ pos \in 1..(Len(meta) + 1)
    /\ doing \in {"idle", "tell", "ack"}
    /\ recent \in Seq(registry) /\ Len(recent) <= MaxRecent
    /\ faults \in 0..MaxFaults

Init ==
    /\ chain \in Chains /\ height = 0 /\ checkpoint = 0 /\ from = 1 /\ head = 0
    /\ knownTokens = {} /\ poolIdToToken = {} /\ dynamicManagers = {}
    /\ step = [a \in Actors |-> IF a = Main THEN "down" ELSE "idle"]
    /\ unit = [a \in Actors |-> {}] /\ asked = [a \in Actors |-> {}]
    /\ heeded = [a \in Actors |-> {}] /\ extra = [a \in Actors |-> {}] /\ events = [a \in Actors |-> {}]
    /\ readTokens = [a \in Actors |-> {}] /\ readPools = [a \in Actors |-> {}]
    /\ meta = <<>> /\ registry = {} /\ royalties = {}
    /\ pos = 1 /\ doing = "idle" /\ recent = <<>>
    /\ processed = {} /\ base = {} 
    /\ missed = [a \in Actors |-> {}] /\ behind = {} /\ unlinked = {} /\ abandoned = {}
    /\ faults = 0

Goto(a, s) == step' = [step EXCEPT ![a] = s]
Live == step[Main] = "idle"

Mine ==
    /\ height < Len(chain)
    /\ height' = height + 1
    /\ UNCHANGED <<chain, checkpoint, from, head, mapVars, step, blockVars, refreshVars, meta,
                   storeVars, procVars, scanHistory, faults>>

-----------------------------------------------------------------------------
(* refreshKnownState: two selects at once, then both maps are replaced.    *)

SelectTokens(a) == readTokens' = [readTokens EXCEPT ![a] = registry] /\ UNCHANGED <<readPools, missed>>

\* Mutant: pool ids are compared as they are written.
SelectPoolsCased(a) ==
    /\ readPools' = [readPools EXCEPT ![a] = {}]
    /\ missed' = [missed EXCEPT ![a] = Tokens \ registry]
    /\ UNCHANGED readTokens

SelectPools(a) ==
    /\ readPools' = [readPools EXCEPT ![a] = registry]
    /\ missed' = [missed EXCEPT ![a] = Tokens \ registry]
    /\ UNCHANGED readTokens

\* Either select is answered first.
Refresh(a) ==
    \/ SelectTokens(a) /\ Goto(a, "pools")
    \/ SelectPools(a) /\ Goto(a, "tokens")

\* start() refreshes before it publishes anything.
Start ==
    /\ step[Main] = "down"
    /\ Refresh(Main)
    /\ base' = registry
    /\ UNCHANGED <<chainVars, checkpoint, from, head, mapVars, blockVars, meta, storeVars,
                   procVars, processed, behind, faults>>

\* Mutant: the heads are never counted.
HeadRefreshesNever(a) == FALSE

\* Every REFRESH_INTERVAL heads the activation that counts the last of them
\* refreshes, and so do those that end before its refresh does.  Heads keep
\* coming, also such as announce no log of interest.
HeadRefreshes(a) ==
    /\ Live /\ step[a] = "idle"
    /\ Refresh(a)
    /\ UNCHANGED <<chainVars, checkpoint, from, head, mapVars, blockVars, meta, storeVars,
                   procVars, processed, base, behind, faults>>

\* The other select is answered.
SelectOther(a) ==
    /\ \/ step[a] = "tokens" /\ SelectTokens(a)
       \/ step[a] = "pools" /\ SelectPools(a)
    /\ Goto(a, "replace")
    /\ UNCHANGED <<chainVars, checkpoint, from, head, mapVars, blockVars, meta, storeVars,
                   procVars, processed, base, behind, faults>>

Replace(a) ==
    /\ step[a] = "replace"
    /\ knownTokens' = readTokens[a]
    /\ poolIdToToken' = readPools[a]
    /\ behind' = behind \cup (missed[a] \cap (poolIdToToken \cup Named("PoolCreated", Logs(processed))))
    /\ readTokens' = [readTokens EXCEPT ![a] = {}]
    /\ readPools' = [readPools EXCEPT ![a] = {}]
    /\ missed' = [missed EXCEPT ![a] = {}]
    /\ Goto(a, IF a = Main THEN "head" ELSE "idle")
    /\ UNCHANGED <<chainVars, checkpoint, from, head, dynamicManagers, blockVars, meta,
                   storeVars, procVars, processed, base, faults>>

-----------------------------------------------------------------------------
(* A block, or a batch of start(): fetch, decode, refetch, decode, publish. *)

\* getLogs is called with the addresses known at the call.
Fetch(a, blocks) ==
    /\ Goto(a, "fetch")
    /\ unit' = [unit EXCEPT ![a] = blocks]
    /\ asked' = [asked EXCEPT ![a] = knownTokens]
    /\ heeded' = [heeded EXCEPT ![a] = dynamicManagers]

\* The actor is done.
Leave(a) ==
    /\ Goto(a, "idle")
    /\ unit' = [unit EXCEPT ![a] = {}]
    /\ asked' = [asked EXCEPT ![a] = {}]
    /\ heeded' = [heeded EXCEPT ![a] = {}]

\* The loop of catchUp, from block n.
NextBatch(n) ==
    IF n <= head'
      THEN Fetch(Main, n..(IF n + BatchSize - 1 < head' THEN n + BatchSize - 1 ELSE head'))
      ELSE Leave(Main)

\* resolveStartBlock and getBlockNumber; the head itself, if it is the
\* first block missing, is left to the heads.
CatchUp ==
    /\ step[Main] = "head"
    /\ head' = height
    /\ IF checkpoint + 1 < height
         THEN NextBatch(checkpoint + 1) /\ from' = height + 1
         ELSE Leave(Main) /\ from' = checkpoint + 1
    /\ UNCHANGED <<chainVars, checkpoint, mapVars, extra, events, refreshVars, meta,
                   storeVars, procVars, processed, base, missed, behind, faults>>

\* An activation of onNewHead comes to a block that it finds in
\* pendingBlocks: the new one, or one that failed before.  Bound: blocks of
\* two activations do not overlap here, as they do in Scanner; their
\* refreshes do.
TakeBlock(a, n) ==
    /\ Live /\ step[a] = "idle"
    /\ \A b \in Activations : unit[b] = {}
    /\ n \in (from..height) \ processed
    /\ Fetch(a, {n})
    /\ UNCHANGED <<chainVars, checkpoint, from, head, mapVars, extra, events, refreshVars,
                   meta, storeVars, procVars, processed, base, missed, behind, faults>>

\* The logs getLogs finds: those of the static contracts, the fee splits,
\* asked for by topic, and the transfers of the tokens asked for.
Found(a, addresses) == {p \in Logs(unit[a]) : Kind(p) = "Transfer" => Token(p) \in addresses}

\* decodeLog: what becomes of the logs L, given the maps.  The pool map
\* fills as the pass goes on: the creations before a log count.
Decode(L, pools, managers, tokens) ==
    {[at |-> p, resolved |-> Kind(p) \in PoolKinds =>
                  Token(p) \in pools \cup Named("PoolCreated", {q \in L : Before(q, p)})] :
       p \in {q \in L : /\ Kind(q) = "Transfer" => Token(q) \in tokens
                        /\ Kind(q) = "FeeSplit" => Token(q) \in managers}}

\* Mutant: the cap is one too low.
AddManagersBelow(deployed) ==
    \E M \in SUBSET (deployed \ dynamicManagers) :
        /\ dynamicManagers' = dynamicManagers \cup M
        /\ Cardinality(dynamicManagers') < MaxManagers
        /\ M # deployed \ dynamicManagers => Cardinality(dynamicManagers') = MaxManagers - 1

\* updateDynamicManagers, up to the cap.
AddManagers(deployed) ==
    \E M \in SUBSET (deployed \ dynamicManagers) :
        /\ dynamicManagers' = dynamicManagers \cup M
        /\ Cardinality(dynamicManagers') <= MaxManagers
        /\ M # deployed \ dynamicManagers => Cardinality(dynamicManagers') = MaxManagers

\* updatePoolMappings, which runs on the map the decoding has just filled.
AddTokens(created) == knownTokens' = knownTokens \cup (created \ poolIdToToken')

\* The answer: first pass, the maps, then the refetch or the second pass.
FirstPass(a) ==
    /\ step[a] = "fetch"
    /\ LET L == Found(a, asked[a])
           created == Named("PoolCreated", L)
       IN /\ poolIdToToken' = poolIdToToken \cup created
          /\ AddManagers(Named("ManagerDeployed", L))
          /\ AddTokens(created)
          /\ extra' = [extra EXCEPT ![a] = knownTokens' \ asked[a]]
          /\ IF extra'[a] # {}
               THEN Goto(a, "extra") /\ UNCHANGED events
               ELSE /\ Goto(a, "publish")
                    /\ events' = [events EXCEPT ![a] = Decode(L, poolIdToToken', dynamicManagers', knownTokens')]
    /\ UNCHANGED <<chainVars, checkpoint, from, head, unit, asked, heeded, refreshVars, meta,
                   storeVars, procVars, processed, base, missed, behind, faults>>

SecondPass(a) ==
    /\ step[a] = "extra"
    /\ LET L == Found(a, asked[a] \cup extra[a])
       IN /\ poolIdToToken' = poolIdToToken \cup Named("PoolCreated", L)
          /\ events' = [events EXCEPT ![a] = Decode(L, poolIdToToken, dynamicManagers, knownTokens)]
    /\ Goto(a, "publish")
    /\ UNCHANGED <<chainVars, checkpoint, from, head, knownTokens, dynamicManagers, unit, asked,
                   heeded, extra, refreshVars, meta, storeVars, procVars, scanHistory, faults>>

\* The order of the logs: what only the topic found comes at the end,
\* unless logs of the refetch have had all of them sorted.
Precedes(a, p, q) ==
    LET sorted == \E r \in Logs(unit[a]) : Kind(r) = "Transfer" /\ Token(r) \in extra[a]
        appended(r) == ~sorted /\ Kind(r) = "FeeSplit" /\ Token(r) \notin heeded[a]
    IN IF appended(p) = appended(q) THEN Before(p, q) ELSE appended(q)

InOrder(a, S) == {s \in SetToSeqs(S) : \A i, j \in DOMAIN s : i < j => Precedes(a, s[i], s[j])}

\* publishToChannels: in the order of the logs, each to its stream.
Publish(a) ==
    /\ step[a] = "publish"
    /\ LET toMeta == {e.at : e \in {x \in events[a] : Kind(x.at) \in RegistryKinds}}
       IN \E order \in InOrder(a, toMeta) :
             meta' = meta \o [i \in DOMAIN order |-> <<Kind(order[i]), Token(order[i])>>]
    /\ events' = [events EXCEPT ![a] = {}]
    /\ Goto(a, "checkpoint")
    /\ UNCHANGED <<chainVars, checkpoint, from, head, mapVars, unit, asked, heeded, extra, refreshVars,
                   storeVars, procVars, scanHistory, faults>>

LastBlock(blocks) == CHOOSE n \in blocks : \A m \in blocks : m <= n

\* The ledger, the header and the checkpoint; then the next batch, or the
\* end of the activation.
Finish(a) ==
    /\ step[a] = "checkpoint"
    /\ checkpoint' = LastBlock(unit[a])
    /\ processed' = processed \cup unit[a]
    /\ UNCHANGED head
    /\ IF a = Main THEN NextBatch(checkpoint' + 1)
                   ELSE Leave(a)
    /\ extra' = [extra EXCEPT ![a] = {}]
    /\ UNCHANGED <<chainVars, from, mapVars, events, refreshVars, meta, storeVars,
                   procVars, base, missed, behind, faults>>

\* The scanner's process dies; the maps are rebuilt from the registry,
\* dynamicManagers from nothing.
Crash ==
    /\ step[Main] # "down" /\ faults < MaxFaults
    /\ faults' = faults + 1
    /\ knownTokens' = {} /\ poolIdToToken' = {} /\ dynamicManagers' = {}
    /\ step' = [a \in Actors |-> IF a = Main THEN "down" ELSE "idle"]
    /\ readTokens' = [a \in Actors |-> {}] /\ readPools' = [a \in Actors |-> {}]
    /\ missed' = [a \in Actors |-> {}]
    /\ unit' = [a \in Actors |-> {}] /\ asked' = [a \in Actors |-> {}]
    /\ heeded' = [a \in Actors |-> {}] /\ extra' = [a \in Actors |-> {}] /\ events' = [a \in Actors |-> {}]
    /\ UNCHANGED <<chainVars, checkpoint, from, head, meta, storeVars, procVars, processed,
                   base, behind>>

-----------------------------------------------------------------------------
(* The token processor.                                                    *)

Entry == meta[pos]
Await(d) == doing' = d

Unscanned == <<chainVars, checkpoint, from, head, mapVars, step, blockVars, refreshVars,
               scanHistory>>

\* A creation: registerToken, ON CONFLICT (token_address) DO NOTHING.
RegisterToken ==
    /\ doing = "idle" /\ pos <= Len(meta) /\ Entry[1] = "PoolCreated"
    /\ registry' = registry \cup {Entry[2]}
    /\ Await("tell")
    /\ UNCHANGED <<Unscanned, meta, royalties, pos, recent, unlinked, abandoned, faults>>

\* Map.set keeps the place of a key it has; above the cap the first goes.
Remembered(s, t) == IF \E i \in DOMAIN s : s[i] = t THEN s ELSE Append(s, t)

\* Mutant: the map is cut when it has reached its cap.
TellAndRememberLess ==
    /\ doing = "tell"
    /\ LET all == Remembered(recent, Entry[2])
       IN /\ recent' = IF Len(all) >= MaxRecent THEN Tail(all) ELSE all
          /\ unlinked' = unlinked \cup (IF Len(all) > MaxRecent THEN {Head(all)} ELSE {})
    /\ Await("ack")
    /\ UNCHANGED <<Unscanned, meta, storeVars, pos, abandoned, faults>>

\* Mutant: the oldest transaction is kept.
TellAndRememberAll ==
    /\ doing = "tell"
    /\ recent' = Remembered(recent, Entry[2])
    /\ Await("ack")
    /\ UNCHANGED <<Unscanned, meta, storeVars, pos, unlinked, abandoned, faults>>

\* Once the update has been published, the transaction is remembered.
TellAndRemember ==
    /\ doing = "tell"
    /\ LET all == Remembered(recent, Entry[2])
       IN /\ recent' = IF Len(all) > MaxRecent THEN Tail(all) ELSE all
          /\ unlinked' = unlinked \cup (IF Len(all) > MaxRecent THEN {Head(all)} ELSE {})
    /\ Await("ack")
    /\ UNCHANGED <<Unscanned, meta, storeVars, pos, abandoned, faults>>

\* A fee split: upsertRoyaltyMembers if its transaction is remembered.
StoreRoyalties ==
    /\ doing = "idle" /\ pos <= Len(meta) /\ Entry[1] = "FeeSplit"
    /\ royalties' = royalties \cup ({Entry[2]} \cap ToSet(recent))
    /\ Await("ack")
    /\ UNCHANGED <<Unscanned, meta, registry, pos, recent, unlinked, abandoned, faults>>

\* handle() has returned, and xAck does.
Ack ==
    /\ doing = "ack"
    /\ pos' = pos + 1
    /\ Await("idle")
    /\ UNCHANGED <<Unscanned, meta, storeVars, recent, unlinked, abandoned, faults>>

\* A call of an attempt throws: another attempt, or, after the last, the
\* entry is left pending, and the claim loop never handles it.  Attempts
\* are counted in StreamConsumer.
AttemptFails ==
    /\ pos <= Len(meta) /\ faults < MaxFaults
    /\ faults' = faults + 1
    /\ Await("idle")
    /\ \/ UNCHANGED <<pos, abandoned>>
       \/ pos' = pos + 1 /\ abandoned' = abandoned \cup {pos}
    /\ UNCHANGED <<Unscanned, meta, storeVars, recent, unlinked>>

\* The token processor restarts: it has lost recentTxTokens, and the
\* entries it had been handed with the current one stay pending.
ProcessorRestarts(n) ==
    /\ faults < MaxFaults
    /\ faults' = faults + 1
    /\ n \in pos..(Len(meta) + 1)
    /\ doing # "idle" => n > pos
    /\ pos' = n /\ abandoned' = abandoned \cup (pos..(n - 1))
    /\ Await("idle")
    /\ recent' = <<>> /\ unlinked' = unlinked \cup ToSet(recent)
    /\ UNCHANGED <<Unscanned, meta, storeVars>>

-----------------------------------------------------------------------------
Scan(a) ==
    \/ SelectOther(a) \/ Replace(a)
    \/ FirstPass(a) \/ SecondPass(a) \/ Publish(a) \/ Finish(a)

Process == RegisterToken \/ TellAndRemember \/ StoreRoyalties \/ Ack

Next ==
    \/ Mine
    \/ Start \/ CatchUp
    \/ \E a \in Activations : HeadRefreshes(a)
    \/ \E a \in Actors : Scan(a)
    \/ \E a \in Activations, n \in 1..height : TakeBlock(a, n)
    \/ Crash
    \/ Process \/ AttemptFails
    \/ \E n \in 1..(Len(meta) + 1) : ProcessorRestarts(n)

\* Calls return; the pods are restarted; heads keep coming, so that a
\* refresh begins again and again.
Fairness ==
    /\ WF_vars(Start) /\ WF_vars(CatchUp)
    /\ \A a \in Actors : WF_vars(Scan(a))
    /\ \E a \in Activations : SF_vars(HeadRefreshes(a))
    /\ WF_vars(Process)

Spec == Init /\ [][Next]_vars /\ Fairness

-----------------------------------------------------------------------------
(* Properties.                                                             *)

\* A swap or a fee distribution is decoded without its token only if a
\* refresh that read the registry before the token was registered has since
\* replaced the map that had it, or if the block that creates the pool has
\* yet to be processed.
UnresolvedExplained ==
    [][\A a \in Actors : \A e \in events'[a] \ events[a] :
          ~e.resolved => \/ Token(e.at) \in behind
                         \/ Token(e.at) \notin Named("PoolCreated", Logs(processed \cup unit[a]))]_vars

\* What the maps decide about is published with its block whenever it can
\* be: a transfer of a token registered before the scanner started, whatever
\* refreshes run meanwhile, and a fee split whose manager the same block or
\* batch deploys, unless the map of managers is full without it.
PublishedWithBlock ==
    \A a \in Actors : step[a] = "publish" =>
        \A p \in Logs(unit[a]) :
            (\/ Kind(p) = "Transfer" /\ Token(p) \in base
             \/ /\ Kind(p) = "FeeSplit" /\ Token(p) \in Named("ManagerDeployed", Logs(unit[a]))
                /\ Cardinality(dynamicManagers) < MaxManagers \/ Token(p) \in dynamicManagers)
            => \E e \in events[a] : e.at = p

\* scanner.ts:186, "Re-fetch logs for newly discovered tokens to pick up
\* their ERC20 Transfers": a transfer of a token is published with its block
\* if the block, or an earlier one of the batch, creates the token.
TransfersOfNew ==
    \A a \in Actors : step[a] = "publish" =>
        \A p, q \in Logs(unit[a]) :
            Kind(p) = "Transfer" /\ Kind(q) = "PoolCreated" /\ Token(p) = Token(q)
                => \E e \in events[a] : e.at = p

\* A fee split of the transaction that created its token is stored once the
\* processor is past it, unless the creation or the split itself was
\* abandoned, comes later, or was handled by a map that has since lost it.
RoyaltiesExplained ==
    \A i \in 1..(pos - 1) : meta[i][1] = "FeeSplit" =>
        \/ meta[i][2] \in royalties \cup unlinked
        \/ i \in abandoned
        \/ \A j \in 1..(i - 1) : meta[j] = <<"PoolCreated", meta[i][2]>> => j \in abandoned

\* A token whose creation has been published is registered, and is in the end
\* known to the scanner for good, unless the creation was abandoned.
KnownInTheEnd ==
    <>[](\A i \in DOMAIN meta \ abandoned :
            Live /\ meta[i][1] = "PoolCreated" => meta[i][2] \in knownTokens \cap poolIdToToken)
=============================================================================

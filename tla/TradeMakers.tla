----------------------------- MODULE TradeMakers -----------------------------
(***************************************************************************)
(* Who made a trade, and who holds what.  The trade processor              *)
(* (src/src/processors/trade.ts) inserts a row per swap and looks its      *)
(* maker up in a Redis hash it fills from the transfer stream, which it    *)
(* reads through a group of its own; the position processor                *)
(* (src/src/processors/position.ts) reads the same stream, keeps the       *)
(* balances, and fills the maker of rows that have none.                   *)
(*                                                                         *)
(* A trade row has one maker column here: the code writes the recipient of *)
(* a buy or the sender of a sell.  A transaction is its transfers and at   *)
(* most one message for stream:swap; the scanner publishes both in one     *)
(* MULTI.                                                                  *)
(***************************************************************************)
EXTENDS Integers, Sequences, FiniteSets, FiniteSetsExt, SequencesExt

CONSTANTS
    Wallets,     \* addresses, without the zero address
    Zero,        \* the zero address, of mints and burns
    Bundles,     \* what a transaction can be: its transfers and its message
    DrainCount,  \* COUNT of drainTransfers (100)
    ReadCount,   \* COUNT of the read loops (10)
    MaxTxs,      \* bound: transactions published
    MaxFaults,   \* bound: failing calls and process deaths of either processor
    MaxDrainFaults, \* bound: drainTransfers with a failing call
    MaxExpiries  \* bound: times cache:tx-makers expires

Nobody == "nobody"   \* NULL

\* A bundle: transfers [token, from, to, value], and a message: a swap of
\* token, a buy or not; another event, on which handle() returns before it
\* drains (a PoolStateUpdated, a swap without a token); or none.
Messages == {"swap", "other", "none"}
Transfer == [token : STRING, from : Wallets \cup {Zero}, to : Wallets \cup {Zero}, value : Nat]

ASSUME MakersAssumption ==
    /\ IsFiniteSet(Wallets) /\ Zero \notin Wallets /\ Nobody \notin Wallets
    /\ \A b \in Bundles : /\ b.transfers \in Seq(Transfer)
                          /\ b.message \in Messages
                          /\ b.token \in STRING
                          /\ b.isBuy \in BOOLEAN
    /\ DrainCount \in Nat \ {0}
    /\ ReadCount \in Nat \ {0}
    /\ MaxTxs \in Nat
    /\ MaxFaults \in Nat
    /\ MaxDrainFaults \in Nat
    /\ MaxExpiries \in Nat

Tokens == UNION {{t.token : t \in Range(b.transfers)} : b \in Bundles}

VARIABLES
    txs,        \* the bundle of each transaction
    transfers,  \* stream:transfer, each with its transaction
    swaps,      \* stream:swap: the transaction of each message
    tradeCur,   \* message handle() of the trade processor was given last
    tradeRead,  \* last message its read loop has been handed
    tradePc,    \* await its handle() is at, or "idle"
    drained,    \* last transfer its own group was handed
    makers,     \* cache:tx-makers, by transaction: from and to, or none
    hasTtl,     \* whether that hash has a TTL
    looked,     \* maker it has looked up for the swap at work
    trades,     \* rows of trades: transaction to maker, Nobody for NULL
    posCur,     \* transfer handle() of the position processor was given last
    posRead,    \* last transfer its read loop has been handed
    posPc,      \* "idle", "commit" or "ack"
    processed,  \* processed_transfer_events
    balance,    \* holder_balances
    clamped,    \* history: what GREATEST(0, ...) added to a balance
    missed,     \* history: why a swap's look-up may have found no maker
    late,       \* history: rows inserted with no maker once their transfers were processed
    faults, drainFaults, expiries

streams == <<txs, transfers, swaps>>
tradeVars == <<tradeCur, tradeRead, tradePc, drained, makers, hasTtl, looked>>
posVars == <<posCur, posRead, posPc, processed, balance, clamped>>
budget == <<faults, drainFaults, expiries>>
excuses == <<missed, late>>
vars == <<streams, tradeVars, trades, posVars, excuses, budget>>

Party == Wallets \cup {Nobody}
Reasons == {"lost", "behind", "expired"}

TypeOK ==
    /\ \A i \in 1..Len(txs) : txs[i] \in Bundles
    /\ \A i \in 1..Len(transfers) : transfers[i].tx \in 1..Len(txs)
    /\ \A i \in 1..Len(swaps) : swaps[i] \in 1..Len(txs)
    /\ tradeCur \in 0..tradeRead /\ tradeRead \in 0..Len(swaps)
    /\ tradePc \in {"idle", "drain", "lookup", "insert", "ack"}
    /\ tradePc # "idle" => tradeCur > 0
    /\ drained \in 0..Len(transfers)
    /\ makers \in [1..MaxTxs -> [from : Party, to : Party]]
    /\ hasTtl \in BOOLEAN
    /\ looked \in Party
    /\ DOMAIN trades \subseteq 1..Len(txs)
    /\ \A x \in DOMAIN trades : trades[x] \in Party
    /\ posCur \in 0..posRead /\ posRead \in 0..Len(transfers)
    /\ posPc \in {"idle", "commit", "ack"}
    /\ posPc # "idle" => posCur > 0
    /\ processed \in SUBSET (1..posCur)
    /\ balance \in [Tokens \X Wallets -> Nat]
    /\ clamped \in [Tokens -> Nat]
    /\ missed \in SUBSET (Nat \X Reasons) /\ late \in SUBSET Nat
    /\ faults \in 0..MaxFaults
    /\ drainFaults \in 0..MaxDrainFaults
    /\ expiries \in 0..MaxExpiries

NoMaker == [from |-> Nobody, to |-> Nobody]

Init ==
    /\ txs = <<>> /\ transfers = <<>> /\ swaps = <<>>
    /\ tradeCur = 0 /\ tradeRead = 0 /\ tradePc = "idle" /\ drained = 0
    /\ makers = [x \in 1..MaxTxs |-> NoMaker] /\ hasTtl = FALSE
    /\ looked = Nobody
    /\ trades = <<>>
    /\ posCur = 0 /\ posRead = 0 /\ posPc = "idle" /\ processed = {}
    /\ balance = [k \in Tokens \X Wallets |-> 0]
    /\ clamped = [t \in Tokens |-> 0]
    /\ missed = {} /\ late = {}
    /\ faults = 0 /\ drainFaults = 0 /\ expiries = 0

\* The transfers that move tokens between wallets name a maker.
Moves(t) == t.from # Zero /\ t.to # Zero

-----------------------------------------------------------------------------
\* publishToChannels: the transaction's transfers and its message at once.
Publish(b) ==
    /\ Len(txs) < MaxTxs
    /\ txs' = Append(txs, b)
    /\ transfers' = transfers \o
          [i \in 1..Len(b.transfers) |-> [tx |-> Len(txs'), move |-> b.transfers[i]]]
    /\ swaps' = IF b.message = "none" THEN swaps ELSE Append(swaps, Len(txs'))
    /\ UNCHANGED <<tradeVars, trades, posVars, excuses, budget>>

-----------------------------------------------------------------------------
(* The trade processor.                                                    *)

\* The last message a read loop has after it needed message c: at most
\* ReadCount new ones, once it is through with those it had.
ReadTo(c, read, stream) ==
    IF c <= read THEN read
    ELSE IF read + ReadCount < Len(stream) THEN read + ReadCount
    ELSE Len(stream)

\* The transaction of the message at work.
Tx == swaps[tradeCur]

\* Where handle() starts: only a swap drains.
Start(x) == IF txs[x].message = "swap" THEN "drain" ELSE "ack"

\* Mutant: the transfers are not drained before the maker is looked up.
HandleSwapUndrained ==
    /\ tradePc = "idle" /\ tradeCur < Len(swaps)
    /\ tradeCur' = tradeCur + 1
    /\ tradeRead' = ReadTo(tradeCur', tradeRead, swaps)
    /\ tradePc' = IF txs[swaps[tradeCur + 1]].message = "swap" THEN "lookup" ELSE "ack"
    /\ UNCHANGED <<streams, drained, makers, hasTtl, looked, trades, posVars, excuses, budget>>

\* The read loop hands its next message to handle(), reading first if it has
\* none.
HandleSwap ==
    /\ tradePc = "idle" /\ tradeCur < Len(swaps)
    /\ tradeCur' = tradeCur + 1
    /\ tradeRead' = ReadTo(tradeCur', tradeRead, swaps)
    /\ tradePc' = Start(swaps[tradeCur + 1])
    /\ UNCHANGED <<streams, drained, makers, hasTtl, looked, trades, posVars, excuses, budget>>

\* The transfers of transaction x that name a maker.
Naming(x) == {i \in 1..Len(transfers) : transfers[i].tx = x /\ Moves(transfers[i].move)}

\* Those that the backfill takes it from.
Sides(x) == {i \in Naming(x) : transfers[i].move.token = txs[x].token}

\* The swaps that have no maker yet.
Unmade == {x \in 1..Len(txs) : txs[x].message = "swap" /\ (x \in DOMAIN trades => trades[x] = Nobody)}

\* drainTransfers: at most DrainCount transfers; those of S are cached, the
\* last one of a transaction winning.  A failing call only loses some, or
\* the TTL that is set at the end: the group moves on all the same, and
\* nothing reads its pending list.
DrainTransfers ==
    /\ tradePc = "drain"
    /\ drained' = IF drained + DrainCount < Len(transfers) THEN drained + DrainCount
                                                           ELSE Len(transfers)
    /\ LET batch == (drained + 1)..drained'
           expire == hasTtl \/ \E x \in 1..MaxTxs : makers'[x] # NoMaker
       IN \E S \in SUBSET batch, ok \in BOOLEAN :
             /\ makers' = [x \in 1..MaxTxs |->
                              IF Naming(x) \cap S = {}
                                THEN makers[x]
                                ELSE LET t == transfers[Max(Naming(x) \cap S)].move
                                     IN [from |-> t.from, to |-> t.to]]
             /\ IF ok
                  THEN /\ S = batch
                       /\ hasTtl' = IF batch = {} THEN hasTtl ELSE expire
                       /\ UNCHANGED drainFaults
                  ELSE /\ drainFaults < MaxDrainFaults
                       /\ drainFaults' = drainFaults + 1
                       /\ hasTtl' \in {hasTtl, expire}
             /\ missed' = missed
                  \cup {<<x, "lost">> : x \in {y \in Unmade : Naming(y) \cap (batch \ S) # {}}}
                  \cup {<<x, "behind">> : x \in {y \in {Tx} : \A i \in Naming(y) : i > drained + DrainCount}}
    /\ tradePc' = "lookup"
    /\ UNCHANGED <<streams, tradeCur, tradeRead, looked, trades, posVars, late, faults, expiries>>

\* Redis expires the hash, 24 hours after it was given its TTL: all entries,
\* however new.
Expire ==
    /\ hasTtl /\ expiries < MaxExpiries
    /\ expiries' = expiries + 1
    /\ makers' = [x \in 1..MaxTxs |-> NoMaker] /\ hasTtl' = FALSE
    /\ missed' = missed \cup {<<x, "expired">> : x \in {y \in Unmade : makers[y] # NoMaker}}
    /\ UNCHANGED <<streams, tradeCur, tradeRead, tradePc, drained, looked, trades, posVars, late, faults,
                   drainFaults>>

\* hGet of the transaction's entry.
LookUp ==
    /\ tradePc = "lookup"
    /\ looked' = IF txs[Tx].isBuy THEN makers[Tx].to ELSE makers[Tx].from
    /\ tradePc' = "insert"
    /\ UNCHANGED <<streams, tradeCur, tradeRead, drained, makers, hasTtl, trades, posVars, excuses, budget>>

\* One transaction: INSERT ... DO NOTHING, then the maker if there is one.
InsertTrade ==
    /\ tradePc = "insert"
    /\ trades' = [x \in DOMAIN trades \cup {Tx} |->
                     IF x = Tx /\ looked # Nobody THEN looked
                     ELSE IF x \in DOMAIN trades THEN trades[x]
                     ELSE Nobody]
    /\ tradePc' = "ack" /\ looked' = Nobody
    /\ late' = IF trades'[Tx] = Nobody /\ Tx \notin DOMAIN trades /\ Sides(Tx) \subseteq processed
                 THEN late \cup {Tx} ELSE late
    /\ UNCHANGED <<streams, tradeCur, tradeRead, drained, makers, hasTtl, posVars, missed, budget>>

AckSwap ==
    /\ tradePc = "ack"
    /\ tradePc' = "idle"
    /\ UNCHANGED <<streams, tradeCur, tradeRead, drained, makers, hasTtl, looked, trades, posVars, excuses,
                   budget>>

\* A call throws: handle() starts again or, the attempts used up, the
\* message is left and the next of the batch follows.
TradeFails ==
    /\ tradePc # "idle"
    /\ faults < MaxFaults
    /\ faults' = faults + 1
    /\ tradePc' \in {Start(Tx), "idle"} /\ looked' = Nobody
    /\ UNCHANGED <<streams, tradeCur, tradeRead, drained, makers, hasTtl, trades, posVars, excuses,
                   drainFaults, expiries>>

\* The process dies: the rest of the batch is left, too.
TradeDies ==
    /\ tradePc # "idle" \/ tradeCur < tradeRead
    /\ faults < MaxFaults
    /\ faults' = faults + 1
    /\ tradePc' = "idle" /\ tradeCur' = tradeRead /\ looked' = Nobody
    /\ UNCHANGED <<streams, tradeRead, drained, makers, hasTtl, trades, posVars, excuses,
                   drainFaults, expiries>>

-----------------------------------------------------------------------------
(* The position processor.                                                 *)

HandleTransfer ==
    /\ posPc = "idle" /\ posCur < Len(transfers)
    /\ posCur' = posCur + 1
    /\ posRead' = ReadTo(posCur', posRead, transfers)
    /\ posPc' = "commit"
    /\ UNCHANGED <<streams, tradeVars, trades, processed, balance, clamped, excuses, budget>>

\* Mutant: the balance is not clamped at zero.
DebitedBelow(b, t) ==
    IF t.from = Zero THEN b ELSE [b EXCEPT ![<<t.token, t.from>>] = @ - t.value]

\* balance := GREATEST(0, balance - value) of the sender, + value of the receiver.
Debited(b, t) ==
    IF t.from = Zero THEN b
    ELSE [b EXCEPT ![<<t.token, t.from>>] = IF @ < t.value THEN 0 ELSE @ - t.value]

Credited(b, t) ==
    IF t.to = Zero THEN b ELSE [b EXCEPT ![<<t.token, t.to>>] = @ + t.value]

\* What the clamp of the sender's balance hides.
Shortfall(b, t) ==
    IF t.from # Zero /\ b[<<t.token, t.from>>] < t.value
      THEN t.value - b[<<t.token, t.from>>]
      ELSE 0

\* Mutant: the parameters of the two sides are exchanged.
BackfilledCrossed(x, t) ==
    [y \in DOMAIN trades |->
        IF y = x /\ txs[y].token = t.token /\ trades[y] = Nobody /\ Moves(t)
          THEN IF txs[y].isBuy THEN t.from ELSE t.to
          ELSE trades[y]]

\* UPDATE trades of the transaction and token where the maker is NULL.
Backfilled(x, t) ==
    [y \in DOMAIN trades |->
        IF y = x /\ txs[y].token = t.token /\ trades[y] = Nobody /\ Moves(t)
          THEN IF txs[y].isBuy THEN t.to ELSE t.from
          ELSE trades[y]]

\* Mutant: the event is not looked up in processed_transfer_events.
CommitTransferAgain ==
    /\ posPc = "commit"
    /\ LET x == transfers[posCur].tx
           t == transfers[posCur].move
       IN /\ processed' = processed \cup {posCur}
          /\ balance' = Credited(Debited(balance, t), t)
          /\ clamped' = [clamped EXCEPT ![t.token] = @ + Shortfall(balance, t)]
          /\ trades' = Backfilled(x, t)
    /\ posPc' = "ack"
    /\ UNCHANGED <<streams, tradeVars, posCur, posRead, excuses, budget>>

\* The transaction of handle(): a duplicate changes nothing.
CommitTransfer ==
    /\ posPc = "commit"
    /\ LET x == transfers[posCur].tx
           t == transfers[posCur].move
       IN IF posCur \in processed
            THEN UNCHANGED <<processed, balance, clamped, trades>>
            ELSE /\ processed' = processed \cup {posCur}
                 /\ balance' = Credited(Debited(balance, t), t)
                 /\ clamped' = [clamped EXCEPT ![t.token] = @ + Shortfall(balance, t)]
                 /\ trades' = Backfilled(x, t)
    /\ posPc' = "ack"
    /\ UNCHANGED <<streams, tradeVars, posCur, posRead, excuses, budget>>

\* The invalidations, then xAck.
AckTransfer ==
    /\ posPc = "ack"
    /\ posPc' = "idle"
    /\ UNCHANGED <<streams, tradeVars, trades, posCur, posRead, processed, balance, clamped, excuses, budget>>

\* As TradeFails.
PositionFails ==
    /\ posPc # "idle"
    /\ faults < MaxFaults
    /\ faults' = faults + 1
    /\ posPc' \in {"commit", "idle"}
    /\ UNCHANGED <<streams, tradeVars, trades, posCur, posRead, processed, balance, clamped, excuses,
                   drainFaults, expiries>>

\* As TradeDies.
PositionDies ==
    /\ posPc # "idle" \/ posCur < posRead
    /\ faults < MaxFaults
    /\ faults' = faults + 1
    /\ posPc' = "idle" /\ posCur' = posRead
    /\ UNCHANGED <<streams, tradeVars, trades, posRead, processed, balance, clamped, excuses, drainFaults,
                   expiries>>

-----------------------------------------------------------------------------
Next ==
    \/ \E b \in Bundles : Publish(b)
    \/ HandleSwap \/ DrainTransfers \/ Expire \/ LookUp \/ InsertTrade \/ AckSwap
    \/ TradeFails \/ TradeDies
    \/ HandleTransfer \/ CommitTransfer \/ AckTransfer \/ PositionFails \/ PositionDies

Spec == Init /\ [][Next]_vars

-----------------------------------------------------------------------------
(* Properties.                                                             *)

\* Value that processed transfers brought into being, less what they burned.
Minted(t) ==
    LET delta(i) == IF transfers[i].move.token # t THEN 0
                    ELSE (IF transfers[i].move.from = Zero THEN transfers[i].move.value ELSE 0)
                         - (IF transfers[i].move.to = Zero THEN transfers[i].move.value ELSE 0)
    IN MapThenSumSet(delta, processed)

\* No transfer is applied twice or in part, however often it is handled:
\* balances add up to what was minted less burned, but for the clamped part.
SupplyConserved ==
    \A t \in Tokens :
        MapThenSumSet(LAMBDA w : balance[<<t, w>>], Wallets) = Minted(t) + clamped[t]

\* A trade's maker took part, on the right side, in a transfer of the
\* trade's transaction, whichever processor wrote it.
MakerIsParty ==
    \A x \in DOMAIN trades :
        trades[x] # Nobody =>
            \E i \in 1..Len(txs[x].transfers) :
                LET t == txs[x].transfers[i]
                IN Moves(t) /\ trades[x] = IF txs[x].isBuy THEN t.to ELSE t.from

\* Both processors are through with transaction x, which moved its token
\* between wallets.
Settled(x) ==
    /\ ~(tradePc # "idle" /\ Tx = x)
    /\ Sides(x) # {} /\ Sides(x) \subseteq processed

\* trade.ts drains the transfers "so maker cache is populated before we look
\* up", and the position processor fills what is missing: a settled row has a
\* maker, in whichever order the two came.  One that came after the position
\* processor may have none if the drain lost one of the transaction's
\* transfers, had more than DrainCount before them, or the hash expired with
\* their entry.
MakerResolved ==
    \A x \in DOMAIN trades :
        Settled(x) =>
            \/ trades[x] # Nobody
            \/ x \in late /\ \E why \in Reasons : <<x, why>> \in missed
=============================================================================

----------------------------- MODULE TradeProofs -----------------------------
(***************************************************************************)
(* Proofs about the trade processor: TradeMakers for any bundles, wallets  *)
(* and number of faults, and PoolStateBuffer for any pools, timers and     *)
(* buffer size. The two halves share no state.                             *)
(***************************************************************************)
EXTENDS TradeMakers, PoolStateBuffer, WellFoundedInduction, SequenceTheorems, FiniteSetTheorems,
        FunctionTheorems, TLAPS

-----------------------------------------------------------------------------
(* Numbers and sequences.                                                  *)

\* A set of numbers up to a bound has a largest one.
LEMMA LargestOf ==
    ASSUME NEW n \in Nat, NEW S, S \subseteq 1..n, S # {}
    PROVE  Max(S) \in S
<1> DEFINE T == {n - i : i \in S}
           R == {ss \in Nat \X Nat : ss[1] < ss[2]}
<1>0. \A i \in S : i \in Int /\ i <= n
  OBVIOUS
<1>1. IsWellFoundedOn(R, Nat)
  BY NatLessThanWellFounded DEF OpToRel
<1>2. T \subseteq Nat /\ T # {}
  <2>1. \A i \in S : n - i \in Nat
    BY <1>0
  <2>2. PICK i \in S : TRUE
    OBVIOUS
  <2> QED
    BY <2>1, <2>2
<1>3. \E x \in T : \A y \in T : <<y, x>> \notin R
  <2> HIDE DEF T, R
  <2> QED
    BY <1>1, <1>2, WFMin
<1>4. PICK x \in T : \A y \in T : <<y, x>> \notin R
  BY <1>3
<1>5. PICK i \in S : x = n - i
  BY <1>4
<1>6. \A j \in S : i >= j
  <2> SUFFICES ASSUME NEW j \in S PROVE i >= j
    OBVIOUS
  <2>1. n - j \in T /\ n - j \in Nat /\ n - i \in Nat
    BY <1>0
  <2>2. ~(n - j < n - i)
    BY <1>4, <1>5, <2>1
  <2> QED
    BY <1>0, <1>5, <2>2
<1> QED
  BY <1>6 DEF Max

-----------------------------------------------------------------------------
(* Type correctness.                                                       *)

\* An entry of the transfers stream.
Item == [tx : Nat, move : Transfer]

\* Transaction x is one of the log and t one of its transfers.
TransferOf(t, x) == x \in 1..Len(txs) /\ \E j \in 1..Len(txs[x].transfers) : t = txs[x].transfers[j]

\* The streams grow together.
Published ==
    /\ txs \in Seq(Bundles) /\ Len(txs) <= MaxTxs
    /\ transfers \in Seq(Item) /\ swaps \in Seq(Nat)
    /\ \A i \in 1..Len(transfers) : TransferOf(transfers[i].move, transfers[i].tx)

\* The types, with this.
Typed == TypeOK /\ Published

\* A transfer's token and parties.
LEMMA MoveTyped ==
    ASSUME Published, NEW i \in 1..Len(transfers)
    PROVE  LET t == transfers[i].move
           IN /\ transfers[i].tx \in 1..Len(txs) /\ t.token \in Tokens /\ t.value \in Nat
              /\ t.from \in Wallets \cup {Zero} /\ t.to \in Wallets \cup {Zero}
<1> DEFINE t == transfers[i].move
           x == transfers[i].tx
<1>1. x \in 1..Len(txs)
  BY DEF Published, TransferOf
<1>2. PICK j \in 1..Len(txs[x].transfers) : t = txs[x].transfers[j]
  BY DEF Published, TransferOf
<1>3. txs[x] \in Bundles
  BY <1>1 DEF Published
<1>4. txs[x].transfers \in Seq(Transfer)
  BY <1>3, MakersAssumption
<1>5. t \in Transfer /\ t \in Range(txs[x].transfers)
  BY <1>2, <1>4 DEF Range
<1> QED
  BY <1>1, <1>3, <1>5 DEF Transfer, Tokens

\* Types hold at the start.
LEMMA TypedInit == Init => Typed
<1> SUFFICES ASSUME Init PROVE Typed
  OBVIOUS
<1> USE MakersAssumption
<1>1. /\ txs = <<>> /\ transfers = <<>> /\ swaps = <<>> /\ trades = <<>>
      /\ Len(txs) = 0 /\ Len(transfers) = 0 /\ Len(swaps) = 0 /\ DOMAIN trades = {}
  BY DEF Init
<1>2. txs \in Seq(Bundles) /\ transfers \in Seq(Item) /\ swaps \in Seq(Nat)
  BY <1>1
<1>3. Published
  BY <1>1, <1>2 DEF Published
<1>4. /\ makers \in [1..MaxTxs -> [from : Party, to : Party]]
      /\ balance \in [Tokens \X Wallets -> Nat] /\ clamped \in [Tokens -> Nat]
  BY DEF Init, NoMaker, Party
<1>5. /\ \A i \in 1..Len(txs) : txs[i] \in Bundles
      /\ \A i \in 1..Len(transfers) : transfers[i].tx \in 1..Len(txs)
      /\ \A i \in 1..Len(swaps) : swaps[i] \in 1..Len(txs)
      /\ \A x \in DOMAIN trades : trades[x] \in Party
  BY <1>1
<1>6. /\ tradeCur = 0 /\ tradeRead = 0 /\ tradePc = "idle" /\ drained = 0 /\ hasTtl \in BOOLEAN
      /\ looked \in Party /\ posCur = 0 /\ posRead = 0 /\ posPc = "idle" /\ processed = {}
      /\ missed = {} /\ late = {}
  BY DEF Init, Party
<1>7. faults \in 0..MaxFaults /\ drainFaults \in 0..MaxDrainFaults /\ expiries \in 0..MaxExpiries
  BY DEF Init
<1>8. TypeOK
  BY <1>1, <1>4, <1>5, <1>6, <1>7 DEF TypeOK
<1> QED
  BY <1>3, <1>8 DEF Typed

\* The items of two sequences, one after the other.
LEMMA Concatenated ==
    ASSUME NEW S, NEW s \in Seq(S), NEW t \in Seq(S)
    PROVE  /\ s \o t \in Seq(S) /\ Len(s \o t) = Len(s) + Len(t)
           /\ \A i \in 1..Len(s) : (s \o t)[i] = s[i]
           /\ \A i \in (Len(s) + 1)..(Len(s) + Len(t)) : (s \o t)[i] = t[i - Len(s)]
<1>1. Len(s) \in Nat /\ Len(t) \in Nat
  BY LenProperties
<1> QED
  BY <1>1, ConcatProperties

\* What a transaction adds to the two streams.
LEMMA Appended ==
    ASSUME Published, NEW b \in Bundles, Publish(b)
    PROVE  /\ Len(txs) \in Nat /\ Len(transfers) \in Nat /\ Len(b.transfers) \in Nat
           /\ txs' \in Seq(Bundles) /\ Len(txs') = Len(txs) + 1
           /\ \A x \in 1..Len(txs) : txs'[x] = txs[x]
           /\ txs'[Len(txs) + 1] = b
           /\ transfers' \in Seq(Item)
           /\ Len(transfers') = Len(transfers) + Len(b.transfers)
           /\ \A i \in 1..Len(transfers) : transfers'[i] = transfers[i]
           /\ \A i \in (Len(transfers) + 1)..(Len(transfers) + Len(b.transfers)) :
                 /\ transfers'[i].tx = Len(txs) + 1
                 /\ i - Len(transfers) \in 1..Len(b.transfers)
                 /\ transfers'[i].move = b.transfers[i - Len(transfers)]
<1> DEFINE n == Len(txs)
           m == Len(transfers)
           added == [i \in 1..Len(b.transfers) |-> [tx |-> Len(txs'), move |-> b.transfers[i]]]
<1>0. /\ txs \in Seq(Bundles) /\ transfers \in Seq(Item) /\ n \in Nat /\ m \in Nat
      /\ b.transfers \in Seq(Transfer) /\ Len(b.transfers) \in Nat /\ MaxTxs \in Nat
  BY MakersAssumption DEF Published
<1>1. txs' = Append(txs, b) /\ transfers' = transfers \o added
  BY DEF Publish
<1>2. /\ txs' \in Seq(Bundles) /\ Len(txs') = n + 1
      /\ \A x \in 1..n : txs'[x] = txs[x]
      /\ txs'[n + 1] = b
  BY <1>0, <1>1, AppendProperties
<1>2a. /\ added \in Seq(Item) /\ Len(added) = Len(b.transfers)
      /\ \A i \in 1..Len(b.transfers) : added[i].tx = n + 1 /\ added[i].move = b.transfers[i]
  <2>1. \A i \in 1..Len(b.transfers) : [tx |-> Len(txs'), move |-> b.transfers[i]] \in Item
    BY <1>0, <1>2 DEF Item
  <2>2. added \in [1..Len(b.transfers) -> Item]
    BY <2>1
  <2>3. added \in Seq(Item)
    <3> HIDE DEF added
    <3> QED
      BY <1>0, <2>2, SeqDef
  <2>4. DOMAIN added = 1..Len(b.transfers)
    OBVIOUS
  <2>5. Len(added) = Len(b.transfers)
    <3> HIDE DEF added
    <3> QED
      BY <1>0, <2>3, <2>4, LenProperties
  <2> QED
    BY <1>2, <2>3, <2>5
<1>3. PICK s \in Seq(Item) :
        /\ transfers' = transfers \o s /\ Len(s) = Len(b.transfers)
        /\ \A i \in 1..Len(b.transfers) : s[i].tx = n + 1 /\ s[i].move = b.transfers[i]
  <2>1. transfers' = transfers \o added
    BY <1>1
  <2> HIDE DEF added
  <2> QED
    BY <1>2a, <2>1
<1>4. /\ transfers' \in Seq(Item) /\ Len(transfers') = m + Len(b.transfers)
      /\ \A i \in 1..m : transfers'[i] = transfers[i]
      /\ \A i \in (m + 1)..(m + Len(b.transfers)) : transfers'[i] = s[i - m]
  <2>1. s \in Seq(Item) /\ transfers \in Seq(Item)
    BY <1>0
  <2>2. /\ transfers \o s \in Seq(Item) /\ Len(transfers \o s) = Len(transfers) + Len(s)
        /\ \A i \in 1..Len(transfers) : (transfers \o s)[i] = transfers[i]
        /\ \A i \in (Len(transfers) + 1)..(Len(transfers) + Len(s)) :
              (transfers \o s)[i] = s[i - Len(transfers)]
    BY <2>1, Concatenated
  <2> QED
    BY <1>3, <2>2
<1>5. \A i \in (m + 1)..(m + Len(b.transfers)) : i - m \in 1..Len(b.transfers)
  BY <1>0
<1> QED
  BY <1>0, <1>2, <1>3, <1>4, <1>5

\* Its message, if it has one.
LEMMA SwapAppended ==
    ASSUME Typed, NEW b \in Bundles, Publish(b)
    PROVE  /\ swaps' \in Seq(Nat) /\ Len(swaps) \in Nat /\ Len(swaps') \in Nat /\ Len(swaps) <= Len(swaps')
           /\ \A i \in 1..Len(swaps) : swaps'[i] = swaps[i]
           /\ \A i \in 1..Len(swaps') : swaps'[i] \in 1..Len(txs')
<1>0. /\ swaps \in Seq(Nat) /\ Len(swaps) \in Nat /\ Len(txs) \in Nat /\ Len(txs') = Len(txs) + 1
      /\ \A i \in 1..Len(swaps) : swaps[i] \in 1..Len(txs)
  BY Appended, LenProperties DEF Typed, TypeOK, Published
<1>1. CASE swaps' = swaps
  BY <1>0, <1>1
<1>2. CASE swaps' = Append(swaps, Len(txs'))
  <2>1. /\ swaps' \in Seq(Nat) /\ Len(swaps') = Len(swaps) + 1 /\ swaps'[Len(swaps) + 1] = Len(txs) + 1
        /\ \A i \in 1..Len(swaps) : swaps'[i] = swaps[i]
    BY <1>0, <1>2, AppendProperties
  <2>2. \A i \in 1..Len(swaps') : swaps'[i] \in 1..Len(txs')
    <3> SUFFICES ASSUME NEW i \in 1..Len(swaps') PROVE swaps'[i] \in 1..(Len(txs) + 1)
      BY <1>0
    <3>1. i \in 1..Len(swaps) \/ i = Len(swaps) + 1
      BY <1>0, <2>1
    <3>2. CASE i \in 1..Len(swaps)
      <4>1. swaps'[i] = swaps[i] /\ swaps[i] \in 1..Len(txs)
        BY <1>0, <2>1, <3>2
      <4> QED
        BY <1>0, <4>1
    <3>3. CASE i = Len(swaps) + 1
      BY <1>0, <2>1, <3>3
    <3> QED
      BY <3>1, <3>2, <3>3
  <2> QED
    BY <1>0, <2>1, <2>2
<1> QED
  BY <1>1, <1>2 DEF Publish

\* A transaction is published.
LEMMA TypedPublish == ASSUME Typed, NEW b \in Bundles, Publish(b) PROVE Typed'
<1> DEFINE n == Len(txs)
           m == Len(transfers)
<1>0. /\ n \in Nat /\ m \in Nat /\ Len(b.transfers) \in Nat
      /\ txs' \in Seq(Bundles) /\ Len(txs') = n + 1
      /\ \A x \in 1..n : txs'[x] = txs[x]
      /\ txs'[n + 1] = b
      /\ transfers' \in Seq(Item) /\ Len(transfers') = m + Len(b.transfers)
      /\ \A i \in 1..m : transfers'[i] = transfers[i]
      /\ \A i \in (m + 1)..(m + Len(b.transfers)) :
            /\ transfers'[i].tx = n + 1
            /\ i - m \in 1..Len(b.transfers)
            /\ transfers'[i].move = b.transfers[i - m]
  BY Appended DEF Typed
<1>1. n < MaxTxs /\ MaxTxs \in Nat /\ UNCHANGED <<tradeVars, trades, posVars, excuses, budget>>
  BY MakersAssumption DEF Publish
<1>2. /\ n \in Nat /\ m \in Nat /\ Len(b.transfers) \in Nat
      /\ Len(txs') = n + 1 /\ Len(transfers') = m + Len(b.transfers)
  BY <1>0
<1>5. \A i \in 1..Len(transfers') : TransferOf(transfers[i].move, transfers[i].tx)'
  <2> SUFFICES ASSUME NEW i \in 1..Len(transfers')
               PROVE  TransferOf(transfers[i].move, transfers[i].tx)'
    OBVIOUS
  <2>1. CASE i <= m
    <3>1. TransferOf(transfers[i].move, transfers[i].tx) /\ transfers'[i] = transfers[i]
      BY <1>0, <2>1 DEF Typed, Published
    <3>2. PICK j \in 1..Len(txs[transfers[i].tx].transfers) :
             transfers[i].move = txs[transfers[i].tx].transfers[j]
      BY <3>1 DEF TransferOf
    <3>3. transfers[i].tx \in 1..Len(txs) /\ Len(txs') = Len(txs) + 1 /\ Len(txs) \in Nat
      BY <1>0, <3>1 DEF TransferOf
    <3>4. transfers[i].tx \in 1..Len(txs') /\ txs'[transfers[i].tx] = txs[transfers[i].tx]
      BY <1>0, <3>3
    <3> QED
      BY <3>1, <3>2, <3>4 DEF TransferOf
  <2>2. CASE i > m
    <3>1. /\ transfers'[i].tx = n + 1 /\ i - m \in 1..Len(b.transfers)
          /\ transfers'[i].move = b.transfers[i - m]
      <4>1. i \in (m + 1)..(m + Len(b.transfers))
        BY <1>2, <2>2
      <4>2. ASSUME NEW k \in (m + 1)..(m + Len(b.transfers))
            PROVE  /\ transfers'[k].tx = n + 1 /\ k - m \in 1..Len(b.transfers)
                   /\ transfers'[k].move = b.transfers[k - m]
        BY <1>0
      <4> QED
        BY <4>1, <4>2
    <3>2. n + 1 \in 1..Len(txs') /\ txs'[n + 1].transfers = b.transfers
      BY <1>0
    <3> QED
      BY <3>1, <3>2 DEF TransferOf
  <2> QED
    BY <1>0, <2>1, <2>2
<1>6. Published'
  <2>1. Len(txs') <= MaxTxs
    BY <1>0, <1>1
  <2> QED
    BY <1>0, <1>5, <2>1, SwapAppended DEF Published
<1>7. \A i \in 1..Len(transfers') : transfers'[i].tx \in 1..Len(txs')
  BY <1>5 DEF TransferOf
<1>8. TypeOK'
  <2>1. \A i \in 1..Len(txs') : txs'[i] \in Bundles
    BY <1>0
  <2>2. /\ \A i \in 1..Len(swaps') : swaps'[i] \in 1..Len(txs')
        /\ Len(swaps) \in Nat /\ Len(swaps') \in Nat /\ Len(swaps) <= Len(swaps')
    BY SwapAppended
  <2>3. /\ tradeCur' \in 0..tradeRead' /\ tradeRead' \in 0..Len(swaps') /\ drained' \in 0..Len(transfers')
        /\ posCur' \in 0..posRead' /\ posRead' \in 0..Len(transfers')
    <3>1. UNCHANGED <<tradeCur, tradeRead, drained, posCur, posRead>>
      BY <1>1 DEF tradeVars, posVars
    <3>2. /\ tradeCur \in 0..tradeRead /\ tradeRead \in 0..Len(swaps) /\ drained \in 0..Len(transfers)
          /\ posCur \in 0..posRead /\ posRead \in 0..Len(transfers)
      BY DEF Typed, TypeOK
    <3> QED
      BY <1>2, <2>2, <3>1, <3>2
  <2>4. DOMAIN trades' \subseteq 1..Len(txs')
    BY <1>1, <1>2 DEF Typed, TypeOK
  <2>5. UNCHANGED <<tradePc, makers, hasTtl, looked, trades, posPc, processed, balance, clamped, missed, late,
                    faults, drainFaults, expiries, tradeCur, posCur>>
    BY <1>1 DEF tradeVars, posVars, excuses, budget
  <2> QED
    BY <1>7, <2>1, <2>2, <2>3, <2>4, <2>5 DEF Typed, TypeOK
<1> QED
  BY <1>6, <1>8 DEF Typed

\* The message at work and its transaction.
LEMMA TxTyped ==
    ASSUME Typed, tradePc # "idle"
    PROVE  /\ tradeCur \in 1..Len(swaps) /\ Tx \in 1..Len(txs) /\ Tx \in 1..MaxTxs /\ Tx \in Nat
<1>1. /\ Len(txs) \in Nat /\ Len(txs) <= MaxTxs /\ MaxTxs \in Nat /\ Len(swaps) \in Nat
      /\ tradeCur > 0 /\ tradeCur \in 0..tradeRead /\ tradeRead \in 0..Len(swaps)
      /\ \A i \in 1..Len(swaps) : swaps[i] \in 1..Len(txs)
  BY MakersAssumption, LenProperties DEF Typed, TypeOK, Published
<1>2. tradeCur \in 1..Len(swaps)
  BY <1>1
<1> QED
  BY <1>1, <1>2 DEF Tx

\* What a drain does: of S, and of all it was handed if its calls succeed.
LEMMA DrainOf ==
    ASSUME DrainTransfers
    PROVE  \E S \in SUBSET ((drained + 1)..drained') :
              /\ makers' = [x \in 1..MaxTxs |->
                              IF Naming(x) \cap S = {}
                                THEN makers[x]
                                ELSE LET t == transfers[Max(Naming(x) \cap S)].move
                                     IN [from |-> t.from, to |-> t.to]]
              /\ missed' = missed
                   \cup {<<x, "lost">> : x \in {y \in Unmade : Naming(y) \cap (((drained + 1)..drained') \ S) # {}}}
                   \cup {<<x, "behind">> : x \in {y \in {Tx} : \A i \in Naming(y) : i > drained + DrainCount}}
              /\ hasTtl' \in {hasTtl, hasTtl \/ \E x \in 1..MaxTxs : makers'[x] # NoMaker}
              /\ \/ drainFaults' = drainFaults
                 \/ drainFaults < MaxDrainFaults /\ drainFaults' = drainFaults + 1
BY DEF DrainTransfers

\* What it caches: a maker's entry is a transfer that moved tokens in the
\* maker's transaction, or stays.
LEMMA Drained ==
    ASSUME Typed, DrainTransfers
    PROVE  /\ makers' \in [1..MaxTxs -> [from : Party, to : Party]]
           /\ drained' \in 0..Len(transfers) /\ drained' >= drained
           /\ \A x \in 1..MaxTxs : makers'[x] = makers[x] \/
                 \E i \in Naming(x) :
                     makers'[x] = [from |-> transfers[i].move.from, to |-> transfers[i].move.to]
<1>0. /\ Len(transfers) \in Nat /\ drained \in 0..Len(transfers) /\ DrainCount \in Nat
      /\ makers \in [1..MaxTxs -> [from : Party, to : Party]] /\ Published
  BY MakersAssumption DEF Typed, Published, TypeOK
<1>1. drained' \in 0..Len(transfers) /\ drained' >= drained
  BY <1>0 DEF DrainTransfers
<1>2. PICK S \in SUBSET ((drained + 1)..drained') :
        makers' = [x \in 1..MaxTxs |->
                     IF Naming(x) \cap S = {}
                       THEN makers[x]
                       ELSE LET t == transfers[Max(Naming(x) \cap S)].move
                            IN [from |-> t.from, to |-> t.to]]
  BY DrainOf
<1>3. \A x : Naming(x) \cap S # {} => Max(Naming(x) \cap S) \in Naming(x) \cap S
  <2> SUFFICES ASSUME NEW x, Naming(x) \cap S # {} PROVE Max(Naming(x) \cap S) \in Naming(x) \cap S
    OBVIOUS
  <2>1. Naming(x) \cap S \subseteq 1..Len(transfers)
    BY DEF Naming
  <2> QED
    BY <1>0, <2>1, LargestOf
<1>4. \A x \in 1..MaxTxs : makers'[x] = makers[x] \/
         \E i \in Naming(x) :
             makers'[x] = [from |-> transfers[i].move.from, to |-> transfers[i].move.to]
  <2> SUFFICES ASSUME NEW x \in 1..MaxTxs, Naming(x) \cap S # {}
               PROVE  \E i \in Naming(x) :
                         makers'[x] = [from |-> transfers[i].move.from, to |-> transfers[i].move.to]
    BY <1>2
  <2> DEFINE i == Max(Naming(x) \cap S)
  <2>1. i \in Naming(x)
    BY <1>3
  <2>2. makers'[x] = [from |-> transfers[i].move.from, to |-> transfers[i].move.to]
    BY <1>2
  <2> HIDE DEF i
  <2> QED
    BY <2>1, <2>2
<1>5. \A x : \A i \in Naming(x) : transfers[i].move.from \in Party /\ transfers[i].move.to \in Party
  BY <1>0, MoveTyped DEF Naming, Moves, Party
<1>6. \A x \in 1..MaxTxs : makers'[x] \in [from : Party, to : Party]
  <2> SUFFICES ASSUME NEW x \in 1..MaxTxs PROVE makers'[x] \in [from : Party, to : Party]
    OBVIOUS
  <2>1. CASE makers'[x] = makers[x]
    BY <1>0, <2>1
  <2>2. ASSUME NEW i \in Naming(x),
               makers'[x] = [from |-> transfers[i].move.from, to |-> transfers[i].move.to]
        PROVE  makers'[x] \in [from : Party, to : Party]
    <3>1. transfers[i].move.from \in Party /\ transfers[i].move.to \in Party
      BY <1>5
    <3> QED
      BY <2>2, <3>1
  <2> QED
    BY <1>4, <2>1, <2>2
<1>7. makers' \in [1..MaxTxs -> [from : Party, to : Party]]
  <2>1. makers' = [x \in 1..MaxTxs |-> makers'[x]]
    BY <1>2
  <2> QED
    BY <1>6, <2>1
<1> QED
  BY <1>1, <1>4, <1>7

\* TypeOK, by whom it is about.
StreamTyped ==
    /\ \A i \in 1..Len(txs) : txs[i] \in Bundles
    /\ \A i \in 1..Len(transfers) : transfers[i].tx \in 1..Len(txs)
    /\ \A i \in 1..Len(swaps) : swaps[i] \in 1..Len(txs)

TradeTyped ==
    /\ tradeCur \in 0..tradeRead /\ tradeRead \in 0..Len(swaps)
    /\ tradePc \in {"idle", "drain", "lookup", "insert", "ack"}
    /\ tradePc # "idle" => tradeCur > 0
    /\ drained \in 0..Len(transfers)
    /\ makers \in [1..MaxTxs -> [from : Party, to : Party]]
    /\ hasTtl \in BOOLEAN
    /\ looked \in Party

RowsTyped == DOMAIN trades \subseteq 1..Len(txs) /\ \A x \in DOMAIN trades : trades[x] \in Party

PosTyped ==
    /\ posCur \in 0..posRead /\ posRead \in 0..Len(transfers)
    /\ posPc \in {"idle", "commit", "ack"}
    /\ posPc # "idle" => posCur > 0
    /\ processed \in SUBSET (1..posCur)
    /\ balance \in [Tokens \X Wallets -> Nat]
    /\ clamped \in [Tokens -> Nat]

ExcusesTyped == missed \in SUBSET (Nat \X Reasons) /\ late \in SUBSET Nat

BudgetTyped ==
    faults \in 0..MaxFaults /\ drainFaults \in 0..MaxDrainFaults /\ expiries \in 0..MaxExpiries

\* The parts are all of it.
LEMMA TypedParts ==
    /\ TypeOK => StreamTyped /\ TradeTyped /\ RowsTyped /\ PosTyped /\ ExcusesTyped /\ BudgetTyped
    /\ StreamTyped' /\ TradeTyped' /\ RowsTyped' /\ PosTyped' /\ ExcusesTyped' /\ BudgetTyped' => TypeOK'
BY DEF TypeOK, StreamTyped, TradeTyped, RowsTyped, PosTyped, ExcusesTyped, BudgetTyped

\* How far a read loop reads.
LEMMA ReadToTyped ==
    ASSUME NEW c \in Nat, NEW read \in Nat, c <= read, NEW stream, Len(stream) \in Nat, read <= Len(stream),
           c < Len(stream)
    PROVE  ReadTo(c + 1, read, stream) \in 0..Len(stream) /\ c + 1 <= ReadTo(c + 1, read, stream)
BY MakersAssumption DEF ReadTo

\* The trade processor.
LEMMA TypedTrade ==
    ASSUME Typed,
           \/ HandleSwap \/ DrainTransfers \/ Expire \/ LookUp \/ InsertTrade \/ AckSwap
           \/ TradeFails \/ TradeDies
    PROVE  Typed'
<1>0. /\ Len(txs) \in Nat /\ Len(txs) <= MaxTxs /\ MaxTxs \in Nat /\ Len(swaps) \in Nat /\ Published
      /\ StreamTyped /\ TradeTyped /\ RowsTyped /\ PosTyped /\ ExcusesTyped /\ BudgetTyped
  BY TypedParts, MakersAssumption, LenProperties DEF Typed, Published
<1>1. UNCHANGED <<streams, posVars>>
  BY DEF HandleSwap, DrainTransfers, Expire, LookUp, InsertTrade, AckSwap, TradeFails, TradeDies
<1>2. Published'
  BY <1>0, <1>1 DEF streams, Published, TransferOf
<1>3. StreamTyped' /\ PosTyped'
  BY <1>0, <1>1 DEF streams, posVars, StreamTyped, PosTyped
<1>4. BudgetTyped'
  <2>1. CASE DrainTransfers
    <3>1. UNCHANGED <<faults, expiries>> /\ (drainFaults' = drainFaults
             \/ (drainFaults < MaxDrainFaults /\ drainFaults' = drainFaults + 1))
      BY <2>1, DrainOf DEF DrainTransfers
    <3> QED
      BY <1>0, <3>1, MakersAssumption DEF BudgetTyped
  <2>2. CASE TradeFails \/ TradeDies
    BY <1>0, <2>2, MakersAssumption DEF TradeFails, TradeDies, BudgetTyped
  <2>3. CASE Expire
    BY <1>0, <2>3, MakersAssumption DEF Expire, BudgetTyped
  <2>4. CASE HandleSwap \/ LookUp \/ InsertTrade \/ AckSwap
    BY <1>0, <2>4 DEF HandleSwap, LookUp, InsertTrade, AckSwap, budget, BudgetTyped
  <2> QED
    BY <2>1, <2>2, <2>3, <2>4
<1>5. \A x : x \in Unmade => x \in Nat
  BY <1>0 DEF Unmade
<1>6. TradeTyped' /\ RowsTyped' /\ ExcusesTyped'
  <2>1. CASE HandleSwap
    <3>1. /\ tradeCur' = tradeCur + 1 /\ tradeCur < Len(swaps) /\ tradePc' \in {"drain", "ack"}
          /\ tradeRead' = ReadTo(tradeCur + 1, tradeRead, swaps)
          /\ UNCHANGED <<txs, transfers, swaps, drained, makers, hasTtl, looked, trades, missed, late>>
      BY <2>1 DEF HandleSwap, Start, streams, excuses
    <3>2. tradeRead' \in 0..Len(swaps) /\ tradeCur' \in 0..tradeRead' /\ tradeCur' > 0
      <4>1. tradeCur \in Nat /\ tradeRead \in Nat /\ tradeCur <= tradeRead /\ tradeRead <= Len(swaps)
        BY <1>0 DEF TradeTyped
      <4>2. tradeRead' \in 0..Len(swaps) /\ tradeCur + 1 <= tradeRead'
        BY <1>0, <3>1, <4>1, ReadToTyped
      <4> QED
        BY <3>1, <4>1, <4>2
    <3> QED
      BY <1>0, <3>1, <3>2 DEF TradeTyped, RowsTyped, ExcusesTyped
  <2>2. CASE DrainTransfers
    <3>1. /\ tradePc = "drain" /\ tradePc' = "lookup"
          /\ UNCHANGED <<txs, transfers, swaps, tradeCur, tradeRead, looked, trades, late>>
      BY <2>2 DEF DrainTransfers, streams
    <3>2. Tx \in Nat
      BY <3>1, TxTyped
    <3>3. missed' \in SUBSET (Nat \X Reasons) /\ hasTtl' \in BOOLEAN
      <4>1. PICK S \in SUBSET ((drained + 1)..drained') :
              missed' = missed
                 \cup {<<x, "lost">> : x \in {y \in Unmade : Naming(y) \cap (((drained + 1)..drained') \ S) # {}}}
                 \cup {<<x, "behind">> : x \in {y \in {Tx} : \A i \in Naming(y) : i > drained + DrainCount}}
        BY <2>2, DrainOf
      <4>2. missed' \in SUBSET (Nat \X Reasons)
        BY <1>0, <1>5, <3>2, <4>1 DEF ExcusesTyped, Reasons
      <4>3. hasTtl' \in BOOLEAN
        BY <1>0, <2>2, DrainOf DEF TradeTyped
      <4> QED
        BY <4>2, <4>3
    <3> QED
      BY <1>0, <2>2, <3>1, <3>3, Drained DEF TradeTyped, RowsTyped, ExcusesTyped
  <2>3. CASE Expire
    <3>1. /\ makers' = [x \in 1..MaxTxs |-> NoMaker] /\ hasTtl' = FALSE
          /\ missed' = missed \cup {<<x, "expired">> : x \in {y \in Unmade : makers[y] # NoMaker}}
          /\ UNCHANGED <<txs, transfers, swaps, tradeCur, tradeRead, tradePc, drained, looked, trades, late>>
      BY <2>3 DEF Expire, streams
    <3>2. missed' \in SUBSET (Nat \X Reasons)
      BY <1>0, <1>5, <3>1 DEF ExcusesTyped, Reasons
    <3>3. NoMaker \in [from : Party, to : Party]
      BY DEF NoMaker, Party
    <3> QED
      BY <1>0, <3>1, <3>2, <3>3 DEF TradeTyped, RowsTyped, ExcusesTyped
  <2>4. CASE LookUp
    <3>1. /\ tradePc = "lookup" /\ tradePc' = "insert"
          /\ looked' \in {makers[Tx].to, makers[Tx].from}
          /\ UNCHANGED <<txs, transfers, swaps, tradeCur, tradeRead, drained, makers, hasTtl, trades, missed,
                         late>>
      BY <2>4 DEF LookUp, streams, excuses
    <3>2. Tx \in 1..MaxTxs
      BY <3>1, TxTyped
    <3> QED
      BY <1>0, <3>1, <3>2 DEF TradeTyped, RowsTyped, ExcusesTyped
  <2>5. CASE InsertTrade
    <3>1. /\ tradePc = "insert" /\ tradePc' = "ack" /\ looked' = Nobody
          /\ DOMAIN trades' = DOMAIN trades \cup {Tx}
          /\ \A x \in DOMAIN trades' : trades'[x] \in {looked, Nobody}
                                       \/ (x \in DOMAIN trades /\ trades'[x] = trades[x])
          /\ late' \in {late, late \cup {Tx}}
          /\ UNCHANGED <<txs, transfers, swaps, tradeCur, tradeRead, drained, makers, hasTtl, missed>>
      BY <2>5 DEF InsertTrade, streams
    <3>2. Tx \in 1..Len(txs) /\ Tx \in Nat /\ Nobody \in Party
      BY <3>1, TxTyped DEF Party
    <3> QED
      BY <1>0, <3>1, <3>2 DEF TradeTyped, RowsTyped, ExcusesTyped
  <2>6. CASE AckSwap \/ TradeFails
    <3>1. /\ tradePc' \in {"drain", "ack", "idle"} /\ tradePc # "idle" /\ looked' \in {looked, Nobody}
          /\ UNCHANGED <<txs, transfers, swaps, tradeCur, tradeRead, drained, makers, hasTtl, trades, missed,
                         late>>
      BY <2>6 DEF AckSwap, TradeFails, Start, streams, excuses
    <3> QED
      BY <1>0, <3>1 DEF TradeTyped, RowsTyped, ExcusesTyped, Party
  <2>7. CASE TradeDies
    <3>1. /\ tradePc' = "idle" /\ tradeCur' = tradeRead /\ looked' = Nobody
          /\ UNCHANGED <<txs, transfers, swaps, tradeRead, drained, makers, hasTtl, trades, missed, late>>
      BY <2>7 DEF TradeDies, streams, excuses
    <3> QED
      BY <1>0, <3>1 DEF TradeTyped, RowsTyped, ExcusesTyped, Party
  <2> QED
    BY <2>1, <2>2, <2>3, <2>4, <2>5, <2>6, <2>7
<1> QED
  BY <1>2, <1>3, <1>4, <1>6, TypedParts DEF Typed

\* What a transfer makes of the balances.
LEMMA BalanceTyped ==
    ASSUME NEW b \in [Tokens \X Wallets -> Nat], NEW t, t.token \in Tokens, t.value \in Nat,
           t.from \in Wallets \cup {Zero}, t.to \in Wallets \cup {Zero}
    PROVE  /\ Credited(Debited(b, t), t) \in [Tokens \X Wallets -> Nat]
           /\ Shortfall(b, t) \in Nat
<1>1. \A w \in Wallets : <<t.token, w>> \in Tokens \X Wallets /\ b[<<t.token, w>>] \in Nat
  OBVIOUS
<1>2. Debited(b, t) \in [Tokens \X Wallets -> Nat]
  BY <1>1 DEF Debited
<1>3. \A d \in [Tokens \X Wallets -> Nat] : Credited(d, t) \in [Tokens \X Wallets -> Nat]
  <2> SUFFICES ASSUME NEW d \in [Tokens \X Wallets -> Nat]
               PROVE  Credited(d, t) \in [Tokens \X Wallets -> Nat]
    OBVIOUS
  <2>1. \A w \in Wallets : d[<<t.token, w>>] + t.value \in Nat
    BY <1>1
  <2> QED
    BY <2>1 DEF Credited
<1>4. Shortfall(b, t) \in Nat
  BY <1>1 DEF Shortfall
<1> QED
  BY <1>2, <1>3, <1>4

\* The position processor.
LEMMA TypedPosition ==
    ASSUME Typed, HandleTransfer \/ CommitTransfer \/ AckTransfer \/ PositionFails \/ PositionDies
    PROVE  Typed'
<1>0. /\ Len(transfers) \in Nat /\ Published
      /\ StreamTyped /\ TradeTyped /\ RowsTyped /\ PosTyped /\ ExcusesTyped /\ BudgetTyped
  BY TypedParts DEF Typed, Published
<1>1. UNCHANGED <<streams, tradeVars, excuses>>
  BY DEF HandleTransfer, CommitTransfer, AckTransfer, PositionFails, PositionDies
<1>2. Published'
  BY <1>0, <1>1 DEF streams, Published, TransferOf
<1>3. StreamTyped' /\ TradeTyped' /\ ExcusesTyped'
  BY <1>0, <1>1 DEF streams, tradeVars, excuses, StreamTyped, TradeTyped, ExcusesTyped
<1>4. BudgetTyped'
  <2>1. CASE PositionFails \/ PositionDies
    BY <1>0, <2>1, MakersAssumption DEF PositionFails, PositionDies, BudgetTyped
  <2>2. CASE HandleTransfer \/ CommitTransfer \/ AckTransfer
    BY <1>0, <2>2 DEF HandleTransfer, CommitTransfer, AckTransfer, budget, BudgetTyped
  <2> QED
    BY <2>1, <2>2
<1>5. PosTyped' /\ RowsTyped'
  <2>1. CASE HandleTransfer
    <3>1. /\ posCur' = posCur + 1 /\ posCur < Len(transfers) /\ posPc' = "commit"
          /\ posRead' = ReadTo(posCur + 1, posRead, transfers)
          /\ UNCHANGED <<txs, transfers, trades, processed, balance, clamped>>
      BY <2>1 DEF HandleTransfer, streams, tradeVars
    <3>2. posRead' \in 0..Len(transfers) /\ posCur' \in 0..posRead' /\ posCur' > 0
      <4>1. posCur \in Nat /\ posRead \in Nat /\ posCur <= posRead /\ posRead <= Len(transfers)
        BY <1>0 DEF PosTyped
      <4>2. posRead' \in 0..Len(transfers) /\ posCur + 1 <= posRead'
        BY <1>0, <3>1, <4>1, ReadToTyped
      <4> QED
        BY <3>1, <4>1, <4>2
    <3>3. processed \in SUBSET (1..(posCur + 1))
      BY <1>0 DEF PosTyped
    <3> QED
      BY <1>0, <3>1, <3>2, <3>3 DEF PosTyped, RowsTyped
  <2>2. CASE CommitTransfer
    <3>1. /\ posPc' = "ack" /\ posPc = "commit" /\ UNCHANGED <<txs, transfers, posCur, posRead>>
      BY <2>2 DEF CommitTransfer, streams, tradeVars
    <3>2. posCur \in 1..Len(transfers)
      BY <1>0, <3>1 DEF PosTyped
    <3>3. CASE posCur \in processed
      <4>1. UNCHANGED <<processed, balance, clamped, trades>>
        BY <2>2, <3>3 DEF CommitTransfer
      <4> QED
        BY <1>0, <3>1, <3>2, <4>1 DEF PosTyped, RowsTyped
    <3>4. CASE posCur \notin processed
      <4> DEFINE x == transfers[posCur].tx
                 t == transfers[posCur].move
      <4>1. /\ processed' = processed \cup {posCur}
            /\ balance' = Credited(Debited(balance, t), t)
            /\ clamped' = [clamped EXCEPT ![t.token] = @ + Shortfall(balance, t)]
            /\ trades' = Backfilled(x, t)
        BY <2>2, <3>4 DEF CommitTransfer
      <4>2. /\ t.token \in Tokens /\ t.value \in Nat
            /\ t.from \in Wallets \cup {Zero} /\ t.to \in Wallets \cup {Zero}
        BY <1>0, <3>2, MoveTyped
      <4>3. balance' \in [Tokens \X Wallets -> Nat] /\ Shortfall(balance, t) \in Nat
        <5> HIDE DEF t
        <5> QED
          BY <1>0, <4>1, <4>2, BalanceTyped DEF PosTyped
      <4>4. clamped' \in [Tokens -> Nat]
        <5>1. clamped \in [Tokens -> Nat] /\ clamped[t.token] + Shortfall(balance, t) \in Nat
          BY <1>0, <4>2, <4>3 DEF PosTyped
        <5> QED
          BY <4>1, <5>1
      <4>5. RowsTyped'
        BY <1>0, <3>1, <4>1, <4>2 DEF Backfilled, RowsTyped, Moves, Party
      <4>6. processed' \in SUBSET (1..posCur)
        BY <1>0, <3>2, <4>1 DEF PosTyped
      <4> QED
        BY <1>0, <3>1, <3>2, <4>3, <4>4, <4>5, <4>6 DEF PosTyped
    <3> QED
      BY <3>3, <3>4
  <2>3. CASE AckTransfer \/ PositionFails
    <3>1. /\ posPc' \in {"commit", "idle"} /\ posPc # "idle"
          /\ UNCHANGED <<txs, transfers, trades, posCur, posRead, processed, balance, clamped>>
      BY <2>3 DEF AckTransfer, PositionFails, streams, tradeVars
    <3> QED
      BY <1>0, <3>1 DEF PosTyped, RowsTyped
  <2>4. CASE PositionDies
    <3>1. /\ posPc' = "idle" /\ posCur' = posRead
          /\ UNCHANGED <<txs, transfers, trades, posRead, processed, balance, clamped>>
      BY <2>4 DEF PositionDies, streams, tradeVars
    <3>2. processed \in SUBSET (1..posRead)
      BY <1>0 DEF PosTyped
    <3> QED
      BY <1>0, <3>1, <3>2 DEF PosTyped, RowsTyped
  <2> QED
    BY <2>1, <2>2, <2>3, <2>4
<1> QED
  BY <1>2, <1>3, <1>4, <1>5, TypedParts DEF Typed

\* Every step keeps the types.
LEMMA TypedStep == Typed /\ [Next]_vars => Typed'
<1> SUFFICES ASSUME Typed, [Next]_vars PROVE Typed'
  OBVIOUS
<1>1. CASE UNCHANGED vars
  BY <1>1 DEF vars, streams, tradeVars, posVars, excuses, budget, Typed, TypeOK, Published, TransferOf
<1> QED
  BY <1>1, TypedPublish, TypedTrade, TypedPosition DEF Next

\* TypeOK: balances are never negative, and rows, makers and positions in
\* the streams stay within what has been published.
THEOREM TypeCorrect == Spec => []TypeOK
<1>1. Spec => []Typed
  BY TypedInit, TypedStep, PTL DEF Spec
<1>2. Typed => TypeOK
  BY DEF Typed
<1> QED
  BY <1>1, <1>2, PTL

-----------------------------------------------------------------------------
(* Who a maker is.                                                         *)

\* Wallet w is on the maker's side of a transfer of transaction x.
TookPart(x, w) ==
    \E i \in 1..Len(txs[x].transfers) :
        LET t == txs[x].transfers[i]
        IN Moves(t) /\ w = IF txs[x].isBuy THEN t.to ELSE t.from

\* Cached parties are those of one transfer of their transaction.
CachedParties ==
    \A x \in 1..MaxTxs :
        \/ makers[x] = NoMaker
        \/ /\ x <= Len(txs)
           /\ \E i \in 1..Len(txs[x].transfers) :
                 LET t == txs[x].transfers[i]
                 IN Moves(t) /\ makers[x] = [from |-> t.from, to |-> t.to]

\* The maker looked up took part in the transaction it is for.
LookedUp == tradePc = "insert" => looked = Nobody \/ TookPart(Tx, looked)

\* The invariant behind MakerIsParty.
PartyInv == Typed /\ CachedParties /\ LookedUp /\ MakerIsParty

\* Nothing is cached or stored at the start.
LEMMA PartyInit == Init => PartyInv
<1> SUFFICES ASSUME Init PROVE PartyInv
  OBVIOUS
<1>1. /\ makers = [x \in 1..MaxTxs |-> NoMaker] /\ tradePc = "idle" /\ DOMAIN trades = {}
  BY DEF Init
<1> QED
  BY <1>1, TypedInit DEF PartyInv, CachedParties, LookedUp, MakerIsParty

\* Every step keeps the parties.
LEMMA PartyStep == PartyInv /\ [Next]_vars => PartyInv'
<1> SUFFICES ASSUME PartyInv, [Next]_vars PROVE PartyInv'
  OBVIOUS
<1>0. /\ TradeTyped /\ RowsTyped /\ Published /\ CachedParties /\ LookedUp /\ MakerIsParty
      /\ Len(txs) \in Nat /\ Len(txs) <= MaxTxs /\ MaxTxs \in Nat /\ Typed
  BY TypedParts, MakersAssumption DEF PartyInv, Typed, Published
<1>1. Typed'
  BY <1>0, TypedStep
<1>2. DOMAIN trades \subseteq 1..Len(txs)
  BY <1>0 DEF RowsTyped
<1>3. ASSUME UNCHANGED <<txs, makers, looked, trades>>, tradePc' # "insert" \/ UNCHANGED <<tradePc, Tx>>
      PROVE  PartyInv'
  BY <1>0, <1>1, <1>3 DEF PartyInv, CachedParties, LookedUp, MakerIsParty, TookPart
<1>4. ASSUME NEW b \in Bundles, Publish(b) PROVE PartyInv'
  <2>1. /\ UNCHANGED <<makers, looked, trades, tradePc, tradeCur>> /\ txs' = Append(txs, b)
    BY <1>4 DEF Publish, tradeVars
  <2>0. tradePc = "insert" => Tx \in 1..Len(txs) /\ Tx' = Tx
    BY <1>0, <1>4, <2>1, TxTyped, SwapAppended DEF Tx
  <2>2. Len(txs') = Len(txs) + 1 /\ \A x \in 1..Len(txs) : txs'[x] = txs[x]
    BY <1>0, <2>1, AppendProperties DEF Published
  <2>3. CachedParties'
    <3> SUFFICES ASSUME NEW x \in 1..MaxTxs, makers[x] # NoMaker
                 PROVE  /\ x <= Len(txs')
                        /\ \E i \in 1..Len(txs'[x].transfers) :
                              LET t == txs'[x].transfers[i]
                              IN Moves(t) /\ makers[x] = [from |-> t.from, to |-> t.to]
      BY <2>1 DEF CachedParties
    <3>1. /\ x <= Len(txs)
          /\ \E i \in 1..Len(txs[x].transfers) :
                LET t == txs[x].transfers[i]
                IN Moves(t) /\ makers[x] = [from |-> t.from, to |-> t.to]
      BY <1>0 DEF CachedParties
    <3>2. txs'[x] = txs[x] /\ x <= Len(txs')
      BY <1>0, <2>2, <3>1
    <3> QED
      BY <3>1, <3>2
  <2>4. LookedUp'
    BY <1>0, <2>0, <2>1, <2>2 DEF LookedUp, TookPart
  <2>5. MakerIsParty'
    BY <1>0, <1>2, <2>1, <2>2 DEF MakerIsParty
  <2> QED
    BY <1>1, <2>3, <2>4, <2>5 DEF PartyInv
<1>5. CASE DrainTransfers
  <2>1. UNCHANGED <<txs, looked, trades>> /\ tradePc' = "lookup"
    BY <1>5 DEF DrainTransfers, streams
  <2>2. CachedParties'
    <3> SUFFICES ASSUME NEW x \in 1..MaxTxs, makers'[x] # NoMaker
                 PROVE  /\ x <= Len(txs)
                        /\ \E i \in 1..Len(txs[x].transfers) :
                              LET t == txs[x].transfers[i]
                              IN Moves(t) /\ makers'[x] = [from |-> t.from, to |-> t.to]
      BY <2>1 DEF CachedParties
    <3>1. CASE makers'[x] = makers[x]
      BY <1>0, <3>1 DEF CachedParties
    <3>2. ASSUME NEW i \in Naming(x),
                 makers'[x] = [from |-> transfers[i].move.from, to |-> transfers[i].move.to]
          PROVE  /\ x <= Len(txs)
                 /\ \E j \in 1..Len(txs[x].transfers) :
                       LET t == txs[x].transfers[j]
                       IN Moves(t) /\ makers'[x] = [from |-> t.from, to |-> t.to]
      <4>1. TransferOf(transfers[i].move, x) /\ Moves(transfers[i].move)
        BY <1>0, <3>2 DEF Published, Naming
      <4> QED
        BY <3>2, <4>1 DEF TransferOf
    <3> QED
      BY <1>0, <1>5, <3>1, <3>2, Drained
  <2> QED
    BY <1>0, <1>1, <2>1, <2>2 DEF PartyInv, LookedUp, MakerIsParty
<1>6. CASE LookUp
  <2>1. /\ UNCHANGED <<txs, makers, trades, Tx>> /\ tradePc = "lookup"
        /\ looked' = IF txs[Tx].isBuy THEN makers[Tx].to ELSE makers[Tx].from
    BY <1>6 DEF LookUp, streams, Tx
  <2>2. Tx \in 1..MaxTxs
    BY <1>0, <2>1, TxTyped
  <2>3. looked' = Nobody \/ TookPart(Tx, looked')
    <3>1. CASE makers[Tx] = NoMaker
      BY <2>1, <3>1 DEF NoMaker
    <3>2. CASE makers[Tx] # NoMaker
      <4>1. PICK i \in 1..Len(txs[Tx].transfers) :
              LET t == txs[Tx].transfers[i]
              IN Moves(t) /\ makers[Tx] = [from |-> t.from, to |-> t.to]
        BY <1>0, <2>2, <3>2 DEF CachedParties
      <4> QED
        BY <2>1, <4>1 DEF TookPart
    <3> QED
      BY <3>1, <3>2
  <2>4. CachedParties' /\ LookedUp' /\ MakerIsParty'
    BY <1>0, <2>1, <2>3 DEF CachedParties, LookedUp, MakerIsParty, TookPart
  <2> QED
    BY <1>1, <2>4 DEF PartyInv
<1>7. CASE InsertTrade
  <2>1. /\ UNCHANGED <<txs, makers, Tx>> /\ tradePc = "insert" /\ tradePc' = "ack"
        /\ \A x \in DOMAIN trades' :
              \/ trades'[x] = Nobody
              \/ x = Tx /\ trades'[x] = looked /\ looked # Nobody
              \/ x \in DOMAIN trades /\ trades'[x] = trades[x]
    BY <1>7 DEF InsertTrade, streams, Tx
  <2>2. CachedParties' /\ LookedUp'
    BY <1>0, <2>1 DEF CachedParties, LookedUp
  <2>3. MakerIsParty'
    <3> SUFFICES ASSUME NEW x \in DOMAIN trades', trades'[x] # Nobody PROVE TookPart(x, trades'[x])
      BY <2>1 DEF MakerIsParty, TookPart
    <3>1. CASE x = Tx /\ trades'[x] = looked
      BY <1>0, <2>1, <3>1 DEF LookedUp
    <3>2. CASE x \in DOMAIN trades /\ trades'[x] = trades[x]
      BY <1>0, <3>2 DEF MakerIsParty, TookPart
    <3> QED
      BY <2>1, <3>1, <3>2
  <2> QED
    BY <1>1, <2>2, <2>3 DEF PartyInv
<1>8. CASE CommitTransfer
  <2>1. /\ UNCHANGED <<txs, makers, looked, tradePc, Tx>> /\ posPc = "commit"
        /\ \/ trades' = trades
           \/ trades' = Backfilled(transfers[posCur].tx, transfers[posCur].move)
    BY <1>8 DEF CommitTransfer, streams, tradeVars, Tx
  <2>2. posCur \in 1..Len(transfers)
    <3>1. PosTyped /\ Len(transfers) \in Nat
      BY <1>0, TypedParts DEF Typed, Published
    <3> QED
      BY <2>1, <3>1 DEF PosTyped
  <2>3. MakerIsParty'
    <3> SUFFICES ASSUME NEW x \in DOMAIN trades', trades'[x] # Nobody PROVE TookPart(x, trades'[x])
      BY <2>1 DEF MakerIsParty, TookPart
    <3> DEFINE t == transfers[posCur].move
    <3>1. x \in DOMAIN trades
      BY <2>1 DEF Backfilled
    <3>2. CASE trades'[x] = trades[x]
      BY <1>0, <3>1, <3>2 DEF MakerIsParty, TookPart
    <3>3. CASE trades'[x] # trades[x]
      <4>1. /\ x = transfers[posCur].tx /\ Moves(t)
            /\ trades'[x] = IF txs[x].isBuy THEN t.to ELSE t.from
        BY <2>1, <3>1, <3>3 DEF Backfilled
      <4>2. PICK j \in 1..Len(txs[x].transfers) : t = txs[x].transfers[j]
        BY <1>0, <2>2, <4>1 DEF Published, TransferOf
      <4> QED
        BY <4>1, <4>2 DEF TookPart
    <3> QED
      BY <3>2, <3>3
  <2> QED
    BY <1>0, <1>1, <2>1, <2>3 DEF PartyInv, CachedParties, LookedUp, TookPart
<1>9. CASE HandleTransfer \/ AckTransfer \/ PositionFails \/ PositionDies \/ UNCHANGED vars
  <2>1. UNCHANGED <<txs, makers, looked, trades, tradePc, Tx>>
    BY <1>9 DEF HandleTransfer, AckTransfer, PositionFails, PositionDies, vars, streams, tradeVars, Tx
  <2> QED
    BY <1>3, <2>1
<1>10. CASE HandleSwap \/ AckSwap \/ TradeFails \/ TradeDies
  <2>1. UNCHANGED <<txs, makers, trades>> /\ tradePc' # "insert"
    BY <1>10 DEF HandleSwap, AckSwap, TradeFails, TradeDies, Start, streams
  <2> QED
    BY <1>0, <1>1, <2>1 DEF PartyInv, CachedParties, LookedUp, MakerIsParty
<1>11. CASE Expire
  <2>1. /\ UNCHANGED <<txs, looked, trades, tradePc, Tx>> /\ \A x \in 1..MaxTxs : makers'[x] = NoMaker
    BY <1>11 DEF Expire, streams, Tx
  <2> QED
    BY <1>0, <1>1, <2>1 DEF PartyInv, CachedParties, LookedUp, MakerIsParty, TookPart
<1> QED
  BY <1>4, <1>5, <1>6, <1>7, <1>8, <1>9, <1>10, <1>11 DEF Next

\* MakerIsParty: whichever processor writes a row's maker, however often it
\* is retried, it took part in the trade's transaction on the right side.
THEOREM MakersTookPart == Spec => []MakerIsParty
<1>1. Spec => []PartyInv
  BY PartyInit, PartyStep, PTL DEF Spec
<1>2. PartyInv => MakerIsParty
  BY DEF PartyInv
<1> QED
  BY <1>1, <1>2, PTL

-----------------------------------------------------------------------------
(* Every trade that moved tokens between wallets gets its maker.           *)

\* There is a row with a maker, or a reason why there may be none.
Made(x) == x \in DOMAIN trades /\ trades[x] # Nobody
Excused(x) == \E why \in Reasons : <<x, why>> \in missed
Explained(x) == Made(x) \/ Excused(x)

\* What a drain was handed of a swap's transfers is cached; the look-up finds
\* it; the row has it.
Cached ==
    \A x \in 1..Len(txs) : \A i \in Naming(x) :
        i <= drained /\ txs[x].message = "swap" => makers[x] # NoMaker \/ Explained(x)
Found ==
    /\ tradePc \in {"drain", "lookup", "insert"} => txs[Tx].message = "swap"
    /\ tradePc = "lookup" /\ Naming(Tx) # {} => makers[Tx] # NoMaker \/ Explained(Tx)
    /\ tradePc = "insert" /\ Naming(Tx) # {} => looked # Nobody \/ Explained(Tx)
Filled == \A x \in DOMAIN trades : Naming(x) # {} => Explained(x)

\* A row that has no maker and was not late is filled by a transfer to come.
Backed == \A x \in DOMAIN trades \ late : Made(x) \/ \E i \in Sides(x) : i \notin processed

\* The invariant behind MakerResolved.
ResolveInv == PartyInv /\ Cached /\ Found /\ Filled /\ Backed

\* Makers and reasons stay.
LEMMA ExplainedStays ==
    ASSUME \A x \in DOMAIN trades : x \in DOMAIN trades' /\ (trades[x] # Nobody => trades'[x] # Nobody),
           missed \subseteq missed'
    PROVE  \A x : (Made(x) => Made(x)') /\ (Explained(x) => Explained(x)')
BY DEF Made, Excused, Explained

\* A cached entry names two wallets.
LEMMA EntryNames ==
    ASSUME PartyInv, NEW x \in 1..MaxTxs, makers[x] # NoMaker
    PROVE  makers[x].from # Nobody /\ makers[x].to # Nobody
<1>1. /\ x <= Len(txs) /\ Len(txs) \in Nat /\ MaxTxs \in Nat
      /\ \E i \in 1..Len(txs[x].transfers) :
            LET t == txs[x].transfers[i]
            IN Moves(t) /\ makers[x] = [from |-> t.from, to |-> t.to]
  BY MakersAssumption DEF PartyInv, CachedParties, Typed, Published
<1>2. PICK i \in 1..Len(txs[x].transfers) :
        Moves(txs[x].transfers[i])
        /\ makers[x] = [from |-> txs[x].transfers[i].from, to |-> txs[x].transfers[i].to]
  BY <1>1
<1>3. x \in 1..Len(txs)
  BY <1>1
<1>4. txs[x] \in Bundles
  BY <1>3 DEF PartyInv, Typed, Published
<1>5. txs[x].transfers[i] \in Transfer
  BY <1>2, <1>4, MakersAssumption
<1> QED
  BY <1>2, <1>5, MakersAssumption DEF Transfer, Moves

\* What the transactions there are name stays as they were.
LEMMA NamingKept ==
    ASSUME Typed, NEW b \in Bundles, Publish(b)
    PROVE  /\ \A x \in 1..Len(txs) : Naming(x)' = Naming(x) /\ Sides(x)' = Sides(x) /\ txs'[x] = txs[x]
           /\ \A x : x = Len(txs) + 1 => \A i \in Naming(x)' : i > Len(transfers)
<1> DEFINE n == Len(txs)
           m == Len(transfers)
<1>1. /\ n \in Nat /\ m \in Nat /\ Len(b.transfers) \in Nat /\ Len(transfers') = m + Len(b.transfers)
      /\ \A x \in 1..n : txs'[x] = txs[x]
      /\ \A i \in 1..m : transfers'[i] = transfers[i] /\ transfers[i].tx \in 1..n
      /\ \A i \in (m + 1)..(m + Len(b.transfers)) : transfers'[i].tx = n + 1
  BY Appended DEF Typed, TypeOK
<1>2. \A i \in 1..Len(transfers') : i \in 1..m \/ i \in (m + 1)..(m + Len(b.transfers))
  BY <1>1
<1>3. \A x \in 1..n : x # n + 1
  BY <1>1
<1>4. 1..m \subseteq 1..Len(transfers')
  BY <1>1
<1>5. ASSUME NEW x \in 1..n PROVE Naming(x)' = Naming(x)
  BY <1>1, <1>2, <1>3, <1>4 DEF Naming, Moves
<1>6. \A x \in 1..n : \A i \in Naming(x) : i \in 1..m
  BY DEF Naming
<1>7. ASSUME NEW x \in 1..n PROVE Sides(x)' = Sides(x)
  BY <1>1, <1>5, <1>6 DEF Sides
<1>8. ASSUME NEW x, x = n + 1, NEW i \in Naming(x)' PROVE i > m
  <2>1. i \in 1..Len(transfers') /\ transfers'[i].tx = n + 1
    BY <1>8 DEF Naming
  <2>2. ~(i \in 1..m)
    BY <1>1, <1>3, <2>1
  <2> QED
    BY <1>1, <2>1, <2>2
<1> QED
  BY <1>1, <1>5, <1>7, <1>8

\* A drain caches what it is handed, or there is a reason.
LEMMA DrainCaches ==
    ASSUME ResolveInv, DrainTransfers
    PROVE  /\ \A x \in 1..Len(txs) : \A i \in Naming(x) :
                 i <= drained' /\ txs[x].message = "swap" => makers'[x] # NoMaker \/ Explained(x)'
           /\ Naming(Tx) # {} => makers'[Tx] # NoMaker \/ Explained(Tx)'
<1>0. /\ Len(transfers) \in Nat /\ drained \in 0..Len(transfers) /\ DrainCount \in Nat /\ Typed
      /\ Len(txs) \in Nat /\ Len(txs) <= MaxTxs /\ MaxTxs \in Nat
      /\ drained' \in 0..Len(transfers) /\ trades' = trades /\ tradePc = "drain"
  <2>1. Typed /\ TypeOK /\ Published
    BY DEF ResolveInv, PartyInv, Typed
  <2>2. Len(transfers) \in Nat /\ Len(txs) \in Nat
    BY <2>1, LenProperties DEF Published
  <2>3. trades' = trades /\ tradePc = "drain"
    BY DEF DrainTransfers
  <2> QED
    BY <2>1, <2>2, <2>3, MakersAssumption, Drained DEF TypeOK, Published
<1>1. PICK S \in SUBSET ((drained + 1)..drained') :
        /\ makers' = [x \in 1..MaxTxs |->
                        IF Naming(x) \cap S = {}
                          THEN makers[x]
                          ELSE LET t == transfers[Max(Naming(x) \cap S)].move
                               IN [from |-> t.from, to |-> t.to]]
        /\ missed' = missed
             \cup {<<x, "lost">> : x \in {y \in Unmade : Naming(y) \cap (((drained + 1)..drained') \ S) # {}}}
             \cup {<<x, "behind">> : x \in {y \in {Tx} : \A i \in Naming(y) : i > drained + DrainCount}}
  BY DrainOf
<1>2. \A x : Explained(x) => Explained(x)'
  BY <1>0, <1>1, ExplainedStays
<1>3. \A x \in 1..MaxTxs : makers[x] # NoMaker => makers'[x] # NoMaker
  <2> SUFFICES ASSUME NEW x \in 1..MaxTxs, makers[x] # NoMaker,
                      NEW i \in Naming(x),
                      makers'[x] = [from |-> transfers[i].move.from, to |-> transfers[i].move.to]
               PROVE  makers'[x] # NoMaker
    BY <1>0, Drained
  <2>1. transfers[i].move.from # Nobody
    <3>1. i \in 1..Len(transfers) /\ Moves(transfers[i].move)
      BY DEF Naming
    <3>2. transfers[i].move.from \in Wallets
      BY <1>0, <3>1, MoveTyped DEF Moves, Typed
    <3> QED
      BY <3>2, MakersAssumption
  <2> QED
    BY <2>1 DEF NoMaker
<1>4. \A x \in 1..MaxTxs : Naming(x) \cap S # {} => makers'[x] # NoMaker
  <2> SUFFICES ASSUME NEW x \in 1..MaxTxs, Naming(x) \cap S # {} PROVE makers'[x] # NoMaker
    OBVIOUS
  <2> DEFINE i == Max(Naming(x) \cap S)
  <2>1. makers'[x] = [from |-> transfers[i].move.from, to |-> transfers[i].move.to]
    BY <1>1
  <2>2. i \in Naming(x) \cap S
    <3>1. Naming(x) \cap S \subseteq 1..Len(transfers)
      BY DEF Naming
    <3> QED
      BY <1>0, <3>1, LargestOf
  <2> HIDE DEF i
  <2>3. i \in 1..Len(transfers) /\ Moves(transfers[i].move)
    BY <2>2 DEF Naming
  <2>4. transfers[i].move.from \in Wallets
    BY <1>0, <2>3, MoveTyped DEF Moves, Typed
  <2> QED
    BY <2>1, <2>4, MakersAssumption DEF NoMaker
<1>5. ASSUME NEW x \in 1..Len(txs), NEW i \in Naming(x), i <= drained', txs[x].message = "swap"
      PROVE  makers'[x] # NoMaker \/ Explained(x)'
  <2>0. x \in 1..MaxTxs /\ i \in 1..Len(transfers)
    BY <1>0 DEF Naming
  <2>1. CASE i <= drained
    BY <1>2, <1>3, <1>5, <2>0, <2>1 DEF ResolveInv, Cached
  <2>2. CASE i \in S
    BY <1>4, <2>0, <2>2
  <2>3. CASE i > drained /\ i \notin S
    <3>1. i \in ((drained + 1)..drained') \ S
      BY <1>0, <1>5, <2>0, <2>3
    <3>2. CASE x \in Unmade
      <4>1. <<x, "lost">> \in missed'
        BY <1>1, <3>1, <3>2
      <4> QED
        BY <4>1 DEF Explained, Excused, Reasons
    <3>3. CASE x \notin Unmade
      BY <1>2, <1>5, <3>3 DEF Unmade, Explained, Made
    <3> QED
      BY <3>2, <3>3
  <2> QED
    BY <1>0, <2>0, <2>1, <2>2, <2>3
<1>6. ASSUME Naming(Tx) # {} PROVE makers'[Tx] # NoMaker \/ Explained(Tx)'
  <2>0. Tx \in 1..Len(txs) /\ txs[Tx].message = "swap" /\ Tx' = Tx
    BY <1>0, TxTyped DEF ResolveInv, Found, DrainTransfers, streams, Tx
  <2>1. CASE \A i \in Naming(Tx) : i > drained + DrainCount
    <3>1. <<Tx, "behind">> \in missed'
      BY <1>1, <2>1
    <3> QED
      BY <2>0, <3>1 DEF Explained, Excused, Reasons
  <2>2. CASE \E i \in Naming(Tx) : ~(i > drained + DrainCount)
    <3>1. PICK i \in Naming(Tx) : ~(i > drained + DrainCount)
      BY <2>2
    <3>2. i <= drained'
      <4>1. i \in 1..Len(transfers)
        BY DEF Naming
      <4> QED
        BY <1>0, <3>1, <4>1 DEF DrainTransfers
    <3> QED
      BY <1>5, <2>0, <3>1, <3>2
  <2> QED
    BY <2>1, <2>2
<1> QED
  BY <1>5, <1>6

\* The steps that leave the streams and the cache alone.
LEMMA ResolveKept ==
    ASSUME Cached, Found, Filled, Backed, UNCHANGED <<txs, transfers, drained, makers>>,
           \A x \in DOMAIN trades : trades[x] # Nobody => trades'[x] # Nobody,
           DOMAIN trades' = DOMAIN trades, missed \subseteq missed', late' = late,
           \/ UNCHANGED <<tradePc, Tx, looked>>
           \/ tradePc' \notin {"lookup", "insert"} /\ (tradePc' = "drain" => txs[Tx'].message = "swap"),
           \A x \in DOMAIN trades \ late :
               (\E i \in Sides(x) : i \notin processed) =>
                   Made(x)' \/ \E i \in Sides(x) : i \notin processed'
    PROVE  Cached' /\ Found' /\ Filled' /\ Backed'
<1>1. \A x : (Made(x) => Made(x)') /\ (Explained(x) => Explained(x)')
  BY ExplainedStays
<1>2. \A x : Naming(x)' = Naming(x) /\ Sides(x)' = Sides(x)
  BY DEF Naming, Sides
<1>3. Cached'
  BY <1>1, <1>2 DEF Cached
<1>4. Found'
  BY <1>1, <1>2 DEF Found
<1>5. Filled'
  BY <1>1, <1>2 DEF Filled
<1>6. Backed'
  BY <1>1, <1>2 DEF Backed
<1> QED
  BY <1>3, <1>4, <1>5, <1>6

\* The invariant holds at the start.
LEMMA ResolveInit == Init => ResolveInv
<1> SUFFICES ASSUME Init PROVE ResolveInv
  OBVIOUS
<1>1. Len(txs) = 0 /\ tradePc = "idle" /\ DOMAIN trades = {}
  BY DEF Init
<1> QED
  BY <1>1, PartyInit DEF ResolveInv, Cached, Found, Filled, Backed

\* Every step keeps it.
LEMMA ResolveStep == ResolveInv /\ [Next]_vars => ResolveInv'
<1> SUFFICES ASSUME ResolveInv, [Next]_vars PROVE ResolveInv'
  OBVIOUS
<1>0. /\ PartyInv /\ Typed /\ Cached /\ Found /\ Filled /\ Backed /\ PartyInv'
      /\ Len(txs) \in Nat /\ Len(txs) <= MaxTxs /\ MaxTxs \in Nat
      /\ DOMAIN trades \subseteq 1..Len(txs)
  <2>1. PartyInv /\ Typed /\ TypeOK /\ Published /\ PartyInv'
    BY PartyStep DEF ResolveInv, PartyInv, Typed
  <2>2. Len(txs) \in Nat
    BY <2>1, LenProperties DEF Published
  <2> QED
    BY <2>1, <2>2, MakersAssumption DEF ResolveInv, TypeOK, Published
<1> SUFFICES Cached' /\ Found' /\ Filled' /\ Backed'
  BY <1>0 DEF ResolveInv
<1>1. ASSUME NEW b \in Bundles, Publish(b) PROVE Cached' /\ Found' /\ Filled' /\ Backed'
  <2>1. UNCHANGED <<drained, tradeCur, tradePc, makers, looked, trades, processed, missed, late>>
    BY <1>1 DEF Publish, tradeVars, posVars, excuses
  <2>2. /\ \A x \in 1..Len(txs) : Naming(x)' = Naming(x) /\ Sides(x)' = Sides(x) /\ txs'[x] = txs[x]
        /\ \A x : x = Len(txs) + 1 => \A i \in Naming(x)' : i > Len(transfers)
    BY <1>0, <1>1, NamingKept
  <2>3. \A x : (Made(x)' <=> Made(x)) /\ (Explained(x)' <=> Explained(x))
    BY <2>1 DEF Made, Excused, Explained
  <2>4. Len(txs') = Len(txs) + 1 /\ drained <= Len(transfers) /\ drained \in Nat /\ Len(transfers) \in Nat
    <3>1. Len(txs') = Len(txs) + 1 /\ Len(transfers) \in Nat
      BY <1>0, <1>1, Appended DEF Typed
    <3> QED
      BY <1>0, <3>1 DEF Typed, TypeOK
  <2>5. Cached'
    <3> SUFFICES ASSUME NEW x \in 1..Len(txs'), NEW i \in Naming(x)', i <= drained, txs'[x].message = "swap"
                 PROVE  makers[x] # NoMaker \/ Explained(x)
      BY <2>1, <2>3 DEF Cached
    <3>1. i \in Nat
      BY DEF Naming
    <3>2. ASSUME x = Len(txs) + 1 PROVE FALSE
      <4>1. i > Len(transfers)
        BY <2>2, <3>2
      <4> QED
        BY <2>4, <3>1, <4>1
    <3>3. x \in 1..Len(txs)
      BY <1>0, <2>4, <3>2
    <3> QED
      BY <1>0, <2>2, <3>3 DEF Cached
  <2>6. Found'
    <3>1. tradePc # "idle" => Tx' = Tx /\ Tx \in 1..Len(txs)
      BY <1>0, <1>1, <2>1, TxTyped, SwapAppended DEF Tx
    <3> QED
      BY <1>0, <2>1, <2>2, <2>3, <3>1 DEF Found
  <2>7. Filled' /\ Backed'
    BY <1>0, <2>1, <2>2, <2>3 DEF Filled, Backed
  <2> QED
    BY <2>5, <2>6, <2>7
<1>2. CASE HandleSwap
  <2>1. /\ UNCHANGED <<txs, transfers, drained, makers, trades, missed, late, processed>>
        /\ tradePc' = Start(swaps[tradeCur + 1]) /\ Tx' = swaps[tradeCur + 1]
    BY <1>2 DEF HandleSwap, streams, posVars, excuses, Tx
  <2>2. tradePc' \notin {"lookup", "insert"} /\ (tradePc' = "drain" => txs[Tx'].message = "swap")
    BY <2>1 DEF Start
  <2> QED
    BY <1>0, <2>1, <2>2, ResolveKept
<1>3. CASE DrainTransfers
  <2>1. UNCHANGED <<txs, transfers, trades, Tx, processed, late>> /\ tradePc = "drain" /\ tradePc' = "lookup"
    BY <1>3 DEF DrainTransfers, streams, posVars, Tx
  <2>2. missed \subseteq missed'
    BY <1>3, DrainOf
  <2>3. \A x : (Made(x) => Made(x)') /\ (Explained(x) => Explained(x)')
    BY <2>1, <2>2, ExplainedStays
  <2>4. \A x : Naming(x)' = Naming(x) /\ Sides(x)' = Sides(x)
    BY <2>1 DEF Naming, Sides
  <2>5. Cached' /\ Found'
    BY <1>0, <1>3, <2>1, <2>4, DrainCaches DEF Cached, Found, ResolveInv
  <2>6. Filled' /\ Backed'
    BY <1>0, <2>1, <2>3, <2>4 DEF Filled, Backed
  <2> QED
    BY <2>5, <2>6
<1>4. CASE Expire
  <2>1. /\ UNCHANGED <<txs, transfers, drained, trades, tradePc, Tx, looked, processed, late>>
        /\ missed' = missed \cup {<<x, "expired">> : x \in {y \in Unmade : makers[y] # NoMaker}}
    BY <1>4 DEF Expire, streams, posVars, Tx
  <2>2. \A x : (Made(x) => Made(x)') /\ (Explained(x) => Explained(x)')
    BY <2>1, ExplainedStays
  <2>3. \A x : Naming(x)' = Naming(x) /\ Sides(x)' = Sides(x)
    BY <2>1 DEF Naming, Sides
  <2>4. ASSUME NEW x \in 1..Len(txs), txs[x].message = "swap", makers[x] # NoMaker PROVE Explained(x)'
    <3>1. CASE x \in Unmade
      <4>1. <<x, "expired">> \in missed'
        BY <2>1, <2>4, <3>1
      <4> QED
        BY <4>1 DEF Explained, Excused, Reasons
    <3>2. CASE x \notin Unmade
      BY <2>2, <2>4, <3>2 DEF Unmade, Explained, Made
    <3> QED
      BY <3>1, <3>2
  <2>5. Cached'
    BY <1>0, <2>1, <2>2, <2>3, <2>4 DEF Cached
  <2>6. Found'
    <3>1. tradePc # "idle" => Tx \in 1..Len(txs)
      BY <1>0, TxTyped
    <3> QED
      BY <1>0, <2>1, <2>2, <2>3, <2>4, <3>1 DEF Found
  <2>7. Filled' /\ Backed'
    BY <1>0, <2>1, <2>2, <2>3 DEF Filled, Backed
  <2> QED
    BY <2>5, <2>6, <2>7
<1>5. CASE LookUp
  <2>1. /\ UNCHANGED <<txs, transfers, trades, Tx, drained, makers, processed, missed, late>>
        /\ tradePc = "lookup" /\ tradePc' = "insert"
        /\ looked' = IF txs[Tx].isBuy THEN makers[Tx].to ELSE makers[Tx].from
    BY <1>5 DEF LookUp, streams, posVars, excuses, Tx
  <2>2. \A x : Naming(x)' = Naming(x) /\ Sides(x)' = Sides(x) /\ (Made(x)' <=> Made(x))
                /\ (Explained(x)' <=> Explained(x))
    BY <2>1 DEF Naming, Sides, Made, Excused, Explained
  <2>3. Tx \in 1..MaxTxs
    BY <1>0, <2>1, TxTyped
  <2>4. makers[Tx] # NoMaker => looked' # Nobody
    BY <1>0, <2>1, <2>3, EntryNames
  <2>5. Found'
    BY <1>0, <2>1, <2>2, <2>4 DEF Found
  <2>6. Cached' /\ Filled' /\ Backed'
    BY <1>0, <2>1, <2>2 DEF Cached, Filled, Backed
  <2> QED
    BY <2>5, <2>6
<1>6. CASE InsertTrade
  <2>1. /\ UNCHANGED <<txs, transfers, Tx, drained, makers, processed, missed>>
        /\ tradePc = "insert" /\ tradePc' = "ack"
        /\ trades' = [x \in DOMAIN trades \cup {Tx} |->
                         IF x = Tx /\ looked # Nobody THEN looked
                         ELSE IF x \in DOMAIN trades THEN trades[x]
                         ELSE Nobody]
        /\ late' = IF trades'[Tx] = Nobody /\ Tx \notin DOMAIN trades /\ Sides(Tx) \subseteq processed
                     THEN late \cup {Tx} ELSE late
    BY <1>6 DEF InsertTrade, streams, posVars, Tx
  <2>2. \A x : (Made(x) => Made(x)') /\ (Explained(x) => Explained(x)')
    BY <2>1, ExplainedStays
  <2>3. \A x : Naming(x)' = Naming(x) /\ Sides(x)' = Sides(x)
    BY <2>1 DEF Naming, Sides
  <2>4. Cached' /\ Found'
    BY <1>0, <2>1, <2>2, <2>3 DEF Cached, Found
  <2>5. looked # Nobody => Made(Tx)'
    BY <2>1 DEF Made
  <2>6. ASSUME NEW x \in DOMAIN trades', Naming(x) # {} PROVE Explained(x)'
    <3>1. CASE x = Tx
      BY <1>0, <2>1, <2>2, <2>5, <2>6, <3>1 DEF Found, Explained
    <3>2. CASE x # Tx
      BY <1>0, <2>1, <2>2, <2>6, <3>2 DEF Filled
    <3> QED
      BY <3>1, <3>2
  <2>7. ASSUME NEW x \in DOMAIN trades' \ late' PROVE Made(x)' \/ \E i \in Sides(x) : i \notin processed
    <3>1. CASE x \in DOMAIN trades
      BY <1>0, <2>1, <2>2, <2>7, <3>1 DEF Backed
    <3>2. CASE x \notin DOMAIN trades
      <4>1. x = Tx
        BY <2>1, <3>2
      <4> QED
        BY <2>1, <2>7, <3>2, <4>1 DEF Made
    <3> QED
      BY <3>1, <3>2
  <2> QED
    BY <2>1, <2>3, <2>4, <2>6, <2>7 DEF Filled, Backed
<1>7. CASE AckSwap \/ TradeFails \/ TradeDies
  <2>1. /\ UNCHANGED <<txs, transfers, drained, makers, trades, missed, late, processed>>
        /\ tradePc' = "idle" \/ (tradePc' = Start(Tx) /\ Tx' = Tx)
    BY <1>7 DEF AckSwap, TradeFails, TradeDies, streams, posVars, excuses, Tx
  <2>2. tradePc' \notin {"lookup", "insert"} /\ (tradePc' = "drain" => txs[Tx'].message = "swap")
    BY <2>1 DEF Start
  <2> QED
    BY <1>0, <2>1, <2>2, ResolveKept
<1>8. CASE CommitTransfer
  <2>1. UNCHANGED <<txs, transfers, drained, makers, looked, tradePc, Tx, missed, late>> /\ posPc = "commit"
    BY <1>8 DEF CommitTransfer, streams, tradeVars, excuses, Tx
  <2>2. CASE posCur \in processed
    <3>1. UNCHANGED <<processed, trades>>
      BY <1>8, <2>2 DEF CommitTransfer
    <3> QED
      BY <1>0, <2>1, <3>1, ResolveKept
  <2>3. CASE posCur \notin processed
    <3> DEFINE t == transfers[posCur].move
               y == transfers[posCur].tx
    <3>1. processed' = processed \cup {posCur} /\ trades' = Backfilled(y, t)
      BY <1>8, <2>3 DEF CommitTransfer
    <3>2. DOMAIN trades' = DOMAIN trades /\ \A x \in DOMAIN trades : trades[x] # Nobody => trades'[x] # Nobody
      BY <3>1 DEF Backfilled
    <3>3. \A x \in DOMAIN trades : posCur \in Sides(x) => trades'[x] # Nobody
      <4> SUFFICES ASSUME NEW x \in DOMAIN trades, posCur \in Sides(x), trades[x] = Nobody
                   PROVE  trades'[x] # Nobody
        BY <3>2
      <4>1. y = x /\ t.token = txs[x].token /\ Moves(t) /\ posCur \in 1..Len(transfers)
        BY DEF Sides, Naming
      <4>2. t.from \in Wallets /\ t.to \in Wallets
        BY <1>0, <4>1, MoveTyped DEF Moves, Typed
      <4>3. trades'[x] = IF txs[x].isBuy THEN t.to ELSE t.from
        BY <3>1, <4>1 DEF Backfilled
      <4> QED
        BY <4>2, <4>3, MakersAssumption
    <3>4. \A x \in DOMAIN trades \ late :
             (\E i \in Sides(x) : i \notin processed) =>
                 Made(x)' \/ \E i \in Sides(x) : i \notin processed'
      BY <3>1, <3>2, <3>3 DEF Made
    <3> HIDE DEF t, y
    <3> QED
      BY <1>0, <2>1, <3>2, <3>4, ResolveKept
  <2> QED
    BY <2>2, <2>3
<1>9. CASE HandleTransfer \/ AckTransfer \/ PositionFails \/ PositionDies \/ UNCHANGED vars
  <2>1. UNCHANGED <<txs, transfers, drained, makers, looked, tradePc, Tx, trades, missed, late, processed>>
    BY <1>9 DEF HandleTransfer, AckTransfer, PositionFails, PositionDies, vars, streams, tradeVars, posVars,
                excuses, Tx
  <2> QED
    BY <1>0, <2>1, ResolveKept
<1> QED
  BY <1>1, <1>2, <1>3, <1>4, <1>5, <1>6, <1>7, <1>8, <1>9 DEF Next

\* MakerResolved, with no assumption on the length of the streams, the size
\* of the batches or the number of faults: a row that has no maker when both
\* processors are through with its transaction came after the position
\* processor, and its look-up was cut short by a failing drain, by DrainCount
\* or by the TTL of the hash.
THEOREM MakersAreResolved == Spec => []MakerResolved
<1>1. ResolveInv => MakerResolved
  <2> SUFFICES ASSUME ResolveInv, NEW x \in DOMAIN trades, Settled(x), ~Made(x)
               PROVE  x \in late /\ Excused(x)
    BY DEF MakerResolved, Made, Excused
  <2>1. Naming(x) # {} /\ Sides(x) \subseteq processed
    BY DEF Settled, Sides
  <2>2. Excused(x)
    BY <2>1 DEF ResolveInv, Filled, Explained
  <2>3. x \in late
    BY <2>1 DEF ResolveInv, Backed
  <2> QED
    BY <2>2, <2>3
<1> QED
  BY <1>1, ResolveInit, ResolveStep, PTL DEF Spec

-----------------------------------------------------------------------------
(* Sums over finite sets.                                                  *)

\* Induction, as a statement about sets of numbers.
LEMMA NatSetInduction ==
    ASSUME NEW S \in SUBSET Nat, 0 \in S, \A n \in S : n + 1 \in S
    PROVE  S = Nat
<1> DEFINE T == Nat \ S
           R == {ss \in Nat \X Nat : ss[1] < ss[2]}
<1> SUFFICES ASSUME T # {} PROVE FALSE
  OBVIOUS
<1>1. IsWellFoundedOn(R, Nat)
  BY NatLessThanWellFounded DEF OpToRel
<1>2. \E x \in T : \A y \in T : <<y, x>> \notin R
  <2>1. T \subseteq Nat
    OBVIOUS
  <2> HIDE DEF T, R
  <2> QED
    BY <1>1, <2>1, WFMin
<1>3. PICK x \in T : \A y \in T : <<y, x>> \notin R
  BY <1>2
<1>4. x \in Nat /\ x # 0 /\ x - 1 \in Nat /\ x - 1 < x /\ (x - 1) + 1 = x
  BY <1>3
<1>5. x - 1 \in T
  BY <1>3, <1>4
<1> QED
  BY <1>3, <1>4, <1>5

\* The first element that the fold of a set takes.
First(U) == CHOOSE x \in U : TRUE

\* G sums f over the sets of D, which with a set has the set without its
\* first element.
Sums(G, f, D) ==
    G = [U \in D |-> IF U = {} THEN 0 ELSE f[First(U)] + G[U \ {First(U)}]]

\* The sets of at most n elements of S.
Upto(S, n) == {U \in SUBSET S : Cardinality(U) <= n}

\* Taking the first element away leaves a smaller set.
LEMMA FirstTaken ==
    ASSUME NEW U, IsFiniteSet(U), U # {}
    PROVE  /\ First(U) \in U /\ IsFiniteSet(U \ {First(U)})
           /\ Cardinality(U) \in Nat /\ Cardinality(U \ {First(U)}) = Cardinality(U) - 1
           /\ Cardinality(U) > 0
<1>1. First(U) \in U
  BY DEF First
<1>2. /\ Cardinality(U) \in Nat /\ Cardinality(U) # 0
  BY FS_CardinalityType, FS_EmptySet
<1>3. IsFiniteSet(U \ {First(U)}) /\ Cardinality(U \ {First(U)}) = Cardinality(U) - 1
  BY <1>1, FS_RemoveElement
<1> QED
  BY <1>1, <1>2, <1>3

\* Sums exist.
LEMMA SumsExist ==
    ASSUME NEW S, IsFiniteSet(S), NEW f \in [S -> Int]
    PROVE  \E G \in [SUBSET S -> Int] : Sums(G, f, SUBSET S)
<1> DEFINE N == {n \in Nat : \E G \in [Upto(S, n) -> Int] : Sums(G, f, Upto(S, n))}
<1>1. \A U \in SUBSET S : IsFiniteSet(U) /\ Cardinality(U) \in Nat
  BY FS_Subset, FS_CardinalityType
<1>2. 0 \in N
  <2> DEFINE G == [U \in Upto(S, 0) |-> 0]
  <2>1. \A U \in Upto(S, 0) : U = {}
    BY <1>1, FS_EmptySet DEF Upto
  <2>2. G \in [Upto(S, 0) -> Int] /\ Sums(G, f, Upto(S, 0))
    BY <2>1 DEF Sums
  <2> QED
    BY <2>2
<1>3. ASSUME NEW n \in N PROVE n + 1 \in N
  <2>1. PICK G \in [Upto(S, n) -> Int] : Sums(G, f, Upto(S, n))
    BY <1>3
  <2> DEFINE H == [U \in Upto(S, n + 1) |->
                      IF U = {} THEN 0 ELSE f[First(U)] + G[U \ {First(U)}]]
  <2>2. \A U \in Upto(S, n + 1) : U # {} => First(U) \in S /\ U \ {First(U)} \in Upto(S, n)
    BY <1>1, FirstTaken DEF Upto
  <2>3. \A U \in Upto(S, n + 1) : H[U] \in Int
    BY <2>1, <2>2
  <2>4. \A U \in Upto(S, n) : U \in Upto(S, n + 1) /\ H[U] = G[U]
    <3>1. \A U \in Upto(S, n) : U \in Upto(S, n + 1)
      BY <1>1 DEF Upto
    <3>2. \A U \in Upto(S, n) : G[U] = IF U = {} THEN 0 ELSE f[First(U)] + G[U \ {First(U)}]
      BY <2>1 DEF Sums
    <3> QED
      BY <3>1, <3>2
  <2>5. H = [U \in Upto(S, n + 1) |-> IF U = {} THEN 0 ELSE f[First(U)] + H[U \ {First(U)}]]
    <3>1. \A U \in Upto(S, n + 1) : U # {} => G[U \ {First(U)}] = H[U \ {First(U)}]
      BY <2>2, <2>4
    <3> QED
      BY <3>1
  <2>6. H \in [Upto(S, n + 1) -> Int]
    BY <2>3
  <2>7. Sums(H, f, Upto(S, n + 1))
    BY <2>5 DEF Sums
  <2> HIDE DEF H
  <2> QED
    BY <2>6, <2>7
<1>4. N = Nat
  <2> HIDE DEF N
  <2>1. N \in SUBSET Nat
    BY DEF N
  <2> QED
    BY <1>2, <1>3, <2>1, NatSetInduction
<1>5. Cardinality(S) \in Nat /\ Upto(S, Cardinality(S)) = SUBSET S
  <2>1. \A U \in SUBSET S : Cardinality(U) <= Cardinality(S)
    BY FS_Subset
  <2> QED
    BY <1>1, <2>1 DEF Upto
<1>6. Cardinality(S) \in N
  BY <1>4, <1>5
<1> QED
  BY <1>5, <1>6

\* f and g have the same values on S; they are numbers; G is the sum of f over the sets of S.
SameOn(f, g, S) == \A x \in S : f[x] = g[x]
IntOn(f, S) == f \in [S -> Int]
IsSum(G, f, S) == f \in [S -> Int] /\ G \in [SUBSET S -> Int] /\ Sums(G, f, SUBSET S)

\* Two sums over the subsets of S and of a larger set agree, if what they add
\* agrees.
LEMMA SumsAgree ==
    ASSUME NEW S, IsFiniteSet(S), NEW T, S \in SUBSET T, NEW f, NEW g, NEW G, NEW H,
           SameOn(f, g, S), Sums(G, f, SUBSET S), Sums(H, g, SUBSET T), NEW V \in SUBSET S
    PROVE  G[V] = H[V]
<1> DEFINE N == {n \in Nat : \A U \in SUBSET S : Cardinality(U) = n => G[U] = H[U]}
<1>1. \A U \in SUBSET S : IsFiniteSet(U) /\ Cardinality(U) \in Nat
  BY FS_Subset, FS_CardinalityType
<1>2. \A U \in SUBSET S : /\ G[U] = IF U = {} THEN 0 ELSE f[First(U)] + G[U \ {First(U)}]
                          /\ H[U] = IF U = {} THEN 0 ELSE g[First(U)] + H[U \ {First(U)}]
  BY DEF Sums
<1>3. 0 \in N
  BY <1>1, <1>2, FS_EmptySet
<1>4. ASSUME NEW n \in N PROVE n + 1 \in N
  <2> SUFFICES ASSUME NEW U \in SUBSET S, Cardinality(U) = n + 1 PROVE G[U] = H[U]
    OBVIOUS
  <2>0. n \in Nat /\ Cardinality({}) = 0
    BY <1>4, FS_EmptySet
  <2>1. U # {}
    BY <2>0
  <2>2. /\ First(U) \in S /\ U \ {First(U)} \in SUBSET S /\ Cardinality(U \ {First(U)}) = n
    BY <1>1, <1>4, <2>1, FirstTaken
  <2>3. G[U \ {First(U)}] = H[U \ {First(U)}]
    BY <1>4, <2>2
  <2> QED
    BY <1>2, <2>1, <2>2, <2>3 DEF SameOn
<1>5. N = Nat
  <2> HIDE DEF N
  <2>1. N \in SUBSET Nat
    BY DEF N
  <2> QED
    BY <1>3, <1>4, <2>1, NatSetInduction
<1> QED
  BY <1>1, <1>5

\* An element more adds its value, wherever the sum takes it.
LEMMA SumsAdd ==
    ASSUME NEW S, IsFiniteSet(S), NEW f, NEW G, IsSum(G, f, S),
           NEW V \in SUBSET S, NEW y \in S, y \notin V
    PROVE  G[V \cup {y}] = G[V] + f[y]
<1>0. f \in [S -> Int] /\ G \in [SUBSET S -> Int] /\ Sums(G, f, SUBSET S)
  BY DEF IsSum
<1> DEFINE N == {n \in Nat : \A U \in SUBSET S : \A x \in S \ U :
                                Cardinality(U) = n => G[U \cup {x}] = G[U] + f[x]}
<1>1. \A U \in SUBSET S : IsFiniteSet(U) /\ Cardinality(U) \in Nat
  BY FS_Subset, FS_CardinalityType
<1>2. \A U \in SUBSET S : G[U] = IF U = {} THEN 0 ELSE f[First(U)] + G[U \ {First(U)}]
  BY <1>0 DEF Sums
<1>3. 0 \in N
  <2> SUFFICES ASSUME NEW U \in SUBSET S, NEW x \in S \ U, Cardinality(U) = 0
               PROVE  G[U \cup {x}] = G[U] + f[x]
    OBVIOUS
  <2>1. U = {}
    BY <1>1, FS_EmptySet
  <2>2. First({x}) = x /\ {x} \ {x} = {} /\ {x} # {}
    BY DEF First
  <2>3. {x} \in SUBSET S
    OBVIOUS
  <2>4. G[{x}] = f[x] + G[{}]
    BY <1>2, <2>2, <2>3
  <2>5. f[x] \in Int
    BY <1>0
  <2>6. G[{}] = 0
    BY <1>2
  <2> QED
    BY <2>1, <2>4, <2>5, <2>6
<1>4. ASSUME NEW n \in N PROVE n + 1 \in N
  <2> SUFFICES ASSUME NEW U \in SUBSET S, NEW x \in S \ U, Cardinality(U) = n + 1
               PROVE  G[U \cup {x}] = G[U] + f[x]
    OBVIOUS
  <2> DEFINE W == U \cup {x}
             c == First(W)
  <2>1. W \in SUBSET S /\ W # {} /\ c \in W
    BY DEF First
  <2>2. G[W] = f[c] + G[W \ {c}]
    BY <1>2, <2>1
  <2> HIDE DEF c
  <2>3. CASE c = x
    <3>1. W \ {x} = U /\ U \in SUBSET S /\ x \in S
      OBVIOUS
    <3>2. G[W] = f[x] + G[U] /\ f[x] \in Int /\ G[U] \in Int
      BY <1>0, <2>2, <2>3, <3>1
    <3> QED
      BY <3>2
  <2>4. CASE c # x
    <3>0. W \ {c} = (U \ {c}) \cup {x}
      BY <2>1, <2>4
    <3>1. c \in U /\ U \ {c} \in SUBSET S /\ U = (U \ {c}) \cup {c}
      BY <2>1, <2>4
    <3>2. Cardinality(U \ {c}) = n
      <4>1. n \in Nat /\ Cardinality(U) = n + 1
        BY <1>4
      <4>2. IsFiniteSet(U)
        BY <1>1
      <4>3. Cardinality(U \ {c}) = Cardinality(U) - 1
        BY <3>1, <4>2, FS_RemoveElement
      <4> QED
        BY <4>1, <4>3
    <3>3. G[(U \ {c}) \cup {x}] = G[U \ {c}] + f[x]
      <4>1. x \in S \ (U \ {c})
        OBVIOUS
      <4> QED
        BY <1>4, <3>1, <3>2, <4>1
    <3>4. G[(U \ {c}) \cup {c}] = G[U \ {c}] + f[c]
      BY <1>4, <3>1, <3>2
    <3>5. G[U \ {c}] \in Int /\ f[c] \in Int /\ f[x] \in Int
      BY <1>0, <3>1
    <3>6. G[U] = G[U \ {c}] + f[c]
      BY <3>1, <3>4
    <3>7. G[W] = f[c] + (G[U \ {c}] + f[x])
      BY <2>2, <3>0, <3>3
    <3>8. G[W] = G[U] + f[x]
      <4> HIDE DEF W
      <4> QED
        BY <3>5, <3>6, <3>7
    <3> QED
      BY <3>8
  <2> QED
    BY <2>3, <2>4
<1>5. N = Nat
  <2> HIDE DEF N
  <2>1. N \in SUBSET Nat
    BY DEF N
  <2> QED
    BY <1>3, <1>4, <2>1, NatSetInduction
<1> QED
  BY <1>1, <1>5

\* The sum of f over S, as the fold computes it.
SumOf(f, S) == (CHOOSE G : Sums(G, f, SUBSET S))[S]

\* It is the value at S of any sum.
LEMMA SumOfIs ==
    ASSUME NEW S, IsFiniteSet(S), NEW f \in [S -> Int]
    PROVE  \E G : IsSum(G, f, S) /\ SumOf(f, S) = G[S]
<1>1. PICK G \in [SUBSET S -> Int] : Sums(G, f, SUBSET S)
  BY SumsExist
<1> DEFINE H == CHOOSE I : Sums(I, f, SUBSET S)
<1>2. Sums(H, f, SUBSET S)
  BY <1>1
<1>3. S \in SUBSET S /\ SameOn(f, f, S)
  BY DEF SameOn
<1>4. SumOf(f, S) = H[S]
  BY DEF SumOf
<1> HIDE DEF H
<1>5. H[S] = G[S]
  BY <1>1, <1>2, <1>3, SumsAgree
<1>6. IsSum(G, f, S)
  BY <1>1 DEF IsSum
<1> QED
  BY <1>4, <1>5, <1>6

\* What a sum is, of nothing, of other values, and of an element more.
LEMMA SumOfFacts ==
    ASSUME NEW S, IsFiniteSet(S), NEW f \in [S -> Int]
    PROVE  /\ SumOf(f, S) \in Int
           /\ S = {} => SumOf(f, S) = 0
<1>1. PICK G : IsSum(G, f, S) /\ SumOf(f, S) = G[S]
  BY SumOfIs
<1> QED
  BY <1>1 DEF Sums, IsSum

\* One more element adds its value.
LEMMA SumOfAdd ==
    ASSUME NEW S, IsFiniteSet(S), NEW y, y \notin S, NEW T, T = S \cup {y},
           NEW f, IntOn(f, S), NEW g, IntOn(g, T), SameOn(f, g, S)
    PROVE  SumOf(g, T) = SumOf(f, S) + g[y]
<1>1. IsFiniteSet(T) /\ S \in SUBSET T /\ S \in SUBSET S /\ y \in T
  BY FS_AddElement
<1>2. PICK G : IsSum(G, f, S) /\ SumOf(f, S) = G[S]
  BY SumOfIs DEF IntOn
<1>4. PICK H : IsSum(H, g, T) /\ SumOf(g, T) = H[T]
  BY <1>1, SumOfIs DEF IntOn
<1>5. G[S] = H[S]
  <2>1. Sums(G, f, SUBSET S) /\ Sums(H, g, SUBSET T)
    BY <1>2, <1>4 DEF IsSum
  <2> QED
    BY <1>1, <2>1, SumsAgree, Z3
<1>6. H[S \cup {y}] = H[S] + g[y]
  BY <1>1, <1>4, SumsAdd
<1> QED
  BY <1>2, <1>4, <1>5, <1>6

\* One value changed by d changes the sum by d.
LEMMA SumOfChange ==
    ASSUME NEW S, IsFiniteSet(S), NEW f, IntOn(f, S), NEW g, IntOn(g, S),
           NEW y \in S, NEW d \in Int, g[y] = f[y] + d, SameOn(f, g, S \ {y})
    PROVE  SumOf(g, S) = SumOf(f, S) + d
<1> DEFINE R == S \ {y}
           h == [x \in R |-> f[x]]
<1>1. IsFiniteSet(R) /\ y \notin R /\ S = R \cup {y}
  BY FS_RemoveElement
<1>2. IntOn(h, R) /\ SameOn(h, f, R) /\ SameOn(h, g, R)
  BY DEF SameOn, IntOn
<1> HIDE DEF R, h
<1>4. SumOf(f, S) = SumOf(h, R) + f[y]
  BY <1>1, <1>2, SumOfAdd
<1>6. SumOf(g, S) = SumOf(h, R) + g[y]
  BY <1>1, <1>2, SumOfAdd
<1>5. SumOf(h, R) \in Int /\ f[y] \in Int
  BY <1>1, <1>2, SumOfFacts DEF IntOn
<1> QED
  BY <1>4, <1>5, <1>6

-----------------------------------------------------------------------------
(* Balances add up.                                                        *)

\* The balances b has for a token, and what the processed transfers brought
\* into being of it, less what they burned, each.
Held(b, t) == [w \in Wallets |-> b[<<t, w>>]]
Change(m, t) ==
    IF m.token # t THEN 0
    ELSE (IF m.from = Zero THEN m.value ELSE 0) - (IF m.to = Zero THEN m.value ELSE 0)
Changes(t) == [i \in processed |-> Change(transfers[i].move, t)]

\* The invariant behind SupplyConserved.
SupplyInv ==
    \A t \in Tokens :
        SumOf(Held(balance, t), Wallets) = SumOf(Changes(t), processed) + clamped[t]

\* The sums of SupplyConserved are these.
LEMMA BalanceFold ==
    ASSUME Typed, NEW t \in Tokens
    PROVE  MapThenSumSet(LAMBDA w : balance[<<t, w>>], Wallets) = SumOf(Held(balance, t), Wallets)
<1> DEFINE f == Held(balance, t)
           H == CHOOSE iter :
                    iter = [s \in SUBSET Wallets |->
                                IF s = {} THEN 0
                                ELSE balance[<<t, CHOOSE x \in s : TRUE>>]
                                     + iter[s \ {CHOOSE x \in s : TRUE}]]
<1>1. IsFiniteSet(Wallets) /\ f \in [Wallets -> Int]
  BY MakersAssumption DEF Held, Typed, TypeOK
<1>2. PICK G : IsSum(G, f, Wallets) /\ SumOf(f, Wallets) = G[Wallets]
  BY <1>1, SumOfIs
<1>3. \A U \in SUBSET Wallets : U # {} => f[First(U)] = balance[<<t, CHOOSE x \in U : TRUE>>]
  BY DEF Held, First
<1> DEFINE Step(I, s) == IF s = {} THEN 0
                         ELSE balance[<<t, CHOOSE x \in s : TRUE>>] + I[s \ {CHOOSE x \in s : TRUE}]
<1>4. ASSUME NEW I
      PROVE  Sums(I, f, SUBSET Wallets) <=> I = [s \in SUBSET Wallets |-> Step(I, s)]
  <2>1. \A s \in SUBSET Wallets :
           (IF s = {} THEN 0 ELSE f[First(s)] + I[s \ {First(s)}]) = Step(I, s)
    BY <1>3 DEF First
  <2> HIDE DEF f, Step
  <2>2. [s \in SUBSET Wallets |-> IF s = {} THEN 0 ELSE f[First(s)] + I[s \ {First(s)}]]
           = [s \in SUBSET Wallets |-> Step(I, s)]
    BY <2>1
  <2> QED
    BY <2>2 DEF Sums
<1>5. Sums(G, f, SUBSET Wallets)
  BY <1>2 DEF IsSum
<1>6. Sums(H, f, SUBSET Wallets)
  <2>1. G = [s \in SUBSET Wallets |-> Step(G, s)]
    BY <1>4, <1>5
  <2>2. H = [s \in SUBSET Wallets |-> Step(H, s)]
    BY <2>1
  <2> HIDE DEF H, Step
  <2> QED
    BY <1>4, <2>2
<1>7. MapThenSumSet(LAMBDA w : balance[<<t, w>>], Wallets) = H[Wallets]
  BY DEF MapThenSumSet, MapThenFoldSet
<1> HIDE DEF H, f, Step
<1>8. Wallets \in SUBSET Wallets /\ SameOn(f, f, Wallets)
  BY DEF SameOn
<1>9. H[Wallets] = G[Wallets]
  BY <1>1, <1>5, <1>6, <1>8, SumsAgree
<1> QED
  BY <1>2, <1>7, <1>9 DEF f

\* The processed transfers are transfers, finitely many.
LEMMA ProcessedTyped ==
    ASSUME Typed
    PROVE  /\ processed \subseteq 1..Len(transfers) /\ IsFiniteSet(processed)
           /\ \A t : Changes(t) \in [processed -> Int]
<1>1. processed \subseteq 1..posCur /\ posCur \in 0..Len(transfers) /\ Len(transfers) \in Nat
  BY DEF Typed, TypeOK, Published
<1>2. processed \subseteq 1..Len(transfers)
  BY <1>1
<1>3. IsFiniteSet(processed)
  <2>1. IsFiniteSet(1..Len(transfers))
    BY <1>1, FS_Interval
  <2> QED
    BY <1>2, <2>1, FS_Subset
<1>4. \A i \in processed : transfers[i].move.value \in Nat
  BY <1>2, MoveTyped DEF Typed
<1>5. \A i \in processed : \A t : Change(transfers[i].move, t) \in Int
  BY <1>4 DEF Change
<1> QED
  BY <1>2, <1>3, <1>5 DEF Changes

\* So is what was minted, less what was burned.
LEMMA ChangeFold ==
    ASSUME Typed, NEW t \in Tokens
    PROVE  Minted(t) = SumOf(Changes(t), processed)
<1> DEFINE f == Changes(t)
           d(i) == IF transfers[i].move.token # t THEN 0
                   ELSE (IF transfers[i].move.from = Zero THEN transfers[i].move.value ELSE 0)
                        - (IF transfers[i].move.to = Zero THEN transfers[i].move.value ELSE 0)
           H == CHOOSE iter :
                    iter = [s \in SUBSET processed |->
                                IF s = {} THEN 0
                                ELSE d(CHOOSE x \in s : TRUE) + iter[s \ {CHOOSE x \in s : TRUE}]]
<1>1. IsFiniteSet(processed) /\ f \in [processed -> Int]
  BY ProcessedTyped
<1>2. PICK G : IsSum(G, f, processed) /\ SumOf(f, processed) = G[processed]
  BY <1>1, SumOfIs
<1>3. \A U \in SUBSET processed : U # {} => f[First(U)] = d(CHOOSE x \in U : TRUE)
  BY DEF Changes, Change, First
<1>7. Minted(t) = H[processed]
  BY DEF Minted, MapThenSumSet, MapThenFoldSet
<1> HIDE DEF d
<1> DEFINE Step(I, s) == IF s = {} THEN 0
                         ELSE d(CHOOSE x \in s : TRUE) + I[s \ {CHOOSE x \in s : TRUE}]
<1>4. ASSUME NEW I
      PROVE  Sums(I, f, SUBSET processed) <=> I = [s \in SUBSET processed |-> Step(I, s)]
  <2>1. \A s \in SUBSET processed :
           (IF s = {} THEN 0 ELSE f[First(s)] + I[s \ {First(s)}]) = Step(I, s)
    BY <1>3 DEF First
  <2> HIDE DEF f, Step
  <2>2. [s \in SUBSET processed |-> IF s = {} THEN 0 ELSE f[First(s)] + I[s \ {First(s)}]]
           = [s \in SUBSET processed |-> Step(I, s)]
    BY <2>1
  <2> QED
    BY <2>2 DEF Sums
<1>5. Sums(G, f, SUBSET processed)
  BY <1>2 DEF IsSum
<1>6. Sums(H, f, SUBSET processed)
  <2>1. G = [s \in SUBSET processed |-> Step(G, s)]
    BY <1>4, <1>5
  <2>2. H = [s \in SUBSET processed |-> Step(H, s)]
    BY <2>1
  <2> HIDE DEF H, Step
  <2> QED
    BY <1>4, <2>2
<1> HIDE DEF H, f, Step
<1>8. processed \in SUBSET processed /\ SameOn(f, f, processed)
  BY DEF SameOn
<1>9. H[processed] = G[processed]
  BY <1>1, <1>5, <1>6, <1>8, SumsAgree
<1> QED
  BY <1>2, <1>7, <1>9 DEF f

\* What a debit and a credit do to the balances of a token, summed up.
LEMMA DebitSum ==
    ASSUME NEW b \in [Tokens \X Wallets -> Nat], NEW m, m.token \in Tokens, m.value \in Nat,
           m.from \in Wallets \cup {Zero}, NEW t \in Tokens
    PROVE  /\ Debited(b, m) \in [Tokens \X Wallets -> Nat]
           /\ SumOf(Held(Debited(b, m), t), Wallets)
                = SumOf(Held(b, t), Wallets)
                  - (IF m.from = Zero \/ m.token # t THEN 0 ELSE m.value - Shortfall(b, m))
<1> DEFINE B == Debited(b, m)
           f == Held(b, t)
           g == Held(B, t)
<1>0. IsFiniteSet(Wallets) /\ Zero \notin Wallets
  BY MakersAssumption
<1>1. B \in [Tokens \X Wallets -> Nat]
  <2>1. \A w \in Wallets : <<m.token, w>> \in Tokens \X Wallets /\ b[<<m.token, w>>] \in Nat
    OBVIOUS
  <2> QED
    BY <2>1 DEF Debited
<1>2. IntOn(f, Wallets) /\ IntOn(g, Wallets)
  BY <1>1 DEF IntOn, Held
<1>3. SumOf(f, Wallets) \in Int
  BY <1>0, <1>2, SumOfFacts DEF IntOn
<1>4. CASE m.from = Zero \/ m.token # t
  <2>1. \A w \in Wallets : B[<<t, w>>] = b[<<t, w>>]
    BY <1>4 DEF Debited
  <2>2. f = g
    BY <2>1 DEF Held
  <2> QED
    BY <1>1, <1>3, <1>4, <2>2
<1>5. CASE m.from # Zero /\ m.token = t
  <2>1. m.from \in Wallets /\ <<t, m.from>> \in Tokens \X Wallets /\ b[<<t, m.from>>] \in Nat
    BY <1>5
  <2>2. B = [b EXCEPT ![<<t, m.from>>] = IF @ < m.value THEN 0 ELSE @ - m.value]
    BY <1>5 DEF Debited
  <2>3. B[<<t, m.from>>] = b[<<t, m.from>>] + (Shortfall(b, m) - m.value)
    BY <1>5, <2>1, <2>2 DEF Shortfall
  <2>4. \A w \in Wallets \ {m.from} : B[<<t, w>>] = b[<<t, w>>]
    BY <2>2
  <2>5. g[m.from] = f[m.from] + (Shortfall(b, m) - m.value) /\ SameOn(f, g, Wallets \ {m.from})
    BY <2>1, <2>3, <2>4 DEF Held, SameOn
  <2>6. Shortfall(b, m) \in Int /\ Shortfall(b, m) - m.value \in Int
    BY <1>5, <2>1 DEF Shortfall
  <2> HIDE DEF f, g, B
  <2>7. SumOf(g, Wallets) = SumOf(f, Wallets) + (Shortfall(b, m) - m.value)
    BY <1>0, <1>2, <2>1, <2>5, <2>6, SumOfChange
  <2> QED
    BY <1>1, <1>3, <1>5, <2>6, <2>7 DEF f, g, B
<1> QED
  BY <1>4, <1>5

\* A credit raises the sum of its token by its value.
LEMMA CreditSum ==
    ASSUME NEW b \in [Tokens \X Wallets -> Nat], NEW m, m.token \in Tokens, m.value \in Nat,
           m.to \in Wallets \cup {Zero}, NEW t \in Tokens
    PROVE  SumOf(Held(Credited(b, m), t), Wallets)
              = SumOf(Held(b, t), Wallets) + (IF m.to = Zero \/ m.token # t THEN 0 ELSE m.value)
<1> DEFINE B == Credited(b, m)
           f == Held(b, t)
           g == Held(B, t)
<1>0. IsFiniteSet(Wallets) /\ Zero \notin Wallets
  BY MakersAssumption
<1>1. B \in [Tokens \X Wallets -> Nat]
  <2>1. \A w \in Wallets : /\ <<m.token, w>> \in Tokens \X Wallets
                           /\ b[<<m.token, w>>] + m.value \in Nat
    OBVIOUS
  <2> QED
    BY <2>1 DEF Credited
<1>2. IntOn(f, Wallets) /\ IntOn(g, Wallets)
  BY <1>1 DEF IntOn, Held
<1>3. SumOf(f, Wallets) \in Int
  BY <1>0, <1>2, SumOfFacts DEF IntOn
<1>4. CASE m.to = Zero \/ m.token # t
  <2>1. \A w \in Wallets : B[<<t, w>>] = b[<<t, w>>]
    BY <1>4 DEF Credited
  <2>2. f = g
    BY <2>1 DEF Held
  <2> QED
    BY <1>3, <1>4, <2>2
<1>5. CASE m.to # Zero /\ m.token = t
  <2>1. m.to \in Wallets /\ <<t, m.to>> \in Tokens \X Wallets /\ b[<<t, m.to>>] \in Nat
    BY <1>5
  <2>2. B = [b EXCEPT ![<<t, m.to>>] = @ + m.value]
    BY <1>5 DEF Credited
  <2>3. B[<<t, m.to>>] = b[<<t, m.to>>] + m.value
    BY <2>1, <2>2
  <2>4. \A w \in Wallets \ {m.to} : B[<<t, w>>] = b[<<t, w>>]
    BY <2>2
  <2>5. g[m.to] = f[m.to] + m.value /\ SameOn(f, g, Wallets \ {m.to})
    BY <2>1, <2>3, <2>4 DEF Held, SameOn
  <2> HIDE DEF f, g, B
  <2>7. SumOf(g, Wallets) = SumOf(f, Wallets) + m.value
    BY <1>0, <1>2, <2>1, <2>5, SumOfChange
  <2> QED
    BY <1>5, <2>7 DEF f, g, B
<1> QED
  BY <1>4, <1>5

\* Nothing is held and nothing minted at the start.
LEMMA SupplyInit == Init => SupplyInv
<1> SUFFICES ASSUME Init, NEW t \in Tokens
             PROVE  SumOf(Held(balance, t), Wallets) = SumOf(Changes(t), processed) + clamped[t]
  BY DEF SupplyInv
<1>1. Typed /\ processed = {} /\ clamped[t] = 0 /\ balance = [k \in Tokens \X Wallets |-> 0]
  BY TypedInit DEF Init
<1>2. SumOf(Changes(t), processed) = 0
  BY <1>1, ProcessedTyped, SumOfFacts
<1>3. SumOf(Held(balance, t), Wallets) = 0
  <2> DEFINE f == [w \in Wallets |-> 0]
  <2>1. Held(balance, t) = f
    BY <1>1 DEF Held
  <2>2. IsFiniteSet(Wallets)
    BY MakersAssumption
  <2>3. f \in [Wallets -> Int]
    OBVIOUS
  <2>4. PICK G : IsSum(G, f, Wallets) /\ SumOf(f, Wallets) = G[Wallets]
    BY <2>2, <2>3, SumOfIs
  <2>5. Sums([U \in SUBSET Wallets |-> 0], f, SUBSET Wallets)
    <3>1. \A U \in SUBSET Wallets : U # {} => First(U) \in Wallets
      BY DEF First
    <3>2. \A U \in SUBSET Wallets : U # {} => f[First(U)] + [V \in SUBSET Wallets |-> 0][U \ {First(U)}] = 0
      BY <3>1
    <3> QED
      BY <3>2 DEF Sums
  <2> DEFINE Z == [U \in SUBSET Wallets |-> 0]
  <2>6. Z[Wallets] = 0 /\ Wallets \in SUBSET Wallets /\ SameOn(f, f, Wallets)
    BY DEF SameOn
  <2>7. Sums(G, f, SUBSET Wallets) /\ Sums(Z, f, SUBSET Wallets)
    BY <2>4, <2>5 DEF IsSum
  <2> HIDE DEF Z, f
  <2>8. G[Wallets] = Z[Wallets]
    BY <2>2, <2>6, <2>7, SumsAgree
  <2> QED
    BY <2>1, <2>4, <2>6, <2>8
<1> QED
  BY <1>1, <1>2, <1>3

\* A transfer is applied once, to both sides: what the balances gain, the
\* transfer minted, or the clamp has added.
LEMMA SupplyCommit ==
    ASSUME Typed, SupplyInv, CommitTransfer
    PROVE  SupplyInv'
<1>1. CASE posCur \in processed
  BY <1>1 DEF CommitTransfer, SupplyInv, Held, Changes, streams
<1>2. CASE posCur \notin processed
  <2> DEFINE m == transfers[posCur].move
  <2>1. /\ processed' = processed \cup {posCur} /\ transfers' = transfers
        /\ balance' = Credited(Debited(balance, m), m)
        /\ clamped' = [clamped EXCEPT ![m.token] = @ + Shortfall(balance, m)]
    BY <1>2 DEF CommitTransfer, streams
  <2>2. posCur \in 1..Len(transfers)
    BY DEF CommitTransfer, Typed, TypeOK, Published
  <2>3. /\ m.token \in Tokens /\ m.value \in Nat
        /\ m.from \in Wallets \cup {Zero} /\ m.to \in Wallets \cup {Zero}
    BY <2>2, MoveTyped DEF Typed
  <2>4. /\ balance \in [Tokens \X Wallets -> Nat] /\ clamped \in [Tokens -> Nat]
        /\ IsFiniteSet(Wallets)
    BY MakersAssumption DEF Typed, TypeOK
  <2>5. SUFFICES ASSUME NEW t \in Tokens
                 PROVE  SumOf(Held(balance', t), Wallets)
                          = SumOf(Changes(t)', processed') + clamped'[t]
    BY DEF SupplyInv
  <2>6. SumOf(Changes(t)', processed') = SumOf(Changes(t), processed) + Change(m, t)
    <3>1. Changes(t)' = [i \in processed \cup {posCur} |-> Change(transfers[i].move, t)]
      BY <2>1 DEF Changes
    <3>2. Change(m, t) \in Int
      BY <2>3 DEF Change
    <3>3. IntOn(Changes(t), processed) /\ IsFiniteSet(processed)
      BY ProcessedTyped DEF IntOn
    <3>4. IntOn(Changes(t)', processed')
      <4>1. Typed'
        BY TypedPosition
      <4>2. \A i \in processed \cup {posCur} : Change(transfers[i].move, t) \in Int
        BY <3>2, <3>3 DEF IntOn, Changes
      <4> QED
        BY <2>1, <3>1, <4>2 DEF IntOn
    <3>5. SameOn(Changes(t), Changes(t)', processed) /\ Changes(t)'[posCur] = Change(m, t)
      BY <3>1 DEF SameOn, Changes
    <3> QED
      BY <1>2, <2>1, <3>3, <3>4, <3>5, SumOfAdd
  <2>7. /\ Debited(balance, m) \in [Tokens \X Wallets -> Nat]
        /\ SumOf(Held(Debited(balance, m), t), Wallets)
             = SumOf(Held(balance, t), Wallets)
               - (IF m.from = Zero \/ m.token # t THEN 0 ELSE m.value - Shortfall(balance, m))
    <3> HIDE DEF m
    <3> QED
      BY <2>3, <2>4, DebitSum
  <2>8. SumOf(Held(balance', t), Wallets)
           = SumOf(Held(Debited(balance, m), t), Wallets)
             + (IF m.to = Zero \/ m.token # t THEN 0 ELSE m.value)
    <3> HIDE DEF m
    <3> QED
      BY <2>1, <2>3, <2>7, CreditSum
  <2>9. SumOf(Held(balance, t), Wallets) = SumOf(Changes(t), processed) + clamped[t]
    BY DEF SupplyInv
  <2>10. /\ SumOf(Changes(t), processed) \in Int /\ clamped[t] \in Int
         /\ SumOf(Held(balance, t), Wallets) \in Int
    <3>1. SumOf(Changes(t), processed) \in Int
      BY ProcessedTyped, SumOfFacts
    <3> QED
      BY <2>4, <2>9, <3>1
  <2>11. /\ Shortfall(balance, m) \in Int /\ (m.from = Zero => Shortfall(balance, m) = 0)
         /\ clamped'[t] = clamped[t] + (IF m.token = t THEN Shortfall(balance, m) ELSE 0)
    <3>1. m.from # Zero => <<m.token, m.from>> \in Tokens \X Wallets
      BY <2>3
    <3>2. Shortfall(balance, m) \in Int /\ (m.from = Zero => Shortfall(balance, m) = 0)
      BY <2>3, <2>4, <3>1 DEF Shortfall
    <3> HIDE DEF m
    <3> QED
      BY <2>1, <2>3, <2>4, <2>10, <3>2
  <2> HIDE DEF m
  <2> QED
    BY <2>3, <2>6, <2>7, <2>8, <2>9, <2>10, <2>11 DEF Change
<1> QED
  BY <1>1, <1>2

\* The other steps apply nothing.
LEMMA SupplyStep == Typed /\ SupplyInv /\ [Next]_vars => SupplyInv'
<1> SUFFICES ASSUME Typed, SupplyInv, [Next]_vars PROVE SupplyInv'
  OBVIOUS
<1>1. ASSUME UNCHANGED <<processed, balance, clamped>>,
             \A i \in 1..Len(transfers) : transfers'[i] = transfers[i]
      PROVE  SupplyInv'
  <2>1. \A t : Changes(t)' = Changes(t)
    BY <1>1, ProcessedTyped DEF Changes
  <2> QED
    BY <1>1, <2>1 DEF SupplyInv
<1>2. ASSUME NEW b \in Bundles, Publish(b) PROVE SupplyInv'
  BY <1>1, <1>2, Appended DEF Publish, posVars, Typed
<1>3. CASE \/ HandleSwap \/ DrainTransfers \/ Expire \/ LookUp \/ InsertTrade \/ AckSwap
           \/ TradeFails \/ TradeDies
  BY <1>1, <1>3 DEF HandleSwap, DrainTransfers, Expire, LookUp, InsertTrade, AckSwap, TradeFails, TradeDies,
                    streams, posVars
<1>4. CASE HandleTransfer \/ AckTransfer \/ PositionFails \/ PositionDies \/ UNCHANGED vars
  BY <1>1, <1>4 DEF HandleTransfer, AckTransfer, PositionFails, PositionDies, vars, streams, posVars
<1> QED
  BY <1>2, <1>3, <1>4, SupplyCommit DEF Next

\* SupplyConserved: no transfer is applied twice or to one side only, however
\* often it is handled, whoever holds what, and however many wallets there are.
THEOREM SupplyIsConserved == Spec => []SupplyConserved
<1>1. Spec => [](Typed /\ SupplyInv)
  BY TypedInit, TypedStep, SupplyInit, SupplyStep, PTL DEF Spec
<1>2. Typed /\ SupplyInv => SupplyConserved
  <2> SUFFICES ASSUME Typed, SupplyInv, NEW t \in Tokens
               PROVE  MapThenSumSet(LAMBDA w : balance[<<t, w>>], Wallets) = Minted(t) + clamped[t]
    BY DEF SupplyConserved
  <2> QED
    BY BalanceFold, ChangeFold DEF SupplyInv
<1> QED
  BY <1>1, <1>2, PTL

-----------------------------------------------------------------------------
(* PoolStateBuffer.                                                        *)

\* The last of a set of numbers is one of them, and taking it away leaves a
\* smaller set.
LEMMA LastTaken ==
    ASSUME NEW n \in Nat, NEW k \in Nat, NEW U \in Upto(1..n, k), U # {}
    PROVE  /\ Max(U) \in 1..n /\ Cardinality(U) \in Nat /\ k > 0
           /\ U \ {Max(U)} \in Upto(1..n, k - 1)
<1>1. U \in SUBSET (1..n) /\ Cardinality(U) <= k
  BY DEF Upto
<1>2. IsFiniteSet(U)
  <2>1. IsFiniteSet(1..n)
    BY FS_Interval
  <2> QED
    BY <1>1, <2>1, FS_Subset
<1>3. Cardinality(U) \in Nat /\ Cardinality(U) # 0
  BY <1>2, FS_CardinalityType, FS_EmptySet
<1>4. Max(U) \in U
  BY <1>1, LargestOf
<1>5. Cardinality(U \ {Max(U)}) = Cardinality(U) - 1
  BY <1>2, <1>4, FS_RemoveElement
<1>6. U \ {Max(U)} \in SUBSET (1..n)
  BY <1>1
<1>7. Max(U) \in 1..n
  BY <1>1, <1>4
<1> HIDE DEF Max
<1>8. k > 0 /\ Cardinality(U) - 1 <= k - 1
  BY <1>1, <1>3
<1>9. U \ {Max(U)} \in Upto(1..n, k - 1)
  BY <1>5, <1>6, <1>8 DEF Upto
<1> QED
  BY <1>3, <1>7, <1>8, <1>9

\* The sets of no element, of one more, and of any number of elements.
LEMMA Sizes ==
    ASSUME NEW n \in Nat
    PROVE  /\ \A U \in Upto(1..n, 0) : U = {}
           /\ \A k \in Nat : Upto(1..n, k) \subseteq Upto(1..n, k + 1)
           /\ Upto(1..n, n) = SUBSET (1..n)
<1>1. \A U \in Upto(1..n, 0) : U = {}
  <2> SUFFICES ASSUME NEW U \in Upto(1..n, 0), U # {} PROVE FALSE
    OBVIOUS
  <2>1. 0 \in Nat
    OBVIOUS
  <2>2. 0 > 0
    BY <2>1, LastTaken
  <2> QED
    BY <2>2
<1>2. IsFiniteSet(1..n) /\ Cardinality(1..n) = n
  BY FS_Interval
<1>3. ASSUME NEW U \in SUBSET (1..n) PROVE Cardinality(U) \in Nat /\ Cardinality(U) <= n
  <2>1. IsFiniteSet(U) /\ Cardinality(U) <= n
    BY <1>2, FS_Subset
  <2> QED
    BY <2>1, FS_CardinalityType
<1>4. Upto(1..n, n) = SUBSET (1..n)
  BY <1>3 DEF Upto
<1>5. ASSUME NEW k \in Nat, NEW U \in Upto(1..n, k) PROVE U \in Upto(1..n, k + 1)
  <2>1. U \in SUBSET (1..n) /\ Cardinality(U) <= k
    BY DEF Upto
  <2>2. Cardinality(U) \in Nat
    BY <1>3, <2>1
  <2>3. Cardinality(U) <= k + 1
    BY <2>1, <2>2
  <2> QED
    BY <2>1, <2>3 DEF Upto
<1> QED
  BY <1>1, <1>4, <1>5

-----------------------------------------------------------------------------
(* The operations of pendingPoolState.                                     *)

\* No pool has two entries.
OnePerPool(m) == \A i, j \in DOMAIN m : m[i].pool = m[j].pool => i = j

\* What the map can hold.
BufferMap(m) == m \in Seq(Entry) /\ OnePerPool(m)

\* The type of a list of entries and of its parts.
LEMMA BufferEntries ==
    ASSUME NEW m \in Seq(Entry)
    PROVE  /\ Len(m) \in Nat /\ DOMAIN m = 1..Len(m)
           /\ \A i \in DOMAIN m : m[i] \in Entry /\ m[i].pool \in Pools
           /\ Buffered(m) \subseteq Pools
<1>1. Len(m) \in Nat /\ DOMAIN m = 1..Len(m) /\ \A i \in DOMAIN m : m[i] \in Entry
  BY LenProperties, ElementOfSeq
<1>2. \A i \in DOMAIN m : m[i].pool \in Pools
  BY <1>1 DEF Entry
<1> QED
  BY <1>1, <1>2 DEF Buffered

\* The map has as many entries as pools.
LEMMA BufferSize ==
    ASSUME NEW m, BufferMap(m)
    PROVE  Cardinality(Buffered(m)) = Len(m)
<1> DEFINE n == Len(m)
           f == [i \in 1..n |-> m[i].pool]
<1>1. n \in Nat /\ DOMAIN m = 1..n
  BY BufferEntries DEF BufferMap
<1> HIDE DEF n
<1>2. f \in Bijection(1..n, Buffered(m))
  <2>1. f \in [1..n -> Buffered(m)]
    BY <1>1 DEF Buffered
  <2>2. \A i, j \in 1..n : f[i] = f[j] => i = j
    BY <1>1 DEF BufferMap, OnePerPool
  <2>3. \A p \in Buffered(m) : \E i \in 1..n : f[i] = p
    BY <1>1 DEF Buffered
  <2> HIDE DEF f
  <2>4. f \in Injection(1..n, Buffered(m))
    BY <2>1, <2>2, Fun_IsInj
  <2>5. f \in Surjection(1..n, Buffered(m))
    BY <2>1, <2>3, Fun_IsSurj
  <2> QED
    BY <2>4, <2>5 DEF Bijection
<1> HIDE DEF f
<1>3. IsFiniteSet(1..n)
  BY <1>1, FS_Interval
<1>4. Cardinality(1..n) = n
  BY <1>1, FS_Interval
<1>5. ExistsBijection(1..n, Buffered(m))
  BY <1>2 DEF ExistsBijection
<1>6. Cardinality(1..n) = Cardinality(Buffered(m))
  BY <1>3, <1>5, FS_Bijection
<1> QED
  BY <1>4, <1>6 DEF n

\* Map.delete takes one entry out.
LEMMA WithoutMap ==
    ASSUME NEW m, BufferMap(m), NEW p
    PROVE  BufferMap(Without(m, p)) /\ Buffered(Without(m, p)) = Buffered(m) \ {p}
<1>1. m \in Seq(Entry) /\ Len(m) \in Nat /\ DOMAIN m = 1..Len(m) /\ \A i \in 1..Len(m) : m[i] \in Entry
  BY BufferEntries DEF BufferMap
<1>2. CASE p \notin Buffered(m)
  BY <1>2 DEF Without
<1>3. CASE p \in Buffered(m)
  <2> DEFINE n == Len(m)
             k == CHOOSE i \in DOMAIN m : m[i].pool = p
             a == SubSeq(m, 1, k - 1)
             b == SubSeq(m, k + 1, n)
             r == a \o b
  <2>1. Without(m, p) = r
    BY <1>3 DEF Without, RemoveAt
  <2>2. k \in 1..n /\ m[k].pool = p
    BY <1>1, <1>3 DEF Buffered
  <2> HIDE DEF k
  <2>3. /\ a \in Seq(Entry) /\ Len(a) = k - 1
        /\ \A i \in 1..(k - 1) : a[i] = m[i]
    <3>1. \A i \in 1..(k - 1) : m[i] \in Entry
      BY <1>1, <2>2
    <3>2. 1 \in Int /\ k - 1 \in Int /\ (k - 1) - 1 + 1 = k - 1
          /\ (1 <= k - 1 => Len(a) = k - 1) /\ \A i \in Int : 1 + i - 1 = i
      BY <2>2, <3>1, SubSeqProperties
    <3>3. /\ a \in Seq(Entry) /\ Len(a) = (IF 1 <= k - 1 THEN (k - 1) - 1 + 1 ELSE 0)
          /\ \A i \in 1..((k - 1) - 1 + 1) : a[i] = m[1 + i - 1]
      BY <3>1, <3>2, SubSeqProperties
    <3> QED
      BY <2>2, <3>2, <3>3
  <2>4. /\ b \in Seq(Entry) /\ Len(b) = n - k
        /\ \A i \in 1..(n - k) : b[i] = m[k + i]
    <3>1. \A i \in (k + 1)..n : m[i] \in Entry
      BY <1>1, <2>2
    <3>2. k + 1 \in Int /\ n \in Int /\ n - (k + 1) + 1 = n - k
      BY <1>1, <2>2
    <3>3. /\ b \in Seq(Entry) /\ Len(b) = (IF k + 1 <= n THEN n - (k + 1) + 1 ELSE 0)
          /\ \A i \in 1..(n - (k + 1) + 1) : b[i] = m[(k + 1) + i - 1]
      BY <3>1, <3>2, SubSeqProperties
    <3>4. \A i \in 1..(n - k) : (k + 1) + i - 1 = k + i
      BY <2>2
    <3>5. n \in Nat /\ k \in 1..n
      BY <1>1, <2>2
    <3> HIDE DEF b, n
    <3>6. Len(b) = n - k
      BY <3>2, <3>3, <3>5
    <3>7. \A i \in 1..(n - k) : b[i] = m[k + i]
      BY <3>2, <3>3, <3>4
    <3> QED
      BY <3>3, <3>6, <3>7
  <2> HIDE DEF a, b
  <2>5. /\ r \in Seq(Entry) /\ Len(r) = n - 1
        /\ \A i \in 1..(k - 1) : r[i] = m[i]
        /\ \A i \in k..(n - 1) : r[i] = m[i + 1]
    <3>1. /\ r \in Seq(Entry) /\ Len(r) = Len(a) + Len(b)
          /\ \A i \in 1..Len(a) : r[i] = a[i]
          /\ \A i \in (Len(a) + 1)..(Len(a) + Len(b)) : r[i] = b[i - Len(a)]
      BY <2>3, <2>4, Concatenated
    <3>2. ASSUME NEW i \in k..(n - 1) PROVE r[i] = m[i + 1]
      <4>1. i \in (Len(a) + 1)..(Len(a) + Len(b)) /\ i - Len(a) = i - k + 1 /\ i - k + 1 \in 1..(n - k)
            /\ k + (i - k + 1) = i + 1
        BY <1>1, <2>2, <2>3, <2>4
      <4> QED
        BY <2>4, <3>1, <4>1
    <3>3. Len(r) = n - 1 /\ \A i \in 1..(k - 1) : r[i] = m[i]
      BY <1>1, <2>2, <2>3, <2>4, <3>1
    <3> QED
      BY <3>1, <3>2, <3>3
  <2>6. DOMAIN r = 1..(n - 1)
    BY <2>5, LenProperties
  <2> HIDE DEF r
  <2>7. \A i \in 1..(n - 1) :
           /\ i < k => i \in 1..n /\ r[i] = m[i]
           /\ i >= k => i + 1 \in 1..n /\ r[i] = m[i + 1]
    BY <1>1, <2>2, <2>5
  <2>8. OnePerPool(r)
    <3> SUFFICES ASSUME NEW i \in 1..(n - 1), NEW j \in 1..(n - 1), r[i].pool = r[j].pool PROVE i = j
      BY <2>6 DEF OnePerPool
    <3>1. \A x, y \in 1..n : m[x].pool = m[y].pool => x = y
      BY <1>1 DEF BufferMap, OnePerPool
    <3> HIDE DEF n
    <3>2. CASE i < k /\ j < k
      BY <2>7, <3>1, <3>2
    <3>3. CASE i >= k /\ j >= k
      BY <2>7, <3>1, <3>3
    <3>4. CASE i < k /\ j >= k
      <4>1. i = j + 1
        BY <2>7, <3>1, <3>4
      <4> QED
        BY <2>2, <3>4, <4>1
    <3>5. CASE i >= k /\ j < k
      <4>1. i + 1 = j
        BY <2>7, <3>1, <3>5
      <4> QED
        BY <2>2, <3>5, <4>1
    <3> QED
      BY <2>2, <3>2, <3>3, <3>4, <3>5
  <2>9. Buffered(r) = Buffered(m) \ {p}
    <3>1. \A x, y \in 1..n : m[x].pool = m[y].pool => x = y
      BY <1>1 DEF BufferMap, OnePerPool
    <3>2. ASSUME NEW i \in 1..(n - 1) PROVE r[i].pool \in Buffered(m) \ {p}
      <4>1. PICK j \in 1..n : r[i] = m[j] /\ j # k
        BY <2>2, <2>7
      <4>2. m[j].pool # p
        BY <2>2, <3>1, <4>1
      <4> QED
        BY <1>1, <4>1, <4>2 DEF Buffered
    <3>3. ASSUME NEW j \in 1..n, m[j].pool # p PROVE m[j].pool \in Buffered(r)
      <4>1. j # k
        BY <2>2, <3>3
      <4>2. CASE j < k
        <5>1. j \in 1..(n - 1)
          BY <1>1, <2>2, <4>2
        <5> QED
          BY <2>6, <2>7, <4>2, <5>1 DEF Buffered
      <4>3. CASE j > k
        <5>1. j - 1 \in 1..(n - 1) /\ j - 1 >= k /\ (j - 1) + 1 = j
          BY <1>1, <2>2, <4>3
        <5>2. r[j - 1] = m[j]
          BY <2>7, <5>1
        <5> QED
          BY <2>6, <5>1, <5>2 DEF Buffered
      <4> QED
        BY <2>2, <4>1, <4>2, <4>3
    <3> QED
      BY <1>1, <2>6, <3>2, <3>3 DEF Buffered
  <2> QED
    BY <2>1, <2>5, <2>8, <2>9 DEF BufferMap
<1> QED
  BY <1>2, <1>3

\* Map.set replaces the entry of its pool, or adds one.
LEMMA SetEntryMap ==
    ASSUME NEW m, BufferMap(m), NEW e \in Entry
    PROVE  BufferMap(SetEntry(m, e)) /\ Buffered(SetEntry(m, e)) = Buffered(m) \cup {e.pool}
<1> DEFINE n == Len(m)
<1>1. m \in Seq(Entry) /\ n \in Nat /\ DOMAIN m = 1..n /\ \A i \in 1..n : m[i] \in Entry
  BY BufferEntries DEF BufferMap
<1>2. \A x, y \in 1..n : m[x].pool = m[y].pool => x = y
  BY <1>1 DEF BufferMap, OnePerPool
<1> HIDE DEF n
<1>3. CASE e.pool \in Buffered(m)
  <2> DEFINE r == [i \in DOMAIN m |-> IF m[i].pool = e.pool THEN e ELSE m[i]]
  <2>1. SetEntry(m, e) = r
    BY <1>3 DEF SetEntry
  <2>2. DOMAIN r = 1..n /\ \A i \in 1..n : r[i] \in Entry /\ r[i].pool = m[i].pool
    BY <1>1
  <2>3. r \in Seq(Entry)
    <3>1. r \in [1..n -> Entry]
      BY <1>1
    <3> HIDE DEF r
    <3> QED
      BY <1>1, <3>1, SeqDef
  <2> HIDE DEF r
  <2>4. OnePerPool(r) /\ Buffered(r) = Buffered(m)
    BY <1>1, <1>2, <2>2 DEF OnePerPool, Buffered
  <2> QED
    BY <1>3, <2>1, <2>3, <2>4 DEF BufferMap
<1>4. CASE e.pool \notin Buffered(m)
  <2> DEFINE r == Append(m, e)
  <2>1. SetEntry(m, e) = r
    BY <1>4 DEF SetEntry
  <2>2. /\ r \in Seq(Entry) /\ Len(r) = n + 1
        /\ \A i \in 1..n : r[i] = m[i]
        /\ r[n + 1] = e
    BY <1>1, AppendProperties DEF n
  <2>3. DOMAIN r = 1..(n + 1)
    BY <2>2, LenProperties
  <2> HIDE DEF r
  <2>4. \A i \in 1..n : m[i].pool # e.pool
    BY <1>1, <1>4 DEF Buffered
  <2>5. OnePerPool(r)
    <3> SUFFICES ASSUME NEW i \in 1..(n + 1), NEW j \in 1..(n + 1), r[i].pool = r[j].pool PROVE i = j
      BY <2>3 DEF OnePerPool
    <3>1. CASE i \in 1..n /\ j \in 1..n
      BY <1>2, <2>2, <3>1
    <3>2. CASE i = n + 1 \/ j = n + 1
      BY <1>1, <2>2, <2>4, <3>2
    <3> QED
      BY <1>1, <3>1, <3>2
  <2>6. Buffered(r) = Buffered(m) \cup {e.pool}
    <3>1. \A i \in 1..(n + 1) : r[i].pool \in Buffered(m) \cup {e.pool}
      BY <1>1, <2>2 DEF Buffered
    <3>2. \A i \in 1..n : m[i].pool \in Buffered(r)
      BY <1>1, <2>2, <2>3 DEF Buffered
    <3>3. e.pool \in Buffered(r)
      BY <1>1, <2>2, <2>3 DEF Buffered
    <3> QED
      BY <1>1, <2>3, <3>1, <3>2, <3>3 DEF Buffered
  <2> QED
    BY <2>1, <2>2, <2>5, <2>6 DEF BufferMap
<1> QED
  BY <1>3, <1>4

\* The oldest entry goes.
LEMMA TailMap ==
    ASSUME NEW m, BufferMap(m), Len(m) > 0
    PROVE  /\ m[1] \in Entry /\ BufferMap(Tail(m))
           /\ Buffered(m) = Buffered(Tail(m)) \cup {m[1].pool}
<1> DEFINE n == Len(m)
           r == Tail(m)
<1>1. m \in Seq(Entry) /\ n \in Nat /\ DOMAIN m = 1..n /\ \A i \in 1..n : m[i] \in Entry
  BY BufferEntries DEF BufferMap
<1>2. m # <<>> /\ 1 \in 1..n
  BY <1>1, EmptySeq
<1>3. r \in Seq(Entry) /\ Len(r) = n - 1 /\ \A i \in 1..(n - 1) : r[i] = m[i + 1]
  BY <1>1, <1>2, HeadTailProperties
<1>4. DOMAIN r = 1..(n - 1)
  BY <1>3, LenProperties
<1>5. \A x, y \in 1..n : m[x].pool = m[y].pool => x = y
  BY <1>1 DEF BufferMap, OnePerPool
<1> HIDE DEF n, r
<1>6. \A i \in 1..(n - 1) : i + 1 \in 1..n /\ r[i] = m[i + 1]
  BY <1>1, <1>3
<1>7. OnePerPool(r)
  <2> SUFFICES ASSUME NEW i \in 1..(n - 1), NEW j \in 1..(n - 1), r[i].pool = r[j].pool PROVE i = j
    BY <1>4 DEF OnePerPool
  <2>1. i + 1 = j + 1
    BY <1>5, <1>6
  <2> QED
    BY <2>1
<1>8. ASSUME NEW j \in 1..n PROVE j = 1 \/ m[j].pool \in Buffered(r)
  <2> SUFFICES ASSUME j # 1 PROVE m[j].pool \in Buffered(r)
    OBVIOUS
  <2>1. j - 1 \in 1..(n - 1) /\ (j - 1) + 1 = j
    BY <1>1
  <2>2. r[j - 1] = m[j]
    BY <1>6, <2>1
  <2> QED
    BY <1>4, <2>1, <2>2 DEF Buffered
<1>9. \A i \in 1..(n - 1) : r[i].pool \in Buffered(m)
  BY <1>1, <1>6 DEF Buffered
<1>10. Buffered(m) = Buffered(r) \cup {m[1].pool}
  BY <1>1, <1>2, <1>4, <1>8, <1>9 DEF Buffered
<1> QED
  BY <1>1, <1>2, <1>3, <1>7, <1>10 DEF BufferMap, n, r

\* The entry that an iteration takes is one of the map.
LEMMA FirstEntry ==
    ASSUME NEW m \in Seq(Entry), NEW J \in SUBSET DOMAIN m, J # {}
    PROVE  Min(J) \in J /\ m[Min(J)] \in Entry
<1>1. DOMAIN m \subseteq Nat /\ \A i \in DOMAIN m : m[i] \in Entry
  BY BufferEntries
<1> DEFINE R == {ss \in Nat \X Nat : ss[1] < ss[2]}
<1>2. IsWellFoundedOn(R, Nat)
  BY NatLessThanWellFounded DEF OpToRel
<1>3. \E x \in J : \A y \in J : <<y, x>> \notin R
  <2>1. J \subseteq Nat
    BY <1>1
  <2> HIDE DEF R
  <2> QED
    BY <1>2, <2>1, WFMin
<1>4. PICK x \in J : \A y \in J : <<y, x>> \notin R
  BY <1>3
<1>5. ASSUME NEW y \in J PROVE x <= y
  <2>1. x \in Nat /\ y \in Nat
    BY <1>1
  <2>2. ~(y < x)
    BY <1>4, <2>1
  <2> QED
    BY <2>1, <2>2
<1>6. Min(J) \in J
  BY <1>5 DEF Min
<1> QED
  BY <1>1, <1>6

\* I sets the entries of each set of D, the last one last.
SetFold(I, h, items, D) ==
    I = [s \in D |-> IF s = {} THEN h ELSE SetEntry(I[s \ {Max(s)}], items[Max(s)])]

\* It exists.
LEMMA SetFoldExists ==
    ASSUME NEW n \in Nat, NEW h, NEW items
    PROVE  \E I : SetFold(I, h, items, SUBSET (1..n))
<1> DEFINE S == 1..n
           N == {k \in Nat : \E I : SetFold(I, h, items, Upto(S, k))}
<1>1. \A U \in Upto(S, 0) : U = {}
  BY Sizes
<1>2. ASSUME NEW k \in Nat PROVE Upto(S, k) \subseteq Upto(S, k + 1)
  BY Sizes
<1>4. ASSUME NEW k \in Nat, NEW U \in Upto(S, k + 1), U # {} PROVE U \ {Max(U)} \in Upto(S, k)
  <2>1. k + 1 \in Nat /\ (k + 1) - 1 = k
    OBVIOUS
  <2>2. U \ {Max(U)} \in Upto(S, (k + 1) - 1)
    BY <1>4, <2>1, LastTaken
  <2> QED
    BY <2>1, <2>2
<1>6. Upto(S, n) = SUBSET S
  BY Sizes
<1> HIDE DEF S
<1>3. 0 \in N
  <2> DEFINE I == [s \in Upto(S, 0) |-> h]
  <2>2. SetFold(I, h, items, Upto(S, 0))
    BY <1>1 DEF SetFold
  <2> QED
    BY <2>2
<1>5. ASSUME NEW k \in N PROVE k + 1 \in N
  <2>1. PICK I : SetFold(I, h, items, Upto(S, k))
    BY <1>5
  <2> DEFINE J == [s \in Upto(S, k + 1) |->
                      IF s = {} THEN h ELSE SetEntry(I[s \ {Max(s)}], items[Max(s)])]
  <2>2. \A U \in Upto(S, k + 1) : U # {} => U \ {Max(U)} \in Upto(S, k)
    BY <1>4, <1>5
  <2>3. \A U \in Upto(S, k) : U \in Upto(S, k + 1) /\ J[U] = I[U]
    <3>1. \A U \in Upto(S, k) : U \in Upto(S, k + 1)
      BY <1>2, <1>5
    <3>2. \A U \in Upto(S, k) :
             I[U] = IF U = {} THEN h ELSE SetEntry(I[U \ {Max(U)}], items[Max(U)])
      BY <2>1, Zenon DEF SetFold
    <3> QED
      BY <3>1, <3>2
  <2>4. \A U \in Upto(S, k + 1) :
           J[U] = IF U = {} THEN h ELSE SetEntry(J[U \ {Max(U)}], items[Max(U)])
    BY <2>2, <2>3
  <2>5. J = [s \in Upto(S, k + 1) |->
                IF s = {} THEN h ELSE SetEntry(J[s \ {Max(s)}], items[Max(s)])]
    BY <2>4
  <2> HIDE DEF J
  <2>6. SetFold(J, h, items, Upto(S, k + 1))
    BY <2>5 DEF SetFold
  <2> QED
    BY <1>5, <2>6
<1>7. N = Nat
  <2> HIDE DEF N
  <2>1. N \in SUBSET Nat
    BY DEF N
  <2> QED
    BY <1>3, <1>5, <2>1, NatSetInduction
<1>8. n \in N
  BY <1>7
<1> QED
  BY <1>6, <1>8 DEF S

\* start() sets every entry it has read.
LEMMA RestoredMap ==
    ASSUME NEW m, BufferMap(m), NEW items \in Seq(Entry)
    PROVE  /\ BufferMap(FoldLeft(SetEntry, m, items))
           /\ Buffered(FoldLeft(SetEntry, m, items)) = Buffered(m) \cup Buffered(items)
<1> DEFINE n == Len(items)
           S == 1..n
           J == CHOOSE iter :
                    iter = [s \in SUBSET DOMAIN items |->
                                IF s = {} THEN m
                                ELSE SetEntry(iter[s \ {Max(s)}], items[Max(s)])]
           P(U) == {items[i].pool : i \in U}
           Good(U) == BufferMap(J[U]) /\ Buffered(J[U]) = Buffered(m) \cup P(U)
           N == {k \in Nat : \A U \in Upto(S, k) : Good(U)}
<1>1. FoldLeft(SetEntry, m, items) = J[DOMAIN items]
  BY DEF FoldLeft, MapThenFoldSet
<1>2. n \in Nat /\ DOMAIN items = S /\ \A i \in S : items[i] \in Entry
  BY BufferEntries
<1>3. SetFold(J, m, items, SUBSET S)
  <2>1. PICK I : SetFold(I, m, items, SUBSET S)
    BY <1>2, SetFoldExists
  <2>2. I = [s \in SUBSET DOMAIN items |->
                IF s = {} THEN m ELSE SetEntry(I[s \ {Max(s)}], items[Max(s)])]
    BY <1>2, <2>1 DEF SetFold
  <2>3. J = [s \in SUBSET DOMAIN items |->
                IF s = {} THEN m ELSE SetEntry(J[s \ {Max(s)}], items[Max(s)])]
    BY <2>2
  <2> QED
    BY <1>2, <2>3 DEF SetFold
<1> HIDE DEF J
<1>4. \A U \in SUBSET S : J[U] = IF U = {} THEN m ELSE SetEntry(J[U \ {Max(U)}], items[Max(U)])
  BY <1>3, Zenon DEF SetFold
<1>5. \A U \in Upto(S, 0) : U = {}
  BY <1>2, Sizes
<1>6. ASSUME NEW k \in Nat, NEW U \in Upto(S, k + 1), U # {}
      PROVE  Max(U) \in U /\ Max(U) \in S /\ U \ {Max(U)} \in Upto(S, k) /\ U \in SUBSET S
  <2>1. k + 1 \in Nat /\ (k + 1) - 1 = k /\ U \in SUBSET S
    BY DEF Upto
  <2>2. U \ {Max(U)} \in Upto(S, (k + 1) - 1) /\ Max(U) \in S
    BY <1>2, <1>6, <2>1, LastTaken
  <2>3. Max(U) \in U
    BY <1>2, <1>6, <2>1, LargestOf
  <2> QED
    BY <2>1, <2>2, <2>3
<1>7. S \in Upto(S, n)
  BY <1>2, Sizes
<1> HIDE DEF S
<1>8. 0 \in N
  <2>1. Good({})
    <3>1. {} \in SUBSET S
      OBVIOUS
    <3>2. J[{}] = m
      BY <1>4, <3>1
    <3> QED
      BY <3>2
  <2> QED
    BY <1>5, <2>1
<1>9. ASSUME NEW k \in N PROVE k + 1 \in N
  <2>1. ASSUME NEW U \in Upto(S, k + 1) PROVE Good(U)
    <3>1. CASE U = {}
      <4>1. {} \in SUBSET S
        OBVIOUS
      <4>2. J[{}] = m
        BY <1>4, <4>1
      <4> QED
        BY <3>1, <4>2
    <3>2. CASE U # {}
      <4> DEFINE x == Max(U)
                 V == U \ {Max(U)}
      <4>1. x \in U /\ x \in S /\ U \in SUBSET S /\ V \in Upto(S, k)
        BY <1>6, <1>9, <3>2
      <4>2. BufferMap(J[V]) /\ Buffered(J[V]) = Buffered(m) \cup P(V)
        BY <1>9, <4>1
      <4>3. J[U] = SetEntry(J[V], items[x])
        BY <1>4, <3>2, <4>1
      <4>4. items[x] \in Entry
        BY <1>2, <4>1
      <4>5. P(U) = P(V) \cup {items[x].pool}
        BY <4>1
      <4> HIDE DEF x, V, P
      <4>6. BufferMap(J[U]) /\ Buffered(J[U]) = Buffered(J[V]) \cup {items[x].pool}
        BY <4>2, <4>3, <4>4, SetEntryMap
      <4>7. Buffered(J[U]) = Buffered(m) \cup P(U)
        BY <4>2, <4>5, <4>6
      <4> QED
        BY <4>6, <4>7
    <3> QED
      BY <3>1, <3>2
  <2> HIDE DEF Good
  <2> QED
    BY <1>9, <2>1
<1>10. N = Nat
  <2> HIDE DEF N
  <2>1. N \in SUBSET Nat
    BY DEF N
  <2> QED
    BY <1>8, <1>9, <2>1, NatSetInduction
<1>11. Good(S)
  <2> HIDE DEF Good
  <2> QED
    BY <1>2, <1>7, <1>10
<1>12. P(S) = Buffered(items)
  BY <1>2 DEF Buffered
<1> QED
  BY <1>1, <1>2, <1>11, <1>12

\* hGetAll returns every field of the hash.
LEMMA SnapshotRead ==
    ASSUME NEW h \in [Pools -> Versions],
           NEW s \in SetToSeqs({[pool |-> p, version |-> h[p]] : p \in {q \in Pools : h[q] > 0}})
    PROVE  s \in Seq(Entry) /\ Buffered(s) = {q \in Pools : h[q] > 0}
<1> DEFINE Q == {q \in Pools : h[q] > 0}
           F == {[pool |-> p, version |-> h[p]] : p \in Q}
           n == Cardinality(F)
           g == [q \in Q |-> [pool |-> q, version |-> h[q]]]
<1>1. IsFiniteSet(F)
  <2>1. IsFiniteSet(Q)
    BY BufferAssumption, FS_Subset
  <2>2. g \in Surjection(Q, F)
    <3>1. g \in [Q -> F] /\ \A x \in F : \E q \in Q : g[q] = x
      OBVIOUS
    <3> HIDE DEF g, F, Q
    <3> QED
      BY <3>1, Fun_IsSurj
  <2> HIDE DEF g, F, Q
  <2> QED
    BY <2>1, <2>2, FS_Surjection
<1>2. F \subseteq Entry
  BY DEF Entry, Versions
<1>3. n \in Nat
  BY <1>1, FS_CardinalityType
<1>4. s \in [1..n -> F] /\ \A i, j \in 1..n : i # j => s[i] # s[j]
  BY DEF SetToSeqs
<1>5. \A x \in F : \E i \in 1..n : s[i] = x
  <2> HIDE DEF F
  <2>1. s \in Injection(1..n, F)
    BY <1>4, Fun_IsInj
  <2>2. Cardinality(1..n) = Cardinality(F)
    <3>1. Cardinality(1..n) = n
      BY <1>3, FS_Interval
    <3> QED
      BY <3>1
  <2>3. s \in Surjection(1..n, F)
    BY <1>1, <2>1, <2>2, FS_Injection
  <2> QED
    BY <2>3 DEF Surjection
<1>6. s \in Seq(Entry) /\ DOMAIN s = 1..n
  <2>1. s \in [1..n -> Entry]
    BY <1>2, <1>4
  <2> HIDE DEF n
  <2> QED
    BY <1>3, <2>1, SeqDef
<1> HIDE DEF n
<1>7. Buffered(s) = {x.pool : x \in F}
  BY <1>4, <1>5, <1>6 DEF Buffered
<1>8. {x.pool : x \in F} = Q
  <2>1. \A q \in Q : [pool |-> q, version |-> h[q]].pool = q
    OBVIOUS
  <2> HIDE DEF Q
  <2> QED
    BY <2>1
<1> QED
  BY <1>6, <1>7, <1>8
-----------------------------------------------------------------------------
(* What every state of the buffer has.                                     *)

\* The types, pendingPoolState being a map; no pool has more states than
\* there were events.
BufferTyped ==
    /\ registered \in SUBSET Pools
    /\ sent \in [Pools -> Versions] /\ events \in Versions /\ \A p \in Pools : sent[p] <= events
    /\ event \in Entry \cup {NoEntry}
    /\ BufferMap(pending)
    /\ hash \in [Pools -> Versions]
    /\ poolState \in [Pools -> Versions] /\ initial \in [Pools -> Versions]
    /\ restore \in {"ended", "read", "set"} /\ snapshot \in Seq(Entry)
    /\ pc \in [Flushers -> Steps]
    /\ cur \in [Flushers -> Entry \cup {NoEntry}]
    /\ visited \in [Flushers -> SUBSET Pools]
    /\ done \in [Pools -> Versions] /\ evicted \in SUBSET Pools /\ overtaken \in SUBSET Pools
    /\ hashFailed \in BOOLEAN /\ bufferFaults \in 0..MaxBufferFaults

\* The steps of a flush.
FlushSteps == {"select", "upsert", "price", "hdel"}

\* A flush, or an eviction, has an entry at work, and handle() an event; the
\* timer only flushes.
AtWork ==
    /\ \A f \in Flushers : pc[f] \in FlushSteps => cur[f] \in Entry
    /\ \A f \in Timers : pc[f] \in {"idle"} \cup FlushSteps
    /\ pc[Handler] \in OwnSteps => event \in Entry
    /\ pc[Handler] = "evict" => cur[Handler] \in Entry

\* A state of pool p was applied.
Row(p) == poolState[p] > 0

\* What keeps a handled pool known across a restart, and now.
InTables(p) == Row(p) \/ p \in evicted
Survives(p) == InTables(p) \/ hash[p] > 0
Present(p) ==
    InTables(p) \/ p \in Buffered(pending) \/ restore = "read" \/ p \in Buffered(snapshot)

\* Unless a call to Redis failed, every handled pool has both.
HeldKnown == ~hashFailed => \A p \in Pools : done[p] > 0 => Survives(p) /\ Present(p)

\* What was written by the steps behind an await: the state before the
\* price, both before the entry's fields are deleted.
Applied ==
    /\ \A f \in Flushers :
          /\ pc[f] = "price" => poolState[cur[f].pool] > 0
          /\ pc[f] = "hdel" => Row(cur[f].pool)
    /\ pc[Handler] = "own price" => poolState[event.pool] > 0

\* The event that handle() has put into the map is there, or a flush beside
\* it has applied it, or it is what was evicted.
Stored ==
    /\ pc[Handler] = "hset" => event.pool \in Buffered(pending) \/ Row(event.pool)
    /\ pc[Handler] = "evict" =>
          /\ cur[Handler].pool \in evicted
          /\ \/ Row(event.pool) \/ event.pool \in evicted
             \/ event.pool \in Buffered(pending) /\ (hashFailed \/ hash[event.pool] > 0)

\* The invariant behind BufferTypeOK and PoolKnown.
BufferInv == BufferTyped /\ AtWork /\ HeldKnown /\ Applied /\ Stored

\* An entry has a pool and a version.
LEMMA EntryTyped ==
    /\ NoEntry \notin Entry /\ NoEntry.pool = None /\ NoEntry.version = 0
    /\ 0 \in Versions /\ Versions \subseteq Nat /\ Handler \in Flushers /\ Timers \subseteq Flushers
    /\ \A e \in Entry : e.pool \in Pools /\ e.pool # None /\ e.version \in Versions /\ e.version > 0
    /\ \A e \in Entry \cup {NoEntry} :
          e.pool \in Pools \cup {None} /\ e.version \in Versions /\ (e.pool # None => e \in Entry)
BY BufferAssumption DEF Entry, NoEntry, Versions, Flushers

\* A flusher goes on to an entry, to the event e of handle(), or is through.
GoesOn(f, e) ==
    \E q \in {"select", "own select", "idle"}, c \in Entry \cup {NoEntry}, w \in SUBSET Pools :
        /\ pc' = [pc EXCEPT ![f] = q]
        /\ cur' = [cur EXCEPT ![f] = c]
        /\ visited' = [visited EXCEPT ![f] = w]
        /\ q = "select" => c \in Entry
        /\ q = "own select" => f = Handler /\ e \in Entry

\* The end of a flush is such a step.
LEMMA EndGoesOn ==
    ASSUME NEW f \in Flushers, NEW e \in Entry \cup {NoEntry}, NEW seen \in SUBSET Pools,
           EndFlush(f, e, seen)
    PROVE  GoesOn(f, e)
<1> DEFINE q == IF f = Handler /\ e.pool # None THEN "own select" ELSE "idle"
           w == IF f = Handler /\ e.pool # None THEN seen ELSE {}
<1>1. /\ pc' = [pc EXCEPT ![f] = q]
      /\ cur' = [cur EXCEPT ![f] = NoEntry]
      /\ visited' = [visited EXCEPT ![f] = w]
  BY DEF EndFlush
<1>2. /\ q \in {"select", "own select", "idle"} /\ q # "select"
      /\ q = "own select" => f = Handler /\ e \in Entry
  BY EntryTyped
<1>3. NoEntry \in Entry \cup {NoEntry} /\ w \in SUBSET Pools
  OBVIOUS
<1> HIDE DEF q, w
<1> QED
  BY <1>1, <1>2, <1>3 DEF GoesOn

\* The next turn of its loop is one.
LEMMA ResumeGoesOn ==
    ASSUME BufferMap(pending), NEW f \in Flushers, NEW e \in Entry \cup {NoEntry},
           NEW seen \in SUBSET Pools, Resume(f, e, seen)
    PROVE  GoesOn(f, e)
<1> DEFINE rest == {i \in DOMAIN pending : pending[i].pool \notin seen}
<1>1. CASE rest = {}
  <2>1. EndFlush(f, e, seen)
    BY <1>1 DEF Resume
  <2> QED
    BY <2>1, EndGoesOn
<1>2. CASE rest # {}
  <2> DEFINE k == Min(rest)
  <2>1. pending[k] \in Entry
    <3>1. rest \in SUBSET DOMAIN pending /\ pending \in Seq(Entry)
      BY DEF BufferMap
    <3> HIDE DEF rest
    <3> QED
      BY <1>2, <3>1, FirstEntry
  <2>2. /\ pc' = [pc EXCEPT ![f] = "select"]
        /\ cur' = [cur EXCEPT ![f] = pending[k]]
        /\ visited' = [visited EXCEPT ![f] = seen \cup {pending[k].pool}]
    BY <1>2 DEF Resume
  <2> HIDE DEF k
  <2>3. seen \cup {pending[k].pool} \in SUBSET Pools
    BY <2>1, EntryTyped
  <2> QED
    BY <2>1, <2>2, <2>3 DEF GoesOn
<1> QED
  BY <1>1, <1>2

\* The types of what the flushers hold.
FlushTyped ==
    /\ pc \in [Flushers -> Steps]
    /\ cur \in [Flushers -> Entry \cup {NoEntry}]
    /\ visited \in [Flushers -> SUBSET Pools]

\* It leaves the flushers typed and at work.
LEMMA GoneOn ==
    ASSUME BufferTyped, AtWork, NEW f \in Flushers, NEW e \in Entry \cup {NoEntry}, GoesOn(f, e),
           event' = e \/ e = NoEntry, f = Handler \/ event' = event
    PROVE  FlushTyped' /\ AtWork'
<1>1. PICK q \in {"select", "own select", "idle"}, c \in Entry \cup {NoEntry}, w \in SUBSET Pools :
        /\ pc' = [pc EXCEPT ![f] = q]
        /\ cur' = [cur EXCEPT ![f] = c]
        /\ visited' = [visited EXCEPT ![f] = w]
        /\ q = "select" => c \in Entry
        /\ q = "own select" => f = Handler /\ e \in Entry
  BY DEF GoesOn
<1>2. FlushTyped'
  BY <1>1 DEF BufferTyped, FlushTyped, Steps
<1>3. /\ pc'[f] = q /\ cur'[f] = c
      /\ \A g \in Flushers : g # f => pc'[g] = pc[g] /\ cur'[g] = cur[g]
  BY <1>1 DEF BufferTyped
<1>4. \A g \in Flushers : pc'[g] \in FlushSteps => cur'[g] \in Entry
  BY <1>1, <1>3 DEF AtWork, FlushSteps
<1>5. \A g \in Timers : pc'[g] \in {"idle"} \cup FlushSteps
  <2>1. \A g \in Timers : g \in Flushers /\ g # Handler
    BY BufferAssumption, EntryTyped
  <2> QED
    BY <1>1, <1>3, <2>1 DEF AtWork, FlushSteps
<1>6. pc'[Handler] \in OwnSteps => event' \in Entry
  <2>1. CASE f = Handler
    BY <1>1, <1>3, <2>1, EntryTyped DEF OwnSteps
  <2>2. CASE f # Handler
    BY <1>3, <2>2, EntryTyped DEF AtWork
  <2> QED
    BY <2>1, <2>2
<1>7. pc'[Handler] = "evict" => cur'[Handler] \in Entry
  BY <1>1, <1>3, EntryTyped DEF AtWork
<1> QED
  BY <1>2, <1>4, <1>5, <1>6, <1>7 DEF AtWork

\* The other steps of flusher f move pc alone.
LEMMA StepMoved ==
    ASSUME BufferTyped, AtWork, NEW f \in Flushers, NEW q \in Steps,
           pc' = [pc EXCEPT ![f] = q], cur' = cur, visited' \in [Flushers -> SUBSET Pools], event' = event,
           f \in Timers => q \in {"idle"} \cup FlushSteps,
           q \in FlushSteps => cur[f] \in Entry,
           q \in OwnSteps => event \in Entry,
           q # "evict"
    PROVE  FlushTyped' /\ AtWork'
<1>1. FlushTyped'
  BY DEF BufferTyped, FlushTyped
<1>2. pc'[f] = q /\ \A g \in Flushers : g # f => pc'[g] = pc[g]
  BY DEF BufferTyped
<1>3. \A g \in Timers : g \in Flushers /\ g # Handler
  BY BufferAssumption, EntryTyped
<1> QED
  BY <1>1, <1>2, <1>3, EntryTyped DEF AtWork

\* The types hold in every state.
LEMMA BufferStart ==
    ASSUME BufferInit
    PROVE  BufferInv
<1> USE DEF BufferInit
<1>1. BufferMap(<<>>) /\ <<>> \in Seq(Entry)
  <2>1. <<>> \in Seq(Entry) /\ DOMAIN <<>> = {}
    BY EmptySeq
  <2> QED
    BY <2>1 DEF BufferMap, OnePerPool
<1>2. 0 \in Versions /\ 0 \in 0..MaxBufferFaults
  BY BufferAssumption DEF Versions
<1>3. FlushTyped /\ AtWork
  BY EntryTyped DEF FlushTyped, AtWork, Steps, FlushSteps, OwnSteps
<1>4. BufferTyped
  <2>1. /\ sent \in [Pools -> Versions] /\ hash \in [Pools -> Versions] /\ done \in [Pools -> Versions]
        /\ poolState \in [Pools -> Versions] /\ initial \in [Pools -> Versions]
    BY <1>2
  <2>2. events \in Versions /\ \A p \in Pools : sent[p] <= events
    BY <1>2
  <2> QED
    BY <1>1, <1>2, <1>3, <2>1, <2>2 DEF BufferTyped, FlushTyped
<1>5. HeldKnown /\ Applied /\ Stored
  BY EntryTyped DEF HeldKnown, Applied, Stored
<1> QED
  BY <1>3, <1>4, <1>5 DEF BufferInv

\* A fault is counted up to the bound.
LEMMA FaultCounted ==
    ASSUME BufferTyped, Fault
    PROVE  bufferFaults' \in 0..MaxBufferFaults
BY BufferAssumption DEF BufferTyped, Fault

\* The types and what is at work hold after every step.
LEMMA BufferTypedStep ==
    ASSUME BufferTyped, AtWork, [BufferNext]_bufferVars
    PROVE  BufferTyped' /\ AtWork'
<1> USE DEF world, tables, starting, flushVars, history, mishaps
<1>0. BufferMap(pending) /\ pending \in Seq(Entry) /\ snapshot \in Seq(Entry)
  BY DEF BufferTyped, BufferMap
<1>1. ASSUME NEW p \in Pools, Register(p) PROVE BufferTyped' /\ AtWork'
  <2>1. registered' \in SUBSET Pools
    BY <1>1 DEF Register, BufferTyped
  <2>2. BufferTyped'
    BY <1>1, <2>1 DEF Register, BufferTyped
  <2>3. AtWork'
    BY <1>1 DEF Register, AtWork
  <2> QED
    BY <2>2, <2>3
<1>2. ASSUME NEW p \in Pools \cup {None}, Handle(p) PROVE BufferTyped' /\ AtWork'
  <2>1. event' \in Entry \cup {NoEntry} /\ events' \in Versions /\ events' > events
    <3>1. events \in Nat /\ events < MaxEvents /\ events' = events + 1 /\ MaxEvents \in Nat
      BY <1>2, BufferAssumption DEF Handle, Given, BufferTyped, Versions
    <3>2. events' \in Versions /\ events' > events
      BY <3>1 DEF Versions
    <3>3. CASE p = None
      BY <1>2, <3>2, <3>3 DEF Handle, Given
    <3>4. CASE p # None
      <4>1. /\ p \in Pools /\ sent[p] \in Nat /\ sent[p] <= events /\ sent \in [Pools -> Versions]
        BY <3>4, EntryTyped DEF BufferTyped
      <4>2. /\ sent' = [sent EXCEPT ![p] = sent[p] + 1]
            /\ event' = [pool |-> p, version |-> sent'[p]]
        BY <1>2, <3>4 DEF Handle, Given
      <4>3. sent'[p] = sent[p] + 1
        BY <4>1, <4>2
      <4>4. sent[p] + 1 \in Versions \ {0}
        BY <3>1, <4>1 DEF Versions
      <4> QED
        BY <3>2, <4>1, <4>2, <4>3, <4>4 DEF Entry
    <3> QED
      BY <3>3, <3>4
  <2>2. sent' \in [Pools -> Versions] /\ \A x \in Pools : sent'[x] <= events'
    <3>1. /\ sent \in [Pools -> Versions] /\ \A x \in Pools : sent[x] \in Nat /\ sent[x] <= events
          /\ events \in Nat /\ events' \in Nat
      BY <2>1, EntryTyped DEF BufferTyped
    <3>2. CASE p = None
      <4>1. sent' = sent
        BY <1>2, <3>2 DEF Handle, Given
      <4>2. \A x \in Pools : sent[x] <= events'
        BY <2>1, <3>1
      <4> QED
        BY <3>1, <4>1, <4>2
    <3>3. CASE p # None
      <4>1. sent' = [sent EXCEPT ![p] = sent[p] + 1] /\ events' = events + 1 /\ p \in Pools
        BY <1>2, <3>3 DEF Handle, Given
      <4>2. sent[p] + 1 \in Versions
        BY <2>1, <3>1, <4>1, BufferAssumption DEF BufferTyped, Versions
      <4>3. \A x \in Pools : sent'[x] <= events'
        <5>1. \A x \in Pools : sent'[x] = IF x = p THEN sent[p] + 1 ELSE sent[x]
          BY <3>1, <4>1
        <5> QED
          BY <2>1, <3>1, <4>1, <5>1
      <4> QED
        BY <3>1, <4>1, <4>2, <4>3
    <3> QED
      BY <3>2, <3>3
  <2>3. GoesOn(Handler, event')
    BY <1>0, <1>2, <2>1, EntryTyped, ResumeGoesOn DEF Handle
  <2>4. FlushTyped' /\ AtWork'
    BY <2>1, <2>3, EntryTyped, GoneOn
  <2>5. UNCHANGED <<registered, pending, hash, tables, starting, history, mishaps>>
    BY <1>2 DEF Handle, Given
  <2> QED
    BY <2>1, <2>2, <2>4, <2>5 DEF BufferTyped, FlushTyped
<1>3. ASSUME NEW f \in Timers, TimerFires(f) PROVE BufferTyped' /\ AtWork'
  <2>1. GoesOn(f, event) /\ event \in Entry \cup {NoEntry}
    BY <1>0, <1>3, EntryTyped, ResumeGoesOn DEF TimerFires, BufferTyped
  <2>2. FlushTyped' /\ AtWork'
    BY <1>3, <2>1, EntryTyped, GoneOn DEF TimerFires
  <2> QED
    BY <1>3, <2>2 DEF TimerFires, BufferTyped, FlushTyped
<1>4. ASSUME NEW f \in Flushers, FlushSelect(f) PROVE BufferTyped' /\ AtWork'
  <2>1. CASE cur[f].pool \in registered
    <3>1. FlushTyped' /\ AtWork'
      BY <1>4, <2>1, StepMoved DEF FlushSelect, BufferTyped, AtWork, Steps, FlushSteps, OwnSteps
    <3> QED
      BY <1>4, <3>1 DEF FlushSelect, BufferTyped, FlushTyped
  <2>2. CASE cur[f].pool \notin registered
    <3>1. GoesOn(f, event) /\ event \in Entry \cup {NoEntry}
      BY <1>0, <1>4, <2>2, ResumeGoesOn DEF FlushSelect, BufferTyped
    <3>2. FlushTyped' /\ AtWork'
      BY <1>4, <3>1, GoneOn DEF FlushSelect
    <3> QED
      BY <1>4, <3>2 DEF FlushSelect, BufferTyped, FlushTyped
  <2> QED
    BY <2>1, <2>2
<1>5. ASSUME NEW f \in Flushers, FlushUpsert(f) PROVE BufferTyped' /\ AtWork'
  <2>1. cur[f] \in Entry
    BY <1>5 DEF FlushUpsert, AtWork, FlushSteps
  <2>2. FlushTyped' /\ AtWork'
    BY <1>5, <2>1, StepMoved DEF FlushUpsert, BufferTyped, Steps, FlushSteps, OwnSteps
  <2>3. poolState' \in [Pools -> Versions]
    BY <1>5, <2>1, EntryTyped DEF FlushUpsert, BufferTyped
  <2>4. overtaken' \in SUBSET Pools
    BY <1>5, <2>1, EntryTyped DEF FlushUpsert, Cross, BufferTyped
  <2> QED
    BY <1>5, <2>2, <2>3, <2>4 DEF FlushUpsert, BufferTyped, FlushTyped
<1>6. ASSUME NEW f \in Flushers, FlushPrice(f) PROVE BufferTyped' /\ AtWork'
  <2>1. cur[f] \in Entry
    BY <1>6 DEF FlushPrice, AtWork, FlushSteps
  <2>2. visited' \in [Flushers -> SUBSET Pools]
    BY <1>6 DEF FlushPrice, BufferTyped
  <2>3. FlushTyped' /\ AtWork'
    BY <1>6, <2>1, <2>2, StepMoved DEF FlushPrice, BufferTyped, Steps, FlushSteps, OwnSteps
  <2>4. initial' \in [Pools -> Versions]
    BY <1>6, <2>1, EntryTyped DEF FlushPrice, Priced, BufferTyped
  <2>5. BufferMap(pending')
    BY <1>0, <1>6, WithoutMap DEF FlushPrice
  <2>6. overtaken' \in SUBSET Pools
    BY <1>6, <2>1, EntryTyped DEF FlushPrice, Cross, BufferTyped
  <2> QED
    BY <1>6, <2>3, <2>4, <2>5, <2>6 DEF FlushPrice, BufferTyped, FlushTyped
<1>7. ASSUME NEW f \in Flushers, FlushHDel(f) PROVE BufferTyped' /\ AtWork'
  <2>1. GoesOn(f, event) /\ event \in Entry \cup {NoEntry}
    BY <1>0, <1>7, ResumeGoesOn DEF FlushHDel, BufferTyped
  <2>2. FlushTyped' /\ AtWork'
    BY <1>7, <2>1, GoneOn DEF FlushHDel
  <2>3. hash' \in [Pools -> Versions] /\ hashFailed' \in BOOLEAN /\ bufferFaults' \in 0..MaxBufferFaults
    BY <1>7, EntryTyped, FaultCounted DEF FlushHDel, BufferTyped
  <2>4. cur[f] \in Entry
    BY <1>7 DEF FlushHDel, AtWork, FlushSteps
  <2>5. overtaken' \in SUBSET Pools
    BY <1>7, <2>4, EntryTyped DEF FlushHDel, Cross, BufferTyped
  <2> QED
    BY <1>7, <2>2, <2>3, <2>5 DEF FlushHDel, BufferTyped, FlushTyped
<1>8. ASSUME NEW f \in Flushers, Throws(f) PROVE BufferTyped' /\ AtWork'
  <2>1. event \in Entry \cup {NoEntry} /\ visited[f] \in SUBSET Pools
    BY DEF BufferTyped
  <2>2. GoesOn(f, NoEntry) \/ (f = Handler /\ GoesOn(f, event))
    <3>1. CASE EndFlush(f, NoEntry, {})
      BY <3>1, EndGoesOn
    <3>2. CASE f = Handler /\ Resume(f, event, {})
      BY <1>0, <2>1, <3>2, ResumeGoesOn
    <3> QED
      BY <1>8, <3>1, <3>2 DEF Throws
  <2>3. FlushTyped' /\ AtWork'
    BY <1>8, <2>1, <2>2, GoneOn DEF Throws
  <2>4. bufferFaults' \in 0..MaxBufferFaults
    BY <1>8, FaultCounted DEF Throws
  <2> QED
    BY <1>8, <2>3, <2>4 DEF Throws, BufferTyped, FlushTyped
<1>9. CASE OwnSelect
  <2>1. event \in Entry
    BY <1>9 DEF OwnSelect, At, AtWork, OwnSteps
  <2>2. FlushTyped' /\ AtWork'
    BY <1>9, <2>1, BufferAssumption, EntryTyped, StepMoved
       DEF OwnSelect, Goto, BufferTyped, Steps, FlushSteps, OwnSteps
  <2> QED
    BY <1>9, <2>2 DEF OwnSelect, BufferTyped, FlushTyped
<1>10. CASE OwnBuffer
  <2>1. event \in Entry
    BY <1>10 DEF OwnBuffer, At, AtWork, OwnSteps
  <2>2. FlushTyped' /\ AtWork'
    BY <1>10, <2>1, BufferAssumption, EntryTyped, StepMoved
       DEF OwnBuffer, Goto, BufferTyped, Steps, FlushSteps, OwnSteps
  <2>3. BufferMap(pending')
    BY <1>0, <1>10, <2>1, SetEntryMap DEF OwnBuffer
  <2> QED
    BY <1>10, <2>2, <2>3 DEF OwnBuffer, BufferTyped, FlushTyped
<1>11. CASE OwnUpsert
  <2>1. event \in Entry
    BY <1>11 DEF OwnUpsert, At, AtWork, OwnSteps
  <2>2. FlushTyped' /\ AtWork'
    BY <1>11, <2>1, BufferAssumption, EntryTyped, StepMoved
       DEF OwnUpsert, Goto, BufferTyped, Steps, FlushSteps, OwnSteps
  <2>3. poolState' \in [Pools -> Versions]
    BY <1>11, <2>1, EntryTyped DEF OwnUpsert, BufferTyped
  <2>4. overtaken' \in SUBSET Pools
    BY <1>11, <2>1, EntryTyped DEF OwnUpsert, Cross, BufferTyped
  <2> QED
    BY <1>11, <2>2, <2>3, <2>4 DEF OwnUpsert, BufferTyped, FlushTyped
<1>12. CASE OwnPrice
  <2>1. event \in Entry
    BY <1>12 DEF OwnPrice, At, AtWork, OwnSteps
  <2>2. FlushTyped' /\ AtWork'
    <3>1. /\ pc' = [pc EXCEPT ![Handler] = "idle"] /\ cur' = cur /\ event' = event
          /\ visited' \in [Flushers -> SUBSET Pools]
      BY <1>12 DEF OwnPrice, Returns, Goto, BufferTyped
    <3> QED
      BY <2>1, <3>1, BufferAssumption, EntryTyped, StepMoved
         DEF BufferTyped, Steps, FlushSteps, OwnSteps
  <2>3. initial' \in [Pools -> Versions] /\ done' \in [Pools -> Versions]
    BY <1>12, <2>1, EntryTyped DEF OwnPrice, Priced, Returns, BufferTyped
  <2> QED
    BY <1>12, <2>2, <2>3 DEF OwnPrice, BufferTyped, FlushTyped
<1>13. CASE OwnHSet
  <2>1. event \in Entry
    BY <1>13 DEF OwnHSet, At, AtWork, OwnSteps
  <2>2. hash' \in [Pools -> Versions] /\ hashFailed' \in BOOLEAN /\ bufferFaults' \in 0..MaxBufferFaults
    BY <1>13, <2>1, EntryTyped, FaultCounted DEF OwnHSet, BufferTyped
  <2>5. overtaken' \in SUBSET Pools
    BY <1>13, <2>1, EntryTyped DEF OwnHSet, Cross, BufferTyped
  <2>3. CASE Len(pending) > MaxBuffer
    <3>1. Len(pending) > 0
      BY <1>0, <2>3, BufferAssumption, BufferEntries
    <3>2. BufferMap(pending') /\ pending[1] \in Entry
      BY <1>0, <1>13, <2>3, <3>1, TailMap DEF OwnHSet
    <3>3. evicted' \in SUBSET Pools
      BY <1>13, <2>3, <3>2, EntryTyped DEF OwnHSet, BufferTyped
    <3>4. /\ pc' = [pc EXCEPT ![Handler] = "evict"]
          /\ cur' = [cur EXCEPT ![Handler] = pending[1]]
          /\ visited' = [g \in Flushers |-> visited[g] \ {pending[1].pool}]
          /\ event' = event /\ UNCHANGED done
      BY <1>13, <2>3 DEF OwnHSet, Goto
    <3>5. FlushTyped'
      BY <3>2, <3>4 DEF BufferTyped, FlushTyped, Steps
    <3>6. /\ pc'[Handler] = "evict" /\ cur'[Handler] \in Entry
          /\ \A g \in Flushers \ {Handler} : pc'[g] = pc[g] /\ cur'[g] = cur[g]
          /\ \A g \in Timers : g \in Flushers \ {Handler}
      BY <3>2, <3>4, BufferAssumption, EntryTyped DEF BufferTyped
    <3>7. AtWork'
      BY <2>1, <3>4, <3>6 DEF AtWork, FlushSteps, OwnSteps
    <3> QED
      BY <1>13, <2>2, <2>5, <3>2, <3>3, <3>4, <3>5, <3>7 DEF OwnHSet, BufferTyped, FlushTyped
  <2>4. CASE ~(Len(pending) > MaxBuffer)
    <3>1. FlushTyped' /\ AtWork'
      <4>1. /\ pc' = [pc EXCEPT ![Handler] = "idle"] /\ cur' = cur /\ event' = event
            /\ visited' \in [Flushers -> SUBSET Pools]
        BY <1>13, <2>4 DEF OwnHSet, Returns, Goto, BufferTyped
      <4> QED
        BY <2>1, <4>1, BufferAssumption, EntryTyped, StepMoved DEF BufferTyped, Steps, FlushSteps, OwnSteps
    <3>2. done' \in [Pools -> Versions]
      BY <1>13, <2>1, <2>4, EntryTyped DEF OwnHSet, Returns, BufferTyped
    <3> QED
      BY <1>13, <2>2, <2>4, <2>5, <3>1, <3>2 DEF OwnHSet, BufferTyped, FlushTyped
  <2> QED
    BY <2>3, <2>4
<1>14. CASE OwnEvict
  <2>1. event \in Entry
    BY <1>14 DEF OwnEvict, At, AtWork, OwnSteps
  <2>2. hash' \in [Pools -> Versions] /\ hashFailed' \in BOOLEAN /\ bufferFaults' \in 0..MaxBufferFaults
    BY <1>14, EntryTyped, FaultCounted DEF OwnEvict, BufferTyped
  <2>3. /\ pc' = [pc EXCEPT ![Handler] = "idle"]
        /\ cur' = [cur EXCEPT ![Handler] = NoEntry]
        /\ visited' \in [Flushers -> SUBSET Pools] /\ event' = event
    BY <1>14 DEF OwnEvict, Returns, Goto, BufferTyped
  <2>4. FlushTyped'
    BY <2>3, EntryTyped DEF BufferTyped, FlushTyped, Steps
  <2>5. /\ pc'[Handler] = "idle"
        /\ \A g \in Flushers \ {Handler} : pc'[g] = pc[g] /\ cur'[g] = cur[g]
        /\ \A g \in Timers : g \in Flushers \ {Handler}
    BY <2>3, BufferAssumption, EntryTyped DEF BufferTyped
  <2>6. AtWork'
    BY <2>5 DEF AtWork, FlushSteps, OwnSteps
  <2>7. done' \in [Pools -> Versions]
    BY <1>14, <2>1, EntryTyped DEF OwnEvict, Returns, BufferTyped
  <2> QED
    BY <1>14, <2>2, <2>4, <2>6, <2>7 DEF OwnEvict, BufferTyped, FlushTyped
<1>15. CASE Crash
  <2>1. BufferMap(<<>>) /\ <<>> \in Seq(Entry)
    <3>1. <<>> \in Seq(Entry) /\ DOMAIN <<>> = {}
      BY EmptySeq
    <3> QED
      BY <3>1 DEF BufferMap, OnePerPool
  <2>2. FlushTyped' /\ AtWork'
    BY <1>15, EntryTyped DEF Crash, FlushTyped, AtWork, Steps, FlushSteps, OwnSteps
  <2>3. bufferFaults' \in 0..MaxBufferFaults
    BY <1>15, FaultCounted DEF Crash
  <2> QED
    BY <1>15, <2>1, <2>2, <2>3 DEF Crash, BufferTyped, FlushTyped
<1>16. CASE RestoreRead
  <2>1. snapshot' \in Seq(Entry)
    <3>1. hash \in [Pools -> Versions]
      BY DEF BufferTyped
    <3> QED
      BY <1>0, <1>16, <3>1, SnapshotRead DEF RestoreRead
  <2>2. hashFailed' \in BOOLEAN /\ bufferFaults' \in 0..MaxBufferFaults
    BY <1>16, FaultCounted DEF RestoreRead, BufferTyped
  <2>3. restore' \in {"ended", "read", "set"}
    BY <1>16 DEF RestoreRead
  <2>4. UNCHANGED <<world, event, pending, hash, tables, flushVars, history>>
    BY <1>16 DEF RestoreRead
  <2> QED
    BY <2>1, <2>2, <2>3, <2>4 DEF BufferTyped, AtWork
<1>17. CASE RestoreSet
  <2>1. BufferMap(pending')
    BY <1>0, <1>17, RestoredMap DEF RestoreSet
  <2>2. snapshot' \in Seq(Entry)
    BY <1>17, EmptySeq DEF RestoreSet
  <2>3. overtaken' \in SUBSET Pools
    BY <1>17 DEF RestoreSet, BufferTyped
  <2> QED
    BY <1>17, <2>1, <2>2, <2>3 DEF RestoreSet, BufferTyped, AtWork
<1>18. CASE UNCHANGED bufferVars
  BY <1>18 DEF bufferVars, BufferTyped, AtWork
<1> QED
  BY <1>1, <1>2, <1>3, <1>4, <1>5, <1>6, <1>7, <1>8, <1>9, <1>10, <1>11, <1>12, <1>13, <1>14, <1>15,
     <1>16, <1>17, <1>18 DEF BufferNext

-----------------------------------------------------------------------------
(* No step forgets a pool.                                                 *)

\* What no step undoes.
Keeps ==
    /\ \A p \in Pools : poolState[p] > 0 => poolState'[p] > 0
    /\ evicted \subseteq evicted'
    /\ hashFailed => hashFailed'
    /\ \A p \in Pools : hash[p] > 0 => Survives(p)'

\* Pool p has its row after the step.
NewRow(p) == poolState'[p] > 0

\* A pool leaves the map once it has its row.
StillBuffered == \A p \in Buffered(pending) : p \in Buffered(pending') \/ NewRow(p)

\* A step that keeps this much of a handled pool keeps it known.
LEMMA HeldKept ==
    ASSUME HeldKnown, Keeps,
           \A p \in Pools : Survives(p) /\ Present(p) => Present(p)' \/ hashFailed',
           \A p \in Pools : done'[p] > 0 => done[p] > 0 \/ hashFailed' \/ (Survives(p)' /\ Present(p)')
    PROVE  HeldKnown'
<1>1. \A p \in Pools : Survives(p) => Survives(p)'
  BY DEF Keeps, Survives, InTables, Row
<1> QED
  BY <1>1 DEF HeldKnown, Keeps

\* Of the steps that leave the restoring and the history alone.
LEMMA HeldKeptAlone ==
    ASSUME HeldKnown, BufferMap(pending), Keeps, StillBuffered, UNCHANGED <<starting, done>>
    PROVE  HeldKnown'
<1>1. \A p \in Pools : Present(p) => Present(p)'
  BY DEF Keeps, StillBuffered, Present, InTables, Row, NewRow, starting
<1> QED
  BY <1>1, HeldKept

\* What the other flushers have written stays.
LEMMA OthersKept ==
    ASSUME BufferTyped, AtWork, Applied, Stored, Keeps, StillBuffered, NEW f \in Flushers,
           \A g \in Flushers \ {f} : pc'[g] = pc[g] /\ cur'[g] = cur[g],
           f # Handler => event' = event,
           pc'[f] = "price" => poolState'[cur'[f].pool] > 0,
           pc'[f] = "hdel" => NewRow(cur'[f].pool),
           f = Handler => /\ pc'[f] = "own price" => poolState'[event'.pool] > 0
                          /\ pc'[f] = "hset" => event'.pool \in Buffered(pending')
                          /\ pc'[f] # "evict"
    PROVE  Applied' /\ Stored'
<1>1. ASSUME NEW g \in Flushers
      PROVE  /\ pc'[g] = "price" => poolState'[cur'[g].pool] > 0
             /\ pc'[g] = "hdel" => NewRow(cur'[g].pool)
  <2>1. CASE g = f
    BY <2>1
  <2>2. CASE g # f
    <3>1. pc[g] \in {"price", "hdel"} => cur[g].pool \in Pools
      BY EntryTyped DEF AtWork, FlushSteps
    <3> QED
      BY <2>2, <3>1 DEF Applied, Keeps, Row, NewRow
  <2> QED
    BY <2>1, <2>2
<1>2. CASE f = Handler
  BY <1>1, <1>2 DEF Applied, Stored, Row, NewRow
<1>3. CASE f # Handler
  <2>1. pc'[Handler] = pc[Handler] /\ cur'[Handler] = cur[Handler] /\ event' = event
    BY <1>3, EntryTyped
  <2>2. pc[Handler] \in OwnSteps => event.pool \in Pools
    BY EntryTyped DEF AtWork
  <2>3. pc[Handler] = "own price" => poolState'[event.pool] > 0
    BY <2>2 DEF Applied, Keeps, OwnSteps
  <2>4. pc[Handler] = "hset" => event.pool \in Buffered(pending') \/ NewRow(event.pool)
    BY <2>2 DEF Stored, Keeps, StillBuffered, OwnSteps, Row, NewRow, NewRow
  <2>5. pc[Handler] = "evict" =>
          /\ cur[Handler].pool \in evicted'
          /\ \/ NewRow(event.pool) \/ event.pool \in evicted'
             \/ event.pool \in Buffered(pending') /\ (hashFailed' \/ hash'[event.pool] > 0)
    BY <2>2 DEF Stored, Keeps, StillBuffered, OwnSteps, Row, NewRow, Survives, InTables
  <2> QED
    BY <1>1, <2>1, <2>3, <2>4, <2>5 DEF Applied, Stored, Row, NewRow
<1> QED
  BY <1>2, <1>3

\* As does what a flusher going on has written itself.
LEMMA GoneOnKept ==
    ASSUME BufferTyped, AtWork, Applied, Stored, Keeps, StillBuffered, NEW f \in Flushers,
           NEW e, GoesOn(f, e), f # Handler => event' = event
    PROVE  Applied' /\ Stored'
<1>1. PICK q \in {"select", "own select", "idle"}, c \in Entry \cup {NoEntry} :
        pc' = [pc EXCEPT ![f] = q] /\ cur' = [cur EXCEPT ![f] = c]
  BY DEF GoesOn
<1>2. pc'[f] = q /\ \A g \in Flushers \ {f} : pc'[g] = pc[g] /\ cur'[g] = cur[g]
  BY <1>1 DEF BufferTyped
<1> QED
  BY <1>1, <1>2, OthersKept

\* A step of a flusher moves pc.
LEMMA MovedOthers ==
    ASSUME BufferTyped, NEW f \in Flushers, NEW q, pc' = [pc EXCEPT ![f] = q], cur' = cur
    PROVE  pc'[f] = q /\ \A g \in Flushers \ {f} : pc'[g] = pc[g] /\ cur'[g] = cur[g]
BY DEF BufferTyped

\* The events of the pools, where no table changes.
LEMMA TablesAlone ==
    ASSUME UNCHANGED <<hash, tables, evicted>>, hashFailed => hashFailed'
    PROVE  Keeps
BY DEF Keeps, Survives, InTables, Row, tables

\* Nor do the steps of a flush.
LEMMA FlushKeeps ==
    ASSUME BufferInv, NEW f \in Flushers,
           FlushSelect(f) \/ FlushUpsert(f) \/ FlushPrice(f) \/ FlushHDel(f) \/ Throws(f)
    PROVE  HeldKnown' /\ Applied' /\ Stored'
<1> USE DEF BufferInv
<1>0. /\ BufferMap(pending) /\ event \in Entry \cup {NoEntry} /\ visited[f] \in SUBSET Pools
      /\ hash \in [Pools -> Versions] /\ poolState \in [Pools -> Versions] /\ initial \in [Pools -> Versions]
  BY DEF BufferTyped
<1> DEFINE p == cur[f].pool
<1>1. pc[f] \in FlushSteps => cur[f] \in Entry /\ p \in Pools /\ cur[f].version \in Nat /\ cur[f].version > 0
  BY EntryTyped DEF AtWork
<1>2. CASE FlushSelect(f)
  <2>1. Keeps /\ StillBuffered
    BY <1>2, TablesAlone DEF FlushSelect, StillBuffered, history, mishaps
  <2>2. HeldKnown'
    BY <1>0, <1>2, <2>1, HeldKeptAlone DEF FlushSelect, history
  <2>3. CASE p \in registered
    <3>1. pc'[f] = "upsert" /\ \A g \in Flushers \ {f} : pc'[g] = pc[g] /\ cur'[g] = cur[g]
      BY <1>2, <2>3, MovedOthers DEF FlushSelect
    <3>2. Applied' /\ Stored'
      BY <1>2, <2>1, <3>1, OthersKept DEF FlushSelect
    <3> QED
      BY <2>2, <3>2
  <2>4. CASE p \notin registered
    <3>1. GoesOn(f, event)
      BY <1>0, <1>2, <2>4, ResumeGoesOn DEF FlushSelect
    <3>2. Applied' /\ Stored'
      BY <1>2, <2>1, <3>1, GoneOnKept DEF FlushSelect
    <3> QED
      BY <2>2, <3>2
  <2> QED
    BY <2>3, <2>4
<1>3. CASE FlushUpsert(f)
  <2>1. /\ pc[f] = "upsert" /\ pc' = [pc EXCEPT ![f] = "price"] /\ cur' = cur /\ event' = event
        /\ poolState' = [poolState EXCEPT ![p] = cur[f].version]
        /\ UNCHANGED <<pending, hash, starting, done, evicted, mishaps>>
    BY <1>3 DEF FlushUpsert
  <2>2. p \in Pools /\ cur[f].version > 0
    BY <1>1, <2>1 DEF FlushSteps
  <2>3. poolState'[p] > 0 /\ \A x \in Pools : poolState[x] > 0 => poolState'[x] > 0
    BY <1>0, <2>1, <2>2
  <2>4. Keeps /\ StillBuffered
    BY <2>1, <2>3 DEF Keeps, StillBuffered, Survives, mishaps
  <2>5. HeldKnown'
    BY <1>0, <2>1, <2>4, HeldKeptAlone
  <2>6. pc'[f] = "price" /\ \A g \in Flushers \ {f} : pc'[g] = pc[g] /\ cur'[g] = cur[g]
    BY <2>1, MovedOthers
  <2>7. Applied' /\ Stored'
    BY <2>1, <2>3, <2>4, <2>6, OthersKept
  <2> QED
    BY <2>5, <2>7
<1>4. CASE FlushPrice(f)
  <2>1. /\ pc[f] = "price" /\ pc' = [pc EXCEPT ![f] = "hdel"] /\ cur' = cur /\ event' = event
        /\ pending' = Without(pending, p)
        /\ UNCHANGED <<hash, poolState, starting, done, evicted, mishaps>>
    BY <1>4 DEF FlushPrice
  <2>2. p \in Pools
    BY <1>1, <2>1 DEF FlushSteps
  <2>3. NewRow(p)
    BY <2>1 DEF Applied, NewRow
  <2>4. Keeps
    BY <2>1 DEF Keeps, Survives, InTables, Row, mishaps
  <2>5. StillBuffered
    BY <1>0, <2>1, <2>3, WithoutMap DEF StillBuffered
  <2>6. HeldKnown'
    BY <1>0, <2>1, <2>4, <2>5, HeldKeptAlone
  <2>7. pc'[f] = "hdel" /\ cur'[f] = cur[f] /\ \A g \in Flushers \ {f} : pc'[g] = pc[g] /\ cur'[g] = cur[g]
    BY <2>1, MovedOthers
  <2>8. Applied' /\ Stored'
    BY <2>1, <2>3, <2>4, <2>5, <2>7, OthersKept
  <2> QED
    BY <2>6, <2>8
<1>5. CASE FlushHDel(f)
  <2>1. /\ pc[f] = "hdel" /\ event' = event
        /\ hash' = [hash EXCEPT ![p] = 0] \/ hash' = hash
        /\ hashFailed => hashFailed'
        /\ Resume(f, event, visited[f])
        /\ UNCHANGED <<pending, tables, starting, done, evicted>>
    BY <1>5 DEF FlushHDel, mishaps
  <2>2. p \in Pools /\ Row(p)
    BY <1>1, <2>1 DEF FlushSteps, Applied
  <2>3. \A x \in Pools : hash[x] > 0 => hash'[x] > 0 \/ x = p
    BY <1>0, <2>1, <2>2
  <2>4. Keeps /\ StillBuffered
    BY <2>1, <2>2, <2>3 DEF Keeps, StillBuffered, Survives, InTables, Row, tables
  <2>5. HeldKnown'
    BY <1>0, <2>1, <2>4, HeldKeptAlone
  <2>6. GoesOn(f, event)
    BY <1>0, <2>1, ResumeGoesOn
  <2>7. Applied' /\ Stored'
    BY <2>1, <2>4, <2>6, GoneOnKept
  <2> QED
    BY <2>5, <2>7
<1>6. CASE Throws(f)
  <2>1. Keeps /\ StillBuffered
    BY <1>6, TablesAlone DEF Throws, StillBuffered, history
  <2>2. HeldKnown'
    BY <1>0, <1>6, <2>1, HeldKeptAlone DEF Throws, history
  <2>3. GoesOn(f, NoEntry) \/ GoesOn(f, event)
    <3>1. CASE EndFlush(f, NoEntry, {})
      BY <3>1, EndGoesOn
    <3>2. CASE Resume(f, event, {})
      BY <1>0, <3>2, ResumeGoesOn
    <3> QED
      BY <1>6, <3>1, <3>2 DEF Throws
  <2>4. Applied' /\ Stored'
    BY <1>6, <2>1, <2>3, GoneOnKept DEF Throws
  <2> QED
    BY <2>2, <2>4
<1> QED
  BY <1>2, <1>3, <1>4, <1>5, <1>6

\* Nor do those of handle() behind its flush.
LEMMA OwnKeeps ==
    ASSUME BufferInv, Own
    PROVE  HeldKnown' /\ Applied' /\ Stored'
<1> USE DEF BufferInv
<1> DEFINE h == Handler
           p == event.pool
<1>0. /\ BufferMap(pending) /\ done \in [Pools -> Versions] /\ cur \in [Flushers -> Entry \cup {NoEntry}]
      /\ hash \in [Pools -> Versions] /\ poolState \in [Pools -> Versions] /\ initial \in [Pools -> Versions]
  BY DEF BufferTyped
<1>1. pc[h] \in OwnSteps
  BY DEF Own, OwnSelect, OwnBuffer, OwnUpsert, OwnPrice, OwnHSet, OwnEvict, At, OwnSteps
<1>2. h \in Flushers /\ event \in Entry /\ p \in Pools /\ event.version \in Nat /\ event.version > 0
  BY <1>1, EntryTyped DEF AtWork
<1> HIDE DEF h
<1>3. CASE OwnSelect
  <2>1. /\ pc' = [pc EXCEPT ![h] = IF p \in registered THEN "own upsert" ELSE "buffer"]
        /\ UNCHANGED <<event, pending, hash, tables, starting, cur, visited, history, mishaps>>
    BY <1>3 DEF OwnSelect, Goto, h
  <2>2. Keeps /\ StillBuffered
    BY <2>1, TablesAlone DEF StillBuffered, history, mishaps
  <2>3. HeldKnown'
    BY <1>0, <2>1, <2>2, HeldKeptAlone DEF history
  <2>4. pc'[h] \in {"own upsert", "buffer"} /\ \A g \in Flushers \ {h} : pc'[g] = pc[g] /\ cur'[g] = cur[g]
    BY <1>2, <2>1, MovedOthers
  <2>5. Applied' /\ Stored'
    BY <1>2, <2>1, <2>2, <2>4, OthersKept
  <2> QED
    BY <2>3, <2>5
<1>4. CASE OwnBuffer
  <2>1. /\ pc' = [pc EXCEPT ![h] = "hset"] /\ pending' = SetEntry(pending, event)
        /\ UNCHANGED <<event, hash, tables, starting, cur, visited, history, mishaps>>
    BY <1>4 DEF OwnBuffer, Goto, h
  <2>2. p \in Buffered(pending') /\ StillBuffered
    BY <1>0, <1>2, <2>1, SetEntryMap DEF StillBuffered
  <2>3. Keeps
    BY <2>1, TablesAlone DEF history, mishaps
  <2>4. HeldKnown'
    BY <1>0, <2>1, <2>2, <2>3, HeldKeptAlone DEF history
  <2>5. pc'[h] = "hset" /\ \A g \in Flushers \ {h} : pc'[g] = pc[g] /\ cur'[g] = cur[g]
    BY <1>2, <2>1, MovedOthers
  <2>6. Applied' /\ Stored'
    BY <1>2, <2>1, <2>2, <2>3, <2>5, OthersKept
  <2> QED
    BY <2>4, <2>6
<1>5. CASE OwnUpsert
  <2>1. /\ pc' = [pc EXCEPT ![h] = "own price"]
        /\ poolState' = [poolState EXCEPT ![p] = event.version]
        /\ UNCHANGED <<event, pending, hash, starting, cur, visited, done, evicted, mishaps>>
    BY <1>5 DEF OwnUpsert, Goto, h
  <2>2. poolState'[p] > 0 /\ \A x \in Pools : poolState[x] > 0 => poolState'[x] > 0
    BY <1>0, <1>2, <2>1
  <2>3. Keeps /\ StillBuffered
    BY <2>1, <2>2 DEF Keeps, StillBuffered, Survives, mishaps
  <2>4. HeldKnown'
    BY <1>0, <2>1, <2>3, HeldKeptAlone
  <2>5. pc'[h] = "own price" /\ \A g \in Flushers \ {h} : pc'[g] = pc[g] /\ cur'[g] = cur[g]
    BY <1>2, <2>1, MovedOthers
  <2>6. Applied' /\ Stored'
    BY <1>2, <2>1, <2>2, <2>3, <2>5, OthersKept
  <2> QED
    BY <2>4, <2>6
<1>6. CASE OwnPrice
  <2>1. /\ pc[h] = "own price" /\ pc' = [pc EXCEPT ![h] = "idle"]
        /\ done' = [done EXCEPT ![p] = event.version]
        /\ UNCHANGED <<event, pending, hash, poolState, starting, cur, evicted, mishaps>>
    BY <1>6 DEF OwnPrice, Returns, At, Goto, h
  <2>2. NewRow(p)
    BY <2>1 DEF Applied, NewRow, h
  <2>3. Keeps /\ StillBuffered
    BY <2>1 DEF Keeps, StillBuffered, Survives, InTables, Row, mishaps
  <2>4. \A x \in Pools : Present(x) => Present(x)'
    BY <2>1, <2>3 DEF Keeps, StillBuffered, Present, InTables, Row, NewRow, starting
  <2>5. \A x \in Pools : done'[x] > 0 => done[x] > 0 \/ (Survives(x)' /\ Present(x)')
    BY <1>0, <2>1, <2>2 DEF NewRow, Survives, Present, InTables, Row
  <2>6. HeldKnown'
    BY <2>3, <2>4, <2>5, HeldKept
  <2>7. pc'[h] = "idle" /\ \A g \in Flushers \ {h} : pc'[g] = pc[g] /\ cur'[g] = cur[g]
    BY <1>2, <2>1, MovedOthers
  <2>8. Applied' /\ Stored'
    BY <1>2, <2>1, <2>3, <2>7, OthersKept
  <2> QED
    BY <2>6, <2>8
<1>7. CASE OwnHSet
  <2>1. /\ pc[h] = "hset"
        /\ hash' = [hash EXCEPT ![p] = event.version] \/ (hash' = hash /\ hashFailed')
        /\ hashFailed => hashFailed'
        /\ UNCHANGED <<event, tables, starting>>
    BY <1>7 DEF OwnHSet, At, mishaps, h
  <2>2. (hashFailed' \/ hash'[p] > 0) /\ \A x \in Pools : hash[x] > 0 => hash'[x] > 0
    BY <1>0, <1>2, <2>1
  <2>3. p \in Buffered(pending) \/ Row(p)
    BY <2>1 DEF Stored, h
  <2>4. CASE Len(pending) > MaxBuffer
    <3> DEFINE q == pending[1].pool
    <3>1. /\ pc' = [pc EXCEPT ![h] = "evict"] /\ cur' = [cur EXCEPT ![h] = pending[1]]
          /\ pending' = Tail(pending) /\ evicted' = evicted \cup {q} /\ done' = done
      BY <1>7, <2>4 DEF OwnHSet, Goto, h
    <3>2. Len(pending) > 0
      BY <1>0, <2>4, BufferAssumption, BufferEntries DEF BufferMap
    <3>3. pending[1] \in Entry /\ Buffered(pending) = Buffered(pending') \cup {q}
      BY <1>0, <3>1, <3>2, TailMap
    <3>4. pc'[h] = "evict" /\ cur'[h] = pending[1] /\ \A g \in Flushers \ {h} : pc'[g] = pc[g] /\ cur'[g] = cur[g]
      BY <1>0, <1>2, <3>1, <3>3 DEF BufferTyped
    <3> HIDE DEF q
    <3>5. Keeps
      BY <2>1, <2>2, <3>1 DEF Keeps, Survives, tables
    <3>6. \A x \in Pools : Present(x) => Present(x)'
      BY <2>1, <3>1, <3>3 DEF Present, InTables, Row, tables, starting
    <3>7. HeldKnown'
      BY <3>1, <3>5, <3>6, HeldKept
    <3>8. Applied'
      BY <2>1, <3>4 DEF Applied, Row, tables, h
    <3>9. Stored'
      BY <2>1, <2>2, <2>3, <3>1, <3>3, <3>4 DEF Stored, Row, tables, h, q
    <3> QED
      BY <3>7, <3>8, <3>9
  <2>5. CASE ~(Len(pending) > MaxBuffer)
    <3>1. /\ pc' = [pc EXCEPT ![h] = "idle"] /\ done' = [done EXCEPT ![p] = event.version]
          /\ UNCHANGED <<cur, pending, evicted>>
      BY <1>7, <2>5 DEF OwnHSet, Returns, Goto, h
    <3>2. Keeps /\ StillBuffered
      BY <2>1, <2>2, <3>1 DEF Keeps, StillBuffered, Survives, tables
    <3>3. \A x \in Pools : Present(x) => Present(x)'
      BY <2>1, <3>1 DEF Present, InTables, Row, tables, starting
    <3>4. hashFailed' \/ (Survives(p)' /\ Present(p)')
      BY <2>1, <2>2, <2>3, <3>1 DEF Survives, Present, InTables, Row, tables
    <3>5. \A x \in Pools : done'[x] > 0 => done[x] > 0 \/ hashFailed' \/ (Survives(x)' /\ Present(x)')
      <4>1. \A x \in Pools : done'[x] = done[x] \/ x = p
        BY <1>0, <3>1
      <4> HIDE DEF p
      <4> SUFFICES ASSUME NEW x \in Pools PROVE x = p => hashFailed' \/ (Survives(x)' /\ Present(x)')
        BY <4>1
      <4>2. event'.pool = event.pool
        BY <2>1
      <4> QED
        BY <2>1, <2>2, <2>3, <3>1 DEF Survives, Present, InTables, Row, tables, p
    <3>6. HeldKnown'
      BY <3>2, <3>3, <3>5, HeldKept
    <3>7. pc'[h] = "idle" /\ \A g \in Flushers \ {h} : pc'[g] = pc[g] /\ cur'[g] = cur[g]
      BY <1>2, <3>1, MovedOthers
    <3>8. Applied' /\ Stored'
      BY <1>2, <2>1, <3>2, <3>7, OthersKept
    <3> QED
      BY <3>6, <3>8
  <2> QED
    BY <2>4, <2>5
<1>8. CASE OwnEvict
  <2> DEFINE q == cur[h].pool
  <2>1. /\ pc[h] = "evict" /\ pc' = [pc EXCEPT ![h] = "idle"] /\ cur' = [cur EXCEPT ![h] = NoEntry]
        /\ done' = [done EXCEPT ![p] = event.version]
        /\ hash' = [hash EXCEPT ![q] = 0] \/ (hash' = hash /\ hashFailed')
        /\ hashFailed => hashFailed'
        /\ UNCHANGED <<event, pending, tables, starting, evicted>>
    BY <1>8 DEF OwnEvict, Returns, At, Goto, mishaps, h
  <2>2. q \in evicted /\ (Row(p) \/ p \in evicted \/ (p \in Buffered(pending) /\ (hashFailed \/ hash[p] > 0)))
    BY <2>1 DEF Stored, h
  <2> HIDE DEF q
  <2>3. \A x \in Pools : hash[x] > 0 => hash'[x] > 0 \/ x = q
    BY <1>0, <2>1
  <2>4. Keeps /\ StillBuffered
    BY <2>1, <2>2, <2>3 DEF Keeps, StillBuffered, Survives, InTables, tables
  <2>5. \A x \in Pools : Present(x) => Present(x)'
    BY <2>1 DEF Present, InTables, Row, tables, starting
  <2>6. \A x \in Pools : done'[x] > 0 => done[x] > 0 \/ hashFailed' \/ (Survives(x)' /\ Present(x)')
    <3>1. \A x \in Pools : done'[x] = done[x] \/ x = p
      BY <1>0, <2>1
    <3> SUFFICES ASSUME NEW x \in Pools, x = p PROVE hashFailed' \/ (Survives(x)' /\ Present(x)')
      BY <3>1
    <3> QED
      BY <2>1, <2>2, <2>3 DEF Survives, Present, InTables, Row, tables
  <2>7. HeldKnown'
    BY <2>4, <2>5, <2>6, HeldKept
  <2>8. pc'[h] = "idle" /\ \A g \in Flushers \ {h} : pc'[g] = pc[g] /\ cur'[g] = cur[g]
    BY <1>2, <2>1 DEF BufferTyped
  <2>9. Applied' /\ Stored'
    BY <1>2, <2>1, <2>4, <2>8, OthersKept
  <2> QED
    BY <2>7, <2>9
<1> QED
  BY <1>3, <1>4, <1>5, <1>6, <1>7, <1>8 DEF Own

\* The invariant holds after every step.
LEMMA BufferInvStep ==
    ASSUME BufferInv, [BufferNext]_bufferVars
    PROVE  BufferInv'
<1>0. BufferTyped' /\ AtWork'
  BY BufferTypedStep DEF BufferInv
<1> SUFFICES HeldKnown' /\ Applied' /\ Stored'
  BY <1>0 DEF BufferInv
<1>1. ASSUME NEW p \in Pools, Register(p) PROVE HeldKnown' /\ Applied' /\ Stored'
  BY <1>1 DEF Register, BufferInv, HeldKnown, Survives, Present, InTables, Applied, Stored, Row, tables, starting,
              flushVars, history, mishaps
<1>2. ASSUME NEW e \in Pools \cup {None}, Handle(e) PROVE HeldKnown' /\ Applied' /\ Stored'
  <2>1. BufferMap(pending) /\ event' \in Entry \cup {NoEntry} /\ Handler \in Flushers
    BY <1>0, EntryTyped DEF BufferInv, BufferTyped
  <2>2. GoesOn(Handler, event')
    BY <1>2, <2>1, ResumeGoesOn DEF Handle
  <2>3. UNCHANGED <<pending, hash, tables, starting, history, mishaps>>
    BY <1>2 DEF Handle, Given
  <2>4. Keeps /\ StillBuffered
    BY <2>3, TablesAlone DEF StillBuffered, history, mishaps
  <2>5. HeldKnown'
    BY <2>1, <2>3, <2>4, HeldKeptAlone DEF BufferInv, history
  <2>6. Applied' /\ Stored'
    BY <2>1, <2>2, <2>4, GoneOnKept DEF BufferInv
  <2> QED
    BY <2>5, <2>6
<1>3. ASSUME NEW f \in Timers, TimerFires(f) PROVE HeldKnown' /\ Applied' /\ Stored'
  <2>1. BufferMap(pending) /\ event \in Entry \cup {NoEntry} /\ f \in Flushers
    BY EntryTyped DEF BufferInv, BufferTyped
  <2>2. GoesOn(f, event)
    BY <1>3, <2>1, ResumeGoesOn DEF TimerFires
  <2>3. UNCHANGED <<event, pending, hash, tables, starting, history, mishaps>>
    BY <1>3 DEF TimerFires
  <2>4. Keeps /\ StillBuffered
    BY <2>3, TablesAlone DEF StillBuffered, history, mishaps
  <2>5. HeldKnown'
    BY <2>1, <2>3, <2>4, HeldKeptAlone DEF BufferInv, history
  <2>6. Applied' /\ Stored'
    BY <2>1, <2>2, <2>3, <2>4, GoneOnKept DEF BufferInv
  <2> QED
    BY <2>5, <2>6
<1>4. ASSUME NEW f \in Flushers,
             FlushSelect(f) \/ FlushUpsert(f) \/ FlushPrice(f) \/ FlushHDel(f) \/ Throws(f)
      PROVE  HeldKnown' /\ Applied' /\ Stored'
  BY <1>4, FlushKeeps
<1>5. CASE Own
  BY <1>5, OwnKeeps
<1>6. CASE Crash
  <2>1. /\ restore' = "read" /\ \A f \in Flushers : pc'[f] = "idle"
        /\ UNCHANGED <<hash, tables, history, hashFailed>>
    BY <1>6 DEF Crash
  <2>2. Keeps
    BY <2>1, TablesAlone DEF history
  <2>3. HeldKnown'
    BY <2>1, <2>2, HeldKept DEF BufferInv, Present, history
  <2> QED
    BY <2>1, <2>3, EntryTyped DEF Applied, Stored
<1>7. CASE RestoreRead
  <2>1. UNCHANGED <<event, pending, hash, tables, flushVars, history>> /\ (hashFailed => hashFailed')
    BY <1>7 DEF RestoreRead, mishaps
  <2>2. Keeps
    BY <2>1, TablesAlone DEF history
  <2>3. hashFailed' \/ Buffered(snapshot') = {q \in Pools : hash[q] > 0}
    <3>1. hash \in [Pools -> Versions]
      BY DEF BufferInv, BufferTyped
    <3> QED
      BY <1>7, <3>1, SnapshotRead DEF RestoreRead
  <2>4. \A p \in Pools : Survives(p) => Present(p)' \/ hashFailed'
    BY <2>1, <2>3 DEF Survives, Present, InTables, Row, tables, history
  <2>5. HeldKnown'
    BY <2>1, <2>2, <2>4, HeldKept DEF BufferInv, history
  <2> QED
    BY <2>1, <2>5 DEF BufferInv, Applied, Stored, Row, tables, flushVars, history
<1>8. CASE RestoreSet
  <2>1. restore = "set" /\ UNCHANGED <<event, hash, tables, flushVars, done, evicted, mishaps>>
    BY <1>8 DEF RestoreSet
  <2>2. Buffered(pending') = Buffered(pending) \cup Buffered(snapshot)
    BY <1>8, RestoredMap DEF RestoreSet, BufferInv, BufferTyped
  <2>3. Keeps
    BY <2>1, TablesAlone DEF mishaps
  <2>4. \A p \in Pools : Present(p) => Present(p)'
    BY <2>1, <2>2 DEF Present, InTables, Row, tables
  <2>5. HeldKnown'
    BY <2>1, <2>3, <2>4, HeldKept DEF BufferInv
  <2>6. Applied' /\ Stored'
    BY <2>1, <2>2 DEF BufferInv, Applied, Stored, Row, tables, flushVars, mishaps
  <2> QED
    BY <2>5, <2>6
<1>9. CASE UNCHANGED bufferVars
  BY <1>9 DEF bufferVars, BufferInv, HeldKnown, Survives, Present, InTables, Applied, Stored, Row, tables, starting,
              flushVars, history, mishaps
<1> QED
  BY <1>1, <1>2, <1>3, <1>4, <1>5, <1>6, <1>7, <1>8, <1>9 DEF BufferNext, Own

\* The invariant holds throughout.
LEMMA BufferInvHolds == BufferSpec => []BufferInv
<1>1. BufferInit => BufferInv
  BY BufferStart
<1>2. BufferInv /\ [BufferNext]_bufferVars => BufferInv'
  BY BufferInvStep
<1> QED
  BY <1>1, <1>2, PTL DEF BufferSpec

-----------------------------------------------------------------------------
(* Theorems.                                                               *)

\* Every variable of the pool states keeps its type, and pendingPoolState
\* is a map: as many entries as pools, whichever flush deletes from it and
\* whatever start() sets over what the read loop has put there.
THEOREM BufferTypeCorrect == BufferSpec => []BufferTypeOK
<1>1. BufferInv => BufferTypeOK
  <2> SUFFICES ASSUME BufferInv PROVE BufferTypeOK
    OBVIOUS
  <2>1. Cardinality({pending[i].pool : i \in DOMAIN pending}) = Len(pending)
    BY BufferSize DEF BufferInv, BufferTyped, Buffered
  <2>2. event \in [pool : Pools \cup {None}, version : Versions]
    BY EntryTyped DEF BufferInv, BufferTyped, Entry, NoEntry
  <2> QED
    BY <2>1, <2>2 DEF BufferInv, BufferTyped, BufferMap, BufferTypeOK, NoEntry, Versions
<1> QED
  BY <1>1, BufferInvHolds, PTL

\* A pool one of whose states was handled is never forgotten, by flushes
\* running beside the handler nor by deaths of the process between any two
\* awaits, unless the cap evicted it or Redis failed unnoticed: the first half
\* of PoolKnown.  That the latest state survives (UpToDate) is model-checked.
THEOREM PoolsStayKnown ==
    BufferSpec => [](~hashFailed => \A p \in Pools \ evicted : done[p] > 0 => Remembered(p))
<1>1. BufferInv => (~hashFailed => \A p \in Pools \ evicted : done[p] > 0 => Remembered(p))
  <2> SUFFICES ASSUME BufferInv, ~hashFailed, NEW p \in Pools \ evicted, done[p] > 0
               PROVE  Remembered(p)
    OBVIOUS
  <2>1. Survives(p) /\ Present(p)
    BY DEF BufferInv, HeldKnown
  <2>2. \A m \in Seq(Entry) : p \in Buffered(m) =>
            \E u \in {m[i].version : i \in {j \in DOMAIN m : m[j].pool = p}} : u >= 1
    <3> SUFFICES ASSUME NEW m \in Seq(Entry), NEW i \in DOMAIN m, m[i].pool = p
                 PROVE  \E u \in {m[j].version : j \in {k \in DOMAIN m : m[k].pool = p}} : u >= 1
      BY DEF Buffered
    <3>1. m[i] \in Entry
      OBVIOUS
    <3>2. m[i].version \in Nat /\ m[i].version > 0
      BY <3>1, EntryTyped
    <3>3. m[i].version \in {m[j].version : j \in {k \in DOMAIN m : m[k].pool = p}}
      OBVIOUS
    <3>4. m[i].version >= 1
      BY <3>2
    <3> QED
      BY <3>3, <3>4
  <2>3. pending \in Seq(Entry) /\ snapshot \in Seq(Entry) /\ hash[p] \in Nat
    BY EntryTyped DEF BufferInv, BufferTyped, BufferMap
  <2>4. p \in Buffered(pending) \cup Buffered(snapshot) => Waits(p, 1)
    BY <2>2, <2>3 DEF Waits, Waiting, Restoring
  <2> QED
    BY <2>1, <2>3, <2>4 DEF Survives, Present, InTables, Row, Remembered, Waits
<1> QED
  BY <1>1, BufferInvHolds, PTL
=============================================================================

------------------------- MODULE TokenDiscoveryProofs -------------------------
(***************************************************************************)
(* Proofs about TokenDiscovery for any tokens, chains, activations, caps   *)
(* and faults.                                                             *)
(***************************************************************************)
EXTENDS TokenDiscovery, FiniteSetTheorems, TLAPS

(* Logs.                                                                   *)

\* What a log of mined blocks is, and that there are finitely many of them.
LEMMA LogFacts ==
    ASSUME chain \in Chains, height \in 0..Len(chain), NEW B \in SUBSET (1..height)
    PROVE  /\ \A p \in Logs(B) : /\ p \in Nat \X Nat /\ p[1] \in B
                                 /\ Kind(p) \in Kinds /\ Token(p) \in Tokens
           /\ Logs(B) \subseteq Logs(1..height)
           /\ IsFiniteSet(Logs(B))
<1>1. chain \in Seq(Seq(Kinds \X Tokens))
  BY DiscoveryAssumption
<1>2. \A n \in B : n \in 1..Len(chain) /\ chain[n] \in Seq(Kinds \X Tokens)
  BY <1>1
<1>3. ASSUME NEW p \in Logs(B)
      PROVE  /\ p \in Nat \X Nat /\ p[1] \in B
             /\ Kind(p) \in Kinds /\ Token(p) \in Tokens
  <2>1. PICK n \in B : p \in {n} \X DOMAIN chain[n]
    BY DEF Logs
  <2>2. /\ n \in Nat /\ DOMAIN chain[n] \subseteq Nat /\ p[1] = n /\ p[2] \in DOMAIN chain[n]
        /\ p = <<p[1], p[2]>>
    BY <1>2, <2>1
  <2>3. chain[n][p[2]] \in Kinds \X Tokens
    BY <1>2, <2>2
  <2> QED
    BY <2>2, <2>3 DEF Kind, Token
<1>4. Logs(B) \subseteq Logs(1..height)
  BY DEF Logs
<1>5. IsFiniteSet(Logs(B))
  <2>1. IsFiniteSet(B)
    <3>1. IsFiniteSet(1..height)
      BY FS_Interval
    <3> QED
      BY <3>1, FS_Subset
  <2> DEFINE Of(n) == {n} \X DOMAIN chain[n]
  <2>2. \A n \in B : IsFiniteSet(Of(n))
    <3> SUFFICES ASSUME NEW n \in B PROVE IsFiniteSet(Of(n))
      OBVIOUS
    <3>1. DOMAIN chain[n] = 1..Len(chain[n]) /\ Len(chain[n]) \in Nat
      BY <1>2
    <3>2. IsFiniteSet(1..Len(chain[n]))
      BY <3>1, FS_Interval
    <3>3. IsFiniteSet({n})
      BY FS_Singleton
    <3> QED
      BY <3>1, <3>2, <3>3, FS_Product
  <2> HIDE DEF Of
  <2>3. IsFiniteSet({Of(n) : n \in B})
    <3> DEFINE f == [n \in B |-> Of(n)]
    <3>1. f \in Surjection(B, {Of(n) : n \in B})
      BY DEF Surjection
    <3> QED
      BY <2>1, <3>1, FS_Surjection
  <2>4. IsFiniteSet(UNION {Of(n) : n \in B})
    BY <2>2, <2>3, FS_UNION
  <2>5. Logs(B) = UNION {Of(n) : n \in B}
    BY DEF Logs, Of
  <2> QED
    BY <2>4, <2>5
<1> QED
  BY <1>3, <1>4, <1>5

-----------------------------------------------------------------------------
(* Types.                                                                  *)

\* Where an actor can be, and where it has a unit.
Steps == {"down", "idle", "tokens", "pools", "replace", "head", "fetch", "extra", "publish",
          "checkpoint"}
Working == {"fetch", "extra", "publish", "checkpoint"}
\* Positions of the logs in the chain so far, and of the creations among them.
Mined == Logs(1..height)
Created == Named("PoolCreated", Mined)

\* TypeOK, by whom it is about.
ChainTyped == chain \in Chains /\ height \in 0..Len(chain)

\* A unit is an interval, and who works has one.
UnitTyped(a) ==
    /\ unit[a] = {} \/ \E i, j \in 1..height : i <= j /\ unit[a] = i..j
    /\ step[a] \in Working => unit[a] # {}

ScanTyped ==
    /\ checkpoint \in 0..height /\ from \in 1..(height + 1) /\ head \in 0..height
    /\ step \in [Actors -> Steps] /\ unit \in [Actors -> SUBSET (1..height)]
    /\ \A a \in Actors : UnitTyped(a)

MapTyped ==
    /\ knownTokens \subseteq Tokens /\ poolIdToToken \subseteq Tokens
    /\ dynamicManagers \subseteq Tokens /\ Cardinality(dynamicManagers) <= MaxManagers
    /\ asked \in [Actors -> SUBSET Tokens] /\ heeded \in [Actors -> SUBSET dynamicManagers]
    /\ extra \in [Actors -> SUBSET Tokens]

EventsTyped == events \in [Actors -> SUBSET [at : Mined, resolved : BOOLEAN]]

RefreshTyped ==
    /\ readTokens \in [Actors -> SUBSET registry] /\ readPools \in [Actors -> SUBSET registry]
    /\ missed \in [Actors -> SUBSET Tokens]

\* What has been published has been mined.
MetaTyped ==
    /\ meta \in Seq(RegistryKinds \X Tokens)
    /\ \A i \in DOMAIN meta :
          meta[i][1] = "PoolCreated" => meta[i][2] \in Created

\* The transaction at work is registered before it is remembered.
ProcTyped ==
    /\ registry \subseteq Created /\ royalties \subseteq registry
    /\ pos \in 1..(Len(meta) + 1) /\ doing \in {"idle", "tell", "ack"}
    /\ doing # "idle" => pos <= Len(meta)
    /\ doing = "tell" => meta[pos][1] = "PoolCreated" /\ meta[pos][2] \in registry
    /\ recent \in Seq(registry) /\ Len(recent) <= MaxRecent

\* The types, with all of these.
Typed ==
    /\ ChainTyped /\ ScanTyped /\ MapTyped /\ EventsTyped /\ RefreshTyped /\ MetaTyped /\ ProcTyped
    /\ faults \in 0..MaxFaults

\* The types are those the module states.
LEMMA TypedImplies == Typed => TypeOK
<1> SUFFICES ASSUME Typed PROVE TypeOK
  OBVIOUS
<1>1. Mined \subseteq Nat \X Nat
  <2>1. ChainTyped /\ 1..height \in SUBSET (1..height)
    BY DEF Typed
  <2> QED
    BY <2>1, LogFacts DEF ChainTyped, Mined
<1>2. \A a \in Actors : \A e \in events[a] : e \in Event /\ e.at \in Logs(1..height)
  BY <1>1 DEF Typed, EventsTyped, Event, Mined
<1>3. registry \subseteq Named("PoolCreated", Logs(1..height))
  BY DEF Typed, ProcTyped, Created, Mined
<1>4. /\ chain \in Chains /\ height \in 0..Len(chain)
      /\ checkpoint \in 0..height /\ from \in 1..(height + 1) /\ head \in 0..height
      /\ step \in [Actors -> {"down", "idle", "tokens", "pools", "replace", "head", "fetch", "extra", "publish",
                              "checkpoint"}]
      /\ unit \in [Actors -> SUBSET (1..height)]
  BY DEF Typed, ChainTyped, ScanTyped, Steps
<1>5. /\ knownTokens \subseteq Tokens /\ poolIdToToken \subseteq Tokens
      /\ dynamicManagers \subseteq Tokens /\ Cardinality(dynamicManagers) <= MaxManagers
      /\ asked \in [Actors -> SUBSET Tokens] /\ heeded \in [Actors -> SUBSET dynamicManagers]
      /\ extra \in [Actors -> SUBSET Tokens]
      /\ readTokens \in [Actors -> SUBSET registry] /\ readPools \in [Actors -> SUBSET registry]
  BY DEF Typed, MapTyped, RefreshTyped
<1>6. /\ meta \in Seq(RegistryKinds \X Tokens) /\ royalties \subseteq registry
      /\ pos \in 1..(Len(meta) + 1) /\ doing \in {"idle", "tell", "ack"}
      /\ recent \in Seq(registry) /\ Len(recent) <= MaxRecent /\ faults \in 0..MaxFaults
  BY DEF Typed, MetaTyped, ProcTyped
<1> QED
  BY <1>2, <1>3, <1>4, <1>5, <1>6 DEF TypeOK

\* The types hold at the start.
LEMMA TypedInit == Init => Typed
<1> SUFFICES ASSUME Init PROVE Typed
  OBVIOUS
<1>1. ChainTyped
  <2>1. chain \in Chains /\ chain \in Seq(Seq(Kinds \X Tokens)) /\ height = 0
    BY DiscoveryAssumption DEF Init
  <2> QED
    BY <2>1 DEF ChainTyped
<1>2. ScanTyped
  BY DEF Init, ScanTyped, UnitTyped, Working, Steps
<1>3. MapTyped
  <2>1. Cardinality({}) = 0
    BY FS_EmptySet
  <2> QED
    BY <2>1, DiscoveryAssumption DEF Init, MapTyped
<1>4. EventsTyped /\ RefreshTyped
  BY DEF Init, EventsTyped, RefreshTyped
<1>5. MetaTyped
  BY DEF Init, MetaTyped
<1>6. ProcTyped /\ faults \in 0..MaxFaults
  BY DiscoveryAssumption DEF Init, ProcTyped
<1> QED
  BY <1>1, <1>2, <1>3, <1>4, <1>5, <1>6 DEF Typed

\* A chain that does not grow keeps its logs.
LEMMA ChainKept ==
    ASSUME ChainTyped, UNCHANGED chainVars
    PROVE  ChainTyped' /\ Mined' = Mined /\ Created' = Created
BY DEF ChainTyped, Mined, Created, Named, Logs, Kind, Token, chainVars

\* A block is mined.
LEMMA TypedMine == ASSUME Typed, Mine PROVE Typed'
<1>1. /\ ChainTyped /\ chain' = chain /\ height' = height + 1 /\ height < Len(chain)
      /\ UNCHANGED <<checkpoint, from, head, mapVars, step, blockVars, refreshVars, meta, storeVars,
                     procVars, scanHistory, faults>>
  BY DEF Mine, Typed
<1>2. chain \in Seq(Seq(Kinds \X Tokens)) /\ height \in Nat
  BY <1>1, DiscoveryAssumption DEF ChainTyped
<1>3. ChainTyped'
  BY <1>1, <1>2 DEF ChainTyped
<1>4. 1..height \subseteq 1..height'
  BY <1>1, <1>2
<1>5. Mined \subseteq Mined'
  BY <1>1, <1>4 DEF Mined, Logs
<1>6. Created \subseteq Created'
  BY <1>1, <1>5 DEF Created, Named, Kind, Token
<1>7. ScanTyped'
  <2>1. /\ checkpoint' \in 0..height' /\ from' \in 1..(height' + 1) /\ head' \in 0..height'
        /\ step' \in [Actors -> Steps] /\ unit' \in [Actors -> SUBSET (1..height')]
    BY <1>1, <1>2, <1>4 DEF Typed, ScanTyped, blockVars
  <2>2. \A a \in Actors : UnitTyped(a)'
    BY <1>1, <1>4 DEF Typed, ScanTyped, UnitTyped, blockVars
  <2> QED
    BY <2>1, <2>2 DEF ScanTyped
<1>8. MapTyped' /\ RefreshTyped'
  BY <1>1 DEF Typed, MapTyped, RefreshTyped, mapVars, blockVars, refreshVars, scanHistory, storeVars
<1>9. EventsTyped'
  <2>1. [at : Mined, resolved : BOOLEAN] \subseteq [at : Mined', resolved : BOOLEAN]
    BY <1>5
  <2> QED
    BY <1>1, <2>1 DEF Typed, EventsTyped, blockVars
<1>10. MetaTyped' /\ ProcTyped' /\ faults' \in 0..MaxFaults
  BY <1>1, <1>6 DEF Typed, MetaTyped, ProcTyped, storeVars, procVars
<1> QED
  BY <1>3, <1>7, <1>8, <1>9, <1>10 DEF Typed

\* The scanner's maps and the units do not change while a refresh reads.
LEMMA Selected ==
    ASSUME RefreshTyped, NEW a \in Actors, SelectTokens(a) \/ SelectPools(a), registry' = registry
    PROVE  RefreshTyped'
BY DEF RefreshTyped, SelectTokens, SelectPools

\* Only the await of an actor that has no unit changes.
LEMMA ScanGoes ==
    ASSUME ScanTyped, NEW a \in Actors, NEW s \in Steps \ Working, Goto(a, s),
           UNCHANGED <<chainVars, checkpoint, from, head, unit>>
    PROVE  ScanTyped'
<1>1. step' = [step EXCEPT ![a] = s] /\ step' \in [Actors -> Steps]
  BY DEF ScanTyped, Goto
<1>2. \A b \in Actors : UnitTyped(b)'
  BY <1>1 DEF ScanTyped, UnitTyped, chainVars
<1> QED
  BY <1>1, <1>2 DEF ScanTyped, chainVars

\* A refresh, from its first answer to the new maps.
LEMMA TypedRefresh ==
    ASSUME Typed, NEW a \in Actors,
           \/ a = Main /\ Start
           \/ a \in Activations /\ HeadRefreshes(a)
           \/ SelectOther(a) \/ Replace(a)
    PROVE  Typed'
<1>0. /\ UNCHANGED <<chainVars, checkpoint, from, head, dynamicManagers, blockVars, meta, storeVars,
                     procVars, faults>>
  BY DEF Start, HeadRefreshes, SelectOther, Replace, mapVars, blockVars, storeVars, procVars
<1>1. ChainTyped' /\ Mined' = Mined /\ Created' = Created
  BY <1>0, ChainKept DEF Typed
<1>2. EventsTyped' /\ MetaTyped' /\ ProcTyped' /\ faults' \in 0..MaxFaults
  BY <1>0, <1>1 DEF Typed, EventsTyped, MetaTyped, ProcTyped, blockVars, storeVars, procVars
<1>3. ScanTyped'
  <2>1. \E s \in Steps \ Working : Goto(a, s)
    BY DEF Start, HeadRefreshes, Refresh, SelectOther, Replace, Steps, Working
  <2> QED
    BY <1>0, <2>1, ScanGoes DEF Typed, blockVars
<1>4. registry' = registry
  BY <1>0 DEF storeVars
<1>5. CASE Replace(a)
  <2>1. MapTyped'
    <3>1. knownTokens' = readTokens[a] /\ poolIdToToken' = readPools[a]
      BY <1>5 DEF Replace
    <3>2. registry \subseteq Tokens
      <4>1. ChainTyped /\ 1..height \in SUBSET (1..height)
        BY DEF Typed
      <4>2. Created \subseteq Tokens
        BY <4>1, LogFacts DEF ChainTyped, Created, Named, Mined
      <4> QED
        BY <4>2 DEF Typed, ProcTyped
    <3> QED
      BY <1>0, <3>1, <3>2 DEF Typed, MapTyped, RefreshTyped, blockVars
  <2>2. RefreshTyped'
    BY <1>4, <1>5 DEF Typed, RefreshTyped, Replace
  <2> QED
    BY <1>1, <1>2, <1>3, <2>1, <2>2 DEF Typed
<1>6. CASE ~Replace(a)
  <2>1. SelectTokens(a) \/ SelectPools(a)
    BY <1>6 DEF Start, HeadRefreshes, Refresh, SelectOther
  <2>2. RefreshTyped'
    BY <1>4, <2>1, Selected DEF Typed
  <2>3. MapTyped'
    BY <1>0, <1>6 DEF Typed, MapTyped, Start, HeadRefreshes, SelectOther, mapVars, blockVars
  <2> QED
    BY <1>1, <1>2, <1>3, <2>2, <2>3 DEF Typed
<1> QED
  BY <1>5, <1>6
\* What the actors are at, and what their requests were.
ActorsTyped ==
    /\ step \in [Actors -> Steps] /\ unit \in [Actors -> SUBSET (1..height)]
    /\ \A a \in Actors : UnitTyped(a)
    /\ asked \in [Actors -> SUBSET Tokens] /\ heeded \in [Actors -> SUBSET dynamicManagers]

\* An actor fetches an interval of mined blocks.
LEMMA Fetched ==
    ASSUME ActorsTyped, knownTokens \subseteq Tokens, height \in Nat, NEW a \in Actors,
           NEW i \in 1..height, NEW j \in 1..height, i <= j,
           Fetch(a, i..j), UNCHANGED <<chainVars, mapVars>>
    PROVE  ActorsTyped'
<1>1. /\ step' = [step EXCEPT ![a] = "fetch"] /\ unit' = [unit EXCEPT ![a] = i..j]
      /\ asked' = [asked EXCEPT ![a] = knownTokens]
      /\ heeded' = [heeded EXCEPT ![a] = dynamicManagers]
      /\ height' = height /\ dynamicManagers' = dynamicManagers
  BY DEF Fetch, Goto, chainVars, mapVars
<1>2. i..j \subseteq 1..height /\ i..j # {}
  <2>1. i \in i..j
    OBVIOUS
  <2>2. \A k \in i..j : k \in 1..height
    OBVIOUS
  <2> QED
    BY <2>1, <2>2
<1>3. /\ step' \in [Actors -> Steps] /\ unit' \in [Actors -> SUBSET (1..height)]
      /\ asked' \in [Actors -> SUBSET Tokens] /\ heeded' \in [Actors -> SUBSET dynamicManagers]
  BY <1>1, <1>2 DEF ActorsTyped, Steps
<1>4. \A b \in Actors : UnitTyped(b)'
  BY <1>1, <1>2 DEF ActorsTyped, UnitTyped
<1> QED
  BY <1>1, <1>3, <1>4 DEF ActorsTyped

\* An actor is done.
LEMMA Left ==
    ASSUME ActorsTyped, NEW a \in Actors, Leave(a), UNCHANGED <<chainVars, mapVars>>
    PROVE  ActorsTyped'
<1>1. /\ step' = [step EXCEPT ![a] = "idle"] /\ unit' = [unit EXCEPT ![a] = {}]
      /\ asked' = [asked EXCEPT ![a] = {}] /\ heeded' = [heeded EXCEPT ![a] = {}]
      /\ height' = height /\ dynamicManagers' = dynamicManagers
  BY DEF Leave, Goto, chainVars, mapVars
<1>2. /\ step' \in [Actors -> Steps] /\ unit' \in [Actors -> SUBSET (1..height)]
      /\ asked' \in [Actors -> SUBSET Tokens] /\ heeded' \in [Actors -> SUBSET dynamicManagers]
  BY <1>1 DEF ActorsTyped, Steps
<1>3. \A b \in Actors : UnitTyped(b)'
  BY <1>1 DEF ActorsTyped, UnitTyped, Working
<1> QED
  BY <1>1, <1>2, <1>3 DEF ActorsTyped

\* start() goes on with a batch or is done.
LEMMA BatchNext ==
    ASSUME ActorsTyped, knownTokens \subseteq Tokens, height \in Nat, NEW n \in Nat \ {0},
           head' \in 0..height, NextBatch(n), UNCHANGED <<chainVars, mapVars>>
    PROVE  ActorsTyped'
<1>1. Main \in Actors
  BY DEF Actors
<1>2. CASE n <= head'
  <2> DEFINE j == IF n + BatchSize - 1 < head' THEN n + BatchSize - 1 ELSE head'
  <2>1. n \in 1..height /\ j \in 1..height /\ n <= j
    BY <1>2, DiscoveryAssumption
  <2>2. Fetch(Main, n..j)
    BY <1>2 DEF NextBatch
  <2> HIDE DEF j
  <2> QED
    BY <1>1, <2>1, <2>2, Fetched
<1>3. CASE ~(n <= head')
  BY <1>1, <1>3, Left DEF NextBatch
<1> QED
  BY <1>2, <1>3

\* The checkpoint a unit leads to.
LEMMA LastTyped ==
    ASSUME height \in Nat, NEW a \in Actors, UnitTyped(a), unit[a] # {}
    PROVE  LastBlock(unit[a]) \in unit[a] /\ LastBlock(unit[a]) \in 1..height
<1>1. PICK i, j \in 1..height : i <= j /\ unit[a] = i..j
  BY DEF UnitTyped
<1>2. j \in unit[a] /\ \A m \in unit[a] : m <= j
  BY <1>1
<1>3. LastBlock(unit[a]) \in unit[a]
  BY <1>2 DEF LastBlock
<1> QED
  BY <1>1, <1>3

\* A block is taken, or the batch that start() begins with.
LEMMA TypedTake ==
    ASSUME Typed, CatchUp \/ \E a \in Activations, n \in 1..height : TakeBlock(a, n)
    PROVE  Typed'
<1>0. UNCHANGED <<chainVars, checkpoint, mapVars, extra, events, refreshVars, meta, storeVars, procVars,
                  processed, base, missed, behind, faults>>
  BY DEF CatchUp, TakeBlock
<1>1. ChainTyped' /\ Mined' = Mined /\ Created' = Created /\ height' = height
  BY <1>0, ChainKept DEF Typed, chainVars
<1>2. EventsTyped' /\ RefreshTyped' /\ MetaTyped' /\ ProcTyped' /\ faults' \in 0..MaxFaults
  BY <1>0, <1>1 DEF Typed, EventsTyped, RefreshTyped, MetaTyped, ProcTyped, refreshVars, storeVars, procVars
<1>3. ActorsTyped /\ knownTokens \subseteq Tokens /\ height \in Nat
  BY DiscoveryAssumption DEF Typed, ActorsTyped, ScanTyped, MapTyped, ChainTyped
<1>4. ActorsTyped' /\ from' \in 1..(height + 1) /\ head' \in 0..height
  <2>1. CASE CatchUp
    <3>1. head' = height /\ checkpoint \in 0..height /\ Main \in Actors
      BY <2>1 DEF CatchUp, Typed, ScanTyped, Actors
    <3>2. CASE checkpoint + 1 < height
      BY <1>0, <1>3, <2>1, <3>1, <3>2, BatchNext DEF CatchUp
    <3>3. CASE ~(checkpoint + 1 < height)
      BY <1>0, <1>3, <2>1, <3>1, <3>3, Left DEF CatchUp
    <3> QED
      BY <3>2, <3>3
  <2>2. ASSUME NEW a \in Activations, NEW n \in 1..height, TakeBlock(a, n)
        PROVE  ActorsTyped' /\ from' \in 1..(height + 1) /\ head' \in 0..height
    <3>1. a \in Actors /\ n..n = {n} /\ n <= n
      BY <1>3 DEF Actors
    <3>2. Fetch(a, n..n) /\ UNCHANGED <<from, head>>
      BY <2>2, <3>1 DEF TakeBlock
    <3>3. ActorsTyped'
      BY <1>0, <1>3, <3>1, <3>2, Fetched
    <3> QED
      BY <3>2, <3>3 DEF Typed, ScanTyped
  <2> QED
    BY <2>1, <2>2
<1>5. ScanTyped' /\ MapTyped'
  BY <1>0, <1>1, <1>4 DEF Typed, ActorsTyped, ScanTyped, MapTyped, mapVars
<1> QED
  BY <1>1, <1>2, <1>5 DEF Typed

\* The block or batch has been processed.
LEMMA TypedFinish == ASSUME Typed, NEW a \in Actors, Finish(a) PROVE Typed'
<1>0. /\ UNCHANGED <<chainVars, head, from, mapVars, events, refreshVars, meta, storeVars, procVars, base,
                     missed, behind, faults>>
      /\ step[a] = "checkpoint" /\ checkpoint' = LastBlock(unit[a])
      /\ extra' = [extra EXCEPT ![a] = {}]
  BY DEF Finish
<1>1. ChainTyped' /\ Mined' = Mined /\ Created' = Created /\ height' = height
  BY <1>0, ChainKept DEF Typed, chainVars
<1>2. EventsTyped' /\ RefreshTyped' /\ MetaTyped' /\ ProcTyped' /\ faults' \in 0..MaxFaults
  BY <1>0, <1>1 DEF Typed, EventsTyped, RefreshTyped, MetaTyped, ProcTyped, refreshVars, storeVars, procVars
<1>3. ActorsTyped /\ knownTokens \subseteq Tokens /\ height \in Nat
  BY DiscoveryAssumption DEF Typed, ActorsTyped, ScanTyped, MapTyped, ChainTyped
<1>4. checkpoint' \in 1..height
  <2>1. UnitTyped(a) /\ unit[a] # {}
    BY <1>0, <1>3 DEF ActorsTyped, UnitTyped, Working
  <2> QED
    BY <1>0, <1>3, <2>1, LastTyped
<1>5. ActorsTyped'
  <2>1. CASE a = Main
    <3>1. NextBatch(checkpoint' + 1)
      BY <2>1 DEF Finish
    <3>2. checkpoint' + 1 \in Nat \ {0} /\ head' \in 0..height
      BY <1>0, <1>4 DEF Typed, ScanTyped
    <3> QED
      BY <1>0, <1>3, <3>1, <3>2, BatchNext
  <2>2. CASE a # Main
    BY <1>0, <1>3, <2>2, Left DEF Finish
  <2> QED
    BY <2>1, <2>2
<1>6. ScanTyped'
  BY <1>0, <1>1, <1>4, <1>5 DEF Typed, ActorsTyped, ScanTyped
<1>7. MapTyped'
  BY <1>0, <1>5 DEF Typed, ActorsTyped, MapTyped, mapVars
<1> QED
  BY <1>1, <1>2, <1>6, <1>7 DEF Typed
\* What getLogs finds is of the unit's blocks, and names tokens.
LEMMA FoundFacts ==
    ASSUME ChainTyped, ScanTyped, NEW a \in Actors, NEW A
    PROVE  /\ Found(a, A) \subseteq Logs(unit[a]) /\ Found(a, A) \subseteq Mined
           /\ \A k : Named(k, Found(a, A)) \subseteq Tokens
           /\ \A p \in Found(a, A) : Kind(p) \in Kinds /\ Token(p) \in Tokens
<1>1. unit[a] \in SUBSET (1..height)
  BY DEF ScanTyped
<1>2. /\ \A p \in Logs(unit[a]) : Kind(p) \in Kinds /\ Token(p) \in Tokens
      /\ Logs(unit[a]) \subseteq Mined
  BY <1>1, LogFacts DEF ChainTyped, Mined
<1> QED
  BY <1>2 DEF Found, Named

\* Decoding makes events of logs.
LEMMA DecodeTyped ==
    ASSUME NEW L, NEW P, NEW M, NEW T
    PROVE  Decode(L, P, M, T) \subseteq [at : L, resolved : BOOLEAN]
<1> DEFINE R(p) == Kind(p) \in PoolKinds =>
                     Token(p) \in P \cup Named("PoolCreated", {q \in L : Before(q, p)})
<1>1. \A p : R(p) \in BOOLEAN
  BY Zenon
<1>2. Decode(L, P, M, T) \subseteq {[at |-> p, resolved |-> R(p)] : p \in L}
  BY Zenon DEF Decode
<1> HIDE DEF R
<1> QED
  BY <1>1, <1>2

\* An actor that works goes on working.
LEMMA ScanWorks ==
    ASSUME ScanTyped, NEW a \in Actors, NEW s \in Working, Goto(a, s), step[a] \in Working,
           UNCHANGED <<chainVars, checkpoint, from, head, unit>>
    PROVE  ScanTyped'
<1>1. step' = [step EXCEPT ![a] = s] /\ step' \in [Actors -> Steps]
  BY DEF ScanTyped, Goto, Working, Steps
<1>2. \A b \in Actors : UnitTyped(b)'
  BY <1>1 DEF ScanTyped, UnitTyped, chainVars
<1> QED
  BY <1>1, <1>2 DEF ScanTyped, chainVars

\* The passes over the logs.
LEMMA TypedPass == ASSUME Typed, NEW a \in Actors, FirstPass(a) \/ SecondPass(a) PROVE Typed'
<1>0. UNCHANGED <<chainVars, checkpoint, from, head, unit, asked, heeded, refreshVars, meta, storeVars,
                  procVars, scanHistory, faults>>
  BY DEF FirstPass, SecondPass, scanHistory
<1>1. ChainTyped' /\ Mined' = Mined /\ Created' = Created
  BY <1>0, ChainKept DEF Typed
<1>2. RefreshTyped' /\ MetaTyped' /\ ProcTyped' /\ faults' \in 0..MaxFaults
  BY <1>0, <1>1 DEF Typed, RefreshTyped, MetaTyped, ProcTyped, refreshVars, storeVars, procVars, scanHistory
<1>3. ScanTyped'
  <2>1. step[a] \in Working /\ \E s \in Working : Goto(a, s)
    BY DEF FirstPass, SecondPass, Working
  <2> QED
    BY <1>0, <2>1, ScanWorks DEF Typed
<1>4. \A A : /\ Found(a, A) \subseteq Mined /\ \A k : Named(k, Found(a, A)) \subseteq Tokens
  BY FoundFacts DEF Typed
<1>5. \A L, P, M, T : L \subseteq Mined => Decode(L, P, M, T) \subseteq [at : Mined, resolved : BOOLEAN]
  BY DecodeTyped
<1>6. CASE FirstPass(a)
  <2> DEFINE L == Found(a, asked[a])
             created == Named("PoolCreated", L)
             deployed == Named("ManagerDeployed", L)
  <2>1. /\ poolIdToToken' = poolIdToToken \cup created
        /\ AddManagers(deployed) /\ AddTokens(created)
        /\ extra' = [extra EXCEPT ![a] = knownTokens' \ asked[a]]
        /\ \/ UNCHANGED events
           \/ events' = [events EXCEPT ![a] = Decode(L, poolIdToToken', dynamicManagers', knownTokens')]
    BY <1>6 DEF FirstPass
  <2>2. L \subseteq Mined /\ created \subseteq Tokens /\ deployed \subseteq Tokens
    BY <1>4
  <2> HIDE DEF L, created, deployed
  <2>3. knownTokens' \subseteq Tokens
    BY <2>1, <2>2 DEF AddTokens, Typed, MapTyped
  <2>4. /\ dynamicManagers \subseteq dynamicManagers' /\ dynamicManagers' \subseteq Tokens
        /\ Cardinality(dynamicManagers') <= MaxManagers
    BY <2>1, <2>2 DEF AddManagers, Typed, MapTyped
  <2>5. MapTyped'
    <3>1. heeded' \in [Actors -> SUBSET dynamicManagers']
      BY <1>0, <2>4 DEF Typed, MapTyped
    <3> QED
      BY <1>0, <2>1, <2>2, <2>3, <2>4, <3>1 DEF Typed, MapTyped
  <2>6. EventsTyped'
    BY <1>1, <1>5, <2>1, <2>2 DEF Typed, EventsTyped
  <2> QED
    BY <1>1, <1>2, <1>3, <2>5, <2>6 DEF Typed
<1>7. CASE SecondPass(a)
  <2> DEFINE L == Found(a, asked[a] \cup extra[a])
  <2>1. /\ poolIdToToken' = poolIdToToken \cup Named("PoolCreated", L)
        /\ events' = [events EXCEPT ![a] = Decode(L, poolIdToToken, dynamicManagers, knownTokens)]
        /\ UNCHANGED <<knownTokens, dynamicManagers, extra>>
    BY <1>7 DEF SecondPass
  <2>2. L \subseteq Mined /\ Named("PoolCreated", L) \subseteq Tokens
    BY <1>4
  <2> HIDE DEF L
  <2>3. MapTyped'
    BY <1>0, <2>1, <2>2 DEF Typed, MapTyped
  <2>4. EventsTyped'
    BY <1>1, <1>5, <2>1, <2>2 DEF Typed, EventsTyped
  <2> QED
    BY <1>1, <1>2, <1>3, <2>3, <2>4 DEF Typed
<1> QED
  BY <1>6, <1>7

\* The entries that logs in an order become, and the logs of the events E that
\* become entries.
Entries(order) == [i \in DOMAIN order |-> <<Kind(order[i]), Token(order[i])>>]
\* What a publication adds to the registry stream.
ToMeta(E) == {e.at : e \in {x \in E : Kind(x.at) \in RegistryKinds}}

\* A publication appends entries of the registry's kinds, of mined logs.
LEMMA Published ==
    ASSUME Typed, NEW a \in Actors, Publish(a)
    PROVE  \E new \in Seq(RegistryKinds \X Tokens) :
              /\ meta' = meta \o new
              /\ \A i \in DOMAIN new : new[i][1] = "PoolCreated" => new[i][2] \in Created
<1> DEFINE S == ToMeta(events[a])
<1>1. PICK order \in InOrder(a, S) : meta' = meta \o Entries(order)
  BY DEF Publish, ToMeta, Entries
<1>2. \A p \in S : p \in Mined /\ Kind(p) \in RegistryKinds
  BY DEF Typed, EventsTyped, ToMeta
<1>3. /\ \A p \in Mined : Kind(p) \in Kinds /\ Token(p) \in Tokens
      /\ IsFiniteSet(Mined)
  <2>1. 1..height \in SUBSET (1..height)
    OBVIOUS
  <2> QED
    BY <2>1, LogFacts DEF Typed, ChainTyped, Mined
<1>4. Cardinality(S) \in Nat
  <2>1. S \in SUBSET Mined
    BY <1>2
  <2>2. IsFiniteSet(S)
    BY <1>3, <2>1, FS_Subset
  <2> QED
    BY <2>2, FS_CardinalityType
<1> HIDE DEF S
<1>5. order \in [1..Cardinality(S) -> S]
  BY DEF InOrder, SetToSeqs
<1> DEFINE new == Entries(order)
<1>6. new \in [1..Cardinality(S) -> RegistryKinds \X Tokens]
  BY <1>2, <1>3, <1>5 DEF Entries
<1>7. new \in Seq(RegistryKinds \X Tokens)
  BY <1>4, <1>6
<1>8. \A i \in DOMAIN new : new[i][1] = "PoolCreated" => new[i][2] \in Created
  <2> SUFFICES ASSUME NEW i \in DOMAIN new, new[i][1] = "PoolCreated" PROVE new[i][2] \in Created
    OBVIOUS
  <2>1. i \in 1..Cardinality(S) /\ new[i] = <<Kind(order[i]), Token(order[i])>> /\ order[i] \in Mined
    BY <1>2, <1>5, <1>6 DEF Entries
  <2> QED
    BY <2>1 DEF Created, Named
<1> QED
  BY <1>1, <1>7, <1>8

\* The block's events are published.
LEMMA TypedPublish == ASSUME Typed, NEW a \in Actors, Publish(a) PROVE Typed'
<1>0. /\ UNCHANGED <<chainVars, checkpoint, from, head, mapVars, unit, asked, heeded, extra, refreshVars,
                     storeVars, procVars, scanHistory, faults>>
      /\ events' = [events EXCEPT ![a] = {}]
  BY DEF Publish
<1>1. ChainTyped' /\ Mined' = Mined /\ Created' = Created
  BY <1>0, ChainKept DEF Typed
<1>2. RefreshTyped' /\ MapTyped' /\ EventsTyped' /\ faults' \in 0..MaxFaults
  BY <1>0, <1>1 DEF Typed, RefreshTyped, MapTyped, EventsTyped, refreshVars, storeVars, mapVars, scanHistory
<1>3. ScanTyped'
  <2>1. step[a] \in Working /\ "checkpoint" \in Working /\ Goto(a, "checkpoint")
    BY DEF Publish, Working
  <2> QED
    BY <1>0, <2>1, ScanWorks DEF Typed
<1>4. PICK new \in Seq(RegistryKinds \X Tokens) :
          /\ meta' = meta \o new
          /\ \A i \in DOMAIN new : new[i][1] = "PoolCreated" => new[i][2] \in Created
  BY Published
<1>5. meta \in Seq(RegistryKinds \X Tokens)
  BY DEF Typed, MetaTyped
<1>6. /\ meta' \in Seq(RegistryKinds \X Tokens) /\ Len(meta') >= Len(meta)
      /\ \A i \in 1..Len(meta) : meta'[i] = meta[i]
      /\ \A i \in 1..Len(meta') : i > Len(meta) => i - Len(meta) \in DOMAIN new /\ meta'[i] = new[i - Len(meta)]
  BY <1>4, <1>5
<1>7. MetaTyped'
  <2>1. ASSUME NEW i \in DOMAIN meta', meta'[i][1] = "PoolCreated" PROVE meta'[i][2] \in Created
    <3>1. CASE i <= Len(meta)
      BY <1>5, <1>6, <2>1, <3>1 DEF Typed, MetaTyped
    <3>2. CASE i > Len(meta)
      BY <1>4, <1>6, <2>1, <3>2
    <3> QED
      BY <1>5, <1>6, <3>1, <3>2
  <2> QED
    BY <1>1, <1>6, <2>1 DEF MetaTyped
<1>8. ProcTyped'
  <2>1. UNCHANGED <<registry, royalties, pos, doing, recent>>
    BY <1>0 DEF storeVars, procVars
  <2>2. pos' \in 1..(Len(meta') + 1) /\ (doing # "idle" => pos <= Len(meta'))
    BY <1>5, <1>6, <2>1 DEF Typed, ProcTyped
  <2>3. doing = "tell" => meta'[pos] = meta[pos]
    BY <1>6 DEF Typed, ProcTyped
  <2> QED
    BY <1>1, <2>1, <2>2, <2>3 DEF Typed, ProcTyped
<1> QED
  BY <1>1, <1>2, <1>3, <1>7, <1>8 DEF Typed
\* The scanner dies.
LEMMA TypedCrash == ASSUME Typed, Crash PROVE Typed'
<1>0. /\ UNCHANGED <<chainVars, checkpoint, from, head, meta, storeVars, procVars, processed, base, behind>>
      /\ faults < MaxFaults /\ faults' = faults + 1
  BY DEF Crash
<1>1. ChainTyped' /\ Mined' = Mined /\ Created' = Created
  BY <1>0, ChainKept DEF Typed
<1>2. MetaTyped' /\ ProcTyped' /\ faults' \in 0..MaxFaults
  BY <1>0, <1>1, DiscoveryAssumption DEF Typed, MetaTyped, ProcTyped, storeVars, procVars
<1>3. MapTyped'
  <2>1. Cardinality({}) = 0
    BY FS_EmptySet
  <2> QED
    BY <2>1, DiscoveryAssumption DEF Crash, MapTyped
<1>4. EventsTyped' /\ RefreshTyped'
  BY DEF Crash, EventsTyped, RefreshTyped
<1>5. ScanTyped'
  <2>1. /\ step' = [a \in Actors |-> IF a = Main THEN "down" ELSE "idle"]
        /\ unit' = [a \in Actors |-> {}]
    BY DEF Crash
  <2>2. \A a \in Actors : UnitTyped(a)'
    BY <2>1 DEF UnitTyped, Working
  <2> QED
    BY <1>0, <2>1, <2>2 DEF Typed, ScanTyped, Steps, chainVars
<1> QED
  BY <1>1, <1>2, <1>3, <1>4, <1>5 DEF Typed

\* Remembering a token keeps the map's keys, and the last of them is the new
\* one if it is new.
LEMMA RememberedSeq ==
    ASSUME NEW T, NEW s \in Seq(T), NEW t \in T
    PROVE  /\ Remembered(s, t) \in Seq(T)
           /\ Len(Remembered(s, t)) \in {Len(s), Len(s) + 1}
           /\ ToSet(Remembered(s, t)) = ToSet(s) \cup {t}
<1>1. CASE \E i \in DOMAIN s : s[i] = t
  BY <1>1 DEF Remembered, ToSet
<1>2. CASE ~ \E i \in DOMAIN s : s[i] = t
  <2>1. Remembered(s, t) = Append(s, t)
    BY <1>2 DEF Remembered
  <2>2. /\ Append(s, t) \in Seq(T) /\ Len(Append(s, t)) = Len(s) + 1
        /\ DOMAIN Append(s, t) = 1..(Len(s) + 1) /\ Append(s, t)[Len(s) + 1] = t
        /\ \A i \in 1..Len(s) : Append(s, t)[i] = s[i]
    OBVIOUS
  <2>3. ToSet(Append(s, t)) = ToSet(s) \cup {t}
    BY <2>2 DEF ToSet
  <2> QED
    BY <2>1, <2>2, <2>3
<1> QED
  BY <1>1, <1>2

\* Without its first element, a sequence has the others.
LEMMA TailOf ==
    ASSUME NEW T, NEW s \in Seq(T), s # <<>>
    PROVE  /\ Tail(s) \in Seq(T) /\ Len(Tail(s)) = Len(s) - 1
           /\ ToSet(s) \subseteq ToSet(Tail(s)) \cup {Head(s)}
<1>1. /\ Len(s) \in Nat \ {0} /\ Tail(s) \in Seq(T) /\ Len(Tail(s)) = Len(s) - 1
      /\ DOMAIN s = 1..Len(s) /\ DOMAIN Tail(s) = 1..(Len(s) - 1)
      /\ \A i \in 1..(Len(s) - 1) : Tail(s)[i] = s[i + 1]
  OBVIOUS
<1>2. ASSUME NEW i \in DOMAIN s PROVE s[i] \in ToSet(Tail(s)) \cup {Head(s)}
  <2>1. CASE i = 1
    BY <2>1
  <2>2. CASE i # 1
    <3>1. i - 1 \in 1..(Len(s) - 1) /\ (i - 1) + 1 = i
      BY <1>1, <2>2
    <3> QED
      BY <1>1, <3>1 DEF ToSet
  <2> QED
    BY <2>1, <2>2
<1> QED
  BY <1>1, <1>2 DEF ToSet

\* The map after a creation, and what fell out of it.
LEMMA Told ==
    ASSUME Typed, TellAndRemember
    PROVE  /\ recent' \in Seq(registry) /\ Len(recent') <= MaxRecent
           /\ ToSet(recent) \cup {Entry[2]} \cup unlinked \subseteq ToSet(recent') \cup unlinked'
           /\ unlinked \subseteq unlinked'
<1> DEFINE all == Remembered(recent, Entry[2])
<1>1. /\ recent' = IF Len(all) > MaxRecent THEN Tail(all) ELSE all
      /\ unlinked' = unlinked \cup (IF Len(all) > MaxRecent THEN {Head(all)} ELSE {})
  BY DEF TellAndRemember
<1>2. recent \in Seq(registry) /\ Len(recent) <= MaxRecent /\ Entry[2] \in registry /\ MaxRecent \in Nat
  BY DiscoveryAssumption DEF Typed, ProcTyped, TellAndRemember, Entry
<1>3. /\ all \in Seq(registry) /\ Len(all) \in {Len(recent), Len(recent) + 1}
      /\ ToSet(all) = ToSet(recent) \cup {Entry[2]}
  BY <1>2, RememberedSeq
<1> HIDE DEF all
<1>4. CASE Len(all) > MaxRecent
  <2>1. all # <<>>
    BY <1>2, <1>3, <1>4
  <2>2. /\ Tail(all) \in Seq(registry) /\ Len(Tail(all)) = Len(all) - 1
        /\ ToSet(all) \subseteq ToSet(Tail(all)) \cup {Head(all)}
    BY <1>3, <2>1, TailOf
  <2>3. recent' = Tail(all) /\ unlinked' = unlinked \cup {Head(all)}
    BY <1>1, <1>4
  <2>4. Len(Tail(all)) <= MaxRecent
    <3>1. Len(recent) \in Nat /\ Len(all) <= Len(recent) + 1 /\ Len(all) \in Nat
      BY <1>2, <1>3
    <3> QED
      BY <1>2, <2>2, <3>1
  <2> QED
    BY <1>3, <2>1, <2>2, <2>3, <2>4
<1>5. CASE ~(Len(all) > MaxRecent)
  BY <1>1, <1>2, <1>3, <1>5
<1> QED
  BY <1>4, <1>5

\* The token processor.
LEMMA TypedProcess ==
    ASSUME Typed, Process \/ AttemptFails \/ \E n \in 1..(Len(meta) + 1) : ProcessorRestarts(n)
    PROVE  Typed'
<1>0. UNCHANGED <<Unscanned, meta>>
  BY DEF Process, RegisterToken, TellAndRemember, StoreRoyalties, Ack, AttemptFails, ProcessorRestarts
<1>1. ChainTyped' /\ Mined' = Mined /\ Created' = Created
  BY <1>0, ChainKept DEF Typed, Unscanned
<1>2. ScanTyped' /\ MapTyped' /\ EventsTyped' /\ MetaTyped'
  BY <1>0, <1>1 DEF Typed, ScanTyped, UnitTyped, MapTyped, EventsTyped, MetaTyped, Unscanned, mapVars,
                    blockVars, chainVars
<1>3. faults' \in 0..MaxFaults
  BY DiscoveryAssumption DEF Typed, Process, RegisterToken, TellAndRemember, StoreRoyalties, Ack,
                             AttemptFails, ProcessorRestarts
<1>4. registry \subseteq registry'
  BY DEF Process, RegisterToken, TellAndRemember, StoreRoyalties, Ack, AttemptFails, ProcessorRestarts, storeVars
<1>5. RefreshTyped'
  BY <1>0, <1>4 DEF Typed, RefreshTyped, Unscanned, refreshVars, scanHistory
<1>6. Len(meta) \in Nat /\ DOMAIN meta = 1..Len(meta)
  BY DEF Typed, MetaTyped
<1> USE <1>0, <1>1, <1>6
<1>7. ProcTyped'
  <2>1. CASE RegisterToken
    <3>1. /\ pos <= Len(meta) /\ meta[pos][1] = "PoolCreated" /\ registry' = registry \cup {meta[pos][2]}
          /\ doing' = "tell" /\ UNCHANGED <<royalties, pos, recent>>
      BY <2>1 DEF RegisterToken, Entry, Await
    <3>2. pos \in DOMAIN meta
      BY <3>1 DEF Typed, ProcTyped
    <3>3. meta[pos][2] \in Created
      BY <3>1, <3>2 DEF Typed, MetaTyped
    <3>4. recent' \in Seq(registry')
      BY <1>4, <3>1 DEF Typed, ProcTyped
    <3> QED
      BY <3>1, <3>3, <3>4 DEF Typed, ProcTyped
  <2>2. CASE TellAndRemember
    <3>1. recent' \in Seq(registry) /\ Len(recent') <= MaxRecent
      BY <2>2, Told
    <3>2. doing = "tell" /\ doing' = "ack" /\ UNCHANGED <<registry, royalties, pos>>
      BY <2>2 DEF TellAndRemember, Await, storeVars
    <3> QED
      BY <3>1, <3>2 DEF Typed, ProcTyped
  <2>3. CASE StoreRoyalties
    <3>1. /\ pos <= Len(meta) /\ royalties' = royalties \cup ({Entry[2]} \cap ToSet(recent))
          /\ doing' = "ack" /\ UNCHANGED <<registry, pos, recent>>
      BY <2>3 DEF StoreRoyalties, Await
    <3>2. ToSet(recent) \subseteq registry
      BY DEF Typed, ProcTyped, ToSet
    <3> QED
      BY <3>1, <3>2 DEF Typed, ProcTyped
  <2>4. CASE Ack
    BY <2>4 DEF Typed, ProcTyped, Ack, Await, storeVars
  <2>5. CASE AttemptFails
    BY <2>5 DEF Typed, ProcTyped, AttemptFails, Await, storeVars
  <2>6. ASSUME NEW n \in 1..(Len(meta) + 1), ProcessorRestarts(n) PROVE ProcTyped'
    BY <2>6, DiscoveryAssumption DEF Typed, ProcTyped, ProcessorRestarts, Await, storeVars
  <2> QED
    BY <2>1, <2>2, <2>3, <2>4, <2>5, <2>6 DEF Process
<1> QED
  BY <1>1, <1>2, <1>3, <1>5, <1>7 DEF Typed

\* Every step keeps the types.
LEMMA TypedStep == Typed /\ [Next]_vars => Typed'
<1> SUFFICES ASSUME Typed, [Next]_vars PROVE Typed'
  OBVIOUS
<1>1. Main \in Actors /\ Activations \subseteq Actors
  BY DEF Actors
<1>2. CASE Next
  <2>1. CASE Mine
    BY <2>1, TypedMine
  <2>2. CASE Start
    BY <1>1, <2>2, TypedRefresh
  <2>3. CASE CatchUp \/ \E a \in Activations, n \in 1..height : TakeBlock(a, n)
    BY <2>3, TypedTake
  <2>4. ASSUME NEW a \in Activations, HeadRefreshes(a) PROVE Typed'
    BY <1>1, <2>4, TypedRefresh
  <2>5. ASSUME NEW a \in Actors, Scan(a) PROVE Typed'
    BY <2>5, TypedRefresh, TypedPass, TypedPublish, TypedFinish DEF Scan
  <2>6. CASE Crash
    BY <2>6, TypedCrash
  <2>7. CASE Process \/ AttemptFails \/ \E n \in 1..(Len(meta) + 1) : ProcessorRestarts(n)
    BY <2>7, TypedProcess
  <2> QED
    BY <1>2, <2>1, <2>2, <2>3, <2>4, <2>5, <2>6, <2>7 DEF Next
<1>3. CASE UNCHANGED vars
  <2>1. UNCHANGED chainVars /\ UNCHANGED <<Unscanned, meta, storeVars, procVars, faults>>
    BY <1>3 DEF vars, Unscanned
  <2>2. ChainTyped' /\ Mined' = Mined /\ Created' = Created
    BY <2>1, ChainKept DEF Typed
  <2>3. ScanTyped' /\ MapTyped' /\ EventsTyped' /\ RefreshTyped'
    BY <2>1, <2>2 DEF Typed, ScanTyped, UnitTyped, MapTyped, EventsTyped, RefreshTyped, Unscanned, mapVars,
                      blockVars, refreshVars, storeVars, scanHistory, chainVars
  <2>4. MetaTyped' /\ ProcTyped' /\ faults' \in 0..MaxFaults
    BY <2>1, <2>2 DEF Typed, MetaTyped, ProcTyped, storeVars, procVars
  <2> QED
    BY <2>2, <2>3, <2>4 DEF Typed
<1> QED
  BY <1>2, <1>3

\* TypeOK: the variables of the scanner's maps, of its refreshes and of the
\* token processor keep their types, in particular dynamicManagers and
\* recentTxTokens stay within their caps.
THEOREM TypeCorrect == Spec => []TypeOK
<1>1. Init => Typed
  BY TypedInit
<1>2. Typed /\ [Next]_vars => Typed'
  BY TypedStep
<1>3. Typed => TypeOK
  BY TypedImplies
<1> QED
  BY <1>1, <1>2, <1>3, PTL DEF Spec
-----------------------------------------------------------------------------
(* Fee splits.                                                             *)

\* A creation handled and not abandoned is remembered, or was.
Linked(i) == meta[i][1] = "PoolCreated" => meta[i][2] \in ToSet(recent) \cup unlinked

\* What the property says of entry i.
Explained(i) ==
    meta[i][1] = "FeeSplit" =>
        \/ meta[i][2] \in royalties \cup unlinked
        \/ i \in abandoned
        \/ \A j \in 1..(i - 1) : meta[j] = <<"PoolCreated", meta[i][2]>> => j \in abandoned

\* The invariant behind RoyaltiesExplained.
RoyaltyInv ==
    /\ \A i \in 1..(pos - 1) : (i \in abandoned \/ Linked(i)) /\ Explained(i)
    /\ doing = "ack" => Linked(pos) /\ Explained(pos)

\* A publication keeps the entries there are.
LEMMA MetaGrows ==
    ASSUME Typed, NEW a \in Actors, Publish(a)
    PROVE  \A i \in 1..Len(meta) : meta'[i] = meta[i]
<1>1. PICK new \in Seq(RegistryKinds \X Tokens) : meta' = meta \o new
  BY Published
<1>2. meta \in Seq(RegistryKinds \X Tokens)
  BY DEF Typed, MetaTyped
<1> QED
  BY <1>1, <1>2

\* What is linked or explained stays so, as long as the entries stay and
\* whatever leaves recentTxTokens is noted.
LEMMA RoyaltyKept ==
    ASSUME NEW i \in Nat, \A j \in 1..i : meta'[j] = meta[j],
           ToSet(recent) \cup unlinked \subseteq ToSet(recent') \cup unlinked',
           unlinked \subseteq unlinked', royalties \subseteq royalties', abandoned \subseteq abandoned',
           i # 0
    PROVE  (Linked(i) => Linked(i)') /\ (Explained(i) => Explained(i)')
<1>1. i \in 1..i /\ 1..(i - 1) \subseteq 1..i
  OBVIOUS
<1>2. Linked(i) => Linked(i)'
  BY <1>1 DEF Linked
<1>3. Explained(i) => Explained(i)'
  BY <1>1 DEF Explained
<1> QED
  BY <1>2, <1>3

\* Every step keeps the fee splits explained.
LEMMA RoyaltyStep == Typed /\ RoyaltyInv /\ [Next]_vars => RoyaltyInv'
<1> SUFFICES ASSUME Typed, RoyaltyInv, [Next]_vars PROVE RoyaltyInv'
  OBVIOUS
<1>0. /\ Len(meta) \in Nat /\ pos \in 1..(Len(meta) + 1) /\ doing \in {"idle", "tell", "ack"}
      /\ (doing # "idle" => pos <= Len(meta))
      /\ (doing = "tell" => meta[pos][1] = "PoolCreated")
      /\ meta \in Seq(RegistryKinds \X Tokens)
  BY DEF Typed, MetaTyped, ProcTyped
<1>1. CASE UNCHANGED procVars /\ UNCHANGED storeVars /\ \A i \in 1..Len(meta) : meta'[i] = meta[i]
  <2>1. UNCHANGED <<pos, doing, recent, unlinked, abandoned, royalties>>
    BY <1>1 DEF procVars, storeVars
  <2>2. \A i \in 1..Len(meta) : (Linked(i) => Linked(i)') /\ (Explained(i) => Explained(i)')
    BY <1>0, <1>1, <2>1, RoyaltyKept
  <2> QED
    BY <1>0, <2>1, <2>2 DEF RoyaltyInv
<1>2. CASE Process \/ AttemptFails \/ \E n \in 1..(Len(meta) + 1) : ProcessorRestarts(n)
  <2>1. /\ ToSet(recent) \cup unlinked \subseteq ToSet(recent') \cup unlinked'
        /\ unlinked \subseteq unlinked'
    <3>1. CASE TellAndRemember
      BY <3>1, Told
    <3>2. CASE RegisterToken \/ StoreRoyalties \/ Ack \/ AttemptFails
      BY <3>2 DEF RegisterToken, StoreRoyalties, Ack, AttemptFails
    <3>3. CASE \E n \in 1..(Len(meta) + 1) : ProcessorRestarts(n)
      BY <3>3 DEF ProcessorRestarts
    <3> QED
      BY <1>2, <3>1, <3>2, <3>3 DEF Process
  <2>2. royalties \subseteq royalties' /\ abandoned \subseteq abandoned' /\ meta' = meta
    BY <1>2 DEF Process, RegisterToken, TellAndRemember, StoreRoyalties, Ack, AttemptFails, ProcessorRestarts,
               storeVars
  <2>3. \A i \in 1..Len(meta) : (Linked(i) => Linked(i)') /\ (Explained(i) => Explained(i)')
    BY <1>0, <2>1, <2>2, RoyaltyKept
  <2>4. \A i \in 1..(pos - 1) : (i \in abandoned' \/ Linked(i)') /\ Explained(i)'
    BY <1>0, <2>2, <2>3 DEF RoyaltyInv
  <2>5. CASE RegisterToken
    BY <2>4, <2>5 DEF RoyaltyInv, RegisterToken, Await
  <2>6. CASE TellAndRemember
    <3>1. Linked(pos)' /\ Explained(pos)'
      <4>1. meta'[pos'][1] = "PoolCreated" /\ meta'[pos'][2] = Entry[2]
        BY <1>0, <2>2, <2>6 DEF TellAndRemember, Entry
      <4>2. Entry[2] \in ToSet(recent') \cup unlinked'
        BY <2>6, Told
      <4> QED
        BY <4>1, <4>2 DEF Linked, Explained
    <3> QED
      BY <2>4, <2>6, <3>1 DEF RoyaltyInv, TellAndRemember
  <2>7. CASE StoreRoyalties
    <3>1. /\ pos <= Len(meta) /\ meta[pos][1] = "FeeSplit" /\ UNCHANGED <<meta, pos, recent, unlinked, abandoned>>
          /\ royalties' = royalties \cup ({meta[pos][2]} \cap ToSet(recent))
      BY <2>7 DEF StoreRoyalties, Entry
    <3>2. Linked(pos)'
      BY <3>1 DEF Linked
    <3>3. Explained(pos)'
      <4>1. CASE meta[pos][2] \in ToSet(recent) \cup unlinked
        BY <3>1, <4>1 DEF Explained
      <4>2. CASE meta[pos][2] \notin ToSet(recent) \cup unlinked
        <5>1. ASSUME NEW j \in 1..(pos - 1), meta[j] = <<"PoolCreated", meta[pos][2]>> PROVE j \in abandoned
          BY <4>2, <5>1 DEF RoyaltyInv, Linked
        <5> QED
          BY <3>1, <5>1 DEF Explained
      <4> QED
        BY <4>1, <4>2
    <3> QED
      BY <2>4, <3>1, <3>2, <3>3 DEF RoyaltyInv
  <2>8. CASE Ack
    <3>1. doing = "ack" /\ pos' = pos + 1 /\ doing' = "idle"
      BY <2>8 DEF Ack, Await
    <3>2. Linked(pos)  /\ Explained(pos) /\ pos \in 1..Len(meta)
      BY <1>0, <3>1 DEF RoyaltyInv
    <3>3. \A i \in 1..(pos' - 1) : i = pos \/ i \in 1..(pos - 1)
      BY <1>0, <3>1
    <3>4. \A i \in 1..(pos' - 1) : (i \in abandoned' \/ Linked(i)') /\ Explained(i)'
      BY <2>3, <2>4, <3>2, <3>3
    <3> QED
      BY <3>1, <3>4 DEF RoyaltyInv
  <2>9. CASE AttemptFails
    <3>1. /\ doing' = "idle"
          /\ pos' = pos \/ (pos' = pos + 1 /\ abandoned' = abandoned \cup {pos})
      BY <2>9 DEF AttemptFails, Await
    <3>2. \A i \in 1..(pos' - 1) : i \in 1..(pos - 1) \/ i \in abandoned'
      BY <1>0, <3>1
    <3>3. \A i \in 1..(pos' - 1) : i \in abandoned' => Explained(i)'
      BY DEF Explained
    <3> QED
      BY <2>4, <3>1, <3>2, <3>3 DEF RoyaltyInv
  <2>10. ASSUME NEW n \in 1..(Len(meta) + 1), ProcessorRestarts(n) PROVE RoyaltyInv'
    <3>1. doing' = "idle" /\ pos' = n /\ n \in pos..(Len(meta) + 1) /\ abandoned' = abandoned \cup (pos..(n - 1))
      BY <2>10 DEF ProcessorRestarts, Await
    <3>2. \A i \in 1..(pos' - 1) : i \in 1..(pos - 1) \/ i \in abandoned'
      BY <1>0, <3>1
    <3>3. \A i \in 1..(pos' - 1) : i \in abandoned' => Explained(i)'
      BY DEF Explained
    <3> QED
      BY <2>4, <3>1, <3>2, <3>3 DEF RoyaltyInv
  <2> QED
    BY <1>2, <2>5, <2>6, <2>7, <2>8, <2>9, <2>10 DEF Process
<1>3. ASSUME NEW a \in Actors, Publish(a) PROVE RoyaltyInv'
  <2>1. UNCHANGED procVars /\ UNCHANGED storeVars
    BY <1>3 DEF Publish
  <2> QED
    BY <1>1, <1>3, <2>1, MetaGrows
<1>4. \/ UNCHANGED procVars /\ UNCHANGED storeVars /\ UNCHANGED meta
      \/ \E a \in Actors : Publish(a)
      \/ Process \/ AttemptFails \/ \E n \in 1..(Len(meta) + 1) : ProcessorRestarts(n)
  <2>1. CASE Mine \/ Start \/ CatchUp \/ Crash \/ \E a \in Activations : HeadRefreshes(a)
    BY <2>1 DEF Mine, Start, CatchUp, Crash, HeadRefreshes
  <2>2. CASE \E a \in Activations, n \in 1..height : TakeBlock(a, n)
    BY <2>2 DEF TakeBlock
  <2>3. ASSUME NEW a \in Actors, Scan(a)
        PROVE  Publish(a) \/ (UNCHANGED procVars /\ UNCHANGED storeVars /\ UNCHANGED meta)
    BY <2>3 DEF Scan, SelectOther, Replace, FirstPass, SecondPass, Finish
  <2>4. CASE UNCHANGED vars
    BY <2>4 DEF vars
  <2> QED
    BY <2>1, <2>2, <2>3, <2>4 DEF Next
<1> QED
  BY <1>1, <1>2, <1>3, <1>4

\* RoyaltiesExplained: a fee split of the transaction that created its token
\* is stored once it is handled, or it, the creation or the place of the
\* transaction in recentTxTokens was lost in a way on record.
THEOREM SplitsAreExplained == Spec => []RoyaltiesExplained
<1>1. Init => Typed /\ RoyaltyInv
  <2>1. Init => pos = 1 /\ doing = "idle"
    BY DEF Init
  <2>2. Init => RoyaltyInv
    BY <2>1 DEF RoyaltyInv
  <2> QED
    BY <2>2, TypedInit
<1>2. Typed /\ RoyaltyInv /\ [Next]_vars => (Typed /\ RoyaltyInv)'
  BY TypedStep, RoyaltyStep
<1>3. RoyaltyInv => RoyaltiesExplained
  BY DEF RoyaltyInv, RoyaltiesExplained, Explained
<1> QED
  BY <1>1, <1>2, <1>3, PTL DEF Spec
-----------------------------------------------------------------------------
(* What is published with its block.                                       *)

\* No activation is under way while start() is.
Alone == ~Live => \A a \in Activations : step[a] = "idle"

\* A step moves one actor on, which start() or a head has set going, or none.
LEMMA Moves ==
    ASSUME Typed, [Next]_vars
    PROVE  \/ UNCHANGED step
           \/ Crash
           \/ \E a \in Actors, s \in Steps : /\ Goto(a, s)
                                             /\ IF a = Main THEN ~Live ELSE Live \/ step[a] # "idle"
<1> DEFINE M == \E a \in Actors, s \in Steps : /\ Goto(a, s)
                                               /\ IF a = Main THEN ~Live ELSE Live \/ step[a] # "idle"
<1>0. Main \in Actors /\ Activations \subseteq Actors /\ Main \notin Activations
  BY DiscoveryAssumption DEF Actors
<1>1. CASE Start \/ CatchUp
  <2>1. ~Live /\ \E s \in Steps : Goto(Main, s)
    BY <1>1 DEF Start, CatchUp, Refresh, NextBatch, Fetch, Leave, Live, Steps
  <2> QED
    BY <1>0, <2>1
<1>2. ASSUME NEW a \in Activations, HeadRefreshes(a) \/ \E n \in 1..height : TakeBlock(a, n)
      PROVE  M
  <2>1. Live /\ \E s \in Steps : Goto(a, s)
    BY <1>2 DEF HeadRefreshes, Refresh, TakeBlock, Fetch, Steps
  <2> QED
    BY <1>0, <2>1
<1>3. ASSUME NEW a \in Actors, Scan(a)
      PROVE  M
  <2>1. step[a] # "idle"
    BY <1>3 DEF Scan, SelectOther, Replace, FirstPass, SecondPass, Publish, Finish
  <2>2. \E s \in Steps : Goto(a, s)
    BY <1>3 DEF Scan, SelectOther, Replace, FirstPass, SecondPass, Publish, Finish, NextBatch, Fetch, Leave, Steps
  <2> QED
    BY <2>1, <2>2 DEF Live
<1>4. CASE Mine \/ Process \/ AttemptFails \/ \E n \in 1..(Len(meta) + 1) : ProcessorRestarts(n)
  BY <1>4 DEF Mine, Process, RegisterToken, TellAndRemember, StoreRoyalties, Ack, AttemptFails,
              ProcessorRestarts, Unscanned
<1>5. CASE UNCHANGED vars
  BY <1>5 DEF vars
<1> QED
  BY <1>1, <1>2, <1>3, <1>4, <1>5 DEF Next

\* So it stays.
LEMMA AloneStep == Typed /\ Alone /\ [Next]_vars => Alone'
<1> SUFFICES ASSUME Typed, Alone, [Next]_vars PROVE Alone'
  OBVIOUS
<1>0. /\ step \in [Actors -> Steps] /\ Main \in Actors /\ Main \notin Activations
      /\ Actors = Activations \cup {Main}
  BY DiscoveryAssumption DEF Typed, ScanTyped, Actors
<1>1. CASE UNCHANGED step
  BY <1>1 DEF Alone, Live
<1>2. CASE Crash
  BY <1>0, <1>2 DEF Crash, Alone
<1>3. ASSUME NEW a \in Actors, NEW s \in Steps, Goto(a, s),
             IF a = Main THEN ~Live ELSE Live \/ step[a] # "idle"
      PROVE  Alone'
  <2>1. step' = [step EXCEPT ![a] = s]
    BY <1>3 DEF Goto
  <2>2. CASE a = Main
    <3>1. \A b \in Activations : step[b] = "idle" /\ step'[b] = step[b]
      BY <1>0, <1>3, <2>1, <2>2 DEF Alone
    <3> QED
      BY <3>1 DEF Alone
  <2>3. CASE a # Main
    <3>1. Live /\ step'[Main] = step[Main]
      BY <1>0, <1>3, <2>1, <2>3 DEF Alone
    <3> QED
      BY <3>1 DEF Alone, Live
  <2> QED
    BY <2>2, <2>3
<1> QED
  BY <1>1, <1>2, <1>3, Moves

\* start() has not replaced the maps yet.
Starting == step[Main] \in {"down", "tokens", "pools", "replace"}

\* Tokens whose manager is deployed in actor a's unit.
Deployed(a) == Named("ManagerDeployed", Logs(unit[a]))

\* What the property says of actor a.
InTime(a) ==
    step[a] = "publish" =>
        \A p \in Logs(unit[a]) :
            (\/ Kind(p) = "Transfer" /\ Token(p) \in base
             \/ /\ Kind(p) = "FeeSplit" /\ Token(p) \in Deployed(a)
                /\ Cardinality(dynamicManagers) < MaxManagers \/ Token(p) \in dynamicManagers)
            => \E e \in events[a] : e.at = p

\* The tokens registered when the scanner started are in what a refresh has
\* read, and among the addresses asked for; below the cap a manager that the
\* unit deploys is in the map.
ActorKnows(a) ==
    /\ step[a] \in {"pools", "replace"} => base \subseteq readTokens[a]
    /\ step[a] \in {"fetch", "extra"} => base \subseteq asked[a]
    /\ step[a] \in {"extra", "publish"} =>
          (Cardinality(dynamicManagers) < MaxManagers => Deployed(a) \subseteq dynamicManagers)
    /\ InTime(a)

\* The invariant behind PublishedWithBlock.
BaseInv ==
    /\ base \subseteq registry
    /\ ~Starting => base \subseteq knownTokens
    /\ \A a \in Actors : ActorKnows(a)

\* A map of managers below its cap was below it before, and a full one stays
\* as it is.
LEMMA BelowCap ==
    ASSUME MapTyped, MapTyped', dynamicManagers \subseteq dynamicManagers'
    PROVE  /\ Cardinality(dynamicManagers') < MaxManagers => Cardinality(dynamicManagers) < MaxManagers
           /\ Cardinality(dynamicManagers) < MaxManagers \/ dynamicManagers' = dynamicManagers
<1>1. IsFiniteSet(dynamicManagers')
  BY DiscoveryAssumption, FS_Subset DEF MapTyped
<1>2. IsFiniteSet(dynamicManagers) /\ Cardinality(dynamicManagers) <= Cardinality(dynamicManagers')
  BY <1>1, FS_Subset
<1>3. Cardinality(dynamicManagers') \in Nat /\ Cardinality(dynamicManagers) \in Nat
  BY <1>1, <1>2, FS_CardinalityType
<1>4. Cardinality(dynamicManagers') <= MaxManagers
  BY DEF MapTyped
<1>5. ASSUME ~(Cardinality(dynamicManagers) < MaxManagers)
      PROVE  dynamicManagers' = dynamicManagers
  <2>1. Cardinality(dynamicManagers') = Cardinality(dynamicManagers)
    BY <1>2, <1>3, <1>4, <1>5, DiscoveryAssumption
  <2> QED
    BY <1>1, <2>1, FS_Subset
<1> QED
  BY <1>2, <1>3, <1>5, DiscoveryAssumption

\* An actor that does not move knows what it knew.
LEMMA KnowsStill ==
    ASSUME MapTyped, MapTyped', NEW b \in Actors, ActorKnows(b), chain' = chain, base' = base,
           step'[b] = step[b], readTokens'[b] = readTokens[b], asked'[b] = asked[b], unit'[b] = unit[b],
           events'[b] = events[b], dynamicManagers \subseteq dynamicManagers'
    PROVE  ActorKnows(b)'
<1>1. Deployed(b)' = Deployed(b) /\ Logs(unit[b])' = Logs(unit[b])
  BY DEF Deployed, Named, Logs, Kind, Token
<1>2. /\ Cardinality(dynamicManagers') < MaxManagers => Cardinality(dynamicManagers) < MaxManagers
      /\ Cardinality(dynamicManagers) < MaxManagers \/ dynamicManagers' = dynamicManagers
  BY BelowCap
<1>3. InTime(b)'
  BY <1>1, <1>2 DEF ActorKnows, InTime, Kind, Token
<1> QED
  BY <1>1, <1>2, <1>3 DEF ActorKnows

\* What the decoding does not leave out.
LEMMA Decoded ==
    ASSUME NEW a \in Actors, NEW A, NEW P, NEW M, NEW T, base \subseteq A, base \subseteq T,
           NEW p \in Logs(unit[a]),
           \/ Kind(p) = "Transfer" /\ Token(p) \in base
           \/ Kind(p) = "FeeSplit" /\ Token(p) \in M
    PROVE  \E e \in Decode(Found(a, A), P, M, T) : e.at = p
<1>1. p \in Found(a, A) /\ (Kind(p) = "Transfer" => Token(p) \in T) /\ (Kind(p) = "FeeSplit" => Token(p) \in M)
  BY DEF Found
<1> DEFINE e == [at |-> p, resolved |-> Kind(p) \in PoolKinds =>
                    Token(p) \in P \cup Named("PoolCreated", {q \in Found(a, A) : Before(q, p)})]
<1>2. e \in Decode(Found(a, A), P, M, T)
  BY <1>1 DEF Decode
<1>3. e.at = p
  OBVIOUS
<1> QED
  BY <1>2, <1>3
\* A refresh reads all that is registered; what it reads becomes the map.
LEMMA BaseRefresh ==
    ASSUME Typed, Typed', Alone, BaseInv, NEW a \in Actors,
           \/ a = Main /\ Start
           \/ a \in Activations /\ HeadRefreshes(a)
           \/ SelectOther(a) \/ Replace(a)
    PROVE  BaseInv'
<1>0. /\ UNCHANGED <<chainVars, dynamicManagers, blockVars, storeVars>>
      /\ step \in [Actors -> Steps] /\ Main \in Actors /\ Main \notin Activations
      /\ Actors = Activations \cup {Main}
      /\ readTokens \in [Actors -> SUBSET registry] /\ MapTyped /\ MapTyped'
  BY DiscoveryAssumption DEF Start, HeadRefreshes, SelectOther, Replace, mapVars, Typed, ScanTyped,
       RefreshTyped, Actors
<1>1. UNCHANGED <<chain, unit, asked, events, registry, dynamicManagers>>
  BY <1>0 DEF chainVars, blockVars, storeVars
<1>2. CASE a = Main /\ Start
  <2>1. /\ step[Main] = "down" /\ base' = registry /\ UNCHANGED <<knownTokens, poolIdToToken>>
        /\ \/ readTokens' = [readTokens EXCEPT ![Main] = registry] /\ step' = [step EXCEPT ![Main] = "pools"]
           \/ step' = [step EXCEPT ![Main] = "tokens"]
    BY <1>2 DEF Start, Refresh, SelectTokens, SelectPools, Goto, mapVars
  <2>2. \A b \in Activations : step'[b] = "idle"
    BY <1>0, <2>1 DEF Alone, Live
  <2>3. \A b \in Actors : ActorKnows(b)'
    BY <1>0, <2>1, <2>2 DEF ActorKnows, InTime
  <2>4. Starting'
    BY <1>0, <2>1 DEF Starting
  <2> QED
    BY <1>1, <2>1, <2>3, <2>4 DEF BaseInv
<1>3. CASE (a \in Activations /\ HeadRefreshes(a)) \/ SelectOther(a)
  <2>1. /\ UNCHANGED <<base, knownTokens>>
        /\ \/ readTokens' = [readTokens EXCEPT ![a] = registry] /\ step' = [step EXCEPT ![a] = "pools"]
           \/ readTokens' = readTokens /\ step' = [step EXCEPT ![a] = "tokens"]
           \/ /\ readTokens' = [readTokens EXCEPT ![a] = registry]
              /\ step' = [step EXCEPT ![a] = "replace"]
           \/ /\ readTokens' = readTokens /\ step[a] = "pools"
              /\ step' = [step EXCEPT ![a] = "replace"]
    BY <1>3 DEF HeadRefreshes, SelectOther, Refresh, SelectTokens, SelectPools, Goto, mapVars
  <2>2. a = Main => step[a] \in {"tokens", "pools"}
    BY <1>0, <1>3 DEF SelectOther
  <2>3. ActorKnows(a)'
    BY <1>0, <2>1 DEF ActorKnows, InTime, BaseInv
  <2>4. \A b \in Actors \ {a} : ActorKnows(b)'
    <3> SUFFICES ASSUME NEW b \in Actors, b # a PROVE ActorKnows(b)'
      OBVIOUS
    <3>1. step'[b] = step[b] /\ readTokens'[b] = readTokens[b] /\ base' = base
      BY <1>0, <2>1
    <3> QED
      BY <1>0, <1>1, <3>1, KnowsStill DEF BaseInv
  <2>5. Starting => Starting'
    BY <1>0, <2>1, <2>2 DEF Starting
  <2> QED
    BY <1>1, <2>1, <2>3, <2>4, <2>5 DEF BaseInv
<1>4. CASE Replace(a)
  <2>1. /\ step[a] = "replace" /\ knownTokens' = readTokens[a] /\ base' = base
        /\ readTokens' = [readTokens EXCEPT ![a] = {}]
        /\ step' = [step EXCEPT ![a] = IF a = Main THEN "head" ELSE "idle"]
    BY <1>4 DEF Replace, Goto
  <2>2. base \subseteq knownTokens'
    BY <2>1 DEF BaseInv, ActorKnows
  <2>3. ActorKnows(a)'
    BY <1>0, <2>1 DEF ActorKnows, InTime
  <2>4. \A b \in Actors \ {a} : ActorKnows(b)'
    <3> SUFFICES ASSUME NEW b \in Actors, b # a PROVE ActorKnows(b)'
      OBVIOUS
    <3>1. step'[b] = step[b] /\ readTokens'[b] = readTokens[b]
      BY <1>0, <2>1
    <3> QED
      BY <1>0, <1>1, <2>1, <3>1, KnowsStill DEF BaseInv
  <2> QED
    BY <1>1, <2>1, <2>2, <2>3, <2>4 DEF BaseInv
<1> QED
  BY <1>2, <1>3, <1>4

\* A unit is begun, published, or done.
LEMMA BaseUnit ==
    ASSUME Typed, Typed', Alone, BaseInv,
           \/ CatchUp
           \/ \E a \in Activations, n \in 1..height : TakeBlock(a, n)
           \/ \E a \in Actors : Publish(a) \/ Finish(a)
    PROVE  BaseInv'
<1>0. /\ UNCHANGED <<chainVars, mapVars, refreshVars, storeVars, base>>
      /\ step \in [Actors -> Steps] /\ Main \in Actors /\ Activations \subseteq Actors /\ MapTyped /\ MapTyped'
      /\ unit \in [Actors -> SUBSET (1..height)] /\ asked \in [Actors -> SUBSET Tokens]
      /\ heeded \in [Actors -> SUBSET dynamicManagers]
      /\ events \in [Actors -> SUBSET [at : Mined, resolved : BOOLEAN]]
  BY DEF CatchUp, TakeBlock, Publish, Finish, Typed, ScanTyped, EventsTyped, MapTyped, Actors, scanHistory
<1>1. UNCHANGED <<chain, registry, base, readTokens, knownTokens, dynamicManagers>>
  BY <1>0 DEF chainVars, storeVars, refreshVars, mapVars
<1>2. PICK a \in Actors :
         /\ \A b \in Actors \ {a} : step'[b] = step[b] /\ unit'[b] = unit[b] /\ asked'[b] = asked[b]
                                     /\ events'[b] = events[b]
         /\ step'[a] \in {"idle", "checkpoint"} \/ (step'[a] = "fetch" /\ asked'[a] = knownTokens)
         /\ ~Starting
  <2>1. ~Starting
    <3>1. ASSUME NEW a \in Actors, a # Main, Live \/ step[a] # "idle" PROVE Live
      BY <3>1 DEF Alone, Actors
    <3> QED
      BY <3>1 DEF CatchUp, TakeBlock, Publish, Finish, Starting, Live, Actors
  <2>2. CASE CatchUp
    <3>1. /\ UNCHANGED events
          /\ (\E u : Fetch(Main, u)) \/ Leave(Main)
      BY <2>2 DEF CatchUp, NextBatch
    <3> QED
      BY <1>0, <2>1, <3>1 DEF Fetch, Leave, Goto
  <2>3. ASSUME NEW a \in Activations, NEW n \in 1..height, TakeBlock(a, n)
        PROVE  /\ \A b \in Actors \ {a} : step'[b] = step[b] /\ unit'[b] = unit[b] /\ asked'[b] = asked[b]
                                           /\ events'[b] = events[b]
               /\ step'[a] = "fetch" /\ asked'[a] = knownTokens
    BY <1>0, <2>3 DEF TakeBlock, Fetch, Goto
  <2>4. ASSUME NEW a \in Actors, Publish(a)
        PROVE  /\ \A b \in Actors \ {a} : step'[b] = step[b] /\ unit'[b] = unit[b] /\ asked'[b] = asked[b]
                                           /\ events'[b] = events[b]
               /\ step'[a] = "checkpoint"
    BY <1>0, <2>4 DEF Publish, Goto
  <2>5. ASSUME NEW a \in Actors, Finish(a)
        PROVE  /\ \A b \in Actors \ {a} : step'[b] = step[b] /\ unit'[b] = unit[b] /\ asked'[b] = asked[b]
                                           /\ events'[b] = events[b]
               /\ step'[a] = "idle" \/ (step'[a] = "fetch" /\ asked'[a] = knownTokens)
    <3>1. /\ UNCHANGED events
          /\ (\E u : Fetch(a, u)) \/ Leave(a)
      BY <2>5 DEF Finish, NextBatch
    <3> QED
      BY <1>0, <3>1 DEF Fetch, Leave, Goto
  <2> QED
    BY <1>0, <2>1, <2>2, <2>3, <2>4, <2>5
<1>3. ActorKnows(a)'
  BY <1>1, <1>2 DEF ActorKnows, InTime, BaseInv
<1>4. \A b \in Actors \ {a} : ActorKnows(b)'
  <2> SUFFICES ASSUME NEW b \in Actors, b # a PROVE ActorKnows(b)'
    OBVIOUS
  <2> QED
    BY <1>0, <1>1, <1>2, KnowsStill DEF BaseInv
<1> QED
  BY <1>1, <1>2, <1>3, <1>4 DEF BaseInv

\* The passes.
LEMMA BasePass ==
    ASSUME Typed, Typed', Alone, BaseInv, NEW a \in Actors, FirstPass(a) \/ SecondPass(a)
    PROVE  BaseInv'
<1>0. /\ UNCHANGED <<chain, registry, base, readTokens, unit, asked>>
      /\ step \in [Actors -> Steps] /\ MapTyped /\ MapTyped'
      /\ events \in [Actors -> SUBSET [at : Mined, resolved : BOOLEAN]]
  BY DEF FirstPass, SecondPass, Typed, ScanTyped, EventsTyped, chainVars, storeVars, refreshVars, scanHistory
<1>1. step[a] \in {"fetch", "extra"} /\ base \subseteq asked[a]
  BY DEF FirstPass, SecondPass, BaseInv, ActorKnows
<1>2. ~Starting
  BY <1>1 DEF Alone, Starting, Live, Actors
<1>3. base \subseteq knownTokens
  BY <1>2 DEF BaseInv
<1>4. /\ dynamicManagers \subseteq dynamicManagers' /\ knownTokens \subseteq knownTokens'
      /\ \E s \in {"extra", "publish"} : step' = [step EXCEPT ![a] = s]
      /\ \A b \in Actors \ {a} : events'[b] = events[b]
  BY <1>0 DEF FirstPass, SecondPass, AddManagers, AddTokens, Goto
<1>5. ~Starting'
  BY <1>0, <1>2, <1>4 DEF Starting
<1>6. Deployed(a)' = Deployed(a) /\ Logs(unit[a])' = Logs(unit[a])
  BY <1>0 DEF Deployed, Named, Logs, Kind, Token
<1>7. Cardinality(dynamicManagers') < MaxManagers => Deployed(a) \subseteq dynamicManagers'
  <2>1. CASE FirstPass(a)
    <3> DEFINE deployed == Named("ManagerDeployed", Found(a, asked[a]))
    <3>1. deployed = Deployed(a)
      BY DEF Deployed, Named, Found
    <3>2. AddManagers(deployed)
      BY <2>1 DEF FirstPass
    <3> HIDE DEF deployed
    <3>3. PICK M \in SUBSET (deployed \ dynamicManagers) :
              /\ dynamicManagers' = dynamicManagers \cup M
              /\ M # deployed \ dynamicManagers => Cardinality(dynamicManagers') = MaxManagers
      BY <3>2 DEF AddManagers
    <3>4. Cardinality(dynamicManagers') < MaxManagers => M = deployed \ dynamicManagers
      BY <3>3, DiscoveryAssumption
    <3> QED
      BY <3>1, <3>3, <3>4
  <2>2. CASE SecondPass(a)
    BY <2>2 DEF SecondPass, BaseInv, ActorKnows
  <2> QED
    BY <2>1, <2>2
<1>8. step'[a] = "publish" =>
        \E A, P, T : /\ base \subseteq A /\ base \subseteq T
                     /\ events'[a] = Decode(Found(a, A), P, dynamicManagers', T)
  <2>1. CASE FirstPass(a)
    <3>1. step'[a] = "publish" =>
             events'[a] = Decode(Found(a, asked[a]), poolIdToToken', dynamicManagers', knownTokens')
      BY <1>0, <2>1 DEF FirstPass, Goto
    <3> QED
      BY <1>1, <1>3, <1>4, <3>1
  <2>2. CASE SecondPass(a)
    <3>1. events'[a] = Decode(Found(a, asked[a] \cup extra[a]), poolIdToToken, dynamicManagers', knownTokens)
      BY <1>0, <2>2 DEF SecondPass
    <3>2. base \subseteq asked[a] \cup extra[a]
      BY <1>1
    <3> QED
      BY <1>3, <3>1, <3>2
  <2> QED
    BY <2>1, <2>2
<1>9. InTime(a)'
  <2> SUFFICES ASSUME step'[a] = "publish", NEW p \in Logs(unit[a]),
                      \/ Kind(p) = "Transfer" /\ Token(p) \in base
                      \/ /\ Kind(p) = "FeeSplit" /\ Token(p) \in Deployed(a)
                         /\ Cardinality(dynamicManagers') < MaxManagers \/ Token(p) \in dynamicManagers'
               PROVE  \E e \in events'[a] : e.at = p
    BY <1>0, <1>6 DEF InTime, Kind, Token
  <2>1. PICK A, P, T : /\ base \subseteq A /\ base \subseteq T
                       /\ events'[a] = Decode(Found(a, A), P, dynamicManagers', T)
    BY <1>8
  <2>2. \/ Kind(p) = "Transfer" /\ Token(p) \in base
        \/ Kind(p) = "FeeSplit" /\ Token(p) \in dynamicManagers'
    BY <1>7
  <2>3. \A M : (\/ Kind(p) = "Transfer" /\ Token(p) \in base
                \/ Kind(p) = "FeeSplit" /\ Token(p) \in M)
               => \E e \in Decode(Found(a, A), P, M, T) : e.at = p
    BY <2>1, Decoded
  <2> QED
    BY <2>1, <2>2, <2>3
<1>10. ActorKnows(a)'
  BY <1>0, <1>1, <1>4, <1>6, <1>7, <1>9 DEF ActorKnows
<1>11. \A b \in Actors \ {a} : ActorKnows(b)'
  <2> SUFFICES ASSUME NEW b \in Actors, b # a PROVE ActorKnows(b)'
    OBVIOUS
  <2>1. step'[b] = step[b] /\ events'[b] = events[b]
    BY <1>0, <1>4
  <2> QED
    BY <1>0, <1>4, <2>1, KnowsStill DEF BaseInv
<1> QED
  BY <1>0, <1>3, <1>4, <1>10, <1>11 DEF BaseInv
\* Every step keeps it.
LEMMA BaseStep == Typed /\ Alone /\ BaseInv /\ [Next]_vars => BaseInv'
<1> SUFFICES ASSUME Typed, Alone, BaseInv, [Next]_vars PROVE BaseInv'
  OBVIOUS
<1>0. Typed' /\ Main \in Actors
  BY TypedStep DEF Actors
<1>1. CASE Start \/ (\E a \in Activations : HeadRefreshes(a)) \/ \E a \in Actors : SelectOther(a) \/ Replace(a)
  BY <1>0, <1>1, BaseRefresh DEF Actors
<1>2. CASE \/ CatchUp
           \/ \E a \in Activations, n \in 1..height : TakeBlock(a, n)
           \/ \E a \in Actors : Publish(a) \/ Finish(a)
  BY <1>0, <1>2, BaseUnit
<1>3. CASE \E a \in Actors : FirstPass(a) \/ SecondPass(a)
  BY <1>0, <1>3, BasePass
<1>4. CASE Crash
  <2>1. step' = [a \in Actors |-> IF a = Main THEN "down" ELSE "idle"] /\ UNCHANGED <<base, registry>>
    BY <1>4 DEF Crash, storeVars
  <2>2. \A a \in Actors : ActorKnows(a)'
    BY <2>1 DEF ActorKnows, InTime
  <2> QED
    BY <1>0, <2>1, <2>2 DEF BaseInv, Starting
<1>5. CASE \/ Mine \/ Process \/ AttemptFails \/ \E n \in 1..(Len(meta) + 1) : ProcessorRestarts(n)
           \/ UNCHANGED vars
  <2>1. /\ UNCHANGED <<chain, mapVars, step, blockVars, readTokens, base>>
        /\ registry \subseteq registry'
    <3>1. CASE Mine
      BY <3>1 DEF Mine, refreshVars, scanHistory, storeVars
    <3>2. CASE UNCHANGED vars
      BY <3>2 DEF vars, chainVars, refreshVars, scanHistory, storeVars
    <3>3. CASE Process \/ AttemptFails \/ \E n \in 1..(Len(meta) + 1) : ProcessorRestarts(n)
      BY <3>3 DEF Process, RegisterToken, TellAndRemember, StoreRoyalties, Ack, AttemptFails,
                  ProcessorRestarts, Unscanned, chainVars, refreshVars, scanHistory, storeVars
    <3> QED
      BY <1>5, <3>1, <3>2, <3>3
  <2>2. \A b \in Actors : ActorKnows(b)'
    BY <1>0, <2>1, KnowsStill DEF BaseInv, Typed, mapVars, blockVars
  <2> QED
    BY <2>1, <2>2 DEF BaseInv, Starting, mapVars
<1> QED
  BY <1>1, <1>2, <1>3, <1>4, <1>5 DEF Next, Scan

\* PublishedWithBlock: whatever refreshes replace the maps meanwhile, a block
\* or batch is published with the transfers of the tokens registered when the
\* scanner started and, below the cap, the fee splits of its own managers.
THEOREM KnownArePublished == Spec => []PublishedWithBlock
<1>1. Init => Typed /\ Alone /\ BaseInv
  <2> SUFFICES ASSUME Init PROVE Alone /\ BaseInv
    BY TypedInit
  <2>1. step = [a \in Actors |-> IF a = Main THEN "down" ELSE "idle"] /\ base = {}
    BY DEF Init
  <2>2. Alone
    BY <2>1, DiscoveryAssumption DEF Alone, Actors
  <2>3. \A a \in Actors : ActorKnows(a)
    BY <2>1 DEF ActorKnows, InTime
  <2> QED
    BY <2>1, <2>2, <2>3 DEF BaseInv
<1>2. Typed /\ Alone /\ BaseInv /\ [Next]_vars => (Typed /\ Alone /\ BaseInv)'
  BY TypedStep, AloneStep, BaseStep
<1>3. BaseInv => PublishedWithBlock
  BY DEF BaseInv, ActorKnows, InTime, PublishedWithBlock, Deployed
<1> QED
  BY <1>1, <1>2, <1>3, PTL DEF Spec

-----------------------------------------------------------------------------
(* Events without a token.                                                 *)

\* What the pool map has or a refresh made it forget; tokens created in blocks B.
Seen == poolIdToToken \cup behind
CreatedIn(B) == Named("PoolCreated", Logs(B))

\* A refresh that has read the pools has read a token's or missed it.  Once
\* start() is through, a token created in a block that was processed, or that
\* an actor has decoded, is in the pool map, or a refresh made the scanner
\* forget it.
ActorSees(a) ==
    /\ step[a] \in {"tokens", "replace"} => Tokens \subseteq readPools[a] \cup missed[a]
    /\ step[a] \in {"extra", "publish", "checkpoint"} => CreatedIn(unit[a]) \subseteq Seen

\* The invariant behind UnresolvedExplained.
PoolInv ==
    /\ ~Starting => CreatedIn(processed) \subseteq Seen
    /\ processed \subseteq 1..height
    /\ \A a \in Actors : ActorSees(a)

\* An actor that does not move sees what it saw.
LEMMA SeesStill ==
    ASSUME NEW b \in Actors, ActorSees(b), chain' = chain,
           step'[b] = step[b], readPools'[b] = readPools[b], missed'[b] = missed[b], unit'[b] = unit[b],
           step[b] \in {"extra", "publish", "checkpoint"} => Seen \cap CreatedIn(unit[b]) \subseteq Seen'
    PROVE  ActorSees(b)'
<1>1. CreatedIn(unit[b])' = CreatedIn(unit[b])
  BY DEF CreatedIn, Named, Logs, Kind, Token
<1> QED
  BY <1>1 DEF ActorSees

\* A replacement of the pool map: what is gone has been missed.
LEMMA PoolReplace ==
    ASSUME Typed, Alone, PoolInv, NEW a \in Actors, Replace(a)
    PROVE  Seen \subseteq Seen' /\ CreatedIn(processed) \subseteq Seen'
<1>1. /\ step[a] = "replace" /\ poolIdToToken' = readPools[a]
      /\ behind' = behind \cup (missed[a] \cap (poolIdToToken \cup CreatedIn(processed)))
  BY DEF Replace, CreatedIn
<1>2. Tokens \subseteq readPools[a] \cup missed[a]
  BY <1>1 DEF PoolInv, ActorSees
<1>3. CreatedIn(processed) \subseteq Tokens /\ poolIdToToken \subseteq Tokens
  <2>1. processed \in SUBSET (1..height)
    BY DEF PoolInv
  <2>2. \A p \in Logs(processed) : Token(p) \in Tokens
    BY <2>1, LogFacts DEF Typed, ChainTyped
  <2> QED
    BY <2>2 DEF CreatedIn, Named, Typed, MapTyped
<1> QED
  BY <1>1, <1>2, <1>3 DEF Seen

\* Refreshes.
LEMMA PoolRefresh ==
    ASSUME Typed, Alone, PoolInv, NEW a \in Actors,
           \/ a = Main /\ Start
           \/ a \in Activations /\ HeadRefreshes(a)
           \/ SelectOther(a) \/ Replace(a)
    PROVE  PoolInv'
<1>0. /\ UNCHANGED <<chainVars, unit, processed>>
      /\ step \in [Actors -> Steps] /\ Main \in Actors /\ Main \notin Activations
      /\ readPools \in [Actors -> SUBSET registry] /\ missed \in [Actors -> SUBSET Tokens]
  BY DiscoveryAssumption DEF Start, HeadRefreshes, SelectOther, Replace, blockVars, Typed, ScanTyped,
       RefreshTyped, Actors
<1>1. CreatedIn(processed)' = CreatedIn(processed) /\ chain' = chain /\ height' = height
  BY <1>0 DEF CreatedIn, Named, Logs, Kind, Token, chainVars
<1>2. Seen \subseteq Seen'
  <2>1. CASE Replace(a)
    BY <2>1, PoolReplace
  <2>2. CASE ~Replace(a)
    BY <2>2 DEF Start, HeadRefreshes, SelectOther, mapVars, Seen
  <2> QED
    BY <2>1, <2>2
<1>3. /\ \E s \in Steps : step' = [step EXCEPT ![a] = s]
      /\ \A b \in Actors \ {a} : readPools'[b] = readPools[b] /\ missed'[b] = missed[b]
      /\ step'[a] \notin {"extra", "publish", "checkpoint"}
      /\ step'[a] \in {"tokens", "replace"} => Tokens \subseteq readPools'[a] \cup missed'[a]
  <2>1. CASE Replace(a)
    BY <1>0, <2>1 DEF Replace, Goto, Steps
  <2>2. CASE (a = Main /\ Start) \/ (a \in Activations /\ HeadRefreshes(a))
    BY <1>0, <2>2 DEF Start, HeadRefreshes, Refresh, SelectTokens, SelectPools, Goto, Steps
  <2>3. CASE SelectOther(a)
    <3>1. step' = [step EXCEPT ![a] = "replace"]
      BY <2>3 DEF SelectOther, Goto
    <3>2. CASE step[a] = "tokens" /\ SelectTokens(a)
      BY <1>0, <3>1, <3>2 DEF SelectTokens, PoolInv, ActorSees, Steps
    <3>3. CASE step[a] = "pools" /\ SelectPools(a)
      BY <1>0, <3>1, <3>3 DEF SelectPools, Steps
    <3> QED
      BY <2>3, <3>2, <3>3 DEF SelectOther
  <2> QED
    BY <2>1, <2>2, <2>3
<1>4. ActorSees(a)'
  BY <1>3 DEF ActorSees
<1>5. \A b \in Actors \ {a} : ActorSees(b)'
  <2> SUFFICES ASSUME NEW b \in Actors, b # a PROVE ActorSees(b)'
    OBVIOUS
  <2>1. step'[b] = step[b] /\ unit'[b] = unit[b]
    BY <1>0, <1>3
  <2> QED
    BY <1>1, <1>2, <1>3, <2>1, SeesStill DEF PoolInv
<1>6. ~Starting' => CreatedIn(processed) \subseteq Seen'
  <2>1. CASE Replace(a)
    BY <2>1, PoolReplace
  <2>2. CASE ~Replace(a)
    <3>1. CASE a = Main
      <4>1. step'[a] \in {"tokens", "pools", "replace"}
        BY <1>0, <2>2, <3>1 DEF Start, HeadRefreshes, Refresh, SelectOther, Goto
      <4> QED
        BY <3>1, <4>1 DEF Starting
    <3>2. CASE a # Main
      BY <1>0, <1>2, <1>3, <3>2 DEF Starting, PoolInv
    <3> QED
      BY <3>1, <3>2
  <2> QED
    BY <2>1, <2>2
<1> QED
  BY <1>0, <1>1, <1>4, <1>5, <1>6 DEF PoolInv

\* Units, from the request to the checkpoint.
LEMMA PoolUnit ==
    ASSUME Typed, Alone, PoolInv, NEW a \in Actors,
           \/ a = Main /\ CatchUp
           \/ a \in Activations /\ \E n \in 1..height : TakeBlock(a, n)
           \/ FirstPass(a) \/ SecondPass(a) \/ Publish(a) \/ Finish(a)
    PROVE  PoolInv'
<1>0. /\ UNCHANGED <<chainVars, refreshVars, missed, behind>> /\ poolIdToToken \subseteq poolIdToToken'
      /\ step \in [Actors -> Steps] /\ Main \in Actors /\ Main \notin Activations
      /\ unit \in [Actors -> SUBSET (1..height)]
  BY DiscoveryAssumption DEF CatchUp, TakeBlock, FirstPass, SecondPass, Publish, Finish, scanHistory, mapVars,
       Typed, ScanTyped, Actors
<1>1. /\ chain' = chain /\ height' = height /\ readPools' = readPools /\ missed' = missed
      /\ Seen \subseteq Seen'
  BY <1>0 DEF chainVars, refreshVars, Seen
<1>2. ~Starting
  BY DEF CatchUp, TakeBlock, FirstPass, SecondPass, Publish, Finish, Alone, Starting, Live, Actors
<1>3. CreatedIn(processed) \subseteq Seen
  BY <1>2 DEF PoolInv
<1>4. /\ \E s \in {"idle", "fetch", "extra", "publish", "checkpoint"} : step'[a] = s
      /\ \A b \in Actors \ {a} : step'[b] = step[b] /\ unit'[b] = unit[b]
      /\ step'[a] \in {"extra", "publish", "checkpoint"} => unit' = unit
  <2>1. CASE a = Main /\ CatchUp
    <3>1. (\E u : Fetch(Main, u)) \/ Leave(Main)
      BY <2>1 DEF CatchUp, NextBatch
    <3> QED
      BY <1>0, <2>1, <3>1 DEF Fetch, Leave, Goto
  <2>2. CASE Finish(a)
    <3>1. (\E u : Fetch(a, u)) \/ Leave(a)
      BY <2>2 DEF Finish, NextBatch
    <3> QED
      BY <1>0, <3>1 DEF Fetch, Leave, Goto
  <2>3. CASE a \in Activations /\ \E n \in 1..height : TakeBlock(a, n)
    BY <1>0, <2>3 DEF TakeBlock, Fetch, Goto
  <2>4. CASE FirstPass(a) \/ SecondPass(a) \/ Publish(a)
    BY <1>0, <2>4 DEF FirstPass, SecondPass, Publish, Goto
  <2> QED
    BY <2>1, <2>2, <2>3, <2>4
<1>5. step'[a] \in {"extra", "publish", "checkpoint"} => CreatedIn(unit[a]) \subseteq Seen'
  <2>1. CASE FirstPass(a)
    <3>1. CreatedIn(unit[a]) = Named("PoolCreated", Found(a, asked[a]))
      BY DEF CreatedIn, Named, Found
    <3> QED
      BY <2>1, <3>1 DEF FirstPass, Seen
  <2>2. CASE SecondPass(a) \/ Publish(a)
    BY <1>1, <2>2 DEF SecondPass, Publish, PoolInv, ActorSees
  <2>3. CASE (a = Main /\ CatchUp) \/ Finish(a) \/ (a \in Activations /\ \E n \in 1..height : TakeBlock(a, n))
    <3>1. (\E u : Fetch(a, u)) \/ Leave(a)
      BY <2>3 DEF CatchUp, Finish, NextBatch, TakeBlock
    <3> QED
      BY <1>0, <3>1 DEF Fetch, Leave, Goto
  <2> QED
    BY <2>1, <2>2, <2>3
<1>6. ActorSees(a)'
  <2>1. step'[a] \in {"extra", "publish", "checkpoint"} => CreatedIn(unit[a])' = CreatedIn(unit[a])
    BY <1>1, <1>4 DEF CreatedIn, Named, Logs, Kind, Token
  <2> QED
    BY <1>4, <1>5, <2>1 DEF ActorSees
<1>7. \A b \in Actors \ {a} : ActorSees(b)'
  <2> SUFFICES ASSUME NEW b \in Actors, b # a PROVE ActorSees(b)'
    OBVIOUS
  <2> QED
    BY <1>1, <1>4, SeesStill DEF PoolInv
<1>8. CreatedIn(processed)' \subseteq Seen' /\ processed' \subseteq 1..height
  <2>1. CASE Finish(a)
    <3>1. processed' = processed \cup unit[a] /\ step[a] = "checkpoint"
      BY <2>1 DEF Finish
    <3>2. CreatedIn(processed)' \subseteq CreatedIn(processed) \cup CreatedIn(unit[a])
      BY <1>1, <3>1 DEF CreatedIn, Named, Logs, Kind, Token
    <3>3. CreatedIn(unit[a]) \subseteq Seen
      BY <3>1 DEF PoolInv, ActorSees
    <3>4. processed' \subseteq 1..height
      BY <1>0, <3>1 DEF PoolInv
    <3> QED
      BY <1>1, <1>3, <3>2, <3>3, <3>4
  <2>2. CASE ~Finish(a)
    <3>1. processed' = processed
      BY <2>2 DEF CatchUp, TakeBlock, FirstPass, SecondPass, Publish, scanHistory
    <3>2. CreatedIn(processed)' = CreatedIn(processed)
      BY <1>1, <3>1 DEF CreatedIn, Named, Logs, Kind, Token
    <3> QED
      BY <1>1, <1>3, <3>1, <3>2 DEF PoolInv
  <2> QED
    BY <2>1, <2>2
<1> QED
  BY <1>1, <1>6, <1>7, <1>8 DEF PoolInv

\* Every step keeps it.
LEMMA PoolStep == Typed /\ Alone /\ PoolInv /\ [Next]_vars => PoolInv'
<1> SUFFICES ASSUME Typed, Alone, PoolInv, [Next]_vars PROVE PoolInv'
  OBVIOUS
<1>0. Main \in Actors /\ Activations \subseteq Actors
  BY DEF Actors
<1>1. CASE Start \/ (\E a \in Activations : HeadRefreshes(a)) \/ \E a \in Actors : SelectOther(a) \/ Replace(a)
  BY <1>0, <1>1, PoolRefresh
<1>2. CASE \/ CatchUp
           \/ \E a \in Activations, n \in 1..height : TakeBlock(a, n)
           \/ \E a \in Actors : FirstPass(a) \/ SecondPass(a) \/ Publish(a) \/ Finish(a)
  BY <1>0, <1>2, PoolUnit
<1>3. CASE Crash
  <2>1. /\ step' = [a \in Actors |-> IF a = Main THEN "down" ELSE "idle"]
        /\ UNCHANGED <<height, processed>>
    BY <1>3 DEF Crash, chainVars
  <2>2. \A a \in Actors : ActorSees(a)'
    BY <2>1 DEF ActorSees
  <2> QED
    BY <1>0, <2>1, <2>2 DEF PoolInv, Starting
<1>4. CASE \/ Mine \/ Process \/ AttemptFails \/ \E n \in 1..(Len(meta) + 1) : ProcessorRestarts(n)
           \/ UNCHANGED vars
  <2>1. UNCHANGED <<chain, poolIdToToken, behind, step, unit, readPools, missed, processed>>
        /\ height <= height' /\ height \in Nat /\ height' \in Nat
    <3>1. height \in Nat
      BY DiscoveryAssumption DEF Typed, ChainTyped
    <3>2. CASE Mine
      BY <3>1, <3>2 DEF Mine, refreshVars, scanHistory, blockVars, mapVars
    <3>3. CASE UNCHANGED vars
      BY <3>1, <3>3 DEF vars, chainVars, refreshVars, scanHistory, blockVars, mapVars
    <3>4. CASE Process \/ AttemptFails \/ \E n \in 1..(Len(meta) + 1) : ProcessorRestarts(n)
      BY <3>1, <3>4 DEF Process, RegisterToken, TellAndRemember, StoreRoyalties, Ack, AttemptFails,
                  ProcessorRestarts, Unscanned, chainVars, refreshVars, scanHistory, blockVars, mapVars
    <3> QED
      BY <1>4, <3>2, <3>3, <3>4
  <2>2. \A b \in Actors : ActorSees(b)'
    BY <2>1, SeesStill DEF PoolInv, Seen
  <2>3. CreatedIn(processed)' = CreatedIn(processed)
    BY <2>1 DEF CreatedIn, Named, Logs, Kind, Token
  <2> QED
    BY <2>1, <2>2, <2>3 DEF PoolInv, Starting, Seen
<1> QED
  BY <1>1, <1>2, <1>3, <1>4 DEF Next, Scan

\* What a pass decodes without its token.
LEMMA Unresolved ==
    ASSUME Typed, Alone, PoolInv, [Next]_vars, NEW a \in Actors, NEW e \in events'[a] \ events[a], ~e.resolved
    PROVE  \/ Token(e.at) \in behind
           \/ Token(e.at) \notin CreatedIn(processed \cup unit[a])
<1>0. events \in [Actors -> SUBSET [at : Mined, resolved : BOOLEAN]]
  BY DEF Typed, EventsTyped
<1>1. FirstPass(a) \/ SecondPass(a)
  <2>1. ASSUME NEW b \in Actors, Scan(b), ~(FirstPass(b) \/ SecondPass(b))
        PROVE  events'[a] \subseteq events[a]
    BY <1>0, <2>1 DEF Scan, SelectOther, Replace, Publish, Finish, blockVars
  <2>2. ASSUME NEW b \in Actors, b # a, FirstPass(b) \/ SecondPass(b)
        PROVE  events'[a] \subseteq events[a]
    BY <1>0, <2>2 DEF FirstPass, SecondPass
  <2>3. CASE Mine \/ Start \/ CatchUp \/ Crash \/ \E b \in Activations : HeadRefreshes(b)
    BY <1>0, <2>3 DEF Mine, Start, CatchUp, Crash, HeadRefreshes, blockVars
  <2>4. CASE \E b \in Activations, n \in 1..height : TakeBlock(b, n)
    BY <2>4 DEF TakeBlock
  <2>5. CASE Process \/ AttemptFails \/ \E n \in 1..(Len(meta) + 1) : ProcessorRestarts(n)
    BY <2>5 DEF Process, RegisterToken, TellAndRemember, StoreRoyalties, Ack, AttemptFails,
                ProcessorRestarts, Unscanned, blockVars
  <2>6. CASE UNCHANGED vars
    BY <2>6 DEF vars, blockVars
  <2> QED
    BY <2>1, <2>2, <2>3, <2>4, <2>5, <2>6 DEF Next
<1>2. step[a] \in {"fetch", "extra"} /\ ~Starting
  BY <1>1 DEF FirstPass, SecondPass, Alone, Starting, Live, Actors
<1>3. CreatedIn(processed) \subseteq Seen
  BY <1>2 DEF PoolInv
<1>4. CreatedIn(processed \cup unit[a]) \subseteq CreatedIn(processed) \cup CreatedIn(unit[a])
  BY DEF CreatedIn, Named, Logs
<1>5. \E L, P, M, T : /\ e \in Decode(L, P, M, T)
                      /\ Seen \cup CreatedIn(unit[a]) \subseteq P \cup behind
  <2>1. CASE FirstPass(a)
    <3>1. events' = [events EXCEPT ![a] = Decode(Found(a, asked[a]), poolIdToToken', dynamicManagers', knownTokens')]
      BY <2>1 DEF FirstPass
    <3>2. poolIdToToken' = poolIdToToken \cup Named("PoolCreated", Found(a, asked[a]))
      BY <2>1 DEF FirstPass
    <3>3. CreatedIn(unit[a]) = Named("PoolCreated", Found(a, asked[a]))
      BY DEF CreatedIn, Named, Found
    <3>4. Seen \cup CreatedIn(unit[a]) \subseteq poolIdToToken' \cup behind
      BY <3>2, <3>3 DEF Seen
    <3> QED
      BY <1>0, <3>1, <3>4
  <2>2. CASE SecondPass(a)
    <3>1. events' = [events EXCEPT ![a] =
              Decode(Found(a, asked[a] \cup extra[a]), poolIdToToken, dynamicManagers, knownTokens)]
      BY <2>2 DEF SecondPass
    <3>2. Seen \cup CreatedIn(unit[a]) \subseteq poolIdToToken \cup behind
      BY <2>2 DEF SecondPass, PoolInv, ActorSees, Seen
    <3> QED
      BY <1>0, <3>1, <3>2
  <2> QED
    BY <1>1, <2>1, <2>2
<1>6. ASSUME NEW L, NEW P, NEW M, NEW T, e \in Decode(L, P, M, T) PROVE Token(e.at) \notin P
  <2>1. PICK p \in L : e = [at |-> p, resolved |-> Kind(p) \in PoolKinds =>
                               Token(p) \in P \cup Named("PoolCreated", {q \in L : Before(q, p)})]
    BY <1>6 DEF Decode
  <2>2. e.at = p /\ (Token(p) \in P => e.resolved)
    BY <2>1
  <2> QED
    BY <2>2
<1> QED
  BY <1>3, <1>4, <1>5, <1>6

\* UnresolvedExplained: a swap or fee distribution is decoded without its
\* token only if a refresh made the scanner forget it, or its creation has
\* not been processed.
THEOREM ForgottenOrUnknown == Spec => UnresolvedExplained
<1>1. Init => Typed /\ Alone /\ PoolInv
  <2> SUFFICES ASSUME Init PROVE Alone /\ PoolInv
    BY TypedInit
  <2>1. step = [a \in Actors |-> IF a = Main THEN "down" ELSE "idle"] /\ processed = {}
    BY DEF Init
  <2>2. Alone
    BY <2>1, DiscoveryAssumption DEF Alone, Actors
  <2>3. \A a \in Actors : ActorSees(a)
    BY <2>1 DEF ActorSees
  <2>4. Starting
    BY <2>1 DEF Starting, Actors
  <2> QED
    BY <2>1, <2>2, <2>3, <2>4 DEF PoolInv
<1>2. Typed /\ Alone /\ PoolInv /\ [Next]_vars => (Typed /\ Alone /\ PoolInv)'
  BY TypedStep, AloneStep, PoolStep
<1>3. Typed /\ Alone /\ PoolInv /\ [Next]_vars
        => [\A a \in Actors : \A e \in events'[a] \ events[a] :
               ~e.resolved => \/ Token(e.at) \in behind
                              \/ Token(e.at) \notin Named("PoolCreated", Logs(processed \cup unit[a]))]_vars
  BY Unresolved DEF CreatedIn
<1> QED
  BY <1>1, <1>2, <1>3, PTL DEF Spec, UnresolvedExplained
=============================================================================

---------------------------- MODULE GatewayProofs -----------------------------
(***************************************************************************)
(* Proofs about Gateway for any set of sockets, of overlapping updates and *)
(* of tokens, for any cap on tokenMetaMap and any list refreshed into it.  *)
(***************************************************************************)
EXTENDS Gateway, WellFoundedInduction, SequenceTheorems, FiniteSetTheorems, TLAPS

(* Order of the lists.                                                     *)

\* Where a task can be, and what it can hold.
Steps == {"idle", "metaGet", "metaSet", "list", "rows", "store"}
Versions == 0..version \cup {None}

\* Types of the lists.
ListTyped ==
    /\ version \in Nat /\ cached \in Versions /\ shown \in Versions
    /\ viaRest \in BOOLEAN /\ raced \in BOOLEAN
    /\ step \in [Tasks -> Steps] /\ val \in [Tasks -> Versions]
    /\ \A k \in Tasks : step[k] = "store" => val[k] # None

\* The list of one that came no later: a is no later than b.
NoLater(a, b) == a # None /\ b # None => a <= b

\* While no two builds have overlapped, one list at most is about to be
\* stored.
OneStore ==
    ~raced => \A j, k \in Tasks : step[j] = "store" /\ step[k] = "store" => j = k

\* What is about to be stored is no older than what is cached, and what the
\* gateway sent is no newer than either.
Ordered ==
    ~raced =>
        /\ ~viaRest => NoLater(shown, cached)
        /\ \A k \in Tasks : step[k] = "store" =>
              /\ NoLater(cached, val[k])
              /\ ~viaRest => NoLater(shown, val[k])

\* The invariant behind ListsInOrder.
OrderInv == ListTyped /\ OneStore /\ Ordered

\* The order holds at the start.
LEMMA OrderInit == Init => OrderInv
<1> SUFFICES ASSUME Init PROVE OrderInv
  OBVIOUS
<1>1. /\ version = 0 /\ cached = None /\ shown = None /\ viaRest = FALSE /\ raced = FALSE
      /\ step = [k \in Tasks |-> "idle"] /\ val = [k \in Tasks |-> None]
  BY DEF Init
<1>2. ListTyped
  BY <1>1 DEF ListTyped, Versions, Steps
<1> QED
  BY <1>1, <1>2 DEF OrderInv, OneStore, Ordered, NoLater

\* Steps that build, store or send no list and change no table.
LEMMA OrderKept ==
    ASSUME OrderInv, UNCHANGED <<cached, val, shown, viaRest, raced>>,
           version' \in Nat, version <= version', step' \in [Tasks -> Steps],
           \A k \in Tasks : step'[k] = "store" => step[k] = "store"
    PROVE  OrderInv'
<1>1. \A x \in Versions : x \in Versions'
  BY DEF OrderInv, ListTyped, Versions
<1>2. ListTyped'
  BY <1>1 DEF OrderInv, ListTyped
<1>3. OneStore' /\ Ordered'
  BY DEF OrderInv, OneStore, Ordered
<1> QED
  BY <1>2, <1>3 DEF OrderInv

\* A list sent to an audience: it is shown, or nothing changes at the page.
LEMMA Sent ==
    ASSUME NEW S, NEW v, Send(S, v)
    PROVE  \/ shown' = v /\ viaRest' = FALSE
           \/ UNCHANGED <<shown, viaRest>>
BY DEF Send, pageVars

\* A build of the list: the rows are selected, and later stored and sent.
LEMMA OrderBuild ==
    ASSUME OrderInv, NEW k \in Tasks, SelectRows(k) \/ StoreList(k)
    PROVE  OrderInv'
<1>0. ListTyped /\ OneStore /\ Ordered /\ step \in [Tasks -> Steps] /\ val \in [Tasks -> Versions]
  BY DEF OrderInv, ListTyped
<1>1. CASE SelectRows(k)
  <2>1. /\ step' = [step EXCEPT ![k] = "store"] /\ val' = [val EXCEPT ![k] = version]
        /\ raced' = (raced \/ \E j \in Tasks : step[j] = "store")
        /\ UNCHANGED <<version, cached, shown, viaRest>>
    BY <1>1 DEF SelectRows, Goto, listVars, pageVars
  <2>2. version \in Versions /\ version # None /\ Versions' = Versions
    BY <1>0, <2>1, GatewayAssumption DEF ListTyped, Versions
  <2>3. \A x \in Versions : NoLater(x, version)
    BY <1>0 DEF ListTyped, NoLater, Versions
  <2>4. step' \in [Tasks -> Steps] /\ val' \in [Tasks -> Versions] /\ raced' \in BOOLEAN
    BY <1>0, <2>1, <2>2 DEF Steps, ListTyped
  <2>5. ListTyped'
    BY <1>0, <2>1, <2>2, <2>4 DEF ListTyped
  <2>6. ~raced' => ~raced /\ \A j \in Tasks : step[j] # "store"
    BY <2>1
  <2>7. \A j \in Tasks : j # k => step'[j] = step[j]
    BY <1>0, <2>1
  <2>8. OneStore'
    BY <2>6, <2>7 DEF OneStore
  <2>9. Ordered'
    <3>1. val'[k] = version
      BY <1>0, <2>1
    <3>2. NoLater(cached, version) /\ NoLater(shown, version)
      BY <1>0, <2>3 DEF ListTyped
    <3> SUFFICES ASSUME ~raced'
                 PROVE  /\ ~viaRest => NoLater(shown, cached)
                        /\ \A j \in Tasks : step'[j] = "store" =>
                              /\ NoLater(cached, val'[j])
                              /\ ~viaRest => NoLater(shown, val'[j])
      BY <2>1 DEF Ordered, NoLater
    <3> QED
      BY <1>0, <2>6, <2>7, <3>1, <3>2 DEF Ordered
  <2> QED
    BY <2>5, <2>8, <2>9 DEF OrderInv
<1>2. CASE StoreList(k)
  <2>1. /\ step[k] = "store" /\ step' = [step EXCEPT ![k] = "idle"]
        /\ val' = [val EXCEPT ![k] = None] /\ cached' = val[k]
        /\ UNCHANGED <<version, raced>>
    BY <1>2 DEF StoreList, Goto
  <2>2. \/ shown' = val[k] /\ viaRest' = FALSE
        \/ UNCHANGED <<shown, viaRest>>
    BY <1>2, Sent DEF StoreList
  <2>3. val[k] \in Versions /\ val[k] # None /\ Versions' = Versions /\ None \in Versions
    BY <1>0, <2>1 DEF ListTyped, Versions
  <2>4. step' \in [Tasks -> Steps] /\ val' \in [Tasks -> Versions]
    BY <1>0, <2>1, <2>3 DEF Steps
  <2>5. \A j \in Tasks : /\ j = k => step'[j] = "idle"
                         /\ j # k => step'[j] = step[j] /\ val'[j] = val[j]
    BY <1>0, <2>1
  <2>6. cached' \in Versions /\ shown' \in Versions /\ viaRest' \in BOOLEAN
    BY <1>0, <2>1, <2>2, <2>3 DEF ListTyped
  <2>7. ListTyped'
    BY <1>0, <2>1, <2>3, <2>4, <2>5, <2>6 DEF ListTyped
  <2>8. ~raced => \A j \in Tasks : step'[j] # "store"
    BY <1>0, <2>1, <2>5 DEF OneStore
  <2>9. ~raced /\ ~viaRest' => NoLater(shown', cached')
    <3>1. NoLater(val[k], val[k])
      BY <1>0, <2>3 DEF ListTyped, NoLater, Versions
    <3> QED
      BY <1>0, <2>1, <2>2, <3>1 DEF Ordered
  <2>10. OneStore' /\ Ordered'
    BY <2>1, <2>8, <2>9 DEF OneStore, Ordered, NoLater
  <2> QED
    BY <2>7, <2>10 DEF OrderInv
<1> QED
  BY <1>1, <1>2

\* Every step keeps the order.
LEMMA OrderStep == OrderInv /\ [Next]_vars => OrderInv'
<1> SUFFICES ASSUME OrderInv, [Next]_vars PROVE OrderInv'
  OBVIOUS
<1>0. ListTyped /\ OneStore /\ Ordered /\ step \in [Tasks -> Steps] /\ version \in Nat
  BY DEF OrderInv, ListTyped
<1>1. ASSUME NEW k \in Tasks, AfterRefresh(k) \/ Goto(k, "metaGet") \/ Goto(k, "metaSet")
             \/ Goto(k, "list") \/ Goto(k, "idle") \/ Goto(k, "rows")
      PROVE  /\ step' \in [Tasks -> Steps]
             /\ \A j \in Tasks : step'[j] = "store" => step[j] = "store"
  <2>1. PICK s \in Steps \ {"store"} : step' = [step EXCEPT ![k] = s]
    BY <1>1 DEF AfterRefresh, Goto, Steps
  <2> QED
    BY <1>0, <2>1
<1>2. CASE UNCHANGED <<version, cached, step, val, shown, viaRest, raced>>
  BY <1>0, <1>2, OrderKept
<1>3. CASE \/ \E s \in Sockets : \/ Break(s, "closed") \/ Break(s, "gone")
                                 \/ Closed(s) \/ Terminated(s) \/ Pong(s)
           \/ Heartbeat \/ (\E t \in Tokens : CandleUpdate(t)) \/ RestFails \/ UNCHANGED vars
  <2>1. UNCHANGED <<version, cached, step, val, shown, viaRest, raced>>
    BY <1>3 DEF Break, Closed, Pong, Terminated, Heartbeat, CandleUpdate, RestFails, vars, listVars, taskVars,
                pageVars
  <2> QED
    BY <1>2, <2>1
<1>4. ASSUME NEW s \in Sockets, Connect(s) PROVE OrderInv'
  <2>1. s \in Tasks /\ Goto(s, "list") /\ UNCHANGED <<version, cached, val, shown, viaRest, raced>>
    BY <1>4 DEF Connect, Tasks, listVars, pageVars
  <2> QED
    BY <1>0, <1>1, <2>1, OrderKept
<1>5. ASSUME NEW k \in Updates, RefreshDue(k) \/ \E t \in Tokens : TradeUpdate(k, t) \/ MetaUpdate(k, t)
      PROVE  OrderInv'
  <2>1. k \in Tasks /\ UNCHANGED <<cached, val, shown, viaRest, raced>>
        /\ version' \in {version, version + 1}
        /\ (AfterRefresh(k) \/ Goto(k, "metaGet") \/ step' = step)
    BY <1>5 DEF RefreshDue, TradeUpdate, MetaUpdate, Tasks, listVars, pageVars
  <2>2. version' \in Nat /\ version <= version'
    BY <1>0, <2>1
  <2>3. /\ step' \in [Tasks -> Steps]
        /\ \A j \in Tasks : step'[j] = "store" => step[j] = "store"
    BY <1>0, <1>1, <2>1
  <2> QED
    BY <2>1, <2>2, <2>3, OrderKept
<1>6. ASSUME NEW k \in Tasks, MetaGet(k) \/ MetaSet(k) PROVE OrderInv'
  <2>1. UNCHANGED <<version, cached, val, shown, viaRest, raced>>
        /\ (AfterRefresh(k) \/ Goto(k, "metaSet"))
    BY <1>6 DEF MetaGet, MetaSet, listVars, pageVars
  <2> QED
    BY <1>0, <1>1, <2>1, OrderKept
<1>7. ASSUME NEW k \in Tasks, ListGet(k) PROVE OrderInv'
  <2>1. CASE cached = None
    <3>1. Goto(k, "rows") /\ UNCHANGED <<version, cached, val, shown, viaRest, raced>>
      BY <1>7, <2>1 DEF ListGet, listVars, pageVars
    <3> QED
      BY <1>0, <1>1, <3>1, OrderKept
  <2>2. CASE cached # None
    <3>1. /\ Goto(k, "idle") /\ UNCHANGED <<version, cached, val, raced>>
          /\ \/ shown' = cached /\ viaRest' = FALSE
             \/ UNCHANGED <<shown, viaRest>>
      BY <1>7, <2>2, Sent DEF ListGet, listVars
    <3>2. /\ step' \in [Tasks -> Steps]
          /\ \A j \in Tasks : step'[j] = "store" => step[j] = "store"
      BY <1>1, <3>1
    <3>3. ListTyped'
      BY <1>0, <3>1, <3>2 DEF ListTyped, Versions
    <3>4. OneStore'
      BY <1>0, <3>1, <3>2 DEF OneStore
    <3>5. NoLater(cached, cached)
      BY <1>0 DEF ListTyped, NoLater, Versions
    <3>6. Ordered'
      <4> SUFFICES ASSUME ~raced
                   PROVE  /\ ~viaRest' => NoLater(shown', cached)
                          /\ \A j \in Tasks : step'[j] = "store" =>
                                /\ NoLater(cached, val[j])
                                /\ ~viaRest' => NoLater(shown', val[j])
        BY <3>1 DEF Ordered, NoLater
      <4> QED
        BY <1>0, <3>1, <3>2, <3>5 DEF Ordered
    <3> QED
      BY <3>3, <3>4, <3>6 DEF OrderInv
  <2> QED
    BY <2>1, <2>2
<1>8. CASE Expire
  <2>1. cached' = None /\ UNCHANGED <<version, step, val, shown, viaRest, raced>>
    BY <1>8 DEF Expire, taskVars, pageVars
  <2> QED
    BY <1>0, <2>1 DEF OrderInv, ListTyped, Versions, OneStore, Ordered, NoLater
<1>9. ASSUME NEW k \in Tasks, TaskThrows(k) PROVE OrderInv'
  <2>1. /\ val' = [val EXCEPT ![k] = None] /\ (AfterRefresh(k) \/ Goto(k, "idle"))
        /\ UNCHANGED <<version, cached, shown, viaRest, raced>>
    BY <1>9 DEF TaskThrows, listVars, pageVars
  <2>2. PICK s \in Steps \ {"store"} : step' = [step EXCEPT ![k] = s]
    BY <2>1 DEF AfterRefresh, Goto, Steps
  <2>3. \A j \in Tasks : step'[j] = "store" => step[j] = "store" /\ val'[j] = val[j]
    BY <1>0, <2>1, <2>2 DEF ListTyped
  <2>4. step' \in [Tasks -> Steps] /\ val' \in [Tasks -> Versions] /\ Versions' = Versions
    BY <1>0, <2>1, <2>2 DEF ListTyped, Versions
  <2>5. ListTyped'
    BY <1>0, <2>1, <2>3, <2>4 DEF ListTyped
  <2>6. OneStore'
    BY <1>0, <2>1, <2>3 DEF OneStore
  <2>7. Ordered'
    BY <1>0, <2>1, <2>3 DEF Ordered, NoLater
  <2> QED
    BY <2>5, <2>6, <2>7 DEF OrderInv
<1>10. ASSUME NEW v \in 0..version, RestAnswers(v) PROVE OrderInv'
  <2>1. /\ UNCHANGED <<version, cached, step, val, raced>>
        /\ \/ shown' = v /\ viaRest' = TRUE
           \/ UNCHANGED <<shown, viaRest>>
    BY <1>10 DEF RestAnswers, listVars, taskVars
  <2> QED
    BY <1>0, <2>1 DEF OrderInv, ListTyped, Versions, OneStore, Ordered, NoLater
<1> QED
  BY <1>3, <1>4, <1>5, <1>6, <1>7, <1>8, <1>9, <1>10, OrderBuild DEF Next, Task

\* ListsInOrder: the page goes back to an older list only if two builds have
\* overlapped or its list came by REST.
THEOREM ListsSentInOrder == Spec => ListsInOrder
<1>1. Spec => []OrderInv
  BY OrderInit, OrderStep, PTL DEF Spec
<1>2. OrderInv /\ [Next]_vars => [~viaRest /\ ~raced /\ shown # None => shown' >= shown]_vars
  <2> SUFFICES ASSUME OrderInv, Next, ~viaRest, ~raced, shown # None PROVE shown' >= shown
    BY DEF vars, pageVars
  <2>0. ListTyped /\ Ordered /\ shown \in Nat
    BY DEF OrderInv, ListTyped, Versions
  <2>1. CASE shown' = shown
    BY <2>0, <2>1
  <2>2. ASSUME NEW k \in Tasks, ListGet(k), shown' # shown PROVE shown' >= shown
    <3>1. cached # None /\ shown' = cached
      BY <2>2, Sent DEF ListGet, pageVars
    <3>2. cached \in Nat
      BY <2>0, <3>1 DEF ListTyped, Versions
    <3> QED
      BY <2>0, <3>1, <3>2 DEF Ordered, NoLater
  <2>3. ASSUME NEW k \in Tasks, StoreList(k), shown' # shown PROVE shown' >= shown
    <3>1. step[k] = "store" /\ shown' = val[k]
      BY <2>3, Sent DEF StoreList
    <3>2. val[k] \in Nat /\ val[k] # None
      BY <2>0, <3>1 DEF ListTyped, Versions
    <3> QED
      BY <2>0, <3>1, <3>2 DEF Ordered, NoLater
  <2>4. \/ shown' = shown
        \/ \E k \in Tasks : ListGet(k) \/ StoreList(k)
    BY DEF Next, Connect, Break, Closed, Pong, Terminated, Heartbeat, CandleUpdate, RefreshDue, TradeUpdate,
           MetaUpdate, Task, MetaGet, MetaSet, SelectRows, TaskThrows, Expire, RestAnswers,
           RestFails, pageVars
  <2> QED
    BY <2>1, <2>2, <2>3, <2>4
<1> QED
  BY <1>1, <1>2, PTL DEF Spec, ListsInOrder

-----------------------------------------------------------------------------
(* Open pages stay registered.                                             *)

\* A socket open at the page's side was slow, or it is in the map and has
\* been heard of since the last tick, or will have to be before the next.
OpenHeard ==
    /\ peer \in [Sockets -> {"none", "open", "closed", "gone"}]
    /\ \A s \in Sockets : peer[s] = "open" /\ s \notin slow =>
          s \in clientMap /\ s \in alive \cup pinged

\* The first half of SocketsTracked: no heartbeat, and no late close event of
\* another connection, drops the socket of a page heard of between any two
\* ticks.
THEOREM OpenSocketsKept ==
    Spec => [](\A s \in Sockets : peer[s] = "open" /\ s \notin slow => s \in clientMap)
<1>1. Init => OpenHeard
  BY DEF Init, OpenHeard
<1>2. OpenHeard /\ [Next]_vars => OpenHeard'
  <2> SUFFICES ASSUME OpenHeard, [Next]_vars PROVE OpenHeard'
    OBVIOUS
  <2>1. ASSUME NEW s \in Sockets, Connect(s) PROVE OpenHeard'
    BY <2>1 DEF Connect, OpenHeard
  <2>2. ASSUME NEW s \in Sockets, Break(s, "closed") \/ Break(s, "gone") PROVE OpenHeard'
    BY <2>2 DEF Break, OpenHeard
  <2>3. ASSUME NEW s \in Sockets, Closed(s) PROVE OpenHeard'
    BY <2>3 DEF Closed, Forget, OpenHeard
  <2>4. ASSUME NEW s \in Sockets, Pong(s) \/ Terminated(s) PROVE OpenHeard'
    BY <2>4 DEF Pong, Terminated, OpenHeard
  <2>5. CASE Heartbeat
    BY <2>5 DEF Heartbeat, Silent, OpenHeard
  <2>6. CASE UNCHANGED socketVars
    BY <2>6 DEF socketVars, OpenHeard
  <2>7. \/ \E s \in Sockets : \/ Connect(s) \/ Break(s, "closed") \/ Break(s, "gone")
                              \/ Closed(s) \/ Pong(s) \/ Terminated(s)
        \/ Heartbeat \/ UNCHANGED socketVars
    BY DEF Next, CandleUpdate, RefreshDue, TradeUpdate, MetaUpdate, Task, MetaGet, MetaSet, ListGet,
           SelectRows, StoreList, TaskThrows, Expire, RestAnswers, RestFails, vars
  <2> QED
    BY <2>1, <2>2, <2>3, <2>4, <2>5, <2>6, <2>7
<1>3. OpenHeard => \A s \in Sockets : peer[s] = "open" /\ s \notin slow => s \in clientMap
  BY DEF OpenHeard
<1> QED
  BY <1>1, <1>2, <1>3, PTL DEF Spec

-----------------------------------------------------------------------------
(* tokenMetaMap.                                                           *)

\* The entries of tokenMetaMap.
Metas == [token : Tokens, closes : 0..SparkMax]

\* No token has two entries.
Distinct(s) == \A i, j \in DOMAIN s : s[i].token = s[j].token => i = j

\* A list of entries that tokenMetaMap can hold.
ListOK(s) == s \in Seq(Metas) /\ Distinct(s) /\ Len(s) <= TokenMetaMax

\* Of a map and the tokens evicted from it: a token never evicted has all the
\* closes received of it, and one never added has received none.
MetaOK(m, rec) ==
    /\ ListOK(m.map) /\ m.out \subseteq Tokens
    /\ \A i \in DOMAIN m.map : m.map[i].token \notin m.out => m.map[i].closes = rec[m.map[i].token]
    /\ \A t \in Tokens : t \notin Known(m.map) \cup m.out => rec[t] = 0

\* The invariant behind ClosesKept.
MetaInv == MetaOK(Held, received) /\ received \in [Tokens -> 0..SparkMax]

\* The type of a list of entries and of its parts.
LEMMA Entries ==
    ASSUME NEW s, ListOK(s)
    PROVE  /\ Len(s) \in Nat /\ DOMAIN s = 1..Len(s)
           /\ \A i \in DOMAIN s : s[i] \in Metas /\ s[i].token \in Tokens
                                  /\ s[i].closes \in 0..SparkMax
           /\ Known(s) \subseteq Tokens
<1>1. Len(s) \in Nat /\ DOMAIN s = 1..Len(s) /\ \A i \in DOMAIN s : s[i] \in Metas
  BY LenProperties, ElementOfSeq DEF ListOK
<1>2. \A i \in DOMAIN s : s[i].token \in Tokens /\ s[i].closes \in 0..SparkMax
  BY <1>1 DEF Metas
<1> QED
  BY <1>1, <1>2 DEF Known

\* An entry's closes are found under its token.
LEMMA ClosesOf ==
    ASSUME NEW s, ListOK(s), NEW t \in Known(s)
    PROVE  \E i \in DOMAIN s : s[i].token = t /\ Closes(s, t) = s[i].closes
<1>1. PICK i \in DOMAIN s : s[i].token = t
  BY DEF Known
<1> DEFINE j == CHOOSE j \in DOMAIN s : s[j].token = t
<1>2. j \in DOMAIN s /\ s[j].token = t
  BY <1>1
<1> QED
  BY <1>2 DEF Closes

\* setTokenMeta for a token of the map: its entry is replaced.
LEMMA SetKnown ==
    ASSUME NEW s, ListOK(s), NEW m \in Metas, m.token \in Known(s)
    PROVE  /\ ListOK(SetMeta(s, m)) /\ Known(SetMeta(s, m)) = Known(s)
           /\ \A i \in DOMAIN SetMeta(s, m) :
                 \/ SetMeta(s, m)[i] = m
                 \/ \E j \in DOMAIN s : SetMeta(s, m)[i] = s[j] /\ s[j].token # m.token
<1> DEFINE new == [i \in DOMAIN s |-> IF s[i].token = m.token THEN m ELSE s[i]]
<1>1. SetMeta(s, m) = new
  BY DEF SetMeta
<1>2. /\ Len(s) \in Nat /\ DOMAIN s = 1..Len(s) /\ \A i \in DOMAIN s : s[i] \in Metas
  BY Entries
<1>3. DOMAIN new = DOMAIN s /\ \A i \in DOMAIN s : new[i].token = s[i].token /\ new[i] \in Metas
  BY <1>2
<1>4. new \in Seq(Metas) /\ Len(new) = Len(s)
  <2>1. new \in [1..Len(s) -> Metas]
    BY <1>2, <1>3
  <2>2. new \in Seq(Metas)
    BY <1>2, <2>1, SeqDef
  <2>3. Len(new) \in Nat /\ DOMAIN new = 1..Len(new)
    BY <2>2, LenProperties
  <2> QED
    BY <1>2, <1>3, <2>2, <2>3
<1>5. \A i \in DOMAIN new : new[i] = m \/ \E j \in DOMAIN s : new[i] = s[j] /\ s[j].token # m.token
  BY <1>3
<1> HIDE DEF new
<1>6. Distinct(new) /\ Known(new) = Known(s)
  BY <1>3 DEF Distinct, Known, ListOK
<1> QED
  BY <1>1, <1>4, <1>5, <1>6 DEF ListOK

\* setTokenMeta for another token: it is added, and above the cap the first
\* entry goes.
LEMMA SetUnknown ==
    ASSUME NEW s, ListOK(s), NEW m \in Metas, m.token \notin Known(s)
    PROVE  /\ ListOK(SetMeta(s, m)) /\ m.token \in Known(SetMeta(s, m))
           /\ \A i \in DOMAIN SetMeta(s, m) :
                 \/ SetMeta(s, m)[i] = m
                 \/ \E j \in DOMAIN s : SetMeta(s, m)[i] = s[j] /\ s[j].token # m.token
<1> DEFINE app == Append(s, m)
           new == SetMeta(s, m)
           n == Len(s)
<1>1. n \in Nat /\ DOMAIN s = 1..n /\ (\A i \in DOMAIN s : s[i] \in Metas) /\ s \in Seq(Metas)
      /\ n <= TokenMetaMax /\ TokenMetaMax \in Nat \ {0}
  BY Entries, GatewayAssumption DEF ListOK
<1>2. /\ app \in Seq(Metas) /\ Len(app) = n + 1 /\ app # <<>>
      /\ \A i \in 1..n : app[i] = s[i]
      /\ app[n + 1] = m
  BY <1>1, AppendProperties
<1>3. \A i \in 1..n : s[i].token # m.token
  BY <1>1 DEF Known
<1>4. \A i, j \in 1..n : s[i].token = s[j].token => i = j
  BY <1>1 DEF ListOK, Distinct
<1> HIDE DEF app, n
<1>5. CASE n = TokenMetaMax
  <2>1. new = Tail(app)
    BY <1>5 DEF SetMeta, app, n
  <2>2. /\ Tail(app) \in Seq(Metas) /\ Len(Tail(app)) = Len(app) - 1
        /\ \A i \in 1..Len(Tail(app)) : Tail(app)[i] = app[i + 1]
    BY <1>2, HeadTailProperties
  <2>3. /\ new \in Seq(Metas) /\ Len(new) = n /\ DOMAIN new = 1..n
        /\ \A i \in 1..n : new[i] = app[i + 1]
    BY <1>1, <1>2, <2>1, <2>2, LenProperties
  <2> HIDE DEF new
  <2>4. new[n] = m /\ n \in 1..n /\ \A i \in 1..(n - 1) : new[i] = s[i + 1] /\ i + 1 \in 1..n
    BY <1>1, <1>2, <1>5, <2>3
  <2>5. Distinct(new)
    <3> SUFFICES ASSUME NEW i \in 1..n, NEW j \in 1..n, new[i].token = new[j].token PROVE i = j
      BY <2>3 DEF Distinct
    <3>1. CASE i \in 1..(n - 1) /\ j \in 1..(n - 1)
      BY <1>4, <2>4, <3>1
    <3>2. CASE i = n \/ j = n
      BY <1>1, <1>3, <2>4, <3>2
    <3> QED
      BY <1>1, <3>1, <3>2
  <2>6. \A i \in DOMAIN new : new[i] = m \/ \E j \in DOMAIN s : new[i] = s[j] /\ s[j].token # m.token
    <3> SUFFICES ASSUME NEW i \in 1..n, i # n
                 PROVE  \E j \in DOMAIN s : new[i] = s[j] /\ s[j].token # m.token
      BY <2>3, <2>4
    <3>1. i \in 1..(n - 1)
      BY <1>1
    <3> QED
      BY <1>1, <1>3, <2>4, <3>1
  <2>7. m.token \in Known(new)
    BY <2>3, <2>4 DEF Known
  <2>8. ListOK(new)
    BY <1>1, <2>3, <2>5 DEF ListOK
  <2> QED
    BY <2>6, <2>7, <2>8 DEF new
<1>6. CASE n # TokenMetaMax
  <2>1. new = app
    BY <1>6 DEF SetMeta, app, n
  <2>2. DOMAIN app = 1..(n + 1)
    BY <1>2, LenProperties
  <2>3. Distinct(app)
    <3> SUFFICES ASSUME NEW i \in 1..(n + 1), NEW j \in 1..(n + 1), app[i].token = app[j].token
                 PROVE  i = j
      BY <2>2 DEF Distinct
    <3>1. CASE i \in 1..n /\ j \in 1..n
      BY <1>2, <1>4, <3>1
    <3>2. CASE i = n + 1 \/ j = n + 1
      BY <1>1, <1>2, <1>3, <3>2
    <3> QED
      BY <1>1, <3>1, <3>2
  <2>4. \A i \in DOMAIN app : app[i] = m \/ \E j \in DOMAIN s : app[i] = s[j] /\ s[j].token # m.token
    BY <1>1, <1>2, <1>3, <2>2
  <2>5. m.token \in Known(app)
    BY <1>1, <1>2, <2>2 DEF Known
  <2>6. ListOK(app)
    BY <1>1, <1>2, <1>6, <2>3 DEF ListOK
  <2> QED
    BY <2>1, <2>4, <2>5, <2>6
<1> QED
  BY <1>5, <1>6

\* An item or an update: no entry loses its closes, and its token is added.
LEMMA RefreshedOK ==
    ASSUME NEW rec \in [Tokens -> 0..SparkMax], NEW m, MetaOK(m, rec), NEW t \in Tokens
    PROVE  /\ MetaOK(Refreshed(m, t), rec)
           /\ t \in Known(Refreshed(m, t).map)
<1> DEFINE e == [token |-> t, closes |-> Kept(m.map, t)]
           new == SetMeta(m.map, e)
           out == m.out \cup ((Known(m.map) \cup {t}) \ Known(new))
<1>0. ListOK(m.map) /\ m.out \subseteq Tokens /\ Known(m.map) \subseteq Tokens
  BY Entries DEF MetaOK
<1>1. Kept(m.map, t) \in 0..SparkMax /\ (t \notin m.out => Kept(m.map, t) = rec[t])
  <2>1. CASE t \in Known(m.map)
    <3>1. PICK i \in DOMAIN m.map : m.map[i].token = t /\ Closes(m.map, t) = m.map[i].closes
      BY <1>0, <2>1, ClosesOf
    <3>2. Kept(m.map, t) = m.map[i].closes
      BY <2>1, <3>1 DEF Kept
    <3> QED
      BY <1>0, <3>1, <3>2, Entries DEF MetaOK
  <2>2. CASE t \notin Known(m.map)
    BY <2>2, GatewayAssumption DEF Kept, MetaOK
  <2> QED
    BY <2>1, <2>2
<1>2. e \in Metas /\ e.token = t /\ e.closes = Kept(m.map, t)
  BY <1>1 DEF Metas
<1>3. Refreshed(m, t) = [map |-> new, out |-> out]
  BY DEF Refreshed
<1> HIDE DEF e
<1>4. /\ ListOK(new) /\ t \in Known(new)
      /\ \A i \in DOMAIN new :
            new[i] = e \/ \E j \in DOMAIN m.map : new[i] = m.map[j] /\ m.map[j].token # t
  BY <1>0, <1>2, SetKnown, SetUnknown
<1> HIDE DEF new
<1>5. \A i \in DOMAIN new : new[i].token \notin out => new[i].closes = rec[new[i].token]
  BY <1>1, <1>2, <1>4 DEF MetaOK
<1>6. \A u \in Tokens : u \notin Known(new) \cup out => rec[u] = 0
  BY DEF MetaOK
<1>7. out \subseteq Tokens
  BY <1>0
<1> HIDE DEF out
<1> QED
  BY <1>3, <1>4, <1>5, <1>6, <1>7 DEF MetaOK

-----------------------------------------------------------------------------
(* Induction over sets of numbers.                                         *)

\* A set of numbers up to a bound has a largest one.
LEMMA LargestOf ==
    ASSUME NEW n \in Nat, NEW S, S \subseteq 1..n, S # {}
    PROVE  Max(S) \in S
<1> DEFINE T == {n - i : i \in S}
           R == {ss \in Nat \X Nat : ss[1] < ss[2]}
<1>0. \A i \in S : i \in Int /\ i <= n
  OBVIOUS
<1>1. IsWellFoundedOn(R, Nat)
  BY NatLessThanWellFounded DEF OpToRel
<1>2. T \subseteq Nat /\ T # {}
  <2>1. \A i \in S : n - i \in Nat
    BY <1>0
  <2>2. PICK i \in S : TRUE
    OBVIOUS
  <2> QED
    BY <2>1, <2>2
<1>3. \E x \in T : \A y \in T : <<y, x>> \notin R
  <2> HIDE DEF T, R
  <2> QED
    BY <1>1, <1>2, WFMin
<1>4. PICK x \in T : \A y \in T : <<y, x>> \notin R
  BY <1>3
<1>5. PICK i \in S : x = n - i
  BY <1>4
<1>6. \A j \in S : i >= j
  <2> SUFFICES ASSUME NEW j \in S PROVE i >= j
    OBVIOUS
  <2>1. n - j \in T /\ n - j \in Nat /\ n - i \in Nat
    BY <1>0
  <2>2. ~(n - j < n - i)
    BY <1>4, <1>5, <2>1
  <2> QED
    BY <1>0, <1>5, <2>2
<1> QED
  BY <1>6 DEF Max

\* Induction, as a statement about sets of numbers.
LEMMA NatSetInduction ==
    ASSUME NEW S \in SUBSET Nat, 0 \in S, \A n \in S : n + 1 \in S
    PROVE  S = Nat
<1> DEFINE T == Nat \ S
           R == {ss \in Nat \X Nat : ss[1] < ss[2]}
<1> SUFFICES ASSUME T # {} PROVE FALSE
  OBVIOUS
<1>1. IsWellFoundedOn(R, Nat)
  BY NatLessThanWellFounded DEF OpToRel
<1>2. \E x \in T : \A y \in T : <<y, x>> \notin R
  <2>1. T \subseteq Nat
    OBVIOUS
  <2> HIDE DEF T, R
  <2> QED
    BY <1>1, <2>1, WFMin
<1>3. PICK x \in T : \A y \in T : <<y, x>> \notin R
  BY <1>2
<1>4. x \in Nat /\ x # 0 /\ x - 1 \in Nat /\ x - 1 < x /\ (x - 1) + 1 = x
  BY <1>3
<1>5. x - 1 \in T
  BY <1>3, <1>4
<1> QED
  BY <1>3, <1>4, <1>5

\* The sets of at most n elements of S.
Upto(S, n) == {U \in SUBSET S : Cardinality(U) <= n}

\* I takes the items of each set of D, the last one last.
Folds(I, h, items, D) ==
    I = [s \in D |-> IF s = {} THEN h ELSE Refreshed(I[s \ {Max(s)}], items[Max(s)])]

\* The last of a set of numbers is one of them, and taking it away leaves a
\* smaller set.
LEMMA LastTaken ==
    ASSUME NEW n \in Nat, NEW k \in Nat, NEW U \in Upto(1..n, k), U # {}
    PROVE  /\ Max(U) \in 1..n /\ Cardinality(U) \in Nat /\ k > 0
           /\ U \ {Max(U)} \in Upto(1..n, k - 1)
<1>1. U \in SUBSET (1..n) /\ Cardinality(U) <= k
  BY DEF Upto
<1>2. IsFiniteSet(U)
  <2>1. IsFiniteSet(1..n)
    BY FS_Interval
  <2> QED
    BY <1>1, <2>1, FS_Subset
<1>3. Cardinality(U) \in Nat /\ Cardinality(U) # 0
  BY <1>2, FS_CardinalityType, FS_EmptySet
<1>4. Max(U) \in U
  BY <1>1, LargestOf
<1>5. Cardinality(U \ {Max(U)}) = Cardinality(U) - 1
  BY <1>2, <1>4, FS_RemoveElement
<1>6. U \ {Max(U)} \in SUBSET (1..n)
  BY <1>1
<1>7. Max(U) \in 1..n
  BY <1>1, <1>4
<1> HIDE DEF Max
<1>8. k > 0 /\ Cardinality(U) - 1 <= k - 1
  BY <1>1, <1>3
<1>9. U \ {Max(U)} \in Upto(1..n, k - 1)
  BY <1>5, <1>6, <1>8 DEF Upto
<1> QED
  BY <1>3, <1>7, <1>8, <1>9

\* The sets of no element, of one more, and of any number of elements.
LEMMA Sizes ==
    ASSUME NEW n \in Nat
    PROVE  /\ \A U \in Upto(1..n, 0) : U = {}
           /\ \A k \in Nat : Upto(1..n, k) \subseteq Upto(1..n, k + 1)
           /\ Upto(1..n, n) = SUBSET (1..n)
<1>1. \A U \in Upto(1..n, 0) : U = {}
  <2> SUFFICES ASSUME NEW U \in Upto(1..n, 0), U # {} PROVE FALSE
    OBVIOUS
  <2>1. 0 \in Nat
    OBVIOUS
  <2>2. 0 > 0
    BY <2>1, LastTaken
  <2> QED
    BY <2>2
<1>2. IsFiniteSet(1..n) /\ Cardinality(1..n) = n
  BY FS_Interval
<1>3. ASSUME NEW U \in SUBSET (1..n) PROVE Cardinality(U) \in Nat /\ Cardinality(U) <= n
  <2>1. IsFiniteSet(U) /\ Cardinality(U) <= n
    BY <1>2, FS_Subset
  <2> QED
    BY <2>1, FS_CardinalityType
<1>4. Upto(1..n, n) = SUBSET (1..n)
  BY <1>3 DEF Upto
<1>5. ASSUME NEW k \in Nat, NEW U \in Upto(1..n, k) PROVE U \in Upto(1..n, k + 1)
  <2>1. U \in SUBSET (1..n) /\ Cardinality(U) <= k
    BY DEF Upto
  <2>2. Cardinality(U) \in Nat
    BY <1>3, <2>1
  <2>3. Cardinality(U) <= k + 1
    BY <2>1, <2>2
  <2> QED
    BY <2>1, <2>3 DEF Upto
<1> QED
  BY <1>1, <1>4, <1>5

\* The fold exists.
LEMMA FoldsExist ==
    ASSUME NEW n \in Nat, NEW h, NEW items
    PROVE  \E I : Folds(I, h, items, SUBSET (1..n))
<1> DEFINE S == 1..n
           N == {k \in Nat : \E I : Folds(I, h, items, Upto(S, k))}
<1>1. \A U \in Upto(S, 0) : U = {}
  BY Sizes
<1>2. ASSUME NEW k \in Nat PROVE Upto(S, k) \subseteq Upto(S, k + 1)
  BY Sizes
<1>4. ASSUME NEW k \in Nat, NEW U \in Upto(S, k + 1), U # {} PROVE U \ {Max(U)} \in Upto(S, k)
  <2>1. k + 1 \in Nat /\ (k + 1) - 1 = k
    OBVIOUS
  <2>2. U \ {Max(U)} \in Upto(S, (k + 1) - 1)
    BY <1>4, <2>1, LastTaken
  <2> QED
    BY <2>1, <2>2
<1>6. Upto(S, n) = SUBSET S
  BY Sizes
<1> HIDE DEF S
<1>3. 0 \in N
  <2> DEFINE I == [s \in Upto(S, 0) |-> h]
  <2>2. Folds(I, h, items, Upto(S, 0))
    BY <1>1 DEF Folds
  <2> QED
    BY <2>2
<1>5. ASSUME NEW k \in N PROVE k + 1 \in N
  <2>1. PICK I : Folds(I, h, items, Upto(S, k))
    BY <1>5
  <2> DEFINE J == [s \in Upto(S, k + 1) |->
                      IF s = {} THEN h ELSE Refreshed(I[s \ {Max(s)}], items[Max(s)])]
  <2>2. \A U \in Upto(S, k + 1) : U # {} => U \ {Max(U)} \in Upto(S, k)
    BY <1>4, <1>5
  <2>3. \A U \in Upto(S, k) : U \in Upto(S, k + 1) /\ J[U] = I[U]
    <3>1. \A U \in Upto(S, k) : U \in Upto(S, k + 1)
      BY <1>2, <1>5
    <3>2. \A U \in Upto(S, k) :
             I[U] = IF U = {} THEN h ELSE Refreshed(I[U \ {Max(U)}], items[Max(U)])
      BY <2>1, Zenon DEF Folds
    <3> QED
      BY <3>1, <3>2
  <2>4. \A U \in Upto(S, k + 1) :
           J[U] = IF U = {} THEN h ELSE Refreshed(J[U \ {Max(U)}], items[Max(U)])
    BY <2>2, <2>3
  <2>5. J = [s \in Upto(S, k + 1) |->
                IF s = {} THEN h ELSE Refreshed(J[s \ {Max(s)}], items[Max(s)])]
    BY <2>4
  <2> HIDE DEF J
  <2>6. Folds(J, h, items, Upto(S, k + 1))
    BY <2>5 DEF Folds
  <2> QED
    BY <1>5, <2>6
<1>7. N = Nat
  <2> HIDE DEF N
  <2>1. N \in SUBSET Nat
    BY DEF N
  <2> QED
    BY <1>3, <1>5, <2>1, NatSetInduction
<1>8. n \in N
  BY <1>7
<1> QED
  BY <1>6, <1>8 DEF S

\* refreshTokenMeta over any tokens.
LEMMA AllRefreshed ==
    ASSUME NEW rec \in [Tokens -> 0..SparkMax], MetaOK(Held, rec),
           NEW n \in Nat, NEW items \in [1..n -> Tokens]
    PROVE  MetaOK(FoldLeft(Refreshed, Held, items), rec)
<1> DEFINE S == 1..n
           J == CHOOSE iter :
                    iter = [s \in SUBSET DOMAIN items |->
                                IF s = {} THEN Held
                                ELSE Refreshed(iter[s \ {Max(s)}], items[Max(s)])]
           N == {k \in Nat : \A U \in Upto(S, k) : MetaOK(J[U], rec)}
<1>1. FoldLeft(Refreshed, Held, items) = J[DOMAIN items]
  BY DEF FoldLeft, MapThenFoldSet
<1>2. DOMAIN items = S
  OBVIOUS
<1>3. Folds(J, Held, items, SUBSET S)
  <2>1. PICK I : Folds(I, Held, items, SUBSET S)
    BY FoldsExist
  <2>2. I = [s \in SUBSET DOMAIN items |->
                IF s = {} THEN Held ELSE Refreshed(I[s \ {Max(s)}], items[Max(s)])]
    BY <1>2, <2>1 DEF Folds
  <2>3. J = [s \in SUBSET DOMAIN items |->
                IF s = {} THEN Held ELSE Refreshed(J[s \ {Max(s)}], items[Max(s)])]
    BY <2>2
  <2> QED
    BY <1>2, <2>3 DEF Folds
<1> HIDE DEF J
<1>4. \A U \in SUBSET S :
         J[U] = IF U = {} THEN Held ELSE Refreshed(J[U \ {Max(U)}], items[Max(U)])
  BY <1>3, Zenon DEF Folds
<1>5. \A U \in Upto(S, 0) : U = {}
  BY Sizes
<1>6. ASSUME NEW k \in Nat, NEW U \in Upto(S, k + 1), U # {}
      PROVE  items[Max(U)] \in Tokens /\ U \ {Max(U)} \in Upto(S, k) /\ U \in SUBSET S
  <2>1. k + 1 \in Nat /\ (k + 1) - 1 = k /\ U \in SUBSET S
    BY DEF Upto
  <2>2. U \ {Max(U)} \in Upto(S, (k + 1) - 1) /\ Max(U) \in S
    BY <1>6, <2>1, LastTaken
  <2> QED
    BY <2>1, <2>2
<1>10. S \in Upto(S, n)
  BY Sizes
<1> HIDE DEF S
<1>7. 0 \in N
  <2>2. {} \in SUBSET S
    OBVIOUS
  <2> QED
    BY <1>4, <1>5, <2>2
<1>8. ASSUME NEW k \in N PROVE k + 1 \in N
  <2>1. ASSUME NEW U \in Upto(S, k + 1) PROVE MetaOK(J[U], rec)
    <3>1. CASE U = {}
      BY <1>4, <3>1
    <3>2. CASE U # {}
      <4>1. U \in SUBSET S /\ U \ {Max(U)} \in Upto(S, k) /\ items[Max(U)] \in Tokens
        BY <1>6, <1>8, <3>2
      <4>2. MetaOK(J[U \ {Max(U)}], rec)
        BY <1>8, <4>1
      <4>3. J[U] = Refreshed(J[U \ {Max(U)}], items[Max(U)])
        BY <1>4, <3>2, <4>1
      <4> QED
        BY <4>1, <4>2, <4>3, RefreshedOK
    <3> QED
      BY <3>1, <3>2
  <2> QED
    BY <1>8, <2>1
<1>9. N = Nat
  <2> HIDE DEF N
  <2>1. N \in SUBSET Nat
    BY DEF N
  <2> QED
    BY <1>7, <1>8, <2>1, NatSetInduction
<1>11. MetaOK(J[S], rec)
  BY <1>9, <1>10
<1> QED
  BY <1>1, <1>2, <1>11

-----------------------------------------------------------------------------
(* The steps of tokenMetaMap, and type correctness.                        *)

\* The map and the evicted tokens are those that a step computes.
LEMMA Became ==
    ASSUME NEW rec, NEW m, MetaOK(m, rec), Becomes(m)
    PROVE  MetaOK(Held', rec)
<1>1. Held'.map = m.map /\ Held'.out = m.out
  BY DEF Held, Becomes
<1> HIDE DEF Held
<1> QED
  BY <1>1 DEF MetaOK

\* No token has an entry or a close at the start.
LEMMA MetaInit == Init => MetaInv
<1> SUFFICES ASSUME Init PROVE MetaInv
  OBVIOUS
<1>1. tokenMeta = <<>> /\ received = [t \in Tokens |-> 0] /\ evicted = {}
  BY DEF Init
<1>2. ListOK(<<>>)
  BY GatewayAssumption DEF ListOK, Distinct
<1>3. Held.map = <<>> /\ Held.out = {}
  BY <1>1 DEF Held
<1>4. received \in [Tokens -> 0..SparkMax] /\ \A t \in Tokens : received[t] = 0
  BY <1>1, GatewayAssumption
<1> HIDE DEF Held
<1> QED
  BY <1>2, <1>3, <1>4 DEF MetaInv, MetaOK

\* A candle: its close is counted, and appended to the entry of its token.
LEMMA MetaCandle ==
    ASSUME MetaInv, NEW t \in Tokens, CandleUpdate(t)
    PROVE  MetaInv'
<1> DEFINE m == Refreshed(Held, t)
           e == [token |-> t, closes |-> One(Kept(m.map, t))]
           new == SetMeta(m.map, e)
<1>1. MetaOK(Held, received) /\ received \in [Tokens -> 0..SparkMax]
  BY DEF MetaInv
<1>2. MetaOK(m, received) /\ t \in Known(m.map)
  BY <1>1, RefreshedOK
<1>3. /\ tokenMeta' = new /\ evicted' = m.out
      /\ received' = [received EXCEPT ![t] = One(@)]
  BY DEF CandleUpdate, Becomes, Refreshed
<1> HIDE DEF m
<1>4. PICK i \in DOMAIN m.map : m.map[i].token = t /\ Closes(m.map, t) = m.map[i].closes
  BY <1>2, ClosesOf DEF MetaOK
<1>5. /\ Kept(m.map, t) = m.map[i].closes
      /\ t \notin m.out => Kept(m.map, t) = received[t]
      /\ Kept(m.map, t) \in 0..SparkMax
  BY <1>2, <1>4, Entries DEF Kept, MetaOK
<1>6. \A n \in 0..SparkMax : One(n) \in 0..SparkMax
  BY GatewayAssumption DEF One
<1>7. e \in Metas /\ e.token = t /\ e.closes = One(Kept(m.map, t))
  BY <1>5, <1>6 DEF Metas
<1> HIDE DEF e
<1>8. /\ ListOK(new) /\ Known(new) = Known(m.map)
      /\ \A j \in DOMAIN new :
            new[j] = e \/ \E l \in DOMAIN m.map : new[j] = m.map[l] /\ m.map[l].token # t
  BY <1>2, <1>7, SetKnown DEF MetaOK
<1> HIDE DEF new
<1>9. received' \in [Tokens -> 0..SparkMax]
  BY <1>1, <1>3, <1>6
<1>10. /\ received'[t] = One(received[t])
       /\ \A u \in Tokens : u # t => received'[u] = received[u]
  BY <1>1, <1>3
<1>11. \A j \in DOMAIN new : new[j].token \notin m.out => new[j].closes = received'[new[j].token]
  <2> SUFFICES ASSUME NEW j \in DOMAIN new, new[j].token \notin m.out
               PROVE  new[j].closes = received'[new[j].token]
    OBVIOUS
  <2>1. CASE new[j] = e
    BY <1>5, <1>7, <1>10, <2>1
  <2>2. CASE new[j] # e
    <3>1. PICK l \in DOMAIN m.map : new[j] = m.map[l] /\ m.map[l].token # t
      BY <1>8, <2>2
    <3>2. m.map[l].token \in Tokens /\ m.map[l].closes = received[m.map[l].token]
      BY <1>2, <3>1, Entries DEF MetaOK
    <3> QED
      BY <1>10, <3>1, <3>2
  <2> QED
    BY <2>1, <2>2
<1>12. \A u \in Tokens : u \notin Known(new) \cup m.out => received'[u] = 0
  BY <1>2, <1>8, <1>10 DEF MetaOK
<1>13. Held'.map = new /\ Held'.out = m.out
  BY <1>3 DEF Held
<1> HIDE DEF Held
<1> QED
  BY <1>2, <1>8, <1>9, <1>11, <1>12, <1>13 DEF MetaInv, MetaOK

\* Every step keeps what is said of tokenMetaMap.
LEMMA MetaStep == MetaInv /\ [Next]_vars => MetaInv'
<1> SUFFICES ASSUME MetaInv, [Next]_vars PROVE MetaInv'
  OBVIOUS
<1>1. MetaOK(Held, received) /\ received \in [Tokens -> 0..SparkMax]
  BY DEF MetaInv
<1>2. CASE UNCHANGED metaVars
  BY <1>2 DEF metaVars, MetaInv, Held
<1>3. ASSUME NEW k \in Updates, NEW t \in Tokens, TradeUpdate(k, t) \/ MetaUpdate(k, t)
      PROVE  MetaInv'
  <2>1. Becomes(Refreshed(Held, t)) /\ received' = received
    BY <1>3 DEF TradeUpdate, MetaUpdate
  <2>2. MetaOK(Refreshed(Held, t), received)
    BY <1>1, RefreshedOK
  <2> QED
    BY <1>1, <2>1, <2>2, Became DEF MetaInv
<1>4. ASSUME NEW k \in Tasks, MetaSet(k) PROVE MetaInv'
  <2>1. PICK items \in SetToSeqs(Listed) : Becomes(FoldLeft(Refreshed, Held, items))
    BY <1>4 DEF MetaSet
  <2>2. received' = received
    BY <1>4 DEF MetaSet
  <2>3. Cardinality(Listed) \in Nat
    BY GatewayAssumption, FS_Subset, FS_CardinalityType
  <2>4. items \in [1..Cardinality(Listed) -> Tokens]
    BY GatewayAssumption DEF SetToSeqs
  <2>5. MetaOK(FoldLeft(Refreshed, Held, items), received)
    BY <1>1, <2>3, <2>4, AllRefreshed
  <2> QED
    BY <1>1, <2>1, <2>2, <2>5, Became DEF MetaInv
<1>5. \/ UNCHANGED metaVars
      \/ \E t \in Tokens : CandleUpdate(t)
      \/ \E k \in Updates, t \in Tokens : TradeUpdate(k, t) \/ MetaUpdate(k, t)
      \/ \E k \in Tasks : MetaSet(k)
  BY DEF Next, Connect, Break, Closed, Pong, Terminated, Heartbeat, RefreshDue, Task, MetaGet, ListGet,
         SelectRows, StoreList, TaskThrows, Expire, RestAnswers, RestFails, vars
<1> QED
  BY <1>2, <1>3, <1>4, <1>5, MetaCandle

\* ClosesKept: no order of candles, updates and refreshes loses a close of a
\* token that the cap never evicted.
THEOREM SparklinesKept == Spec => []ClosesKept
<1>1. MetaInv => ClosesKept
  <2> SUFFICES ASSUME MetaInv, NEW t \in Known(tokenMeta) \ evicted
               PROVE  Closes(tokenMeta, t) = received[t]
    BY DEF ClosesKept
  <2>1. MetaOK(Held, received) /\ Held.map = tokenMeta /\ Held.out = evicted
    BY DEF MetaInv, Held
  <2> HIDE DEF Held
  <2>2. PICK i \in DOMAIN tokenMeta :
            tokenMeta[i].token = t /\ Closes(tokenMeta, t) = tokenMeta[i].closes
    BY <2>1, ClosesOf DEF MetaOK
  <2> QED
    BY <2>1, <2>2 DEF MetaOK
<1> QED
  BY <1>1, MetaInit, MetaStep, PTL DEF Spec

\* The sockets of the map, and the bounds of the counters.
SocketInv ==
    /\ peer \in [Sockets -> {"none", "open", "closed", "gone"}]
    /\ clientMap \subseteq Sockets /\ alive \subseteq clientMap /\ pinged \subseteq clientMap
    /\ slow \subseteq Sockets
    /\ rest \in BOOLEAN
    /\ events \in 0..MaxEvents /\ version <= events

\* It holds at the start.
LEMMA SocketInit == Init => SocketInv
BY GatewayAssumption DEF Init, SocketInv

\* Every step keeps it.
LEMMA SocketStep == ListTyped /\ SocketInv /\ [Next]_vars => SocketInv'
<1> SUFFICES ASSUME version \in Nat, SocketInv, [Next]_vars PROVE SocketInv'
  BY DEF ListTyped
<1>0. MaxEvents \in Nat /\ events \in Nat
  BY GatewayAssumption DEF SocketInv
<1>1. ASSUME NEW s \in Sockets, \/ Connect(s) \/ Break(s, "closed") \/ Break(s, "gone")
                                \/ Closed(s) \/ Pong(s) \/ Terminated(s)
      PROVE  SocketInv'
  <2>1. UNCHANGED <<events, version, rest>>
    BY <1>1 DEF Connect, Break, Closed, Pong, Terminated, listVars, pageVars
  <2>2. /\ peer' \in [Sockets -> {"none", "open", "closed", "gone"}]
        /\ clientMap' \subseteq Sockets /\ alive' \subseteq clientMap' /\ pinged' \subseteq clientMap'
        /\ slow' \subseteq Sockets
    BY <1>1 DEF SocketInv, Connect, Break, Closed, Forget, Pong, Terminated
  <2> QED
    BY <2>1, <2>2 DEF SocketInv
<1>2. CASE Heartbeat
  <2>1. UNCHANGED <<events, version, rest>>
    BY <1>2 DEF Heartbeat, listVars, pageVars
  <2>2. peer' \in [Sockets -> {"none", "open", "closed", "gone"}]
    BY <1>2 DEF SocketInv, Heartbeat
  <2>3. clientMap' \subseteq Sockets /\ alive' \subseteq clientMap' /\ pinged' \subseteq clientMap'
        /\ slow' \subseteq Sockets
    BY <1>2 DEF SocketInv, Heartbeat
  <2> QED
    BY <2>1, <2>2, <2>3 DEF SocketInv
<1>3. CASE UNCHANGED <<socketVars, rest>> /\ (Happens \/ UNCHANGED events)
           /\ version' \in {version, version + 1} /\ (version' = version \/ Happens)
  <2>1. events' \in 0..MaxEvents /\ version' <= events'
    BY <1>0, <1>3 DEF SocketInv, Happens
  <2> QED
    BY <1>3, <2>1 DEF SocketInv, socketVars
<1>4. CASE UNCHANGED <<socketVars, events, version>> /\ rest' = FALSE
  BY <1>4 DEF SocketInv, socketVars
<1>5. \/ \E s \in Sockets : \/ Connect(s) \/ Break(s, "closed") \/ Break(s, "gone")
                            \/ Closed(s) \/ Pong(s) \/ Terminated(s)
      \/ Heartbeat
      \/ /\ UNCHANGED <<socketVars, rest>> /\ (Happens \/ UNCHANGED events)
         /\ version' \in {version, version + 1} /\ (version' = version \/ Happens)
      \/ UNCHANGED <<socketVars, events, version>> /\ rest' = FALSE
  BY DEF Next, CandleUpdate, RefreshDue, TradeUpdate, MetaUpdate, Task, MetaGet, MetaSet, ListGet,
         SelectRows, StoreList, Send, TaskThrows, Expire, RestAnswers, RestFails, vars, listVars,
         pageVars
<1> QED
  BY <1>1, <1>2, <1>3, <1>4, <1>5

\* Type correctness: in particular the sockets heard of and pinged are
\* registered ones, no token has two entries, and the map stays in its cap.
THEOREM TypeCorrect == Spec => []TypeOK
<1>1. Spec => []OrderInv
  BY OrderInit, OrderStep, PTL DEF Spec
<1>2. Spec => []MetaInv
  BY MetaInit, MetaStep, PTL DEF Spec
<1>3. OrderInv => ListTyped
  BY DEF OrderInv
<1>4. Spec => []SocketInv
  BY <1>1, <1>3, SocketInit, SocketStep, PTL DEF Spec
<1>5. OrderInv /\ MetaInv /\ SocketInv => TypeOK
  <2> SUFFICES ASSUME OrderInv, MetaInv, SocketInv PROVE TypeOK
    OBVIOUS
  <2>1. ListTyped /\ version \in 0..MaxEvents
    BY GatewayAssumption DEF OrderInv, ListTyped, SocketInv
  <2>2. ListOK(tokenMeta) /\ evicted \subseteq Tokens /\ received \in [Tokens -> 0..SparkMax]
    BY DEF MetaInv, MetaOK, Held
  <2>3. IsInjective([i \in DOMAIN tokenMeta |-> tokenMeta[i].token])
    BY <2>2 DEF IsInjective, ListOK, Distinct
  <2>4. tokenMeta \in Seq([token : Tokens, closes : 0..SparkMax]) /\ Len(tokenMeta) <= TokenMetaMax
    BY <2>2 DEF ListOK, Metas
  <2> QED
    BY <2>1, <2>2, <2>3, <2>4 DEF TypeOK, ListTyped, SocketInv, Versions, Steps
<1> QED
  BY <1>1, <1>2, <1>4, <1>5, PTL
=============================================================================

------------------------------ MODULE Gateway -------------------------------
(***************************************************************************)
(* The WebSocket gateway (ws/gateway.ts) and the page that listens to it   *)
(* (public/app.js): connections and their heartbeat, the token list that   *)
(* is cached, rebuilt and broadcast, and the metadata kept per token.      *)
(*                                                                         *)
(* A list is the version of the tables it was selected from.  Of a token's *)
(* metadata only the sparkline is kept, as the number of closes in it; its *)
(* copy in Redis, read at a start and then overwritten from Postgres, is   *)
(* left out with the start.  Time is: what a timer or a debounce decides   *)
(* may go either way.                                                      *)
(*                                                                         *)
(* Replies on the one Redis connection come in the order of the commands,  *)
(* so a GET and what follows its reply are one step, except where closes   *)
(* that arrive in between matter.                                          *)
(***************************************************************************)
EXTENDS Integers, Sequences, FiniteSets, SequencesExt

CONSTANTS
    Sockets,       \* the connections the page makes, one after the other
    Updates,       \* identities for refresh-and-broadcast chains
    Tokens,        \* tokens traded
    Listed,        \* those of them that getTokenList returns
    None,          \* no list
    TokenMetaMax,  \* TOKEN_META_MAX (10 000)
    SparkMax,      \* closes in a sparkline (24)
    MaxEvents,     \* bound: updates, candles, expiries, failures
    MaxBreaks      \* bound: broken connections

Tasks == Sockets \cup Updates

ASSUME GatewayAssumption ==
    /\ Sockets \cap Updates = {}
    /\ IsFiniteSet(Tokens) /\ Listed \subseteq Tokens
    /\ TokenMetaMax \in Nat \ {0} /\ SparkMax \in Nat /\ MaxEvents \in Nat
    /\ MaxBreaks \in Nat
    /\ None \notin Nat

VARIABLES
    peer,        \* page's end of each socket: "none", "open", "closed" or "gone"
    clientMap,   \* sockets in clientMap
    alive,       \* those whose alive flag is set
    pinged,      \* open sockets pinged at the last tick and not heard of since
    version,     \* of the tables
    cached,      \* list under KEYS.apiTokenList(), or None
    step, val,   \* await of each task, and the list it holds
    tokenMeta,   \* tokenMetaMap, in insertion order: [token, closes]
    shown, viaRest,  \* list the page shows, and whether REST sent it
    rest,        \* the page awaits its REST request
    slow,        \* history: open sockets not heard of from one tick to the next
    raced,       \* history: two builds have overlapped
    received,    \* history: closes received of each token, up to SparkMax
    evicted,     \* history: tokens ever evicted from tokenMetaMap
    events

socketVars == <<peer, clientMap, alive, pinged, slow>>
listVars == <<version, cached>>
taskVars == <<step, val>>
metaVars == <<tokenMeta, received, evicted>>
pageVars == <<shown, viaRest, rest>>
vars == <<socketVars, listVars, taskVars, metaVars, pageVars, raced, events>>

Known(s) == {s[i].token : i \in DOMAIN s}
Closes(s, t) == LET i == CHOOSE j \in DOMAIN s : s[j].token = t IN s[i].closes

TypeOK ==
    /\ peer \in [Sockets -> {"none", "open", "closed", "gone"}]
    /\ clientMap \subseteq Sockets /\ alive \subseteq clientMap
    /\ pinged \subseteq clientMap /\ slow \subseteq Sockets
    /\ version \in 0..MaxEvents /\ cached \in 0..version \cup {None}
    /\ step \in [Tasks -> {"idle", "metaGet", "metaSet", "list", "rows", "store"}]
    /\ val \in [Tasks -> 0..version \cup {None}]
    /\ tokenMeta \in Seq([token : Tokens, closes : 0..SparkMax])
    /\ IsInjective([i \in DOMAIN tokenMeta |-> tokenMeta[i].token])
    /\ Len(tokenMeta) <= TokenMetaMax
    /\ shown \in 0..version \cup {None} /\ viaRest \in BOOLEAN /\ rest \in BOOLEAN
    /\ raced \in BOOLEAN
    /\ received \in [Tokens -> 0..SparkMax] /\ evicted \subseteq Tokens
    /\ events \in 0..MaxEvents

Init ==
    /\ peer = [s \in Sockets |-> "none"] /\ clientMap = {} /\ alive = {} /\ pinged = {}
    /\ slow = {}
    /\ version = 0 /\ cached = None
    /\ step = [k \in Tasks |-> "idle"] /\ val = [k \in Tasks |-> None]
    /\ tokenMeta = <<>> /\ received = [t \in Tokens |-> 0] /\ evicted = {}
    /\ shown = None /\ viaRest = FALSE /\ rest = TRUE
    /\ raced = FALSE /\ events = 0

Happens == events < MaxEvents /\ events' = events + 1
Goto(k, s) == step' = [step EXCEPT ![k] = s]

-----------------------------------------------------------------------------
(* Connections.                                                            *)

\* The page connects, for the first time or after onclose: the socket is
\* registered, and the list is fetched for it.
Connect(s) ==
    /\ peer[s] = "none" /\ \A r \in Sockets : peer[r] # "open"
    /\ peer' = [peer EXCEPT ![s] = "open"]
    /\ clientMap' = clientMap \cup {s} /\ alive' = alive \cup {s}
    /\ Goto(s, "list")
    /\ UNCHANGED <<pinged, slow, listVars, val, metaVars, pageVars, raced, events>>

\* The connection ends at the page's side, with the gateway told or not.
Break(s, how) ==
    /\ peer[s] = "open"
    /\ Cardinality({r \in Sockets : peer[r] \in {"closed", "gone"}}) < MaxBreaks
    /\ peer' = [peer EXCEPT ![s] = how]
    /\ pinged' = pinged \ {s} /\ slow' = slow \ {s}
    /\ UNCHANGED <<clientMap, alive, listVars, taskVars, metaVars, pageVars, raced, events>>

Forget(s) ==
    /\ clientMap' = clientMap \ {s} /\ alive' = alive \ {s} /\ pinged' = pinged \ {s}

\* The close or error event.
Closed(s) ==
    /\ peer[s] = "closed" /\ s \in clientMap
    /\ Forget(s)
    /\ UNCHANGED <<peer, slow, listVars, taskVars, metaVars, pageVars, raced, events>>

\* Clients not heard of since the last tick.
Silent == clientMap \ alive

\* A tick: the silent ones are terminated and deleted, the others pinged.  A
\* page learns of a termination later.
Heartbeat ==
    /\ clientMap # {}
    /\ clientMap' = clientMap \ Silent
    /\ alive' = {}
    /\ pinged' = {s \in clientMap' : peer[s] = "open"}
    /\ slow' = slow \cup pinged
    /\ UNCHANGED <<peer, listVars, taskVars, metaVars, pageVars, raced, events>>

\* The onclose of a page whose socket was terminated.
Terminated(s) ==
    /\ peer[s] = "open" /\ s \notin clientMap
    /\ peer' = [peer EXCEPT ![s] = "closed"] /\ slow' = slow \ {s}
    /\ UNCHANGED <<clientMap, alive, pinged, listVars, taskVars, metaVars, pageVars, raced, events>>

\* Mutant: the answer to a ping sets no flag.
PongIgnored(s) ==
    /\ s \in pinged
    /\ pinged' = pinged \ {s}
    /\ UNCHANGED <<peer, clientMap, alive, slow, listVars, taskVars, metaVars, pageVars, raced,
                   events>>

\* An open page is heard of: its browser's pong, or its own ping message.
\* Neither need come before the next tick.
Pong(s) ==
    /\ s \in pinged
    /\ alive' = alive \cup {s} /\ pinged' = pinged \ {s}
    /\ UNCHANGED <<peer, clientMap, slow, listVars, taskVars, metaVars, pageVars, raced, events>>

-----------------------------------------------------------------------------
(* tokenMetaMap.                                                           *)

\* Mutant: the cap is never reached.
SetMetaAll(s, m) ==
    IF m.token \in Known(s)
      THEN [i \in DOMAIN s |-> IF s[i].token = m.token THEN m ELSE s[i]]
      ELSE Append(s, m)

\* setTokenMeta: a key keeps its place; above the cap the first one goes.
SetMeta(s, m) ==
    IF m.token \in Known(s)
      THEN [i \in DOMAIN s |-> IF s[i].token = m.token THEN m ELSE s[i]]
      ELSE IF Len(s) = TokenMetaMax THEN Tail(Append(s, m)) ELSE Append(s, m)

\* The sparkline that a new entry for token t starts with.
Kept(s, t) == IF t \in Known(s) THEN Closes(s, t) ELSE 0

\* Mutant: the sparkline is taken from the list, whose items have none.
RefreshedFresh(m, t) ==
    LET new == SetMeta(m.map, [token |-> t, closes |-> 0])
    IN [map |-> new, out |-> m.out \cup ((Known(m.map) \cup {t}) \ Known(new))]

\* An item of the list in refreshTokenMeta, or a token that an update names:
\* set with the sparkline it has, or added without one.
Refreshed(m, t) ==
    LET new == SetMeta(m.map, [token |-> t, closes |-> Kept(m.map, t)])
    IN [map |-> new, out |-> m.out \cup ((Known(m.map) \cup {t}) \ Known(new))]

Held == [map |-> tokenMeta, out |-> evicted]
Becomes(m) == tokenMeta' = m.map /\ evicted' = m.out

One(n) == IF n < SparkMax THEN n + 1 ELSE SparkMax

\* A 1h candle: its close is appended, a token not known yet is added.
CandleUpdate(t) ==
    /\ Happens
    /\ LET m == Refreshed(Held, t)
       IN Becomes([m EXCEPT !.map = SetMeta(@, [token |-> t, closes |-> One(Kept(@, t))])])
    /\ received' = [received EXCEPT ![t] = One(@)]
    /\ UNCHANGED <<socketVars, listVars, taskVars, pageVars, raced>>

-----------------------------------------------------------------------------
(* The chain refreshTokenMeta, broadcastTokenList.                         *)

\* The debounce lets the broadcast through or not.
AfterRefresh(k) == Goto(k, "list") \/ Goto(k, "idle")

\* A trade, which has changed the tables; a refresh is due or not.
TradeUpdate(k, t) ==
    /\ step[k] = "idle" /\ Happens
    /\ version' = version + 1
    /\ Becomes(Refreshed(Held, t))
    /\ Goto(k, "metaGet") \/ AfterRefresh(k)
    /\ UNCHANGED <<socketVars, cached, val, received, pageVars, raced>>

\* The channel of token events: a creation, after which a refresh is due, or
\* new metadata.
MetaUpdate(k, t) ==
    /\ step[k] = "idle" /\ Happens
    /\ Becomes(Refreshed(Held, t))
    /\ Goto(k, "metaGet") \/ UNCHANGED step
    /\ UNCHANGED <<socketVars, listVars, val, received, pageVars, raced>>

\* A new rate or the timer of 60 s: a refresh is due.
RefreshDue(k) ==
    /\ step[k] = "idle" /\ Happens
    /\ Goto(k, "metaGet")
    /\ UNCHANGED <<socketVars, listVars, val, metaVars, pageVars, raced>>

MetaGet(k) ==
    /\ step[k] = "metaGet"
    /\ IF cached = None THEN AfterRefresh(k) ELSE Goto(k, "metaSet")
    /\ UNCHANGED <<socketVars, listVars, val, metaVars, pageVars, raced, events>>

\* The reply: every token of the list is set, one after the other.
MetaSet(k) ==
    /\ step[k] = "metaSet"
    /\ \E items \in SetToSeqs(Listed) : Becomes(FoldLeft(Refreshed, Held, items))
    /\ AfterRefresh(k)
    /\ UNCHANGED <<socketVars, listVars, val, received, pageVars, raced, events>>

\* A list is sent to the sockets of S that are open.
Send(S, v) ==
    IF \E s \in S \cap clientMap : peer[s] = "open"
      THEN shown' = v /\ viaRest' = FALSE /\ UNCHANGED rest
      ELSE UNCHANGED pageVars

\* A new socket's own list, or the broadcast.
Audience(k) == IF k \in Sockets THEN {k} ELSE Sockets

\* A cached list is sent; without one it is built.
ListGet(k) ==
    /\ step[k] = "list"
    /\ IF cached # None
         THEN Goto(k, "idle") /\ Send(Audience(k), cached)
         ELSE Goto(k, "rows") /\ UNCHANGED pageVars
    /\ UNCHANGED <<socketVars, listVars, val, metaVars, raced, events>>

\* buildAndCacheTokenList: getTokenList.
SelectRows(k) ==
    /\ step[k] = "rows"
    /\ val' = [val EXCEPT ![k] = version]
    /\ raced' = (raced \/ \E j \in Tasks : step[j] = "store")
    /\ Goto(k, "store")
    /\ UNCHANGED <<socketVars, listVars, metaVars, pageVars, events>>

\* setEx with its 30 s, then the list is sent.
StoreList(k) ==
    /\ step[k] = "store"
    /\ cached' = val[k]
    /\ Send(Audience(k), val[k])
    /\ val' = [val EXCEPT ![k] = None]
    /\ Goto(k, "idle")
    /\ UNCHANGED <<socketVars, version, metaVars, raced, events>>

Expire ==
    /\ cached # None /\ Happens
    /\ cached' = None
    /\ UNCHANGED <<socketVars, version, taskVars, metaVars, pageVars, raced>>

\* A call throws.  In refreshTokenMeta that does not stop the broadcast.
TaskThrows(k) ==
    /\ step[k] # "idle" /\ Happens
    /\ val' = [val EXCEPT ![k] = None]
    /\ IF step[k] \in {"metaGet", "metaSet"} THEN AfterRefresh(k) ELSE Goto(k, "idle")
    /\ UNCHANGED <<socketVars, listVars, metaVars, pageVars, raced>>

-----------------------------------------------------------------------------
(* The page's REST request.                                                *)

\* Mutant: the answer is shown whatever is shown.
RestAnswersAlways(v) ==
    /\ rest
    /\ rest' = FALSE
    /\ shown' = v /\ viaRest' = TRUE
    /\ UNCHANGED <<socketVars, listVars, taskVars, metaVars, raced, events>>

\* Any list of the last seconds, from a cache of its own; it is shown only
\* if none is.
RestAnswers(v) ==
    /\ rest
    /\ rest' = FALSE
    /\ IF shown = None THEN shown' = v /\ viaRest' = TRUE ELSE UNCHANGED <<shown, viaRest>>
    /\ UNCHANGED <<socketVars, listVars, taskVars, metaVars, raced, events>>

RestFails ==
    /\ rest
    /\ rest' = FALSE
    /\ UNCHANGED <<socketVars, listVars, taskVars, metaVars, shown, viaRest, raced, events>>

-----------------------------------------------------------------------------
Task(k) == MetaGet(k) \/ MetaSet(k) \/ ListGet(k) \/ SelectRows(k) \/ StoreList(k)

Next ==
    \/ \E s \in Sockets : \/ Connect(s) \/ Break(s, "closed") \/ Break(s, "gone")
                          \/ Closed(s) \/ Pong(s) \/ Terminated(s)
    \/ Heartbeat
    \/ \E t \in Tokens : CandleUpdate(t)
    \/ \E k \in Updates : RefreshDue(k) \/ \E t \in Tokens : TradeUpdate(k, t) \/ MetaUpdate(k, t)
    \/ \E k \in Tasks : Task(k) \/ TaskThrows(k)
    \/ Expire
    \/ \E v \in 0..version : RestAnswers(v)
    \/ RestFails

\* The interval fires, and the close event of a socket whose end was sent
\* arrives.  Nothing is assumed of the pages.
Fairness ==
    /\ WF_vars(Heartbeat)
    /\ \A s \in Sockets : WF_vars(Closed(s))

Spec == Init /\ [][Next]_vars /\ Fairness

-----------------------------------------------------------------------------
(* Properties.                                                             *)

\* No close is lost between the read of the cached list and the refresh of
\* the map, however the candles fall: a token's sparkline has all the closes
\* received since it was added, unless the cap has ever evicted it.
ClosesKept ==
    \A t \in Known(tokenMeta) \ evicted : Closes(tokenMeta, t) = received[t]

\* The lists that the gateway sends reach the page in the order of the
\* tables they were selected from, over reconnections and expiries, unless
\* two builds of the list have overlapped, or the list shown came by REST.
ListsInOrder ==
    [][~viaRest /\ ~raced /\ shown # None => shown' >= shown]_vars

\* An open page that is heard of between any two ticks stays registered: no
\* heartbeat drops it, nor the late close of its last connection; and a
\* connection that is closed or silently gone is forgotten in the end.
SocketsTracked ==
    /\ [](\A s \in Sockets : peer[s] = "open" /\ s \notin slow => s \in clientMap)
    /\ \A s \in Sockets : peer[s] \in {"closed", "gone"} ~> s \notin clientMap
=============================================================================

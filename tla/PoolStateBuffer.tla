--------------------------- MODULE PoolStateBuffer ---------------------------
(***************************************************************************)
(* The trade processor's handling of PoolStateUpdated events               *)
(* (src/src/processors/trade.ts): a pool's state goes to pool_state once   *)
(* the token processor has registered the pool's token; until then it      *)
(* waits in pendingPoolState, a map in memory copied to a Redis hash.      *)
(* handle() flushes the map before anything else, and so does a timer that *)
(* runs beside it.                                                         *)
(*                                                                         *)
(* The states of a pool are numbered 1, 2, ... in stream order; 0 stands   *)
(* for none.                                                               *)
(***************************************************************************)
EXTENDS Integers, Sequences, FiniteSets, SequencesExt

CONSTANTS
    Pools,      \* pool ids
    None,       \* the event that is no pool state: a swap, which only flushes
    Timers,     \* runs of the 5 s timer that may overlap
    Handler,    \* the read loop's handle()
    Unpriced,   \* numbers of the states whose sqrtPriceX96 is 0
    MaxBuffer,  \* cap on pendingPoolState (500)
    MaxEvents,  \* bound: events
    MaxBufferFaults  \* bound: failing calls and process deaths

ASSUME BufferAssumption ==
    /\ IsFiniteSet(Pools) /\ None \notin Pools
    /\ Handler \notin Timers
    /\ Unpriced \subseteq Nat
    /\ MaxBuffer \in Nat \ {0}
    /\ {MaxEvents, MaxBufferFaults} \subseteq Nat

Flushers == Timers \cup {Handler}
Versions == 0..MaxEvents
Entry == [pool : Pools, version : Versions \ {0}]

VARIABLES
    registered,  \* pools whose token is in token_registry
    sent,        \* states of each pool handed to handle() so far
    events,      \* events handed to it so far
    event,       \* the event at work, its pool being None for a swap
    pending,     \* pendingPoolState, in the map's insertion order
    hash,        \* the Redis hash: version of each pool, 0 for no field
    poolState,   \* pool_state: version of each pool
    initial,     \* token_registry.initial_price_eth: version it comes from
    restore,     \* start(): "ended", or the await its restoring is at
    snapshot,    \* the fields hGetAll has returned to it
    pc,          \* await each flusher is at
    cur,         \* entry a flush is applying
    visited,     \* pools its iteration has passed; handle()'s until it returns
    done,        \* history: latest state whose handle() returned
    evicted,     \* history: pools the cap has evicted
    overtaken,   \* history: pools of which two states have crossed
    hashFailed,  \* history: whether a Redis call has failed unnoticed
    bufferFaults

world == <<registered, sent, events>>
tables == <<poolState, initial>>
flushVars == <<pc, cur, visited>>
starting == <<restore, snapshot>>
history == <<done, evicted, overtaken>>
mishaps == <<hashFailed, bufferFaults>>
bufferVars == <<world, event, pending, hash, tables, starting, flushVars, history, mishaps>>

Steps == {"idle", "select", "upsert", "price", "hdel", "own select", "own upsert", "own price",
          "buffer", "hset", "evict"}

OwnSteps == {"own select", "own upsert", "own price", "buffer", "hset", "evict"}

BufferTypeOK ==
    /\ registered \in SUBSET Pools
    /\ sent \in [Pools -> Versions]
    /\ events \in 0..MaxEvents
    /\ event \in [pool : Pools \cup {None}, version : Versions]
    /\ pending \in Seq(Entry)
    /\ Cardinality({pending[i].pool : i \in DOMAIN pending}) = Len(pending)
    /\ hash \in [Pools -> Versions]
    /\ poolState \in [Pools -> Versions]
    /\ initial \in [Pools -> Versions]
    /\ restore \in {"ended", "read", "set"}
    /\ snapshot \in Seq(Entry)
    /\ pc \in [Flushers -> Steps]
    /\ cur \in [Flushers -> Entry \cup {[pool |-> None, version |-> 0]}]
    /\ visited \in [Flushers -> SUBSET Pools]
    /\ done \in [Pools -> Versions]
    /\ evicted \in SUBSET Pools /\ overtaken \in SUBSET Pools
    /\ hashFailed \in BOOLEAN
    /\ bufferFaults \in 0..MaxBufferFaults

NoEntry == [pool |-> None, version |-> 0]

BufferInit ==
    /\ registered = {} /\ sent = [p \in Pools |-> 0] /\ events = 0
    /\ event = NoEntry
    /\ pending = <<>> /\ hash = [p \in Pools |-> 0]
    /\ poolState = [p \in Pools |-> 0] /\ initial = [p \in Pools |-> 0]
    /\ restore = "ended" /\ snapshot = <<>>
    /\ pc = [f \in Flushers |-> "idle"]
    /\ cur = [f \in Flushers |-> NoEntry]
    /\ visited = [f \in Flushers |-> {}]
    /\ done = [p \in Pools |-> 0] /\ evicted = {} /\ overtaken = {}
    /\ hashFailed = FALSE /\ bufferFaults = 0

\* A failing call, or the death of the process.
Fault == bufferFaults < MaxBufferFaults /\ bufferFaults' = bufferFaults + 1

\* The map's operations.
Buffered(m) == {m[i].pool : i \in DOMAIN m}

\* Map.delete.
Without(m, p) ==
    IF p \in Buffered(m) THEN RemoveAt(m, CHOOSE i \in DOMAIN m : m[i].pool = p) ELSE m

\* Mutant: one entry per event.
SetEntryAgain(m, e) == Append(m, e)

\* Map.set: a pool that is there keeps its place.
SetEntry(m, e) ==
    IF e.pool \in Buffered(m)
      THEN [i \in DOMAIN m |-> IF m[i].pool = e.pool THEN e ELSE m[i]]
      ELSE Append(m, e)

\* The states of pool p in the map.
Waiting(p) == {pending[i].version : i \in {j \in DOMAIN pending : pending[j].pool = p}}

\* Those that start() has read and not set yet.
Restoring(p) == {snapshot[i].version : i \in {j \in DOMAIN snapshot : snapshot[j].pool = p}}

\* History: that states of p crossed, if they did.
Cross(p, crossed) == overtaken' = IF crossed THEN overtaken \cup {p} ELSE overtaken

\* A state of p older than v is in the hands of a flush other than f, or was
\* read by start() when it set out to restore the map.
Carried(f, p, v) ==
    \/ \E g \in Flushers \ {f} : pc[g] # "idle" /\ cur[g].pool = p /\ cur[g].version < v
    \/ \E u \in Restoring(p) : u < v

\* The token processor registers the pool's token.
Register(p) ==
    /\ p \notin registered
    /\ registered' = registered \cup {p}
    /\ UNCHANGED <<sent, events, event, pending, hash, tables, starting, flushVars, history, mishaps>>

-----------------------------------------------------------------------------
(* flushPendingPoolState, run by the timer and by handle().                *)

\* A flush has no more entries: handle(), at event e, goes on to that, or is
\* through with a swap.
EndFlush(f, e, seen) ==
    /\ cur' = [cur EXCEPT ![f] = NoEntry]
    /\ IF f = Handler /\ e.pool # None
         THEN pc' = [pc EXCEPT ![f] = "own select"] /\ visited' = [visited EXCEPT ![f] = seen]
         ELSE pc' = [pc EXCEPT ![f] = "idle"] /\ visited' = [visited EXCEPT ![f] = {}]

\* The iteration goes on: the map's first entry outside seen.
Resume(f, e, seen) ==
    LET rest == {i \in DOMAIN pending : pending[i].pool \notin seen}
    IN IF rest = {}
         THEN EndFlush(f, e, seen)
         ELSE /\ pc' = [pc EXCEPT ![f] = "select"]
              /\ cur' = [cur EXCEPT ![f] = pending[Min(rest)]]
              /\ visited' = [visited EXCEPT ![f] = seen \cup {pending[Min(rest)].pool}]

\* The interval is set once the restoring is over.
TimerFires(f) ==
    /\ f \in Timers
    /\ restore = "ended"
    /\ pc[f] = "idle"
    /\ pending # <<>>
    /\ Resume(f, event, {})
    /\ UNCHANGED <<world, event, pending, hash, tables, starting, history, mishaps>>

\* Mutant: an entry that cannot be applied ends the flush.
FlushSelectStops(f) ==
    /\ pc[f] = "select"
    /\ IF cur[f].pool \in registered
         THEN pc' = [pc EXCEPT ![f] = "upsert"] /\ UNCHANGED <<cur, visited>>
         ELSE EndFlush(f, event, visited[f])
    /\ UNCHANGED <<world, event, pending, hash, tables, starting, history, mishaps>>

\* applyPoolState: is the pool's token registered?
FlushSelect(f) ==
    /\ pc[f] = "select"
    /\ IF cur[f].pool \in registered
         THEN pc' = [pc EXCEPT ![f] = "upsert"] /\ UNCHANGED <<cur, visited>>
         ELSE Resume(f, event, visited[f])
    /\ UNCHANGED <<world, event, pending, hash, tables, starting, history, mishaps>>

\* upsertPoolState overwrites whatever state is there.
FlushUpsert(f) ==
    /\ pc[f] = "upsert"
    /\ poolState' = [poolState EXCEPT ![cur[f].pool] = cur[f].version]
    /\ Cross(cur[f].pool, Carried(f, cur[f].pool, cur[f].version))
    /\ pc' = [pc EXCEPT ![f] = "price"]
    /\ UNCHANGED <<world, event, pending, hash, initial, starting, cur, visited, done, evicted,
                   mishaps>>

\* initial_price_eth of pool p once state v has been applied: a price of 0
\* is not written, nor one over another.
Priced(p, v) == IF initial[p] = 0 /\ v \notin Unpriced THEN v ELSE initial[p]

\* The UPDATE of a NULL initial price; then the pool's entry is deleted,
\* whatever state it holds by now.
FlushPrice(f) ==
    /\ pc[f] = "price"
    /\ LET p == cur[f].pool
       IN /\ initial' = [initial EXCEPT ![p] = Priced(p, cur[f].version)]
          /\ pending' = Without(pending, p)
          /\ visited' = [g \in Flushers |-> visited[g] \ {p}]
          /\ Cross(p, \E v \in Waiting(p) : v > cur[f].version)
    /\ pc' = [pc EXCEPT ![f] = "hdel"]
    /\ UNCHANGED <<world, event, hash, poolState, starting, cur, done, evicted, mishaps>>

\* hDel, whose failure is swallowed, and on to the next entry.
FlushHDel(f) ==
    /\ pc[f] = "hdel"
    /\ \/ hash' = [hash EXCEPT ![cur[f].pool] = 0] /\ UNCHANGED mishaps
       \/ Fault /\ hashFailed' = TRUE /\ UNCHANGED hash
    /\ Cross(cur[f].pool, hash[cur[f].pool] > cur[f].version)
    /\ Resume(f, event, visited[f])
    /\ UNCHANGED <<world, event, pending, tables, starting, done, evicted>>

-----------------------------------------------------------------------------
(* handle().                                                               *)

\* handle() is given event e: the next state of a pool, or a swap.
Given(e) ==
    /\ pc[Handler] = "idle"
    /\ events < MaxEvents
    /\ events' = events + 1
    /\ IF e = None
         THEN event' = NoEntry /\ UNCHANGED sent
         ELSE /\ sent' = [sent EXCEPT ![e] = @ + 1]
              /\ event' = [pool |-> e, version |-> sent'[e]]
    /\ UNCHANGED <<registered, pending, hash, tables, starting, history, mishaps>>

\* Mutant: the event comes before the flush of what waits.
HandleUnflushed(e) == Given(e) /\ EndFlush(Handler, event', {})

\* It begins with a flush.
Handle(e) == Given(e) /\ Resume(Handler, event', {})

At(s) == pc[Handler] = s
Goto(s) == pc' = [pc EXCEPT ![Handler] = s]

\* handle() returns, and the message is acknowledged.
Returns ==
    /\ Goto("idle")
    /\ done' = [done EXCEPT ![event.pool] = event.version]
    /\ visited' = [visited EXCEPT ![Handler] = {}]

\* applyPoolState of its own event: the SELECT is answered before the await
\* on it ends.
OwnSelect ==
    /\ At("own select")
    /\ Goto(IF event.pool \in registered THEN "own upsert" ELSE "buffer")
    /\ UNCHANGED <<world, event, pending, hash, tables, starting, cur, visited, history, mishaps>>

\* The token was not registered: the event goes into the map, in place of an
\* earlier one of the pool.
OwnBuffer ==
    /\ At("buffer")
    /\ pending' = SetEntry(pending, event)
    /\ Goto("hset")
    /\ UNCHANGED <<world, event, hash, tables, starting, cur, visited, history, mishaps>>

\* The token is registered, since the flush passed the pool's entry over or
\* before.
OwnUpsert ==
    /\ At("own upsert")
    /\ LET p == event.pool
       IN /\ poolState' = [poolState EXCEPT ![p] = event.version]
          /\ Cross(p, \/ p \in visited[Handler]
                      \/ Carried(Handler, p, event.version)
                      \/ restore = "read" /\ hash[p] > 0)
    /\ Goto("own price")
    /\ UNCHANGED <<world, event, pending, hash, initial, starting, cur, visited, done, evicted,
                   mishaps>>

OwnPrice ==
    /\ At("own price")
    /\ initial' = [initial EXCEPT ![event.pool] = Priced(event.pool, event.version)]
    /\ Returns
    /\ UNCHANGED <<world, event, pending, hash, poolState, starting, cur, evicted, overtaken, mishaps>>

\* hSet, whose failure is swallowed; above the cap the oldest entry goes.
OwnHSet ==
    /\ At("hset")
    /\ \/ hash' = [hash EXCEPT ![event.pool] = event.version] /\ UNCHANGED mishaps
       \/ Fault /\ hashFailed' = TRUE /\ UNCHANGED hash
    /\ Cross(event.pool, event.pool \notin Buffered(pending))
    /\ IF Len(pending) > MaxBuffer
         THEN /\ Goto("evict")
              /\ cur' = [cur EXCEPT ![Handler] = pending[1]]
              /\ pending' = Tail(pending)
              /\ evicted' = evicted \cup {pending[1].pool}
              /\ UNCHANGED <<done>>
              /\ visited' = [g \in Flushers |-> visited[g] \ {pending[1].pool}]
         ELSE Returns /\ UNCHANGED <<cur, pending, evicted>>
    /\ UNCHANGED <<world, event, tables, starting>>

\* hDel of the evicted entry.
OwnEvict ==
    /\ At("evict")
    /\ \/ hash' = [hash EXCEPT ![cur[Handler].pool] = 0] /\ UNCHANGED mishaps
       \/ Fault /\ hashFailed' = TRUE /\ UNCHANGED hash
    /\ Returns
    /\ cur' = [cur EXCEPT ![Handler] = NoEntry]
    /\ UNCHANGED <<world, event, pending, tables, starting, evicted, overtaken>>

-----------------------------------------------------------------------------
\* A Postgres call throws: a timer's flush ends; handle() starts again with
\* its flush, or is left after its last attempt.
Throws(f) ==
    /\ pc[f] \in {"select", "upsert", "price", "own select", "own upsert", "own price"}
    /\ Fault
    /\ EndFlush(f, NoEntry, {}) \/ (f = Handler /\ Resume(f, event, {}))
    /\ UNCHANGED <<world, event, pending, hash, tables, starting, history, hashFailed>>

\* The process dies. start() starts the read loop before it restores the
\* map; the event at work is not read again.
Crash ==
    /\ Fault
    /\ pending' = <<>>
    /\ restore' = "read" /\ snapshot' = <<>>
    /\ pc' = [f \in Flushers |-> "idle"]
    /\ cur' = [f \in Flushers |-> NoEntry]
    /\ visited' = [f \in Flushers |-> {}]
    /\ event' = NoEntry
    /\ UNCHANGED <<world, hash, tables, history, hashFailed>>

\* hGetAll: the fields of the hash, in any order. Its failure is caught.
RestoreRead ==
    /\ restore = "read"
    /\ \/ /\ restore' = "set"
          /\ snapshot' \in SetToSeqs({[pool |-> p, version |-> hash[p]] :
                                         p \in {q \in Pools : hash[q] > 0}})
          /\ UNCHANGED mishaps
       \/ /\ Fault /\ hashFailed' = TRUE
          /\ restore' = "ended"
          /\ UNCHANGED snapshot
    /\ UNCHANGED <<world, event, pending, hash, tables, flushVars, history>>

\* Every field is set in the map, over what the read loop has put there.
RestoreSet ==
    /\ restore = "set"
    /\ pending' = FoldLeft(SetEntry, pending, snapshot)
    /\ restore' = "ended" /\ snapshot' = <<>>
    /\ overtaken' = overtaken \cup
          {p \in Pools : \E u \in Restoring(p) :
              \/ \E v \in Waiting(p) : u < v
              \/ pc[Handler] \in OwnSteps /\ event.pool = p /\ u < event.version}
    /\ UNCHANGED <<world, event, hash, tables, flushVars, done, evicted, mishaps>>

-----------------------------------------------------------------------------
Flush(f) == FlushSelect(f) \/ FlushUpsert(f) \/ FlushPrice(f) \/ FlushHDel(f)

Own == OwnSelect \/ OwnBuffer \/ OwnUpsert \/ OwnPrice \/ OwnHSet \/ OwnEvict

BufferNext ==
    \/ \E p \in Pools : Register(p)
    \/ \E e \in Pools \cup {None} : Handle(e)
    \/ \E f \in Timers : TimerFires(f)
    \/ \E f \in Flushers :
          FlushSelect(f) \/ FlushUpsert(f) \/ FlushPrice(f) \/ FlushHDel(f) \/ Throws(f)
    \/ OwnSelect \/ OwnBuffer \/ OwnUpsert \/ OwnPrice \/ OwnHSet \/ OwnEvict
    \/ Crash \/ RestoreRead \/ RestoreSet

\* setInterval keeps firing, and a flush or a handler that has begun goes on.
Fairness ==
    /\ \A f \in Timers : WF_bufferVars(TimerFires(f))
    /\ \A f \in Flushers : WF_bufferVars(Flush(f))
    /\ WF_bufferVars(Own)
    /\ WF_bufferVars(RestoreRead \/ RestoreSet)

BufferSpec == BufferInit /\ [][BufferNext]_bufferVars /\ Fairness

-----------------------------------------------------------------------------
(* Properties.                                                             *)

\* State v of pool p, or a later one, waits: in memory or, while start() is
\* restoring the map, in Redis or in what it has read.
Waits(p, v) ==
    \/ \E u \in Waiting(p) \cup Restoring(p) : u >= v
    \/ restore = "read" /\ hash[p] >= v

\* Pool p is not forgotten: it has a row, or a state of it waits.
Remembered(p) == poolState[p] > 0 \/ Waits(p, 1)

\* The latest state handled, or a later one, waits or is the row's; if it is
\* the latest one, with its price, unless that is 0.
UpToDate(p) ==
    \/ Waits(p, done[p])
    \/ poolState[p] > done[p]
    \/ poolState[p] = done[p] /\ (initial[p] > 0 \/ done[p] \in Unpriced)

\* A pool one of whose states was handled is never forgotten, not by a flush
\* running beside the handler nor by a restart; and no older state takes the
\* place of the latest one handled, unless two states of the pool have
\* crossed.  Excepted are pools that the cap has evicted, and Redis failing
\* unnoticed.
PoolKnown ==
    ~hashFailed => \A p \in Pools \ evicted :
        done[p] > 0 => Remembered(p) /\ (p \in overtaken \/ UpToDate(p))

\* A state of a registered pool does not wait for ever, not even behind
\* pools that are never registered.
BufferDrains ==
    \A p \in Pools : (p \in registered /\ Waiting(p) # {}) ~> (Waiting(p) = {})
=============================================================================

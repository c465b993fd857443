------------------------------ MODULE CacheAside ------------------------------
(***************************************************************************)
(* withCache and invalidate (src/src/api/cache.ts), for one key: requests  *)
(* to any API pod read the key, and on a miss one of them takes a lock in  *)
(* Redis, reads Postgres and fills the key while the others poll; a        *)
(* processor writes Postgres and then deletes the key.                     *)
(*                                                                         *)
(* Time: the key's TTL, LOCK_TTL (30 s) and the 5 s that a waiter polls may *)
(* run out at any moment; two history variables record that the lock ran   *)
(* out under its holder, and that a waiter gave up.                        *)
(***************************************************************************)
EXTENDS Integers

CONSTANTS
    Requests,      \* calls of withCache for the key
    None,          \* no value: an empty key, or a request that failed
    MaxWrites,     \* bound: writes of the data
    MaxFaults      \* bound: failing calls

ASSUME CacheAssumption ==
    /\ None \notin Int
    /\ None \notin Requests
    /\ MaxWrites \in Nat
    /\ MaxFaults \in Nat

Versions == 0..MaxWrites

VARIABLES
    row,          \* version of the data in Postgres
    writer,       \* processor: "idle", or "del" between its write and its invalidate
    cache,        \* the key: a version, or None
    lock,         \* whether lock:key is there
    owner,        \* history: the request that set the lock last
    pc,           \* await each request is at
    data,         \* what it has read, and answers in the end
    invalidated,  \* history: version at the last completed invalidation
    floor,        \* history: invalidated at the time the request began
    newest,       \* history: version filled into the key last
    late,         \* history: whether a fill came after an invalidation its data missed
    gaveUp,       \* history: whether a waiter has read Postgres itself
    outlasted,    \* history: whether a lock expired under its holder
    faults

requestVars == <<pc, data, floor>>
lockVars == <<lock, owner>>
writerVars == <<row, writer, invalidated>>
fillVars == <<cache, newest, late>>
timeVars == <<gaveUp, outlasted>>
vars == <<requestVars, lockVars, writerVars, fillVars, timeVars, faults>>

\* Where the lock is held, and where the fallback is.
Holding == {"fetch", "fill", "unlock"}
Falling == {"direct fetch", "direct fill"}
Steps == {"new", "get", "lock", "poll", "done"} \cup Holding \cup Falling

TypeOK ==
    /\ row \in Versions
    /\ writer \in {"idle", "del"}
    /\ cache \in Versions \cup {None}
    /\ lock \in BOOLEAN
    /\ owner \in Requests \cup {None}
    /\ pc \in [Requests -> Steps]
    /\ data \in [Requests -> Versions \cup {None}]
    /\ invalidated \in Versions
    /\ floor \in [Requests -> Versions]
    /\ newest \in Versions
    /\ late \in BOOLEAN /\ gaveUp \in BOOLEAN /\ outlasted \in BOOLEAN
    /\ faults \in 0..MaxFaults

Init ==
    /\ row = 0 /\ writer = "idle" /\ invalidated = 0
    /\ cache = None /\ lock = FALSE /\ owner = None
    /\ pc = [r \in Requests |-> "new"]
    /\ data = [r \in Requests |-> None]
    /\ floor = [r \in Requests |-> 0]
    /\ newest = 0 /\ faults = 0
    /\ late = FALSE /\ gaveUp = FALSE /\ outlasted = FALSE

-----------------------------------------------------------------------------
(* withCache.                                                              *)

Goto(r, s) == pc' = [pc EXCEPT ![r] = s]

\* The request answers v.
Answer(r, v) == Goto(r, "done") /\ data' = [data EXCEPT ![r] = v]

Begin(r) ==
    /\ pc[r] = "new"
    /\ Goto(r, "get")
    /\ floor' = [floor EXCEPT ![r] = invalidated]
    /\ UNCHANGED <<data, lockVars, writerVars, fillVars, timeVars, faults>>

Get(r) ==
    /\ pc[r] = "get"
    /\ IF cache # None THEN Answer(r, cache) ELSE Goto(r, "lock") /\ UNCHANGED data
    /\ UNCHANGED <<floor, lockVars, writerVars, fillVars, timeVars, faults>>

\* Mutant: SET without NX.
TryLockAlways(r) ==
    /\ pc[r] = "lock"
    /\ Goto(r, "fetch") /\ lock' = TRUE /\ owner' = r
    /\ UNCHANGED <<data, floor, writerVars, fillVars, timeVars, faults>>

\* SET NX EX.
TryLock(r) ==
    /\ pc[r] = "lock"
    /\ IF lock
         THEN Goto(r, "poll") /\ UNCHANGED lockVars
         ELSE Goto(r, "fetch") /\ lock' = TRUE /\ owner' = r
    /\ UNCHANGED <<data, floor, writerVars, fillVars, timeVars, faults>>

\* Mutant: the lock covers the read only.
FetchUnlocks(r) ==
    /\ pc[r] \in {"fetch", "direct fetch"}
    /\ Goto(r, IF pc[r] = "fetch" THEN "fill" ELSE "direct fill")
    /\ data' = [data EXCEPT ![r] = row]
    /\ lock' = FALSE
    /\ UNCHANGED <<floor, owner, writerVars, fillVars, timeVars, faults>>

\* The read of Postgres, under the lock or not.
Fetch(r) ==
    /\ pc[r] \in {"fetch", "direct fetch"}
    /\ Goto(r, IF pc[r] = "fetch" THEN "fill" ELSE "direct fill")
    /\ data' = [data EXCEPT ![r] = row]
    /\ UNCHANGED <<floor, lockVars, writerVars, fillVars, timeVars, faults>>

\* setEx.
Fill(r) ==
    /\ pc[r] \in {"fill", "direct fill"}
    /\ Goto(r, IF pc[r] = "fill" THEN "unlock" ELSE "done")
    /\ cache' = data[r]
    /\ newest' = data[r]
    /\ late' = (late \/ data[r] \in 0..(invalidated - 1))
    /\ UNCHANGED <<data, floor, lockVars, writerVars, timeVars, faults>>

\* The finally: del of the lock, whoever has set it.
Unlock(r) ==
    /\ pc[r] = "unlock"
    /\ Goto(r, "done")
    /\ lock' = FALSE
    /\ UNCHANGED <<data, floor, owner, writerVars, fillVars, timeVars, faults>>

\* A poll finds the key filled; one that does not changes nothing.
Poll(r) ==
    /\ pc[r] = "poll"
    /\ cache # None
    /\ Answer(r, cache)
    /\ UNCHANGED <<floor, lockVars, writerVars, fillVars, timeVars, faults>>

\* Mutant: the waiter polls until the key appears.
GiveUpNever(r) == pc[r] = "poll" /\ FALSE /\ UNCHANGED vars

\* The loop has ended without a value.
GiveUp(r) ==
    /\ pc[r] = "poll"
    /\ Goto(r, "direct fetch")
    /\ gaveUp' = TRUE
    /\ UNCHANGED <<data, floor, lockVars, writerVars, fillVars, outlasted, faults>>

\* Mutant: a failed read is swallowed, and its result is filled in.
ThrowsSwallowed(r) ==
    /\ pc[r] \in Steps \ {"new", "done"}
    /\ faults < MaxFaults
    /\ faults' = faults + 1
    /\ data' = [data EXCEPT ![r] = None]
    /\ Goto(r, IF pc[r] = "fetch" THEN "fill" ELSE "done")
    /\ UNCHANGED <<floor, lockVars, writerVars, fillVars, timeVars>>

\* A call throws: a holder still deletes the lock, any other request fails.
\* (A pod that dies is a holder that fails twice, the lock staying behind.)
Throws(r) ==
    /\ pc[r] \in Steps \ {"new", "done"}
    /\ faults < MaxFaults
    /\ faults' = faults + 1
    /\ data' = [data EXCEPT ![r] = None]
    /\ Goto(r, IF pc[r] \in {"fetch", "fill"} THEN "unlock" ELSE "done")
    /\ UNCHANGED <<floor, lockVars, writerVars, fillVars, timeVars>>

-----------------------------------------------------------------------------
\* LOCK_TTL runs out.
ExpireLock ==
    /\ lock
    /\ lock' = FALSE
    /\ outlasted' = (outlasted \/ pc[owner] \in Holding)
    /\ UNCHANGED <<requestVars, owner, writerVars, fillVars, gaveUp, faults>>

\* The key's TTL runs out.
ExpireKey ==
    /\ cache # None
    /\ cache' = None
    /\ UNCHANGED <<requestVars, lockVars, writerVars, newest, late, timeVars, faults>>

\* A processor commits.
Write ==
    /\ writer = "idle"
    /\ row < MaxWrites
    /\ row' = row + 1
    /\ writer' = "del"
    /\ UNCHANGED <<requestVars, lockVars, invalidated, fillVars, timeVars, faults>>

\* Mutant: another key is deleted.
InvalidateOther ==
    /\ writer = "del"
    /\ writer' = "idle"
    /\ invalidated' = row
    /\ UNCHANGED <<row, requestVars, lockVars, fillVars, timeVars, faults>>

\* Then it deletes the key.
Invalidate ==
    /\ writer = "del"
    /\ writer' = "idle"
    /\ cache' = None
    /\ invalidated' = row
    /\ UNCHANGED <<row, requestVars, lockVars, newest, late, timeVars, faults>>

\* Or it dies before it does.
InvalidateLost ==
    /\ writer = "del"
    /\ faults < MaxFaults
    /\ faults' = faults + 1
    /\ writer' = "idle"
    /\ UNCHANGED <<row, invalidated, requestVars, lockVars, fillVars, timeVars>>

-----------------------------------------------------------------------------
WithCache(r) ==
    Get(r) \/ TryLock(r) \/ Fetch(r) \/ Fill(r) \/ Unlock(r) \/ Poll(r) \/ GiveUp(r)

Next ==
    \/ \E r \in Requests :
          \/ Begin(r)
          \/ Get(r) \/ TryLock(r) \/ Fetch(r) \/ Fill(r) \/ Unlock(r) \/ Poll(r) \/ GiveUp(r)
          \/ Throws(r)
    \/ ExpireLock \/ ExpireKey
    \/ Write \/ Invalidate \/ InvalidateLost

\* Calls return or throw, and polling ends.
Fairness == \A r \in Requests : WF_vars(WithCache(r))

Spec == Init /\ [][Next]_vars /\ Fairness

-----------------------------------------------------------------------------
(* Properties.                                                             *)

\* As long as no lock has run out under its holder, no two requests are between
\* the SET NX and the del, and the lock of one at work is there: no failure,
\* no leaked lock and no del by another lets a second holder in.
LockedAlone ==
    ~outlasted =>
        \A r \in Requests : pc[r] \in Holding =>
            lock /\ \A q \in Requests : pc[q] \in Holding => q = r

\* If moreover no waiter has read for itself, the key is never filled with
\* data older than it was filled with before, although every fill comes some
\* time after its read: clients do not see time go back.
FillsInOrder == [][~outlasted /\ ~gaveUp => newest' >= newest]_vars

\* A request begun after an invalidation answers data at least that new,
\* through whatever key, poll or fallback, unless data read before the
\* invalidation has been filled in after it.  (So the "Next request triggers a
\* fresh DB query" of docs/INFRASTRUCTURE.md has that one exception.)
FreshUnlessLate ==
    ~late => \A r \in Requests : pc[r] = "done" /\ data[r] # None => data[r] >= floor[r]

\* Every request is answered or fails, also those waiting for a holder that
\* failed, died or was invalidated under them.
RequestsEnd == \A r \in Requests : pc[r] = "get" ~> pc[r] = "done"
=============================================================================

--------------------------- MODULE CacheAsideProofs ---------------------------
(***************************************************************************)
(* The safety of withCache, for any number of requests, writes and faults. *)
(***************************************************************************)
EXTENDS CacheAside, TLAPS

\* The arithmetic of the types, apart from None, which is no integer.
LEMMA Ranges ==
    /\ None \notin Versions
    /\ 0 \in Versions
    /\ 0 \in 0..MaxFaults
    /\ \A v \in Versions : v < MaxWrites => v + 1 \in Versions
    /\ \A n \in 0..MaxFaults : n < MaxFaults => n + 1 \in 0..MaxFaults
<1>1. None \notin Int /\ MaxWrites \in Nat /\ MaxFaults \in Nat
  BY CacheAssumption
<1>2. /\ 0 \in Versions
      /\ 0 \in 0..MaxFaults
      /\ \A v \in Versions : v < MaxWrites => v + 1 \in Versions
      /\ \A n \in 0..MaxFaults : n < MaxFaults => n + 1 \in 0..MaxFaults
  BY <1>1 DEF Versions
<1>3. \A v \in Versions : v \in Int
  BY <1>1 DEF Versions
<1>4. QED
  BY <1>1, <1>2, <1>3

-----------------------------------------------------------------------------
(* Types.                                                                  *)

\* Data about to be filled in has been read, which keeps the key a version; a
\* request that has not begun has none.
Typed ==
    /\ TypeOK
    /\ \A r \in Requests : pc[r] \in {"fill", "direct fill"} => data[r] \in Versions
    /\ \A r \in Requests : pc[r] = "new" => data[r] = None

\* The types hold at the start.
LEMMA TypedInit == Init => Typed
  BY Ranges DEF Init, Typed, TypeOK, Steps, Holding, Falling

\* The types hold after every step.
LEMMA TypedStep == Typed /\ [Next]_vars => Typed'
<1> SUFFICES ASSUME Typed, [Next]_vars PROVE Typed'
  OBVIOUS
<1> USE Ranges DEF Typed, TypeOK, Steps, Holding, Falling
<1>1. ASSUME NEW r \in Requests, Begin(r) PROVE Typed'
  BY <1>1 DEF Begin, Goto, lockVars, writerVars, fillVars, timeVars
<1>2. ASSUME NEW r \in Requests, Get(r) PROVE Typed'
  BY <1>2 DEF Get, Goto, Answer, lockVars, writerVars, fillVars, timeVars
<1>3. ASSUME NEW r \in Requests, TryLock(r) PROVE Typed'
  BY <1>3 DEF TryLock, Goto, lockVars, writerVars, fillVars, timeVars
<1>4. ASSUME NEW r \in Requests, Fetch(r) PROVE Typed'
  BY <1>4 DEF Fetch, Goto, lockVars, writerVars, fillVars, timeVars
<1>5. ASSUME NEW r \in Requests, Fill(r) PROVE Typed'
  BY <1>5 DEF Fill, Goto, lockVars, writerVars, timeVars
<1>6. ASSUME NEW r \in Requests, Unlock(r) PROVE Typed'
  BY <1>6 DEF Unlock, Goto, writerVars, fillVars, timeVars
<1>7. ASSUME NEW r \in Requests, Poll(r) PROVE Typed'
  BY <1>7 DEF Poll, Goto, Answer, lockVars, writerVars, fillVars, timeVars
<1>8. ASSUME NEW r \in Requests, GiveUp(r) PROVE Typed'
  BY <1>8 DEF GiveUp, Goto, lockVars, writerVars, fillVars
<1>9. ASSUME NEW r \in Requests, Throws(r) PROVE Typed'
  BY <1>9 DEF Throws, Goto, lockVars, writerVars, fillVars, timeVars
<1>10. CASE ExpireLock
  BY <1>10 DEF ExpireLock, requestVars, writerVars, fillVars
<1>11. CASE ExpireKey
  BY <1>11 DEF ExpireKey, requestVars, lockVars, writerVars, timeVars
<1>12. CASE Write
  BY <1>12 DEF Write, requestVars, lockVars, fillVars, timeVars
<1>13. CASE Invalidate
  BY <1>13 DEF Invalidate, requestVars, lockVars, timeVars
<1>14. CASE InvalidateLost
  BY <1>14 DEF InvalidateLost, requestVars, lockVars, fillVars, timeVars
<1>15. CASE UNCHANGED vars
  BY <1>15 DEF vars, requestVars, lockVars, writerVars, fillVars, timeVars
<1>16. QED
  BY <1>1, <1>2, <1>3, <1>4, <1>5, <1>6, <1>7, <1>8, <1>9, <1>10, <1>11, <1>12, <1>13,
     <1>14, <1>15 DEF Next

\* Every variable of withCache keeps its type, whatever fails or expires.
THEOREM TypeCorrect == Spec => []TypeOK
<1>1. Typed => TypeOK
  BY DEF Typed
<1>2. QED
  BY TypedInit, TypedStep, <1>1, PTL DEF Spec
-----------------------------------------------------------------------------
(* Mutual exclusion.                                                       *)

\* The lock of a request at work is there and is its own: a del can only
\* delete the lock of the request that does it.
Held == ~outlasted => \A r \in Requests : pc[r] \in Holding => lock /\ owner = r

\* Who is at work keeps its lock after every step.
LEMMA HeldStep == Typed /\ Held /\ [Next]_vars => Held'
<1> SUFFICES ASSUME Typed, Held, [Next]_vars PROVE Held'
  OBVIOUS
<1> USE DEF Held, Typed, TypeOK, Holding
<1>1. ASSUME NEW r \in Requests, Begin(r) \/ Get(r) \/ Poll(r) \/ GiveUp(r) PROVE Held'
  BY <1>1 DEF Begin, Get, Poll, GiveUp, Goto, Answer, lockVars, timeVars
<1>2. ASSUME NEW r \in Requests, TryLock(r) PROVE Held'
  <2>1. CASE lock
    BY <1>2, <2>1 DEF TryLock, Goto, lockVars, timeVars
  <2>2. CASE ~lock
    <3>1. ~outlasted => \A q \in Requests : pc[q] \notin Holding
      BY <2>2
    <3>2. pc' = [pc EXCEPT ![r] = "fetch"] /\ lock' = TRUE /\ owner' = r /\ outlasted' = outlasted
      BY <1>2, <2>2 DEF TryLock, Goto, timeVars
    <3>3. QED
      BY <3>1, <3>2
  <2>3. QED
    BY <2>1, <2>2
<1>3. ASSUME NEW r \in Requests, Fetch(r) \/ Fill(r) \/ Throws(r) PROVE Held'
  BY <1>3 DEF Fetch, Fill, Throws, Goto, lockVars, timeVars
<1>4. ASSUME NEW r \in Requests, Unlock(r) PROVE Held'
  BY <1>4 DEF Unlock, Goto, timeVars
<1>5. CASE ExpireLock
  BY <1>5 DEF ExpireLock, requestVars
<1>6. CASE ExpireKey \/ Write \/ Invalidate \/ InvalidateLost \/ UNCHANGED vars
  BY <1>6 DEF ExpireKey, Write, Invalidate, InvalidateLost, vars, requestVars, lockVars, timeVars
<1>7. QED
  BY <1>1, <1>2, <1>3, <1>4, <1>5, <1>6 DEF Next

\* No two requests are between the SET NX and the del of withCache, unless a
\* lock has run out under its holder.
THEOREM HoldersAlone == Spec => []LockedAlone
<1>1. Init => Held
  BY DEF Init, Held, Holding
<1>2. Held => LockedAlone
  BY DEF Held, LockedAlone
<1>3. QED
  BY TypedInit, TypedStep, HeldStep, <1>1, <1>2, PTL DEF Spec

-----------------------------------------------------------------------------
(* Order and freshness.                                                    *)

\* Nothing is newer than Postgres; no request is newer than the last
\* invalidation was at its beginning.
Bounded ==
    /\ newest <= row /\ invalidated <= row
    /\ cache # None => cache <= row
    /\ \A r \in Requests : floor[r] <= invalidated /\ (data[r] # None => data[r] <= row)

\* As long as no waiter has read for itself, only the holder fills, and what
\* it is about to fill in is as new as what was there before.
Ordered ==
    /\ ~gaveUp => \A r \in Requests : pc[r] \notin Falling
    /\ ~gaveUp /\ ~outlasted => \A r \in Requests : pc[r] = "fill" => newest <= data[r]

\* What a request has read is as new as its beginning requires.
FreshData == \A r \in Requests : data[r] # None => floor[r] <= data[r]

\* The key itself is as new as the last invalidation.
Fresh == ~late => FreshData /\ (cache # None => invalidated <= cache)

\* Versions are numbers, and None is not.
LEMMA VersionsAreInts == Versions \subseteq Int /\ None \notin Int
  BY CacheAssumption DEF Versions

\* Under the types, what is compared is numbers.
LEMMA Numbers ==
    ASSUME Typed
    PROVE  /\ {row, invalidated, newest} \subseteq Int
           /\ cache # None => cache \in Int
           /\ \A r \in Requests : floor[r] \in Int /\ (data[r] # None => data[r] \in Int)
  BY VersionsAreInts DEF Typed, TypeOK

\* What an assignment to one request makes of the others' data.
LEMMA DataSet ==
    ASSUME Typed, NEW r \in Requests, NEW v, data' = [data EXCEPT ![r] = v]
    PROVE  \A q \in Requests : data'[q] = IF q = r THEN v ELSE data[q]
  BY DEF Typed, TypeOK

\* After every step nothing is newer than Postgres.
LEMMA BoundedStep == Typed /\ Bounded /\ [Next]_vars => Bounded'
<1> SUFFICES ASSUME Typed, Bounded, [Next]_vars PROVE Bounded'
  OBVIOUS
<1> USE Numbers, VersionsAreInts DEF Bounded
<1>1. ASSUME NEW r \in Requests, Begin(r) PROVE Bounded'
  <2>1. \A q \in Requests : floor'[q] = IF q = r THEN invalidated ELSE floor[q]
    BY <1>1 DEF Begin, Typed, TypeOK
  <2>2. QED
    BY <1>1, <2>1 DEF Begin, writerVars, fillVars
<1>2. ASSUME NEW r \in Requests, Get(r) \/ Poll(r) PROVE Bounded'
  BY <1>2, DataSet DEF Get, Poll, Answer, writerVars, fillVars
<1>3. ASSUME NEW r \in Requests, TryLock(r) \/ Unlock(r) \/ GiveUp(r) PROVE Bounded'
  BY <1>3 DEF TryLock, Unlock, GiveUp, writerVars, fillVars
<1>4. ASSUME NEW r \in Requests, Fetch(r) PROVE Bounded'
  <2>1. \A q \in Requests : data'[q] = IF q = r THEN row ELSE data[q]
    BY <1>4, DataSet DEF Fetch
  <2>2. UNCHANGED <<row, invalidated, floor, cache, newest>>
    BY <1>4 DEF Fetch, writerVars, fillVars
  <2>3. QED
    BY <2>1, <2>2
<1>5. ASSUME NEW r \in Requests, Fill(r) PROVE Bounded'
  BY <1>5 DEF Fill, writerVars, Typed
<1>6. ASSUME NEW r \in Requests, Throws(r) PROVE Bounded'
  BY <1>6, DataSet DEF Throws, writerVars, fillVars
<1>7. CASE ExpireLock \/ ExpireKey
  BY <1>7 DEF ExpireLock, ExpireKey, requestVars, writerVars, fillVars
<1>8. CASE Write
  BY <1>8 DEF Write, requestVars, fillVars
<1>9. CASE Invalidate \/ InvalidateLost
  BY <1>9 DEF Invalidate, InvalidateLost, requestVars, fillVars
<1>10. CASE UNCHANGED vars
  BY <1>10 DEF vars, requestVars, writerVars, fillVars
<1>11. QED
  BY <1>1, <1>2, <1>3, <1>4, <1>5, <1>6, <1>7, <1>8, <1>9, <1>10 DEF Next

\* After every step the holder's data is as new as the key's last.
LEMMA OrderedStep == Typed /\ Held /\ Bounded /\ Ordered /\ [Next]_vars => Ordered'
<1> SUFFICES ASSUME Typed, Held, Bounded, Ordered, [Next]_vars PROVE Ordered'
  OBVIOUS
<1> USE Ranges, VersionsAreInts DEF Ordered, Typed, TypeOK, Falling
<1>1. ASSUME NEW r \in Requests, Begin(r) \/ TryLock(r) \/ Unlock(r) PROVE Ordered'
  <2>1. /\ UNCHANGED <<data, newest, gaveUp, outlasted>>
        /\ \A q \in Requests : pc'[q] \in {pc[q], "get", "fetch", "poll", "done"}
    BY <1>1 DEF Begin, TryLock, Unlock, Goto, fillVars, timeVars
  <2> QED
    BY <2>1
<1>2. ASSUME NEW r \in Requests, Get(r) \/ Poll(r) PROVE Ordered'
  BY <1>2 DEF Get, Poll, Goto, Answer, fillVars, timeVars
<1>3. ASSUME NEW r \in Requests, Fetch(r) PROVE Ordered'
  <2>1. /\ data' = [data EXCEPT ![r] = row] /\ newest' = newest
        /\ gaveUp' = gaveUp /\ outlasted' = outlasted
        /\ pc' = [pc EXCEPT ![r] = IF pc[r] = "fetch" THEN "fill" ELSE "direct fill"]
        /\ pc[r] \in {"fetch", "direct fetch"}
    BY <1>3 DEF Fetch, Goto, fillVars, timeVars
  <2>2. ~gaveUp => \A q \in Requests : pc'[q] \notin Falling
    BY <2>1
  <2>3. ASSUME ~gaveUp, ~outlasted, NEW q \in Requests, pc'[q] = "fill"
        PROVE  newest' <= data'[q]
    BY <2>1, <2>3 DEF Bounded
  <2> QED
    BY <2>1, <2>2, <2>3
<1>4. ASSUME NEW r \in Requests, Fill(r) PROVE Ordered'
  <2>1. /\ newest' = data[r] /\ data' = data /\ gaveUp' = gaveUp /\ outlasted' = outlasted
        /\ pc' = [pc EXCEPT ![r] = IF pc[r] = "fill" THEN "unlock" ELSE "done"]
        /\ pc[r] \in {"fill", "direct fill"}
    BY <1>4 DEF Fill, Goto, timeVars
  <2>2. ~gaveUp => pc[r] = "fill"
    BY <2>1
  \* Nobody else is about to fill.
  <2>3. ~gaveUp /\ ~outlasted => \A q \in Requests : pc'[q] # "fill"
    BY <2>1, <2>2 DEF Held, Holding
  <2> QED
    BY <2>1, <2>3
<1>5. ASSUME NEW r \in Requests, GiveUp(r) PROVE Ordered'
  BY <1>5 DEF GiveUp
<1>6. ASSUME NEW r \in Requests, Throws(r) PROVE Ordered'
  BY <1>6 DEF Throws, Goto, fillVars, timeVars
<1>7. CASE ExpireLock
  BY <1>7 DEF ExpireLock, requestVars, fillVars
<1>8. CASE ExpireKey \/ Write \/ Invalidate \/ InvalidateLost \/ UNCHANGED vars
  BY <1>8 DEF ExpireKey, Write, Invalidate, InvalidateLost, vars, requestVars, fillVars, timeVars
<1>9. QED
  BY <1>1, <1>2, <1>3, <1>4, <1>5, <1>6, <1>7, <1>8 DEF Next

\* After every step key and data are as new as they must be.
LEMMA FreshStep == Typed /\ Bounded /\ Fresh /\ [Next]_vars => Fresh'
<1> SUFFICES ASSUME Typed, Bounded, Fresh, [Next]_vars PROVE Fresh'
  OBVIOUS
<1> USE Numbers, VersionsAreInts DEF Fresh, FreshData
<1>1. ASSUME NEW r \in Requests, Begin(r) PROVE Fresh'
  <2>1. \A q \in Requests : q # r => floor'[q] = floor[q]
    BY <1>1 DEF Begin, Typed, TypeOK
  <2>2. data[r] = None
    BY <1>1 DEF Begin, Typed
  <2>3. QED
    BY <1>1, <2>1, <2>2 DEF Begin, writerVars, fillVars
<1>2. ASSUME NEW r \in Requests, Get(r) \/ Poll(r) PROVE Fresh'
  BY <1>2, DataSet DEF Get, Poll, Answer, Bounded, writerVars, fillVars
<1>3. ASSUME NEW r \in Requests, TryLock(r) \/ Unlock(r) \/ GiveUp(r) PROVE Fresh'
  BY <1>3 DEF TryLock, Unlock, GiveUp, writerVars, fillVars
<1>4. ASSUME NEW r \in Requests, Fetch(r) PROVE Fresh'
  <2>1. \A q \in Requests : data'[q] = IF q = r THEN row ELSE data[q]
    BY <1>4, DataSet DEF Fetch
  <2>2. UNCHANGED <<invalidated, floor, cache, late>>
    BY <1>4 DEF Fetch, writerVars, fillVars
  <2>3. floor[r] <= row
    BY DEF Bounded
  <2>4. QED
    BY <2>1, <2>2, <2>3
<1>5. ASSUME NEW r \in Requests, Fill(r) PROVE Fresh'
  <2>1. data[r] \in Nat /\ invalidated \in Nat
    <3>1. \A v \in Versions : v \in Nat
      BY CacheAssumption DEF Versions
    <3>2. data[r] \in Versions /\ invalidated \in Versions
      BY <1>5 DEF Fill, Typed, TypeOK
    <3>3. QED
      BY <3>1, <3>2
  <2>2. cache' = data[r] /\ UNCHANGED <<invalidated, floor, data>>
    BY <1>5 DEF Fill, writerVars
  <2>3. ~late' => ~late /\ data[r] \notin 0..(invalidated - 1)
    BY <1>5 DEF Fill
  <2>4. data[r] \notin 0..(invalidated - 1) => invalidated <= data[r]
    BY <2>1
  <2>5. QED
    BY <2>2, <2>3, <2>4
<1>6. ASSUME NEW r \in Requests, Throws(r) PROVE Fresh'
  BY <1>6, DataSet DEF Throws, writerVars, fillVars
<1>7. CASE ExpireLock \/ ExpireKey
  BY <1>7 DEF ExpireLock, ExpireKey, requestVars, writerVars, fillVars
<1>8. CASE Write
  BY <1>8 DEF Write, requestVars, fillVars
<1>9. CASE Invalidate \/ InvalidateLost
  BY <1>9 DEF Invalidate, InvalidateLost, requestVars, fillVars
<1>10. CASE UNCHANGED vars
  BY <1>10 DEF vars, requestVars, writerVars, fillVars
<1>11. QED
  BY <1>1, <1>2, <1>3, <1>4, <1>5, <1>6, <1>7, <1>8, <1>9, <1>10 DEF Next

\* Nothing is newer than Postgres at the start.
LEMMA BoundedInit == Init => Bounded
  BY DEF Init, Bounded

\* The key is not filled with older data than before, unless a lock has run
\* out under its holder or a waiter has read for itself.
THEOREM FilledInOrder == Spec => FillsInOrder
<1>1. Init => Held /\ Ordered
  BY DEF Init, Held, Ordered, Holding, Falling
<1>2. Typed /\ Ordered /\ [Next]_vars => [~outlasted /\ ~gaveUp => newest' >= newest]_vars
  <2> SUFFICES ASSUME Typed, Ordered, Next, ~outlasted, ~gaveUp PROVE newest' >= newest
    OBVIOUS
  <2>1. newest \in Int
    BY VersionsAreInts DEF Typed, TypeOK
  <2>2. ASSUME NEW r \in Requests, Fill(r) PROVE newest' >= newest
    <3>1. pc[r] = "fill" /\ newest' = data[r]
      BY <2>2 DEF Fill, Ordered, Falling
    <3>2. data[r] \in Int
      BY <3>1, VersionsAreInts DEF Typed
    <3>3. QED
      BY <2>1, <3>1, <3>2 DEF Ordered
  <2>3. CASE UNCHANGED newest
    BY <2>1, <2>3
  <2>4. (\E r \in Requests : Fill(r)) \/ UNCHANGED newest
    BY DEF Next, Begin, Get, TryLock, Fetch, Unlock, Poll, GiveUp, Throws, ExpireLock,
           ExpireKey, Write, Invalidate, InvalidateLost, fillVars
  <2>5. QED
    BY <2>2, <2>3, <2>4
<1>3. QED
  BY TypedInit, TypedStep, HeldStep, BoundedInit, BoundedStep, OrderedStep, <1>1, <1>2, PTL
  DEF Spec, FillsInOrder

\* A request begun after an invalidation answers data at least that new, unless
\* a fill has come after an invalidation that its data missed.
THEOREM AnswersFresh == Spec => []FreshUnlessLate
<1>1. Init => Fresh
  BY DEF Init, Fresh, FreshData
<1>2. Typed /\ Fresh => FreshUnlessLate
  BY VersionsAreInts, Ranges DEF Fresh, FreshData, FreshUnlessLate, Typed, TypeOK
<1>3. QED
  BY TypedInit, TypedStep, BoundedInit, BoundedStep, FreshStep, <1>1, <1>2, PTL DEF Spec
=============================================================================

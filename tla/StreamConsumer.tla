--------------------------- MODULE StreamConsumer ---------------------------
(***************************************************************************)
(* One processor of the pipeline (trade, candle, fees, position, token or  *)
(* price) reading its Redis stream: the read loop and the claim loop of    *)
(* src/src/processors/base-processor.ts, interleaved at every await, with  *)
(* the consumer group state Redis keeps for them.                          *)
(*                                                                         *)
(* Messages are numbered by their position in the stream.  handle() is the *)
(* subclass's; here it succeeds or throws.  What a handler writes is the   *)
(* subject of other modules.                                               *)
(***************************************************************************)
EXTENDS Integers, FiniteSets

CONSTANTS
    NumMessages,    \* messages the scanner ever adds to the stream
    ReadCount,      \* COUNT of xReadGroup (10)
    ClaimCount,     \* entries xPendingRange returns (10)
    MaxAttempts,    \* handle attempts per delivery (3)
    MaxDeliveries,  \* MAX_DELIVERIES (5)
    StreamMaxLen,   \* STREAM_MAX_LEN (10,000), the MAXLEN ~ threshold
    MaxFaults,      \* bound: lost replies and failed claim-loop calls
    MaxCrashes      \* bound: process deaths

ASSUME ConsumerAssumption ==
    /\ NumMessages \in Nat
    /\ ReadCount \in Nat \ {0}
    /\ ClaimCount \in Nat \ {0}
    /\ MaxAttempts \in Nat \ {0}
    /\ MaxDeliveries \in Nat \ {0}
    /\ StreamMaxLen \in Nat \ {0}
    /\ MaxFaults \in Nat
    /\ MaxCrashes \in Nat

Messages == 1..NumMessages

VARIABLES
    added,       \* last message XADDed to the stream
    trimmed,     \* last message MAXLEN has trimmed from it
    delivered,   \* the group's last-delivered id
    pel,         \* the group's pending entries list
    deliveries,  \* delivery counter of each message
    idle,        \* pending messages idle for CLAIM_IDLE_MS or longer
    readPc,      \* await the read loop is at: "read", "handle" or "ack"
    cur,         \* message the read loop is working on; its batch is cur..delivered
    attempt,     \* failed attempts at cur so far
    claimPc,     \* await the claim loop is at: "sleep", "entry", "deadLetter" or "ack"
    scan,        \* stale entries of the current claim pass still to be visited
    data,        \* payload xRange returned for the entry being dead-lettered
    attempts,    \* history: calls of handle(m)
    handled,     \* history: messages for which a handle() returned
    dlq,         \* rows of dead_letter_queue
    lost,        \* history: messages whose dead_letter_queue INSERT failed
    faults, crashes

groupVars == <<added, trimmed, delivered, pel, deliveries, idle>>
readVars  == <<readPc, cur, attempt>>
claimVars == <<claimPc, scan, data>>
history   == <<attempts, handled, dlq, lost>>
budget    == <<faults, crashes>>
vars == <<groupVars, readVars, claimVars, history, budget>>

DeadLetterRow == [id : Messages, data : {"payload", "empty"}]

TypeOK ==
    /\ added \in 0..NumMessages
    /\ trimmed \in 0..added
    /\ delivered \in 0..added
    /\ pel \in SUBSET (1..delivered)
    /\ deliveries \in [Messages -> 0..(MaxDeliveries + 1)]
    /\ idle \in SUBSET pel
    /\ readPc \in {"read", "handle", "ack"}
    /\ cur \in 1..(NumMessages + 1)
    /\ attempt \in 0..(MaxAttempts - 1)
    /\ claimPc \in {"sleep", "entry", "deadLetter", "ack"}
    /\ scan \in SUBSET Messages
    /\ data \in {"payload", "empty"}
    /\ attempts \in [Messages -> Nat]
    /\ handled \in SUBSET Messages
    /\ dlq \in SUBSET DeadLetterRow
    /\ lost \in SUBSET Messages
    /\ faults \in 0..MaxFaults
    /\ crashes \in 0..MaxCrashes

\* The first start() creates the group at "0" on an empty stream.
Init ==
    /\ added = 0 /\ trimmed = 0 /\ delivered = 0
    /\ pel = {} /\ idle = {}
    /\ deliveries = [m \in Messages |-> 0]
    /\ readPc = "read" /\ cur = 1 /\ attempt = 0
    /\ claimPc = "sleep" /\ scan = {} /\ data = "payload"
    /\ attempts = [m \in Messages |-> 0]
    /\ handled = {} /\ dlq = {} /\ lost = {}
    /\ faults = 0 /\ crashes = 0

-----------------------------------------------------------------------------
(* The stream and the clock.                                               *)

\* The scanner's xAdd with TRIM MAXLEN ~ : the approximate trim may drop any
\* prefix that leaves at least StreamMaxLen entries.
XAdd ==
    /\ added < NumMessages
    /\ added' = added + 1
    /\ \E t \in trimmed..added' :
          /\ t = trimmed \/ added' - t >= StreamMaxLen
          /\ trimmed' = t
    /\ UNCHANGED <<delivered, pel, deliveries, idle, readVars, claimVars, history, budget>>

\* CLAIM_IDLE_MS pass since message m was last delivered or claimed.
BecomeIdle(m) ==
    /\ m \in pel \ idle
    /\ idle' = idle \cup {m}
    /\ UNCHANGED <<added, trimmed, delivered, pel, deliveries, readVars, claimVars,
                   history, budget>>

Fault ==
    /\ faults < MaxFaults
    /\ faults' = faults + 1
    /\ UNCHANGED crashes

-----------------------------------------------------------------------------
(* readLoop().                                                             *)

\* First message xReadGroup ">" can return: trimmed ones are skipped.
NextNew == IF delivered < trimmed THEN trimmed + 1 ELSE delivered + 1

\* Redis hands out the next batch: a contiguous run of at most ReadCount.
HandOut ==
    /\ NextNew <= added
    /\ LET last == IF NextNew + ReadCount - 1 < added THEN NextNew + ReadCount - 1 ELSE added
       IN /\ delivered' = last
          /\ pel' = pel \cup (NextNew..last)
          /\ deliveries' = [m \in Messages |->
                              IF m \in NextNew..last THEN 1 ELSE deliveries[m]]
    /\ attempt' = 0
    /\ UNCHANGED <<added, trimmed, idle, claimVars, history>>

ReadGroup ==
    /\ readPc = "read"
    /\ HandOut
    /\ cur' = NextNew
    /\ readPc' = "handle"
    /\ UNCHANGED budget

\* Redis has handed the batch out but the reply never arrives: the catch
\* around xReadGroup logs and reads on, and the batch stays pending.
ReadReplyLost ==
    /\ readPc = "read"
    /\ HandOut
    /\ Fault
    /\ cur' = delivered' + 1
    /\ UNCHANGED readPc

\* Go on to the next message of the batch, or back to xReadGroup after it.
NextMessage ==
    /\ cur' = cur + 1
    /\ attempt' = 0
    /\ readPc' = IF cur + 1 <= delivered THEN "handle" ELSE "read"

\* Mutant: the attempt count is compared one too late.
AttemptFailedLate ==
    IF attempt = MaxAttempts
      THEN NextMessage
      ELSE /\ attempt' = attempt + 1
           /\ readPc' = "handle"
           /\ UNCHANGED cur

\* The catch of an attempt: after the last one the message is left unacked.
AttemptFailed ==
    IF attempt + 1 = MaxAttempts
      THEN NextMessage
      ELSE /\ attempt' = attempt + 1
           /\ readPc' = "handle"
           /\ UNCHANGED cur

CallHandle ==
    /\ readPc = "handle"
    /\ attempts' = [attempts EXCEPT ![cur] = @ + 1]

HandleReturns ==
    /\ CallHandle
    /\ handled' = handled \cup {cur}
    /\ readPc' = "ack"
    /\ UNCHANGED <<cur, attempt, groupVars, claimVars, dlq, lost, budget>>

\* XACK removes the entry from the pending list, whoever asked for it.
Ack(m) ==
    /\ pel' = pel \ {m}
    /\ idle' = idle \ {m}
    /\ UNCHANGED <<added, trimmed, delivered, deliveries>>

\* Mutant: the last failing attempt acknowledges the message.
HandleThrowsAcked ==
    /\ CallHandle
    /\ AttemptFailed
    /\ IF attempt + 1 = MaxAttempts THEN Ack(cur) ELSE UNCHANGED groupVars
    /\ UNCHANGED <<claimVars, handled, dlq, lost, budget>>

\* JSON.parse or handle() throws.
HandleThrows ==
    /\ CallHandle
    /\ AttemptFailed
    /\ UNCHANGED <<groupVars, claimVars, handled, dlq, lost, budget>>

AckReturns ==
    /\ readPc = "ack"
    /\ Ack(cur)
    /\ NextMessage
    /\ UNCHANGED <<claimVars, history, budget>>

\* xAck throws, before Redis executed it or after: the same catch as a
\* failing handle(), so the message is handled again.
AckThrows ==
    /\ readPc = "ack"
    /\ Ack(cur) \/ UNCHANGED groupVars
    /\ AttemptFailed
    /\ UNCHANGED <<claimVars, history, budget>>

-----------------------------------------------------------------------------
(* claimLoop().                                                            *)

\* The k smallest members of S.
Smallest(S, k) == {m \in S : Cardinality({x \in S : x <= m}) <= k}

\* m is the entry of the pass the loop is at.
AtEntry(m) == m \in scan /\ \A x \in scan : m <= x

\* After the interval, xPendingRange returns the first ClaimCount pending
\* entries; those not idle long enough are skipped.
ClaimScan ==
    /\ claimPc = "sleep"
    /\ scan' = Smallest(pel, ClaimCount) \cap idle
    /\ scan' # {}
    /\ claimPc' = "entry"
    /\ UNCHANGED <<data, groupVars, readVars, history, budget>>

NextEntry(m) ==
    /\ scan' = scan \ {m}
    /\ claimPc' = IF scan' = {} THEN "sleep" ELSE "entry"

\* Mutant: a claim does not count as a delivery (JUSTID).
ClaimEntryUncounted(m) ==
    /\ claimPc = "entry" /\ AtEntry(m)
    /\ deliveries[m] <= MaxDeliveries
    /\ pel' = IF m \in idle /\ m <= trimmed THEN pel \ {m} ELSE pel
    /\ idle' = idle \ {m}
    /\ NextEntry(m)
    /\ UNCHANGED <<added, trimmed, delivered, deliveries, data, readVars, history, budget>>

\* xClaim of an entry within its delivery budget: it counts a delivery, if
\* the entry is still pending and idle.  Redis 7 removes an entry the stream
\* no longer holds instead.  Nothing handles the claimed message.
ClaimEntry(m) ==
    /\ claimPc = "entry" /\ AtEntry(m)
    /\ deliveries[m] <= MaxDeliveries
    /\ deliveries' = [deliveries EXCEPT ![m] = IF m \in idle /\ m > trimmed THEN @ + 1 ELSE @]
    /\ pel' = IF m \in idle /\ m <= trimmed THEN pel \ {m} ELSE pel
    /\ idle' = idle \ {m}
    /\ NextEntry(m)
    /\ UNCHANGED <<added, trimmed, delivered, data, readVars, history, budget>>

\* Mutant: an expired entry is acknowledged without the INSERT.
ReadExpiredOnly(m) ==
    /\ claimPc = "entry" /\ AtEntry(m)
    /\ deliveries[m] > MaxDeliveries
    /\ data' = IF m > trimmed THEN "payload" ELSE "empty"
    /\ claimPc' = "ack"
    /\ UNCHANGED <<scan, groupVars, readVars, history, budget>>

\* An entry past its budget: xRange reads the payload; the code substitutes "{}"
\* (here "empty") for a trimmed entry.
ReadExpired(m) ==
    /\ claimPc = "entry" /\ AtEntry(m)
    /\ deliveries[m] > MaxDeliveries
    /\ data' = IF m > trimmed THEN "payload" ELSE "empty"
    /\ claimPc' = "deadLetter"
    /\ UNCHANGED <<scan, groupVars, readVars, history, budget>>

\* deadLetter(): the INSERT, whose failure is swallowed.
DeadLetter(m) ==
    /\ claimPc = "deadLetter" /\ AtEntry(m)
    /\ \/ /\ dlq' = dlq \cup {[id |-> m, data |-> data]}
          /\ UNCHANGED lost
       \/ /\ lost' = lost \cup {m}
          /\ UNCHANGED dlq
    /\ claimPc' = "ack"
    /\ UNCHANGED <<scan, data, attempts, handled, groupVars, readVars, budget>>

AckExpired(m) ==
    /\ claimPc = "ack" /\ AtEntry(m)
    /\ Ack(m)
    /\ NextEntry(m)
    /\ UNCHANGED <<data, readVars, history, budget>>

\* A Redis call of the claim loop throws: the rest of the pass is abandoned.
\* (A call that Redis executed although it threw is the call returning and
\* the next one throwing.)
ClaimThrows ==
    /\ claimPc \in {"entry", "ack"}
    /\ Fault
    /\ scan' = {}
    /\ claimPc' = "sleep"
    /\ UNCHANGED <<data, groupVars, readVars, history>>

-----------------------------------------------------------------------------
\* Mutant: a restarted consumer reads its own pending list again (id "0").
RestartRereads ==
    /\ crashes < MaxCrashes
    /\ crashes' = crashes + 1
    /\ readPc' = IF delivered = 0 THEN "read" ELSE "handle"
    /\ cur' = 1 /\ attempt' = 0
    /\ claimPc' = "sleep" /\ scan' = {}
    /\ UNCHANGED <<data, faults, groupVars, history>>

\* The process dies and is started again: both loops begin afresh and read
\* only new messages; the group finds its state in Redis (BUSYGROUP).
Restart ==
    /\ crashes < MaxCrashes
    /\ crashes' = crashes + 1
    /\ readPc' = "read" /\ cur' = delivered + 1 /\ attempt' = 0
    /\ claimPc' = "sleep" /\ scan' = {}
    /\ UNCHANGED <<data, faults, groupVars, history>>

ReadLoop == ReadGroup \/ HandleReturns \/ HandleThrows \/ AckReturns \/ AckThrows

VisitEntry(m) == ClaimEntry(m) \/ ReadExpired(m) \/ DeadLetter(m) \/ AckExpired(m)

ClaimLoop == ClaimScan \/ \E m \in Messages : VisitEntry(m)

Next ==
    \/ XAdd
    \/ \E m \in Messages : BecomeIdle(m)
    \/ ReadGroup \/ ReadReplyLost
    \/ HandleReturns \/ HandleThrows \/ AckReturns \/ AckThrows
    \/ ClaimScan
    \/ \E m \in Messages :
          ClaimEntry(m) \/ ReadExpired(m) \/ DeadLetter(m) \/ AckExpired(m)
    \/ ClaimThrows
    \/ Restart

\* Both loops are while (running) loops whose awaits resolve or reject, and
\* time passes; the scanner need not publish, and nothing need fail.
Fairness ==
    /\ WF_vars(ReadLoop)
    /\ WF_vars(ClaimLoop)
    /\ \A m \in Messages : WF_vars(BecomeIdle(m))

Spec == Init /\ [][Next]_vars /\ Fairness

-----------------------------------------------------------------------------
(* Properties.                                                             *)

\* A message the group has moved past is accounted for: it is pending, or a
\* handle() of it returned, or it is (or was being) dead-lettered, or the
\* stream has trimmed it.  Whatever the two loops, crashes and lost replies
\* do, no message is acknowledged away silently.
DeadLettered == {r.id : r \in dlq}

Reason == handled \cup DeadLettered \cup lost \cup 1..trimmed

NoSilentLoss == 1..delivered \subseteq pel \cup Reason

\* handle() is tried at most MaxAttempts times per message over the whole
\* life of the group: neither the claim loop nor a restart tries it again.
HandleBudget == \A m \in Messages : attempts[m] <= MaxAttempts

\* Handlers see the stream in order: once a message has been tried, no
\* earlier one is tried any more (the candle's close price is the last swap
\* handled, so a late retry would publish an old price).
TriedInOrder ==
    [][\A m \in Messages :
          attempts'[m] > attempts[m] => \A k \in Messages : k > m => attempts[k] = 0]_vars

\* Every pending entry is let go in the end, even when its consumer died
\* with it and when every attempt fails.
PendingSettles == \A m \in Messages : (m \in pel) ~> (m \notin pel)

\* The group implements the abstract promise.
Delivery == INSTANCE MessageDelivery WITH
    seen <- 1..delivered, pending <- pel, reason <- Reason

DeliverySpec == Delivery!Spec
=============================================================================

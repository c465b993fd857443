------------------------ MODULE StreamConsumerProofs ------------------------
(***************************************************************************)
(* Proofs about StreamConsumer for any number of messages, any batch, claim *)
(* and delivery limits and any number of faults and crashes.               *)
(***************************************************************************)
EXTENDS StreamConsumer, TLAPS

(* Type correctness.                                                       *)

\* Where the read loop stands: while it works on a message, that message is
\* one the group has handed out.
AtWork == readPc # "read" => cur <= delivered

\* The types, with this.
Typed == TypeOK /\ AtWork

\* The actions of Next, as one disjunction per loop, for the case splits.
LEMMA NextCases ==
    ASSUME Next
    PROVE  \/ XAdd
           \/ \E m \in Messages : BecomeIdle(m)
           \/ ReadGroup \/ ReadReplyLost
           \/ HandleReturns \/ HandleThrows \/ AckReturns \/ AckThrows
           \/ ClaimScan
           \/ \E m \in Messages : ClaimEntry(m)
           \/ \E m \in Messages : ReadExpired(m)
           \/ \E m \in Messages : DeadLetter(m)
           \/ \E m \in Messages : AckExpired(m)
           \/ ClaimThrows
           \/ Restart
  BY DEF Next

\* A batch is handed out in bounds.
LEMMA HandOutTyped ==
    ASSUME Typed, HandOut
    PROVE  /\ NextNew \in 1..added
           /\ delivered' \in NextNew..added
           /\ delivered < NextNew
           /\ pel' \in SUBSET (1..delivered')
           /\ deliveries' \in [Messages -> 0..(MaxDeliveries + 1)]
           /\ attempt' = 0
<1> DEFINE Last == IF NextNew + ReadCount - 1 < added THEN NextNew + ReadCount - 1 ELSE added
<1>1. /\ NextNew \in Nat /\ NextNew \in 1..added /\ NextNew > delivered
      /\ added \in Nat /\ added <= NumMessages /\ delivered \in 0..added
  BY ConsumerAssumption DEF Typed, TypeOK, HandOut, NextNew
<1>2. Last \in NextNew..added
  BY <1>1, ConsumerAssumption
<1>3. /\ delivered' = Last
      /\ pel' = pel \cup (NextNew..Last)
      /\ deliveries' = [m \in Messages |-> IF m \in NextNew..Last THEN 1 ELSE deliveries[m]]
      /\ attempt' = 0
  BY DEF HandOut
<1> HIDE DEF Last
<1>4. pel' \in SUBSET (1..Last)
  BY <1>1, <1>2, <1>3 DEF Typed, TypeOK
<1>5. deliveries' \in [Messages -> 0..(MaxDeliveries + 1)]
  BY <1>3, ConsumerAssumption DEF Typed, TypeOK
<1> QED
  BY <1>1, <1>2, <1>3, <1>4, <1>5

\* After a message the loop is at the next one of the batch, or reads.
LEMMA NextMessageTyped ==
    ASSUME Typed, readPc # "read", NextMessage, delivered' = delivered
    PROVE  /\ readPc' \in {"read", "handle"}
           /\ cur' \in 1..(NumMessages + 1)
           /\ attempt' \in 0..(MaxAttempts - 1)
           /\ AtWork'
  BY ConsumerAssumption DEF Typed, TypeOK, AtWork, NextMessage

\* So it is after a failed attempt.
LEMMA AttemptFailedTyped ==
    ASSUME Typed, readPc # "read", AttemptFailed, delivered' = delivered
    PROVE  /\ readPc' \in {"read", "handle"}
           /\ cur' \in 1..(NumMessages + 1)
           /\ attempt' \in 0..(MaxAttempts - 1)
           /\ AtWork'
<1>1. CASE attempt + 1 = MaxAttempts
  BY <1>1, NextMessageTyped DEF AttemptFailed
<1>2. CASE attempt + 1 # MaxAttempts
  BY <1>2, ConsumerAssumption DEF AttemptFailed, Typed, TypeOK, AtWork
<1> QED
  BY <1>1, <1>2

\* Types hold at the start.
LEMMA TypedInit == Init => Typed
  BY ConsumerAssumption DEF Init, Typed, TypeOK, AtWork, Messages

\* Types are kept by every step.
LEMMA TypedStep == Typed /\ [Next]_vars => Typed'
<1> SUFFICES ASSUME Typed, [Next]_vars PROVE Typed'
  OBVIOUS
<1> USE ConsumerAssumption
<1>1. CASE XAdd
  BY <1>1 DEF XAdd, Typed, TypeOK, AtWork, readVars, claimVars, history, budget, Messages
<1>2. ASSUME NEW m \in Messages, BecomeIdle(m) PROVE Typed'
  BY <1>2 DEF BecomeIdle, Typed, TypeOK, AtWork, readVars, claimVars, history, budget
<1>3. CASE ReadGroup
  <2>1. HandOut
    BY <1>3 DEF ReadGroup
  <2> QED
    BY <1>3, <2>1, HandOutTyped
    DEF ReadGroup, HandOut, Typed, TypeOK, AtWork, claimVars, history, budget
<1>4. CASE ReadReplyLost
  <2>1. HandOut
    BY <1>4 DEF ReadReplyLost
  <2> QED
    BY <1>4, <2>1, HandOutTyped
    DEF ReadReplyLost, Fault, HandOut, Typed, TypeOK, AtWork, claimVars, history
<1>5. CASE HandleReturns
  BY <1>5 DEF HandleReturns, CallHandle, Typed, TypeOK, AtWork, groupVars, claimVars, budget,
              Messages
<1>6. CASE HandleThrows
  <2>1. /\ readPc # "read" /\ AttemptFailed /\ delivered' = delivered
    BY <1>6 DEF HandleThrows, CallHandle, groupVars
  <2>2. /\ readPc' \in {"read", "handle"}
        /\ cur' \in 1..(NumMessages + 1)
        /\ attempt' \in 0..(MaxAttempts - 1)
        /\ AtWork'
    BY <2>1, AttemptFailedTyped
  <2>3. attempts' \in [Messages -> Nat]
    <3>1. attempts' = [attempts EXCEPT ![cur] = @ + 1]
      BY <1>6 DEF HandleThrows, CallHandle
    <3>2. attempts \in [Messages -> Nat] /\ cur \in Messages
      BY <2>1 DEF Typed, TypeOK, AtWork, Messages
    <3>3. attempts[cur] + 1 \in Nat
      BY <3>2
    <3> QED
      BY <3>1, <3>2, <3>3
  <2>4. /\ UNCHANGED <<added, trimmed, delivered, pel, deliveries, idle>>
        /\ UNCHANGED <<claimPc, scan, data, handled, dlq, lost, faults, crashes>>
    BY <1>6 DEF HandleThrows, groupVars, claimVars, budget
  <2> QED
    BY <2>2, <2>3, <2>4 DEF Typed, TypeOK
<1>7. CASE AckReturns
  <2>1. readPc # "read" /\ NextMessage /\ delivered' = delivered
    BY <1>7 DEF AckReturns, Ack
  <2> QED
    BY <1>7, <2>1, NextMessageTyped
    DEF AckReturns, Ack, Typed, TypeOK, claimVars, history, budget
<1>8. CASE AckThrows
  <2>1. readPc # "read" /\ AttemptFailed /\ delivered' = delivered
    BY <1>8 DEF AckThrows, Ack, groupVars
  <2>2. /\ readPc' \in {"read", "handle"}
        /\ cur' \in 1..(NumMessages + 1)
        /\ attempt' \in 0..(MaxAttempts - 1)
        /\ AtWork'
    BY <2>1, AttemptFailedTyped
  <2>3. /\ UNCHANGED <<added, trimmed, delivered, deliveries>>
        /\ pel' \in SUBSET pel /\ idle' \in SUBSET pel'
    <3>1. CASE Ack(cur)
      BY <3>1 DEF Ack, Typed, TypeOK
    <3>2. CASE UNCHANGED groupVars
      BY <3>2 DEF groupVars, Typed, TypeOK
    <3> QED
      BY <1>8, <3>1, <3>2 DEF AckThrows
  <2> QED
    BY <1>8, <2>2, <2>3 DEF AckThrows, Typed, TypeOK, claimVars, history, budget
<1>9. CASE ClaimScan
  <2>1. scan' \in SUBSET Messages
    <3>1. scan' \subseteq pel /\ pel \subseteq 1..delivered /\ 1..delivered \subseteq Messages
      BY <1>9 DEF ClaimScan, Smallest, Typed, TypeOK, Messages
    <3> QED
      BY <3>1
  <2> QED
    BY <1>9, <2>1 DEF ClaimScan, Typed, TypeOK, AtWork, groupVars, readVars, history, budget
<1>10. ASSUME NEW m \in Messages, ClaimEntry(m) PROVE Typed'
  <2>1. deliveries' \in [Messages -> 0..(MaxDeliveries + 1)]
    BY <1>10 DEF ClaimEntry, Typed, TypeOK
  <2>2. pel' \in SUBSET pel /\ idle' \in SUBSET pel'
    BY <1>10 DEF ClaimEntry, Typed, TypeOK
  <2>3. scan' \in SUBSET Messages /\ claimPc' \in {"sleep", "entry"}
    BY <1>10 DEF ClaimEntry, NextEntry, Typed, TypeOK
  <2> QED
    BY <1>10, <2>1, <2>2, <2>3 DEF ClaimEntry, Typed, TypeOK, AtWork, readVars, history, budget
<1>11. ASSUME NEW m \in Messages, ReadExpired(m) PROVE Typed'
  BY <1>11 DEF ReadExpired, Typed, TypeOK, AtWork, groupVars, readVars, history, budget
<1>12. ASSUME NEW m \in Messages, DeadLetter(m) PROVE Typed'
  BY <1>12 DEF DeadLetter, DeadLetterRow, Typed, TypeOK, AtWork, groupVars, readVars, budget
<1>13. ASSUME NEW m \in Messages, AckExpired(m) PROVE Typed'
  BY <1>13 DEF AckExpired, Ack, NextEntry, Typed, TypeOK, AtWork, readVars, history, budget
<1>14. CASE ClaimThrows
  BY <1>14 DEF ClaimThrows, Fault, Typed, TypeOK, AtWork, groupVars, readVars, history
<1>15. CASE Restart
  BY <1>15 DEF Restart, Typed, TypeOK, AtWork, groupVars, history
<1>16. CASE UNCHANGED vars
  BY <1>16 DEF vars, groupVars, readVars, claimVars, history, budget, Typed, TypeOK, AtWork
<1> QED
  BY <1>1, <1>2, <1>3, <1>4, <1>5, <1>6, <1>7, <1>8, <1>9, <1>10, <1>11, <1>12, <1>13,
     <1>14, <1>15, <1>16, NextCases

\* Every reachable state is well typed, and the read loop only ever works on
\* a message the group has handed out.
THEOREM TypeCorrect == Spec => []TypeOK
<1>1. Typed => TypeOK
  BY DEF Typed
<1> QED
  BY <1>1, TypedInit, TypedStep, PTL DEF Spec

-----------------------------------------------------------------------------
(* What has been tried, and in what order.                                 *)

\* The read loop's attempt counter is the history's count for the message it
\* works on; nothing beyond that message, or beyond what the group has
\* handed out, has been tried.
Tried ==
    /\ \A m \in Messages : attempts[m] <= MaxAttempts
    /\ readPc = "handle" => attempts[cur] = attempt
    /\ readPc = "ack" => attempts[cur] = attempt + 1
    /\ \A m \in Messages : m > delivered => attempts[m] = 0
    /\ readPc # "read" => \A m \in Messages : m > cur => attempts[m] = 0

\* The conjunct is kept by a step that leaves the read loop alone.
LEMMA TriedKept ==
    ASSUME Typed, Tried, UNCHANGED <<readVars, attempts, delivered>>
    PROVE  Tried'
  BY DEF Tried, readVars

\* It is kept by a step of the loop to the next message.
LEMMA TriedNextMessage ==
    ASSUME Typed, Tried, readPc # "read", NextMessage, UNCHANGED delivered,
           \A m \in Messages \ {cur} : attempts'[m] = attempts[m],
           attempts'[cur] \in 0..MaxAttempts
    PROVE  Tried'
<1>1. cur \in Messages /\ delivered \in Nat /\ delivered <= NumMessages /\ cur <= delivered
  BY ConsumerAssumption DEF Typed, TypeOK, AtWork, Messages
<1>2. \A m \in Messages : m > cur => attempts'[m] = 0
  BY <1>1 DEF Tried, Typed, TypeOK, Messages
<1>3. \A m \in Messages : attempts'[m] <= MaxAttempts
  BY <1>1 DEF Tried, Typed, TypeOK
<1>4. \A m \in Messages : m > delivered' => attempts'[m] = 0
  BY <1>1, <1>2 DEF Messages
<1>5. CASE cur + 1 <= delivered
  <2>1. readPc' = "handle" /\ cur' = cur + 1 /\ attempt' = 0 /\ cur + 1 \in Messages
    BY <1>1, <1>5, ConsumerAssumption DEF NextMessage, Messages
  <2>2. attempts'[cur'] = attempt'
    BY <1>1, <1>2, <2>1 DEF Messages
  <2>3. \A m \in Messages : m > cur' => attempts'[m] = 0
    BY <1>1, <1>2, <2>1 DEF Messages
  <2> QED
    BY <1>3, <1>4, <2>1, <2>2, <2>3 DEF Tried
<1>6. CASE ~(cur + 1 <= delivered)
  BY <1>3, <1>4, <1>6 DEF Tried, NextMessage
<1> QED
  BY <1>5, <1>6

\* Nothing is tried at the start.
LEMMA TriedInit == Init => Tried
  BY ConsumerAssumption DEF Init, Tried

\* Every step keeps the order of the tries: only the read loop tries a
\* message, and it moves up the stream.
LEMMA TriedStep == Typed /\ Tried /\ [Next]_vars => Tried'
<1> SUFFICES ASSUME Typed, Tried, [Next]_vars PROVE Tried'
  OBVIOUS
<1> USE ConsumerAssumption
<1>1. CASE XAdd
  BY <1>1, TriedKept DEF XAdd, history, readVars
<1>2. ASSUME NEW m \in Messages, BecomeIdle(m) PROVE Tried'
  BY <1>2, TriedKept DEF BecomeIdle, history, readVars
<1>3. ASSUME HandOut PROVE \A m \in Messages : m >= NextNew => attempts[m] = 0
  <2>1. NextNew \in Nat /\ delivered < NextNew /\ delivered \in Nat
    BY <1>3, HandOutTyped DEF Typed, TypeOK
  <2> QED
    BY <2>1 DEF Tried, Messages
<1>4. CASE ReadGroup
  <2>1. HandOut /\ cur' = NextNew /\ readPc' = "handle" /\ attempts' = attempts
    BY <1>4 DEF ReadGroup, HandOut, history
  <2>2. /\ NextNew \in 1..added /\ delivered' \in NextNew..added /\ attempt' = 0
        /\ added \in 0..NumMessages
    BY <2>1, HandOutTyped DEF Typed, TypeOK
  <2>3. \A m \in Messages : m >= NextNew => attempts[m] = 0
    BY <1>3, <2>1
  <2> QED
    BY <2>1, <2>2, <2>3 DEF Tried, Messages
<1>5. CASE ReadReplyLost
  <2>1. HandOut /\ readPc' = "read" /\ attempts' = attempts
    BY <1>5 DEF ReadReplyLost, HandOut, history
  <2>2. NextNew \in 1..added /\ delivered' \in NextNew..added
    BY <2>1, HandOutTyped
  <2>3. \A m \in Messages : m >= NextNew => attempts[m] = 0
    BY <1>3, <2>1
  <2> QED
    BY <2>1, <2>2, <2>3 DEF Tried, Typed, TypeOK, Messages
<1>6. CASE HandleReturns
  <2>1. /\ readPc = "handle" /\ readPc' = "ack" /\ UNCHANGED <<cur, attempt, delivered>>
        /\ attempts' = [attempts EXCEPT ![cur] = @ + 1]
    BY <1>6 DEF HandleReturns, CallHandle, groupVars
  <2>2. cur \in Messages /\ attempts[cur] = attempt /\ cur <= delivered
    BY <2>1 DEF Typed, TypeOK, AtWork, Tried, Messages
  <2> QED
    BY <2>1, <2>2 DEF Tried, Typed, TypeOK, Messages
<1>7. CASE HandleThrows
  <2>1. /\ readPc = "handle" /\ AttemptFailed /\ UNCHANGED delivered
        /\ attempts' = [attempts EXCEPT ![cur] = @ + 1]
    BY <1>7 DEF HandleThrows, CallHandle, groupVars
  <2>2. /\ cur \in Messages /\ attempts[cur] = attempt /\ cur <= delivered
        /\ attempt \in 0..(MaxAttempts - 1)
    BY <2>1 DEF Typed, TypeOK, AtWork, Tried, Messages
  <2>3. attempts'[cur] = attempt + 1 /\ \A m \in Messages \ {cur} : attempts'[m] = attempts[m]
    BY <2>1, <2>2 DEF Typed, TypeOK
  <2>4. CASE attempt + 1 = MaxAttempts
    BY <2>1, <2>2, <2>3, <2>4, TriedNextMessage DEF AttemptFailed
  <2>5. CASE attempt + 1 # MaxAttempts
    BY <2>1, <2>2, <2>3, <2>5 DEF AttemptFailed, Tried, Typed, TypeOK, Messages
  <2> QED
    BY <2>4, <2>5
<1>8. CASE AckReturns
  <2>1. readPc = "ack" /\ NextMessage /\ UNCHANGED <<delivered, attempts>>
    BY <1>8 DEF AckReturns, Ack, history
  <2>2. attempts[cur] \in 0..MaxAttempts
    BY <2>1 DEF Typed, TypeOK, AtWork, Tried, Messages
  <2> QED
    BY <2>1, <2>2, TriedNextMessage
<1>9. CASE AckThrows
  <2>1. readPc = "ack" /\ AttemptFailed /\ UNCHANGED <<delivered, attempts>>
    BY <1>9 DEF AckThrows, Ack, history, groupVars
  <2>2. attempts[cur] \in 0..MaxAttempts /\ attempts[cur] = attempt + 1
    BY <2>1 DEF Typed, TypeOK, AtWork, Tried, Messages
  <2>3. CASE attempt + 1 = MaxAttempts
    BY <2>1, <2>2, <2>3, TriedNextMessage DEF AttemptFailed
  <2>4. CASE attempt + 1 # MaxAttempts
    BY <2>1, <2>2, <2>4 DEF AttemptFailed, Tried
  <2> QED
    BY <2>3, <2>4
<1>10. CASE ClaimScan
  BY <1>10, TriedKept DEF ClaimScan, groupVars, history, readVars
<1>11. ASSUME NEW m \in Messages, VisitEntry(m) PROVE Tried'
  BY <1>11, TriedKept DEF VisitEntry, ClaimEntry, ReadExpired, DeadLetter, AckExpired, Ack,
                          groupVars, history, readVars
<1>12. CASE ClaimThrows
  BY <1>12, TriedKept DEF ClaimThrows, groupVars, history, readVars
<1>13. CASE Restart
  BY <1>13 DEF Restart, groupVars, history, Tried
<1>14. CASE UNCHANGED vars
  BY <1>14, TriedKept DEF vars, groupVars, readVars, history
<1> QED
  BY <1>1, <1>2, <1>4, <1>5, <1>6, <1>7, <1>8, <1>9, <1>10, <1>11, <1>12, <1>13, <1>14,
     NextCases DEF VisitEntry

\* handle() is tried at most MaxAttempts times per message, over any number
\* of crashes, lost replies and claims.
THEOREM HandledWithinBudget == Spec => []HandleBudget
<1>1. Typed /\ Tried => HandleBudget
  BY DEF Tried, HandleBudget
<1> QED
  BY <1>1, TypedInit, TypedStep, TriedInit, TriedStep, PTL DEF Spec

\* Messages are tried in stream order, and no earlier message is tried once
\* a later one has been.
THEOREM HandledInOrder == Spec => TriedInOrder
<1> DEFINE Grows(m) == attempts'[m] > attempts[m]
           Ordered == \A m \in Messages :
                         Grows(m) => \A k \in Messages : k > m => attempts[k] = 0
<1>1. Typed /\ Tried /\ [Next]_vars => [Ordered]_vars
  <2> SUFFICES ASSUME Typed, Tried, Next PROVE Ordered
    OBVIOUS
  <2>1. \/ readPc = "handle" /\ attempts' = [attempts EXCEPT ![cur] = @ + 1]
        \/ attempts' = attempts
    BY NextCases DEF XAdd, BecomeIdle, ReadGroup, ReadReplyLost, HandOut, HandleReturns,
       HandleThrows, CallHandle, AckReturns, AckThrows, ClaimScan, ClaimEntry, ReadExpired,
       DeadLetter, AckExpired, ClaimThrows, Restart, history
  <2>2. CASE attempts' = attempts
    BY <2>2 DEF Typed, TypeOK
  <2>3. CASE readPc = "handle" /\ attempts' = [attempts EXCEPT ![cur] = @ + 1]
    <3>1. ASSUME NEW m \in Messages, Grows(m) PROVE m = cur
      BY <2>3, <3>1 DEF Typed, TypeOK
    <3> QED
      BY <2>3, <3>1 DEF Tried
  <2> QED
    BY <2>1, <2>2, <2>3
<1> QED
  BY <1>1, TypedInit, TypedStep, TriedInit, TriedStep, PTL DEF Spec, TriedInOrder

-----------------------------------------------------------------------------
(* Nothing is let go without a reason, and the abstract promise.           *)

\* At the two places where the loops acknowledge a message, its reason is
\* already on record.
Recorded ==
    /\ readPc = "ack" => cur \in handled
    /\ claimPc = "ack" => \A m \in Messages : AtEntry(m) => m \in DeadLettered \cup lost

\* The invariant behind NoSilentLoss.
IInv == Typed /\ Recorded

\* What a step can do to the group: hand out a batch, let go of a message
\* there is a reason for, or add reasons.
HandsOut == HandOut /\ Reason' = Reason

\* Let go of a message there is a reason for.
LetsGo == \E m \in Messages \cap Reason :
             pel' = pel \ {m} /\ UNCHANGED delivered /\ Reason' = Reason

\* Add reasons.
Explains == Reason \subseteq Reason' /\ UNCHANGED <<delivered, pel>>

\* Nothing is delivered at the start.
LEMMA RecordedInit == Init => Recorded
  BY DEF Init, Recorded

\* Every step keeps the record: whoever lets a message go has first written
\* down why.
LEMMA RecordedStep == IInv /\ [Next]_vars => Recorded'
<1> SUFFICES ASSUME Typed, Recorded, [Next]_vars PROVE Recorded'
  BY DEF IInv
<1> USE DEF Recorded, AtEntry, DeadLettered
<1>1. CASE XAdd
  BY <1>1 DEF XAdd, readVars, claimVars, history
<1>2. ASSUME NEW m \in Messages, BecomeIdle(m) PROVE Recorded'
  BY <1>2 DEF BecomeIdle, readVars, claimVars, history
<1>3. CASE ReadGroup
  BY <1>3 DEF ReadGroup, HandOut, claimVars, history
<1>4. CASE ReadReplyLost
  BY <1>4 DEF ReadReplyLost, HandOut, claimVars, history
<1>5. CASE HandleReturns
  BY <1>5 DEF HandleReturns, CallHandle, claimVars
<1>6. CASE HandleThrows
  BY <1>6 DEF HandleThrows, CallHandle, AttemptFailed, NextMessage, claimVars
<1>7. CASE AckReturns
  BY <1>7 DEF AckReturns, NextMessage, claimVars, history
<1>8. CASE AckThrows
  BY <1>8 DEF AckThrows, AttemptFailed, NextMessage, claimVars, history
<1>9. CASE ClaimScan
  BY <1>9 DEF ClaimScan, readVars, history
<1>10. ASSUME NEW m \in Messages, ClaimEntry(m) PROVE Recorded'
  BY <1>10 DEF ClaimEntry, NextEntry, readVars, history
<1>11. ASSUME NEW m \in Messages, ReadExpired(m) PROVE Recorded'
  BY <1>11 DEF ReadExpired, readVars, history
<1>12. ASSUME NEW m \in Messages, DeadLetter(m) PROVE Recorded'
  <2>1. \A x \in Messages : AtEntry(x) => x = m
    BY <1>12 DEF DeadLetter, Messages
  <2>2. m \in (DeadLettered \cup lost)'
    BY <1>12 DEF DeadLetter
  <2> QED
    BY <1>12, <2>1, <2>2 DEF DeadLetter, readVars
<1>13. ASSUME NEW m \in Messages, AckExpired(m) PROVE Recorded'
  BY <1>13 DEF AckExpired, NextEntry, readVars, history
<1>14. CASE ClaimThrows
  BY <1>14 DEF ClaimThrows, readVars, history
<1>15. CASE Restart
  BY <1>15 DEF Restart
<1>16. CASE UNCHANGED vars
  BY <1>16 DEF vars, readVars, claimVars, history
<1> QED
  BY <1>1, <1>2, <1>3, <1>4, <1>5, <1>6, <1>7, <1>8, <1>9, <1>10, <1>11, <1>12, <1>13,
     <1>14, <1>15, <1>16, NextCases

\* A step that touches neither the history nor the trimming leaves the
\* reasons alone.
LEMMA SameReason ==
    ASSUME UNCHANGED <<history, trimmed>>
    PROVE  Reason' = Reason
  BY DEF history, Reason, DeadLettered

\* Seen from the promise, every step hands messages out, lets one go, or
\* brings reasons to light.
LEMMA StepShape == IInv /\ [Next]_vars => HandsOut \/ LetsGo \/ Explains
<1> SUFFICES ASSUME Typed, Recorded, [Next]_vars PROVE HandsOut \/ LetsGo \/ Explains
  BY DEF IInv
<1>1. CASE XAdd
  <2>1. trimmed' >= trimmed /\ trimmed \in Nat /\ trimmed' \in Nat
    BY <1>1, ConsumerAssumption DEF XAdd, Typed, TypeOK
  <2> QED
    BY <1>1, <2>1 DEF XAdd, Explains, Reason, DeadLettered, history
<1>2. ASSUME NEW m \in Messages, BecomeIdle(m) PROVE Explains
  BY <1>2, SameReason DEF BecomeIdle, Explains
<1>3. CASE ReadGroup \/ ReadReplyLost
  <2>1. HandOut
    BY <1>3 DEF ReadGroup, ReadReplyLost
  <2> QED
    BY <2>1, SameReason DEF HandOut, HandsOut
<1>4. CASE HandleReturns
  BY <1>4 DEF HandleReturns, CallHandle, groupVars, Explains, Reason, DeadLettered
<1>5. CASE HandleThrows
  BY <1>5 DEF HandleThrows, CallHandle, groupVars, Explains, Reason, DeadLettered
<1>6. CASE AckReturns \/ AckThrows
  <2>1. cur \in Messages \cap Reason
    BY <1>6 DEF AckReturns, AckThrows, Recorded, Reason, Typed, TypeOK
  <2>2. CASE Ack(cur)
    <3>1. Reason' = Reason
      BY <1>6, <2>2, SameReason DEF AckReturns, AckThrows, Ack
    <3> QED
      BY <2>1, <2>2, <3>1 DEF Ack, LetsGo
  <2>3. CASE UNCHANGED groupVars
    BY <1>6, <2>3, SameReason DEF AckReturns, AckThrows, groupVars, Explains
  <2> QED
    BY <1>6, <2>2, <2>3 DEF AckReturns, AckThrows
<1>7. CASE ClaimScan
  BY <1>7, SameReason DEF ClaimScan, groupVars, Explains
<1>8. ASSUME NEW m \in Messages, ClaimEntry(m) PROVE LetsGo \/ Explains
  <2>1. Reason' = Reason /\ UNCHANGED delivered
    BY <1>8, SameReason DEF ClaimEntry
  <2>2. CASE m \in idle /\ m <= trimmed
    <3>1. m \in Reason
      BY <2>2 DEF Reason, Messages
    <3> QED
      BY <1>8, <2>1, <2>2, <3>1 DEF ClaimEntry, LetsGo
  <2>3. CASE ~(m \in idle /\ m <= trimmed)
    BY <1>8, <2>1, <2>3 DEF ClaimEntry, Explains
  <2> QED
    BY <2>2, <2>3
<1>9. ASSUME NEW m \in Messages, ReadExpired(m) PROVE Explains
  BY <1>9, SameReason DEF ReadExpired, groupVars, Explains
<1>10. ASSUME NEW m \in Messages, DeadLetter(m) PROVE Explains
  BY <1>10 DEF DeadLetter, groupVars, Explains, Reason, DeadLettered
<1>11. ASSUME NEW m \in Messages, AckExpired(m) PROVE LetsGo
  <2>1. Reason' = Reason
    BY <1>11, SameReason DEF AckExpired, Ack
  <2>2. m \in Reason
    BY <1>11 DEF AckExpired, Recorded, Reason
  <2> QED
    BY <1>11, <2>1, <2>2 DEF AckExpired, Ack, LetsGo
<1>12. CASE ClaimThrows
  BY <1>12, SameReason DEF ClaimThrows, groupVars, Explains
<1>13. CASE Restart
  BY <1>13, SameReason DEF Restart, groupVars, Explains
<1>14. CASE UNCHANGED vars
  BY <1>14, SameReason DEF vars, groupVars, Explains
<1> QED
  BY <1>1, <1>2, <1>3, <1>4, <1>5, <1>6, <1>7, <1>8, <1>9, <1>10, <1>11, <1>12, <1>13, <1>14,
     NextCases

\* Reasons are reasons to let go a message of the stream.
LEMMA ReasonTyped == Typed => Reason \subseteq Messages
<1> SUFFICES ASSUME Typed PROVE Reason \subseteq Messages
  OBVIOUS
<1>1. DeadLettered \subseteq Messages
  BY DEF Typed, TypeOK, DeadLettered, DeadLetterRow
<1>2. 1..trimmed \subseteq Messages
  BY ConsumerAssumption DEF Typed, TypeOK, Messages
<1> QED
  BY <1>1, <1>2 DEF Typed, TypeOK, Reason

\* What xReadGroup skips, the stream has trimmed.
LEMMA HandOutSkipsTrimmed ==
    ASSUME Typed, HandOut
    PROVE  /\ pel' = pel \cup (NextNew..delivered')
           /\ NextNew \in Nat /\ delivered' \in Nat /\ delivered \in Nat
           /\ delivered < NextNew /\ NextNew <= delivered' /\ delivered' <= NumMessages
           /\ (delivered + 1)..(NextNew - 1) \subseteq 1..trimmed
<1>1. pel' = pel \cup (NextNew..delivered')
  BY DEF HandOut
<1>2. /\ NextNew \in Nat /\ delivered' \in Nat /\ delivered \in Nat
      /\ delivered < NextNew /\ NextNew <= delivered' /\ delivered' <= NumMessages
  BY HandOutTyped, ConsumerAssumption DEF Typed, TypeOK
<1>3. (delivered + 1)..(NextNew - 1) \subseteq 1..trimmed
  BY <1>2, ConsumerAssumption DEF NextNew, Typed, TypeOK
<1> QED
  BY <1>1, <1>2, <1>3

\* No message is acknowledged away silently: whatever crashes, lost replies
\* and failing calls do, a message the group has moved past is pending, or
\* was handled, or went to the dead-letter table (or its INSERT failed), or
\* was trimmed.
THEOREM NothingSilentlyLost == Spec => []NoSilentLoss
<1>1. Init => NoSilentLoss
  BY DEF Init, NoSilentLoss
<1>2. IInv /\ NoSilentLoss /\ [Next]_vars => NoSilentLoss'
  <2> SUFFICES ASSUME IInv, NoSilentLoss, [Next]_vars PROVE NoSilentLoss'
    OBVIOUS
  <2>1. CASE HandsOut
    <3>1. Typed /\ HandOut /\ Reason' = Reason
      BY <2>1 DEF IInv, HandsOut
    <3>2. 1..trimmed \subseteq Reason
      BY DEF Reason
    <3>3. ASSUME NEW m \in 1..delivered' PROVE m \in pel' \cup Reason
      <4>1. CASE m <= delivered
        BY <3>1, <4>1, HandOutSkipsTrimmed DEF NoSilentLoss
      <4>2. CASE m > delivered /\ m < NextNew
        BY <3>1, <3>2, <4>2, HandOutSkipsTrimmed
      <4>3. CASE m >= NextNew
        BY <3>1, <4>3, HandOutSkipsTrimmed
      <4> QED
        BY <3>1, <4>1, <4>2, <4>3, HandOutSkipsTrimmed
    <3> QED
      BY <3>1, <3>3 DEF NoSilentLoss
  <2>2. CASE LetsGo
    BY <2>2 DEF LetsGo, NoSilentLoss
  <2>3. CASE Explains
    BY <2>3 DEF Explains, NoSilentLoss
  <2> QED
    BY <2>1, <2>2, <2>3, StepShape
<1> QED
  BY <1>1, <1>2, TypedInit, TypedStep, RecordedInit, RecordedStep, PTL DEF Spec, IInv

\* The consumer group implements the abstract promise of MessageDelivery:
\* at most one hand-out per message, and no release without a reason.
THEOREM ImplementsDelivery == Spec => Delivery!Safety
<1>1. Init => Delivery!Init
  BY DEF Init, Delivery!Init, Reason, DeadLettered
<1>2. IInv /\ [Next]_vars => [Delivery!Next]_Delivery!vars
  <2> SUFFICES ASSUME IInv, [Next]_vars PROVE Delivery!Next \/ UNCHANGED Delivery!vars
    OBVIOUS
  <2>1. Reason \subseteq Messages /\ Reason' \subseteq Messages
    <3>1. Typed /\ Typed'
      BY TypedStep DEF IInv
    <3>2. DeadLettered' \subseteq Messages
      BY <3>1 DEF Typed, TypeOK, DeadLettered, DeadLetterRow
    <3>3. 1..trimmed' \subseteq Messages
      BY <3>1, ConsumerAssumption DEF Typed, TypeOK, Messages
    <3>4. Reason' \subseteq Messages
      BY <3>1, <3>2, <3>3 DEF Typed, TypeOK, Reason
    <3> QED
      BY <3>1, <3>4, ReasonTyped
  <2>2. CASE HandsOut
    <3> DEFINE S == (delivered + 1)..delivered'
               D == NextNew..delivered'
    <3>1. Typed /\ HandOut /\ Reason' = Reason
      BY <2>2 DEF IInv, HandsOut
    <3>2. S \in SUBSET Messages /\ D \in SUBSET S
      BY <3>1, HandOutSkipsTrimmed, ConsumerAssumption DEF Messages
    <3>3. S \ D \subseteq Reason
      BY <3>1, HandOutSkipsTrimmed DEF Reason
    <3>4. S \cap (1..delivered) = {} /\ 1..delivered' = (1..delivered) \cup S
      BY <3>1, HandOutSkipsTrimmed
    <3>5. Delivery!Deliver(S, D)
      BY <3>1, <3>2, <3>3, <3>4, HandOutSkipsTrimmed DEF Delivery!Deliver
    <3> QED
      BY <3>2, <3>5 DEF Delivery!Next
  <2>3. CASE LetsGo
    <3>1. PICK m \in Messages \cap Reason :
             pel' = pel \ {m} /\ UNCHANGED delivered /\ Reason' = Reason
      BY <2>3 DEF LetsGo
    <3>2. CASE m \in pel
      <4>1. Delivery!Settle(m)
        BY <3>1, <3>2 DEF Delivery!Settle
      <4> QED
        BY <4>1 DEF Delivery!Next
    <3>3. CASE m \notin pel
      BY <3>1, <3>3 DEF Delivery!vars
    <3> QED
      BY <3>2, <3>3
  <2>4. CASE Explains
    <3>1. Delivery!Justify(Reason')
      BY <2>4 DEF Explains, Delivery!Justify
    <3> QED
      BY <2>1, <3>1 DEF Delivery!Next
  <2> QED
    BY <2>2, <2>3, <2>4, StepShape
<1> QED
  BY <1>1, <1>2, TypedInit, TypedStep, RecordedInit, RecordedStep, PTL
  DEF Spec, IInv, Delivery!Safety
=============================================================================

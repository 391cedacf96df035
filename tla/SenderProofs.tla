---------------------------- MODULE SenderProofs ----------------------------
(***************************************************************************)
(* Proofs about Sender.  The inductive invariant ties what the holder of   *)
(* deliveryMu knows (the answer it holds, the entry it works on, whether   *)
(* that entry is durable) to the server and to the backlog: an answer that *)
(* confirms is about a batch the server has, an answer that refuses is     *)
(* about a batch the server refused, and the entry a flush is posting is   *)
(* still queued.                                                           *)
(***************************************************************************)
EXTENDS Sender, FiniteSetTheorems, TLAPS

Posting == {"post", "backoff", "answered"}

\* Who holds the mutex, and on which batch it works.
Held ==
  /\ op = "none" => pc = "idle"
  /\ op = "deliver" => pc \in Posting
  /\ op = "flush" => pc \in Posting \cup {"next"}
  /\ pc \in Posting => cur \in Batches

\* What an answer in hand tells of the server.
Told ==
  /\ pc = "backoff" => isRetryable(answer) /\ attempt < Retries
  /\ pc = "answered" => /\ Confirms(answer) => cur \in stored
                        /\ Refusal(answer) => cur \in refused

\* What the holder may rely on in the backlog while it posts.
Entry ==
  /\ op = "deliver" =>
       /\ reported[cur] = "nothing"
       /\ durable => status[cur] = "queued"
       /\ status[cur] \in {"absent", "queued"} \cup Queue!Retention
  /\ op = "flush" =>
       /\ \A b \in todo : status[b] = "queued"
       /\ pc \in Posting => status[cur] = "queued" /\ cur \notin todo

SInv == TypeOK /\ Held /\ Told /\ Entry /\ DeliveredMeansStored /\ ReportedQueuedIsKept

-----------------------------------------------------------------------------

\* The counter stays a number.
LEMMA CounterType ==
  ASSUME NEW n \in Nat, NEW D \in SUBSET Batches
  PROVE  Cardinality(D) \in Nat /\ CountOff(n, D) \in Nat
<1>1. IsFiniteSet(D)
  BY BatchesAssumption, FS_Subset
<1>2. Cardinality(D) \in Nat
  BY <1>1, FS_CardinalityType
<1> QED BY <1>2 DEF CountOff

\* An enqueue stores the entry or changes nothing, and a durable copy is one in
\* the backlog.
LEMMA EnqueueStores ==
  ASSUME NEW b \in Batches, status[b] = "absent", TypeOK, Enqueue(b)
  PROVE  /\ Queue!Store(b) \/ status' = status
         /\ durable' \in BOOLEAN /\ (durable' => status'[b] = "queued")
         /\ pending' \in Nat /\ slipped' \subseteq Batches
<1>1. CASE Queue!Store(b)
  <2>1. Leaving \cup {c \in {b} : status'[c] # "queued"} \in SUBSET Batches
    BY DEF Leaving, Queued
  <2>2. pending + 1 \in Nat /\ pending \in Nat
    BY DEF TypeOK
  <2>3. CountOff(pending + 1, Leaving \cup {c \in {b} : status'[c] # "queued"}) \in Nat
    BY <2>1, <2>2, CounterType
  <2>4. pending' \in Nat
    BY <2>2, <2>3 DEF Enqueue
  <2> QED BY <1>1, <2>4 DEF Enqueue, TypeOK
<1>2. CASE status' = status /\ durable' = FALSE /\ pending' = pending /\ slipped' = slipped
  BY <1>2 DEF TypeOK
<1>3. CASE /\ status' = [status EXCEPT ![b] = "queued"] /\ slipped' = slipped \cup {b}
           /\ durable' = FALSE /\ pending' = pending
  <2>1. Queue!Store(b)
    BY <1>3 DEF TypeOK, Queue!Store, Queue!TrimmedOrKept, Queue!Statuses
  <2> QED BY <1>3, <2>1 DEF TypeOK
<1> QED BY <1>1, <1>2, <1>3 DEF Enqueue

LEMMA SInvInit == Init => SInv
<1> SUFFICES ASSUME Init PROVE SInv
  OBVIOUS
<1>1. TypeOK
  <2>1. durable \in BOOLEAN
    BY Zenon DEF Init, Idle
  <2> QED
    BY <2>1, BatchesAssumption, BoundsAssumption
     DEF Init, Idle, TypeOK, Queue!QInit, Queue!Statuses, Results, AllAnswers, NoBatch
<1>2. Held /\ Told /\ Entry
  BY DEF Init, Idle, Held, Told, Entry, Posting
<1>3. DeliveredMeansStored /\ ReportedQueuedIsKept
  BY DEF Init, Queue!QInit, DeliveredMeansStored, ReportedQueuedIsKept
<1> QED BY <1>1, <1>2, <1>3 DEF SInv

LEMMA TypeNext == SInv /\ [Next]_vars => TypeOK'
<1> SUFFICES ASSUME SInv, [Next]_vars PROVE TypeOK'
  OBVIOUS
<1>t. TypeOK /\ Held /\ Told
  BY DEF SInv
<1>r. /\ {"confirmed", "cancelled"} \subseteq Results /\ Answers \subseteq Results
      /\ {"queued", "delivered", "permanent", "expired", "corrupt"} \subseteq Queue!Statuses
      /\ Retries \in Nat /\ MaxCrashes \in Nat /\ NoBatch \notin Batches
  BY AnswersAssumption, BoundsAssumption, BatchesAssumption
     DEF Results, AllAnswers, Queue!Statuses, Queue!Reasons, NoBatch
<1> USE <1>r DEF TypeOK
<1>i. ASSUME Release
      PROVE  /\ op' = "none" /\ pc' = "idle" /\ cur' \in Batches \cup {NoBatch}
             /\ attempt' \in 0 .. Retries /\ answer' \in Results
             /\ durable' \in BOOLEAN /\ todo' \subseteq Batches
  <2>1. durable' \in BOOLEAN
    BY <1>i, Zenon DEF Release
  <2> QED BY <1>i, <2>1 DEF Release
<1>c. CountOff(pending, Leaving) \in Nat /\ Cardinality(Queued \ Leaving) \in Nat
  <2>1. Leaving \in SUBSET Batches /\ Queued \ Leaving \in SUBSET Batches
    BY DEF Leaving, Queued
  <2> QED BY <1>t, <2>1, CounterType
<1>1. ASSUME NEW b \in Batches, BeginDeliver(b) PROVE TypeOK'
  <2>1. /\ Queue!Store(b) \/ status' = status
        /\ durable' \in BOOLEAN /\ pending' \in Nat /\ slipped' \subseteq Batches
    BY <1>1, <1>t, EnqueueStores DEF BeginDeliver
  <2>2. status' \in [Batches -> Queue!Statuses]
    BY <1>t, <2>1 DEF Queue!Store
  <2> QED BY <1>1, <1>t, <2>1, <2>2 DEF BeginDeliver, StartPost
<1>2. CASE PostOnce
  BY <1>2, <1>t DEF PostOnce, Held, Posting
<1>3. CASE Backoff
  BY <1>3, <1>t DEF Backoff, Told
<1>4. CASE Cancel
  BY <1>4, <1>t DEF Cancel, Interrupted
<1>5. CASE EndDeliver
  <2>1. cur \in Batches
    BY <1>5, <1>t DEF EndDeliver, Held, Posting
  <2>2. /\ status' \in [Batches -> Queue!Statuses]
        /\ reported' \in [Batches -> {"nothing", "delivered", "queued", "error"}]
    BY <1>5, <1>t, <2>1 DEF EndDeliver, SettleOrFail, Queue!Settle, Report
  <2>3. pending' \in Nat
    BY <1>5, <1>t, <1>c DEF EndDeliver, SettleOrFail
  <2> QED BY <1>5, <1>i, <1>t, <2>2, <2>3 DEF EndDeliver
<1>6. CASE BeginFlush
  BY <1>6, <1>t DEF BeginFlush, Queued
<1>7. CASE FlushNext
  <2>1. PICK b \in todo :
          /\ todo' = todo \ {b}
          /\ \/ StartPost(b) /\ UNCHANGED status
             \/ /\ \E r \in {"expired", "corrupt"} : Queue!Settle(b, r)
                /\ UNCHANGED <<pc, cur, attempt, answer>>
    BY <1>7 DEF FlushNext
  <2>2. status' \in [Batches -> Queue!Statuses]
    BY <1>t, <2>1 DEF Queue!Settle
  <2> QED BY <1>7, <1>t, <1>c, <2>1, <2>2 DEF FlushNext, StartPost
<1>8. CASE FlushSettle
  <2>1. cur \in Batches
    BY <1>8, <1>t DEF FlushSettle, Held, Posting
  <2>2. status' \in [Batches -> Queue!Statuses]
    BY <1>8, <1>t, <2>1 DEF FlushSettle, SettleOrFail, Queue!Settle
  <2>3. pending' \in Nat
    BY <1>8, <1>t, <1>c DEF FlushSettle, SettleOrFail
  <2> QED BY <1>8, <1>i, <1>t, <2>2, <2>3 DEF FlushSettle
<1>9. CASE EndFlush
  BY <1>9, <1>i, <1>t DEF EndFlush
<1>10. CASE Crash
  BY <1>10, <1>i, <1>t, <1>c DEF Crash, Queue!Trim
<1>11. CASE UNCHANGED vars
  BY <1>11, <1>t DEF vars
<1> QED
  BY <1>1, <1>2, <1>3, <1>4, <1>5, <1>6, <1>7, <1>8, <1>9, <1>10, <1>11 DEF Next

LEMMA HolderNext == SInv /\ [Next]_vars => (Held /\ Told /\ Entry)'
<1> SUFFICES ASSUME SInv, [Next]_vars PROVE (Held /\ Told /\ Entry)'
  OBVIOUS
<1>t. TypeOK /\ Held /\ Told /\ Entry
  BY DEF SInv
<1>n. NoBatch \notin Batches
  BY BatchesAssumption DEF NoBatch
<1>i. ASSUME Release PROVE (Held /\ Told /\ Entry)'
  BY <1>i DEF Release, Held, Told, Entry, Posting
<1>1. ASSUME NEW b \in Batches, BeginDeliver(b) PROVE (Held /\ Told /\ Entry)'
  <2>1. /\ op' = "deliver" /\ pc' = "post" /\ cur' = b
        /\ reported' = reported /\ reported[b] = "nothing"
    BY <1>1 DEF BeginDeliver, StartPost
  <2>2. /\ durable' => status'[b] = "queued"
        /\ status'[b] \in {"absent", "queued"} \cup Queue!Retention
    BY <1>1, <1>t, EnqueueStores DEF BeginDeliver, Queue!Store
  <2> QED BY <2>1, <2>2 DEF Held, Told, Entry, Posting
<1>2. CASE PostOnce
  <2>1. PICK a \in Answers :
          /\ answer' = a
          /\ \/ a \in Stores /\ stored' = stored \cup {cur}
             \/ a # "confirmed" /\ stored' = stored
          /\ refused' = IF Refusal(a) THEN refused \cup {cur} ELSE refused
          /\ pc' = IF TriesAgain(a) THEN "backoff" ELSE "answered"
    BY <1>2 DEF PostOnce
  <2>2. UNCHANGED <<status, op, cur, attempt, durable, todo, reported>> /\ pc = "post"
    BY <1>2 DEF PostOnce
  <2>3. Held' /\ Entry'
    BY <1>t, <2>1, <2>2 DEF Held, Entry, Posting
  <2>4. Told'
    BY <2>1, <2>2 DEF Told, TriesAgain, Confirms
  <2> QED BY <2>3, <2>4
<1>3. CASE Backoff
  BY <1>3, <1>t DEF Backoff, Held, Told, Entry, Posting
<1>4. CASE Cancel
  <2>1. ~Confirms(answer') /\ ~Refusal(answer')
    BY <1>4, <1>t
       DEF Cancel, Interrupted, Told, isRetryable, Confirms, Refusal, isSpoolable, AllAnswers
  <2> QED BY <1>4, <1>t, <2>1 DEF Cancel, Held, Told, Entry, Posting
<1>5. CASE EndDeliver
  BY <1>5, <1>i DEF EndDeliver
<1>6. CASE BeginFlush
  BY <1>6, <1>t DEF BeginFlush, Held, Told, Entry, Posting, Queued
<1>7. CASE FlushNext
  <2>1. PICK b \in todo :
          /\ todo' = todo \ {b}
          /\ \/ StartPost(b) /\ UNCHANGED status
             \/ /\ \E r \in {"expired", "corrupt"} : Queue!Settle(b, r)
                /\ UNCHANGED <<pc, cur, attempt, answer>>
    BY <1>7 DEF FlushNext
  <2>2. op = "flush" /\ op' = op /\ pc = "next"
    BY <1>7 DEF FlushNext
  <2>3. CASE StartPost(b) /\ UNCHANGED status
    BY <1>t, <2>1, <2>2, <2>3 DEF StartPost, Held, Told, Entry, Posting, TypeOK
  <2>4. CASE (\E r \in {"expired", "corrupt"} : Queue!Settle(b, r)) /\ pc' = pc
    <3>1. \A c \in todo' : status'[c] = "queued"
      BY <1>t, <2>1, <2>2, <2>4 DEF Queue!Settle, Entry, TypeOK
    <3> QED BY <2>2, <2>4, <3>1 DEF Held, Told, Entry, Posting
  <2> QED BY <2>1, <2>3, <2>4
<1>8. CASE FlushSettle
  <2>1. CASE Release
    BY <1>i, <2>1
  <2>2. ASSUME NEW r, SettleOrFail(cur, r), pc' = "next", UNCHANGED <<op, todo>>
        PROVE  (Held /\ Told /\ Entry)'
    <3>1. op = "flush" /\ cur \in Batches /\ cur \notin todo
      BY <1>8, <1>t DEF FlushSettle, Entry, Held, Posting
    <3>2. \A c \in todo : status'[c] = "queued"
      BY <1>t, <2>2, <3>1 DEF SettleOrFail, Queue!Settle, Entry, TypeOK
    <3> QED BY <2>2, <3>1, <3>2 DEF Held, Told, Entry, Posting
  <2> QED BY <1>8, <2>1, <2>2 DEF FlushSettle
<1>9. CASE EndFlush
  BY <1>9, <1>i DEF EndFlush
<1>10. CASE Crash
  BY <1>10, <1>i DEF Crash
<1>11. CASE UNCHANGED vars
  BY <1>11, <1>t DEF vars, Held, Told, Entry
<1> QED
  BY <1>1, <1>2, <1>3, <1>4, <1>5, <1>6, <1>7, <1>8, <1>9, <1>10, <1>11 DEF Next


LEMMA DeliveredNext == SInv /\ [Next]_vars => DeliveredMeansStored'
<1> SUFFICES ASSUME SInv, [Next]_vars PROVE DeliveredMeansStored'
  OBVIOUS
<1>t. TypeOK /\ Held /\ Told /\ Entry /\ DeliveredMeansStored
  BY DEF SInv
\* Steps that deliver nothing, while the server forgets nothing.
<1>u. ASSUME stored \subseteq stored', reported' = reported,
             \A b \in Batches : status'[b] = "delivered" => status[b] = "delivered"
      PROVE  DeliveredMeansStored'
  BY <1>t, <1>u DEF DeliveredMeansStored
<1>1. ASSUME NEW b \in Batches, BeginDeliver(b) PROVE DeliveredMeansStored'
  <2>1. \A c \in Batches : status'[c] = "delivered" => status[c] = "delivered"
    BY <1>1, <1>t, EnqueueStores
       DEF BeginDeliver, Queue!Store, Queue!TrimmedOrKept, Queue!Retention
  <2> QED BY <1>1, <1>u, <2>1 DEF BeginDeliver
<1>2. CASE PostOnce \/ Backoff \/ Cancel \/ BeginFlush \/ EndFlush \/ Crash
  BY <1>2, <1>u
     DEF PostOnce, Backoff, Cancel, BeginFlush, EndFlush, Crash,
         Queue!Trim, Queue!TrimmedOrKept, Queue!Retention
<1>3. CASE EndDeliver
  <2>1. cur \in Batches /\ (Confirms(answer) => cur \in stored) /\ stored' = stored
    BY <1>3, <1>t DEF EndDeliver, Held, Told, Posting
  <2>2. /\ \A b \in Batches \ {cur} : status'[b] = status[b] /\ reported'[b] = reported[b]
        /\ status'[cur] = "delivered" => status[cur] = "delivered" \/ Confirms(answer)
        /\ reported'[cur] = "delivered" => Confirms(answer)
    <3>1. CASE durable /\ Confirms(answer)
      BY <1>3, <1>t, <2>1, <3>1 DEF EndDeliver, SettleOrFail, Queue!Settle, Report, TypeOK
    <3>2. CASE durable /\ ~Confirms(answer) /\ isSpoolable(answer)
      BY <1>3, <1>t, <2>1, <3>2 DEF EndDeliver, Report, TypeOK
    <3>3. CASE durable /\ ~Confirms(answer) /\ ~isSpoolable(answer)
      BY <1>3, <1>t, <2>1, <3>3 DEF EndDeliver, SettleOrFail, Queue!Settle, Report, TypeOK
    <3>4. CASE ~durable
      BY <1>3, <1>t, <2>1, <3>4 DEF EndDeliver, Report, TypeOK
    <3> QED BY <3>1, <3>2, <3>3, <3>4
  <2> QED BY <1>t, <2>1, <2>2 DEF DeliveredMeansStored
<1>4. CASE FlushNext
  <2>1. \A b \in Batches : status'[b] = "delivered" => status[b] = "delivered"
    BY <1>4, <1>t DEF FlushNext, Queue!Settle, TypeOK
  <2> QED BY <1>4, <1>u, <2>1 DEF FlushNext
<1>5. CASE FlushSettle
  <2>1. /\ cur \in Batches /\ (Confirms(answer) => cur \in stored)
        /\ stored' = stored /\ reported' = reported
    BY <1>5, <1>t DEF FlushSettle, Held, Told, Posting
  <2>2. /\ \A b \in Batches \ {cur} : status'[b] = status[b]
        /\ status'[cur] = "delivered" => status[cur] = "delivered" \/ Confirms(answer)
    BY <1>5, <1>t, <2>1 DEF FlushSettle, SettleOrFail, Queue!Settle, TypeOK
  <2> QED BY <1>t, <2>1, <2>2 DEF DeliveredMeansStored
<1>6. CASE UNCHANGED vars
  BY <1>6, <1>u DEF vars
<1> QED BY <1>1, <1>2, <1>3, <1>4, <1>5, <1>6 DEF Next

LEMMA QueuedNext == SInv /\ [Next]_vars => ReportedQueuedIsKept'
<1> SUFFICES ASSUME SInv, [Next]_vars PROVE ReportedQueuedIsKept'
  OBVIOUS
<1>t. TypeOK /\ Held /\ Told /\ Entry /\ ReportedQueuedIsKept
  BY DEF SInv
\* Steps after which an entry is where it was or has been dropped unsent.
<1>u. ASSUME stored \subseteq stored', refused \subseteq refused', reported' = reported,
             \A b \in Batches : \/ status'[b] = status[b]
                                \/ status'[b] \in {"queued", "expired", "capacity", "corrupt"}
      PROVE  ReportedQueuedIsKept'
  BY <1>t, <1>u DEF ReportedQueuedIsKept
<1>1. ASSUME NEW b \in Batches, BeginDeliver(b) PROVE ReportedQueuedIsKept'
  <2>1. \A c \in Batches : \/ status'[c] = status[c]
                           \/ status'[c] \in {"queued", "expired", "capacity", "corrupt"}
    BY <1>1, <1>t, EnqueueStores
       DEF BeginDeliver, Queue!Store, Queue!TrimmedOrKept, Queue!Retention
  <2> QED BY <1>1, <1>u, <2>1 DEF BeginDeliver
<1>2. CASE PostOnce \/ Backoff \/ Cancel \/ BeginFlush \/ EndFlush
  BY <1>2, <1>u DEF PostOnce, Backoff, Cancel, BeginFlush, EndFlush
<1>3. CASE EndDeliver
  <2>1. cur \in Batches /\ UNCHANGED <<stored, refused>> /\ (durable => status[cur] = "queued")
    BY <1>3, <1>t DEF EndDeliver, Held, Entry, Posting
  <2>2. /\ \A b \in Batches \ {cur} : status'[b] = status[b] /\ reported'[b] = reported[b]
        /\ reported'[cur] = "queued" => status'[cur] = "queued"
    <3>1. CASE durable /\ Confirms(answer)
      BY <1>3, <1>t, <2>1, <3>1 DEF EndDeliver, SettleOrFail, Queue!Settle, Report, TypeOK
    <3>2. CASE durable /\ ~Confirms(answer) /\ isSpoolable(answer)
      BY <1>3, <1>t, <2>1, <3>2 DEF EndDeliver, Report, TypeOK
    <3>3. CASE durable /\ ~Confirms(answer) /\ ~isSpoolable(answer)
      BY <1>3, <1>t, <2>1, <3>3 DEF EndDeliver, SettleOrFail, Queue!Settle, Report, TypeOK
    <3>4. CASE ~durable
      BY <1>3, <1>t, <2>1, <3>4 DEF EndDeliver, Report, TypeOK
    <3> QED BY <3>1, <3>2, <3>3, <3>4
  <2> QED BY <1>t, <2>1, <2>2 DEF ReportedQueuedIsKept
<1>4. CASE FlushNext
  <2>1. \A b \in Batches : \/ status'[b] = status[b]
                           \/ status'[b] \in {"queued", "expired", "capacity", "corrupt"}
    BY <1>4, <1>t DEF FlushNext, Queue!Settle, TypeOK
  <2> QED BY <1>4, <1>u, <2>1 DEF FlushNext
<1>5. CASE FlushSettle
  <2>1. /\ cur \in Batches /\ (Confirms(answer) => cur \in stored)
        /\ UNCHANGED <<stored, refused, reported>>
    BY <1>5, <1>t DEF FlushSettle, Held, Told, Posting
  <2>2. isPermanent(answer) => cur \in refused
    BY <1>5, <1>t
       DEF FlushSettle, Told, isPermanent, Refusal, isSpoolable, AllAnswers
  <2>3. /\ \A b \in Batches \ {cur} : status'[b] = status[b]
        /\ \/ status'[cur] = status[cur]
           \/ status'[cur] = "delivered" /\ Confirms(answer)
           \/ status'[cur] = "permanent" /\ isPermanent(answer)
    BY <1>5, <1>t, <2>1 DEF FlushSettle, SettleOrFail, Queue!Settle, TypeOK
  <2> QED BY <1>t, <2>1, <2>2, <2>3 DEF ReportedQueuedIsKept
\* A refusal that dies with the process is about an entry still queued, or
\* about a batch whose caller has been told nothing yet.
<1>6. CASE Crash
  <2>1. /\ UNCHANGED <<reported, stored>> /\ refused \ {cur} \subseteq refused'
        /\ \A b \in Batches : \/ status'[b] = status[b]
                              \/ status'[b] \in {"expired", "capacity"}
    BY <1>6 DEF Crash, Queue!Trim, Queue!TrimmedOrKept, Queue!Retention
  <2>2. CASE pc = "answered"
    <3>1. op \in {"deliver", "flush"} /\ cur \in Batches
      BY <1>t, <2>2 DEF Held, TypeOK, Posting
    <3>2. reported[cur] = "nothing" \/ status[cur] = "queued"
      BY <1>t, <2>2, <3>1 DEF Entry, Posting
    <3> QED BY <1>t, <2>1, <3>1, <3>2 DEF ReportedQueuedIsKept
  <2>3. CASE pc # "answered"
    BY <1>6, <1>u, <2>1, <2>3 DEF Crash
  <2> QED BY <2>2, <2>3
<1>7. CASE UNCHANGED vars
  BY <1>7, <1>u DEF vars
<1> QED BY <1>1, <1>2, <1>3, <1>4, <1>5, <1>6, <1>7 DEF Next

LEMMA SInvAlways == Spec => []SInv
<1>1. SInv /\ [Next]_vars => SInv'
  BY TypeNext, HolderNext, DeliveredNext, QueuedNext DEF SInv
<1> QED BY <1>1, SInvInit, PTL DEF Spec

\* The state of the posting loop and of the backlog stays well formed.
THEOREM SenderTypeCorrect == Spec => []TypeOK
BY SInvAlways, PTL DEF SInv

\* Lost answers, unconfirmed 2xx, cancelled contexts, removals that fail and
\* crashes never pass for an acceptance: what left the backlog as delivered, and
\* what a caller was told is delivered, the server holds.
THEOREM DeliveredIsStored == Spec => []DeliveredMeansStored
BY SInvAlways, PTL DEF SInv

\* A batch whose caller was told "queued" is still in the backlog, has reached
\* the server, or left it for age, capacity, damage or a refusal the agent saw.
THEOREM QueuedIsKept == Spec => []ReportedQueuedIsKept
BY SInvAlways, PTL DEF SInv

-----------------------------------------------------------------------------
(* The sender uses the backlog only in the ways DurableQueue allows. *)

\* Whatever storing and removing does, and wherever the agent dies, an entry the
\* sender has settled stays settled and one it has not stays queued.
THEOREM SenderKeepsToTheQueue == Spec => Queue!QSpec
<1>1. Init => Queue!QInit
  BY DEF Init
<1>2. SInv /\ [Next]_vars => [Queue!QNext]_status
  <2> SUFFICES ASSUME SInv, [Next]_vars PROVE Queue!QNext \/ UNCHANGED status
    OBVIOUS
  <2>t. TypeOK /\ Held
    BY DEF SInv
  <2>1. ASSUME NEW b \in Batches, BeginDeliver(b) PROVE Queue!QNext \/ UNCHANGED status
    BY <2>1, <2>t, EnqueueStores DEF BeginDeliver, Queue!QNext
  <2>2. CASE PostOnce \/ Backoff \/ Cancel \/ BeginFlush \/ EndFlush \/ Crash
    BY <2>2 DEF PostOnce, Backoff, Cancel, BeginFlush, EndFlush, Crash, Queue!QNext
  <2>3. CASE EndDeliver
    <3>1. UNCHANGED status \/ \E r \in {"delivered", "permanent"} : Queue!Settle(cur, r)
      <4>1. CASE durable /\ Confirms(answer)
        BY <2>3, <4>1 DEF EndDeliver, SettleOrFail
      <4>2. CASE durable /\ ~Confirms(answer) /\ isSpoolable(answer)
        BY <2>3, <4>2 DEF EndDeliver
      <4>3. CASE durable /\ ~Confirms(answer) /\ ~isSpoolable(answer)
        BY <2>3, <4>3 DEF EndDeliver, SettleOrFail
      <4>4. CASE ~durable
        BY <2>3, <4>4 DEF EndDeliver
      <4> QED BY <4>1, <4>2, <4>3, <4>4
    <3>2. cur \in Batches
      BY <2>3, <2>t DEF EndDeliver, Held, Posting
    <3> QED BY <3>1, <3>2 DEF Queue!QNext, Queue!Reasons
  <2>4. CASE FlushNext
    BY <2>4, <2>t DEF FlushNext, Queue!QNext, Queue!Reasons, TypeOK
  <2>5. CASE FlushSettle
    <3>1. cur \in Batches
      BY <2>5, <2>t DEF FlushSettle, Held, Posting
    <3> QED BY <2>5, <3>1 DEF FlushSettle, SettleOrFail, Queue!QNext, Queue!Reasons
  <2>6. CASE UNCHANGED vars
    BY <2>6 DEF vars
  <2> QED BY <2>1, <2>2, <2>3, <2>4, <2>5, <2>6 DEF Next
<1> QED BY <1>1, <1>2, SInvAlways, PTL DEF Spec, Queue!QSpec


-----------------------------------------------------------------------------
(* Where the two promises that the code breaks do hold.                      *)

\* Without a cancelled context the loop ends with an answer of the server.
Uncut == answer # "cancelled"

LEMMA UncutNext ==
  ASSUME CanCancel = FALSE
  PROVE  Uncut /\ [Next]_vars => Uncut'
<1> SUFFICES ASSUME Uncut, [Next]_vars PROVE Uncut'
  OBVIOUS
<1>1. "cancelled" \notin Answers
  BY AnswersAssumption DEF AllAnswers
<1>2. CASE \E b \in Batches : BeginDeliver(b)
  BY <1>2 DEF BeginDeliver, StartPost, Uncut
<1>3. CASE PostOnce
  BY <1>1, <1>3 DEF PostOnce, Uncut
<1>4. CASE FlushNext
  BY <1>4 DEF FlushNext, StartPost, Uncut
<1>5. CASE FlushSettle
  BY <1>5 DEF FlushSettle, Release, Uncut
<1>6. CASE Cancel
  BY <1>6 DEF Cancel
<1>7. CASE Backoff \/ BeginFlush \/ EndDeliver \/ EndFlush \/ Crash
  BY <1>7 DEF Backoff, BeginFlush, EndDeliver, EndFlush, Crash, Release, Uncut
<1>8. CASE UNCHANGED vars
  BY <1>8 DEF vars, Uncut
<1> QED BY <1>2, <1>3, <1>4, <1>5, <1>6, <1>7, <1>8 DEF Next

LEMMA RetainedNext ==
  SInv /\ Uncut /\ RetainedUntilConfirmed /\ [Next]_vars => RetainedUntilConfirmed'
<1> SUFFICES ASSUME SInv, Uncut, RetainedUntilConfirmed, [Next]_vars
             PROVE  RetainedUntilConfirmed'
  OBVIOUS
<1>t. TypeOK /\ Held /\ Told /\ Entry
  BY DEF SInv
<1>u. ASSUME refused \subseteq refused',
             \A b \in Batches : status'[b] = "permanent" => status[b] = "permanent"
      PROVE  RetainedUntilConfirmed'
  BY <1>u DEF RetainedUntilConfirmed
<1>1. ASSUME NEW b \in Batches, BeginDeliver(b) PROVE RetainedUntilConfirmed'
  <2>1. \A c \in Batches : status'[c] = "permanent" => status[c] = "permanent"
    BY <1>1, <1>t, EnqueueStores
       DEF BeginDeliver, Queue!Store, Queue!TrimmedOrKept, Queue!Retention
  <2> QED BY <1>1, <1>u, <2>1 DEF BeginDeliver
<1>2. CASE PostOnce \/ Backoff \/ Cancel \/ BeginFlush \/ EndFlush
  BY <1>2, <1>u DEF PostOnce, Backoff, Cancel, BeginFlush, EndFlush
<1>3. CASE EndDeliver
  <2>1. cur \in Batches /\ refused' = refused /\ (Refusal(answer) => cur \in refused)
    BY <1>3, <1>t DEF EndDeliver, Held, Told, Posting
  <2>2. ~Confirms(answer) /\ ~isSpoolable(answer) => Refusal(answer)
    BY <1>t DEF TypeOK, Results, Refusal, Confirms, Uncut
  <2>3. /\ \A b \in Batches \ {cur} : status'[b] = status[b]
        /\ \/ status'[cur] = "permanent" => status[cur] = "permanent"
           \/ ~Confirms(answer) /\ ~isSpoolable(answer)
    <3>1. CASE durable /\ Confirms(answer)
      BY <1>3, <1>t, <2>1, <3>1 DEF EndDeliver, SettleOrFail, Queue!Settle, TypeOK
    <3>2. CASE durable /\ ~Confirms(answer) /\ isSpoolable(answer)
      BY <1>3, <3>2 DEF EndDeliver
    <3>3. CASE durable /\ ~Confirms(answer) /\ ~isSpoolable(answer)
      BY <1>3, <1>t, <2>1, <3>3 DEF EndDeliver, SettleOrFail, Queue!Settle, TypeOK
    <3>4. CASE ~durable
      BY <1>3, <3>4 DEF EndDeliver
    <3> QED BY <3>1, <3>2, <3>3, <3>4
  <2> QED BY <2>1, <2>2, <2>3 DEF RetainedUntilConfirmed
<1>4. CASE FlushNext
  <2>1. \A b \in Batches : status'[b] = "permanent" => status[b] = "permanent"
    BY <1>4, <1>t DEF FlushNext, Queue!Settle, TypeOK
  <2> QED BY <1>4, <1>u, <2>1 DEF FlushNext
<1>5. CASE FlushSettle
  <2>1. cur \in Batches /\ refused' = refused
    BY <1>5, <1>t DEF FlushSettle, Held, Posting
  <2>2. isPermanent(answer) => cur \in refused
    BY <1>5, <1>t DEF FlushSettle, Told, isPermanent, Refusal, isSpoolable, AllAnswers
  <2>3. /\ \A b \in Batches \ {cur} : status'[b] = status[b]
        /\ \/ status'[cur] = "permanent" => status[cur] = "permanent"
           \/ isPermanent(answer)
    BY <1>5, <1>t, <2>1 DEF FlushSettle, SettleOrFail, Queue!Settle, TypeOK
  <2> QED BY <2>1, <2>2, <2>3 DEF RetainedUntilConfirmed
\* A refusal that is forgotten in a crash has not been acted on.
<1>6. CASE Crash
  <2>1. /\ \A b \in Batches : status'[b] = "permanent" => status[b] = "permanent"
        /\ refused \ {cur} \subseteq refused'
    BY <1>6 DEF Crash, Queue!Trim, Queue!TrimmedOrKept, Queue!Retention
  <2>2. CASE pc = "answered"
    <3>1. op \in {"deliver", "flush"} /\ cur \in Batches
      BY <1>t, <2>2 DEF Held, TypeOK, Posting
    <3>2. status[cur] # "permanent"
      BY <1>t, <2>2, <3>1 DEF Entry, Posting, Queue!Retention
    <3> QED BY <2>1, <3>1, <3>2 DEF RetainedUntilConfirmed
  <2>3. CASE pc # "answered"
    BY <1>6, <1>u, <2>1, <2>3 DEF Crash
  <2> QED BY <2>2, <2>3
<1>7. CASE UNCHANGED vars
  BY <1>7, <1>u DEF vars
<1> QED BY <1>1, <1>2, <1>3, <1>4, <1>5, <1>6, <1>7 DEF Next

\* As long as no context ends during a backoff, only a batch the server refused
\* is given up as permanent: the cancellation that the run sender_cancelled
\* shows is the one way to lose a batch without a refusal, whatever the server
\* answers and however often storing or removing an entry fails.
THEOREM UncancelledBatchIsRetained ==
  ASSUME CanCancel = FALSE
  PROVE  Spec => []RetainedUntilConfirmed
<1>1. Init => Uncut /\ RetainedUntilConfirmed
  BY DEF Init, Idle, Queue!QInit, Uncut, RetainedUntilConfirmed
<1>2. Uncut /\ [Next]_vars => Uncut'
  BY UncutNext
<1> QED BY <1>1, <1>2, RetainedNext, SInvAlways, PTL DEF Spec

\* With a spool that works, a batch without a durable copy was evicted at once,
\* a refused batch has been stored, and a queued batch known to be refused is one
\* the answer in hand refuses.
Settled ==
  /\ op = "deliver" /\ ~durable => status[cur] \in Queue!Retention
  /\ \A b \in refused : status[b] # "absent"
  /\ pc = "answered" /\ cur \in refused /\ status[cur] = "queued" => Refusal(answer)

LEMMA SettledNext ==
  ASSUME SpoolFaults = FALSE, "other" \notin Answers
  PROVE  SInv /\ Settled /\ RefusedIsNotRetried /\ (answer # "other") /\ [Next]_vars
           => (Settled /\ RefusedIsNotRetried /\ answer # "other")'
<1> SUFFICES ASSUME SInv, Settled, RefusedIsNotRetried, answer # "other", [Next]_vars
             PROVE  (Settled /\ RefusedIsNotRetried /\ answer # "other")'
  OBVIOUS
<1>t. TypeOK /\ Held /\ Told /\ Entry
  BY DEF SInv
<1>n. NoBatch \notin Batches /\ refused \subseteq Batches
  BY <1>t, BatchesAssumption DEF NoBatch, TypeOK
\* Nobody holds the mutex afterwards, and every refusal has been acted on.
<1>i. ASSUME Release, \A b \in refused' : status'[b] \notin {"absent", "queued"}
      PROVE  (Settled /\ RefusedIsNotRetried /\ answer # "other")'
  BY <1>i DEF Release, Settled, RefusedIsNotRetried
<1>1. ASSUME NEW b \in Batches, BeginDeliver(b)
      PROVE  (Settled /\ RefusedIsNotRetried /\ answer # "other")'
  <2>1. /\ op = "none" /\ op' = "deliver" /\ cur' = b /\ answer' = "confirmed"
        /\ refused' = refused /\ status[b] = "absent" /\ Queue!Store(b)
        /\ durable' = (status'[b] = "queued")
    BY <1>1 DEF BeginDeliver, StartPost, Enqueue
  <2>2. \A c \in refused : c # b /\ status[c] \notin {"absent", "queued"}
    BY <1>t, <2>1 DEF Settled, RefusedIsNotRetried, Held
  <2>3. \A c \in refused : status'[c] = status[c]
    BY <1>n, <2>1, <2>2 DEF Queue!Store, Queue!TrimmedOrKept
  <2>4. ~durable' => status'[b] \in Queue!Retention
    BY <2>1 DEF Queue!Store
  <2> QED BY <2>1, <2>2, <2>3, <2>4 DEF Settled, RefusedIsNotRetried
<1>2. CASE PostOnce
  <2>1. PICK a \in Answers :
          /\ answer' = a
          /\ refused' = IF Refusal(a) THEN refused \cup {cur} ELSE refused
          /\ pc' = IF TriesAgain(a) THEN "backoff" ELSE "answered"
    BY <1>2 DEF PostOnce
  <2>2. pc = "post" /\ UNCHANGED <<status, op, cur, durable>>
    BY <1>2 DEF PostOnce
  <2>3. Refusal(a) => pc' = "answered"
    BY <2>1 DEF Refusal, TriesAgain, isRetryable, isSpoolable
  <2>4. status[cur] # "absent"
    BY <1>t, <2>2 DEF Entry, Held, Settled, Posting, Queue!Retention, TypeOK
  <2>5. \A b \in refused : status[b] \notin {"absent", "queued"}
    BY <2>2 DEF Settled, RefusedIsNotRetried
  <2> QED BY <2>1, <2>2, <2>3, <2>4, <2>5 DEF Settled, RefusedIsNotRetried
<1>3. CASE Backoff \/ Cancel
  <2>1. /\ pc = "backoff" /\ UNCHANGED <<status, op, cur, durable, refused>>
        /\ answer' \in {answer, "cancelled"}
    BY <1>3 DEF Backoff, Cancel, Interrupted
  <2> QED BY <2>1 DEF Settled, RefusedIsNotRetried
<1>4. CASE EndDeliver
  <2>1. cur \in Batches /\ refused' = refused /\ Release
    BY <1>4, <1>t DEF EndDeliver, Held, Posting
  <2>2. cur \in refused => status'[cur] \notin {"absent", "queued"}
    <3> SUFFICES ASSUME cur \in refused PROVE status'[cur] \notin {"absent", "queued"}
      OBVIOUS
    <3>1. CASE ~durable
      BY <1>4, <3>1 DEF EndDeliver, Settled, Queue!Retention
    <3>2. CASE durable /\ Confirms(answer)
      BY <1>4, <1>t, <2>1, <3>2
         DEF EndDeliver, SettleOrFail, Queue!Settle, TypeOK, Entry
    <3>3. CASE durable /\ ~Confirms(answer) /\ isSpoolable(answer)
      BY <1>4, <1>t, <3>3 DEF EndDeliver, Settled, Entry, Refusal
    <3>4. CASE durable /\ ~Confirms(answer) /\ ~isSpoolable(answer)
      BY <1>4, <1>t, <2>1, <3>4
         DEF EndDeliver, SettleOrFail, Queue!Settle, TypeOK, Entry
    <3> QED BY <3>1, <3>2, <3>3, <3>4
  <2>3. \A b \in Batches \ {cur} : status'[b] = status[b]
    <3>1. CASE durable /\ Confirms(answer)
      BY <1>4, <1>t, <2>1, <3>1 DEF EndDeliver, SettleOrFail, Queue!Settle, TypeOK
    <3>2. CASE durable /\ ~Confirms(answer) /\ isSpoolable(answer)
      BY <1>4, <3>2 DEF EndDeliver
    <3>3. CASE durable /\ ~Confirms(answer) /\ ~isSpoolable(answer)
      BY <1>4, <1>t, <2>1, <3>3 DEF EndDeliver, SettleOrFail, Queue!Settle, TypeOK
    <3>4. CASE ~durable
      BY <1>4, <3>4 DEF EndDeliver
    <3> QED BY <3>1, <3>2, <3>3, <3>4
  <2>4. \A b \in refused \ {cur} : status[b] \notin {"absent", "queued"}
    BY DEF Settled, RefusedIsNotRetried
  <2> QED BY <1>i, <1>n, <2>1, <2>2, <2>3, <2>4
<1>5. CASE BeginFlush
  <2>1. /\ op = "none" /\ op' = "flush" /\ pc' = "next"
        /\ UNCHANGED <<status, cur, answer, durable, refused>>
    BY <1>5 DEF BeginFlush
  <2>2. \A b \in refused : status[b] \notin {"absent", "queued"}
    BY <1>t, <2>1 DEF Settled, RefusedIsNotRetried, Held
  <2> QED BY <2>1, <2>2 DEF Settled, RefusedIsNotRetried
<1>6. CASE FlushNext
  <2>1. PICK b \in todo :
          \/ StartPost(b) /\ UNCHANGED status
          \/ /\ \E r \in {"expired", "corrupt"} : Queue!Settle(b, r)
             /\ UNCHANGED <<pc, cur, attempt, answer>>
    BY <1>6 DEF FlushNext
  <2>2. op = "flush" /\ pc = "next" /\ UNCHANGED <<op, durable, refused>>
    BY <1>6 DEF FlushNext
  <2>3. pc' # "answered" /\ answer' # "other"
    BY <2>1, <2>2 DEF StartPost
  <2>4. \A c \in refused : status[c] \notin {"absent", "queued"}
    BY <2>2 DEF Settled, RefusedIsNotRetried
  <2>5. \A c \in refused : status'[c] \notin {"absent", "queued"}
    BY <1>n, <1>t, <2>1, <2>4 DEF Queue!Settle, TypeOK
  <2> QED BY <2>2, <2>3, <2>5 DEF Settled, RefusedIsNotRetried
<1>7. CASE FlushSettle
  <2>1. cur \in Batches /\ refused' = refused /\ status[cur] = "queued" /\ op = "flush"
    BY <1>7, <1>t DEF FlushSettle, Held, Entry, Posting
  <2>2. \A b \in refused \ {cur} : status[b] \notin {"absent", "queued"}
    BY DEF Settled, RefusedIsNotRetried
  <2>3. CASE Release /\ UNCHANGED status /\ ~isPermanent(answer)
    <3>1. ~Refusal(answer)
      BY <2>3 DEF Refusal, isPermanent, isSpoolable, AllAnswers
    <3>2. cur \notin refused
      BY <1>7, <2>1, <3>1 DEF FlushSettle, Settled
    <3> QED BY <1>i, <2>1, <2>2, <2>3, <3>2
  <2>4. ASSUME NEW r \in {"delivered", "permanent"}, SettleOrFail(cur, r), pc' = "next",
               answer' = "confirmed", op' = op
        PROVE  (Settled /\ RefusedIsNotRetried /\ answer # "other")'
    <3>1. status' = [status EXCEPT ![cur] = r]
      BY <2>1, <2>4 DEF SettleOrFail, Queue!Settle
    <3>2. \A b \in refused : status'[b] \notin {"absent", "queued"}
      BY <1>n, <1>t, <2>1, <2>2, <3>1 DEF TypeOK
    <3> QED BY <2>1, <2>4, <3>2 DEF Settled, RefusedIsNotRetried
  <2> QED BY <1>7, <2>3, <2>4 DEF FlushSettle
<1>8. CASE EndFlush
  <2>1. pc = "next" /\ UNCHANGED <<status, refused>> /\ Release
    BY <1>8 DEF EndFlush
  <2> QED BY <1>i, <2>1 DEF Settled, RefusedIsNotRetried
<1>9. CASE Crash
  <2>1. /\ Release /\ \A b \in Batches : Queue!TrimmedOrKept(b)
        /\ refused' = IF pc = "answered" THEN refused \ {cur} ELSE refused
    BY <1>9 DEF Crash, Queue!Trim
  <2>2. \A b \in refused' : b \in Batches /\ status[b] \notin {"absent", "queued"}
    BY <1>n, <2>1 DEF Settled, RefusedIsNotRetried
  <2>3. \A b \in refused' : status'[b] \notin {"absent", "queued"}
    BY <2>1, <2>2 DEF Queue!TrimmedOrKept, Queue!Retention
  <2> QED BY <1>i, <2>1, <2>3
<1>10. CASE UNCHANGED vars
  BY <1>10 DEF vars, Settled, RefusedIsNotRetried
<1> QED
  BY <1>1, <1>2, <1>3, <1>4, <1>5, <1>6, <1>7, <1>8, <1>9, <1>10 DEF Next

\* As long as entries can be removed and the server keeps to the refusals Flush
\* knows, a batch the agent acted on as refused is not in the backlog, so no
\* flush posts it again: the run sender_other shows that a refusal Flush does not
\* know is the exception.
THEOREM KnownRefusalIsFinal ==
  ASSUME SpoolFaults = FALSE, "other" \notin Answers
  PROVE  Spec => []RefusedIsNotRetried
<1>1. Init => Settled /\ RefusedIsNotRetried /\ answer # "other"
  BY DEF Init, Idle, Settled, RefusedIsNotRetried
<1>2. SInv /\ Settled /\ RefusedIsNotRetried /\ (answer # "other") /\ [Next]_vars
        => (Settled /\ RefusedIsNotRetried /\ answer # "other")'
  BY SettledNext
<1> QED BY <1>1, <1>2, SInvAlways, PTL DEF Spec

=============================================================================




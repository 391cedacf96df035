------------------------------- MODULE Sender -------------------------------
(***************************************************************************)
(* Delivery of batches, internal/sender/sender.go, on top of the backlog   *)
(* promised by DurableQueue.                                               *)
(*                                                                         *)
(* deliver stores a batch, posts it with retries and then acknowledges,    *)
(* rejects or leaves it; Flush drains the backlog through the same posting *)
(* loop.  deliveryMu makes the two exclusive: "op" says who holds it.      *)
(* Every step of the holder interleaves with the server, with crashes of   *)
(* the agent and with the end of the caller's context.                     *)
(*                                                                         *)
(* The server is external: it may store a batch and lose the answer, store *)
(* it without confirming, or refuse it.  An answer is the class of status  *)
(* and error that the code's decisions tell apart.                         *)
(***************************************************************************)
EXTENDS Naturals, FiniteSets

CONSTANTS
  Batches,      \* batch ids, ordered by creation
  Prio,         \* deliveryPriority of each batch's kind
  Retries,      \* attempts after the first, s.retries
  Answers,      \* the classes of answer the server and network may give
  CanCancel,    \* whether a context may end during a backoff
  SpoolFaults,  \* whether storing and removing an entry may fail
  MaxCrashes    \* bound: crashes of the agent

VARIABLES
  status,     \* the backlog, see DurableQueue
  pending,    \* the spool's counter of entries, which Flush goes by
  op,         \* holder of deliveryMu: "none", "deliver" or "flush"
  pc, cur, attempt, answer,
  durable,    \* deliver: the batch was stored before the post
  todo,       \* Flush: entries of the snapshot not yet taken
  reported,   \* what deliver told its caller about each batch
  stored,     \* server: batches durably accepted
  confirmed,  \* batches whose durable acceptance the agent was told of
  refused,    \* batches the agent was told are refused for good
  slipped,    \* history: stored in this process by an enqueue that failed
  crashes

Queue == INSTANCE DurableQueue WITH Entries <- Batches

vars == <<status, pending, op, pc, cur, attempt, answer, durable, todo, reported,
          stored, confirmed, refused, slipped, crashes>>

(***************************************************************************)
(* Classes of answers:                                                     *)
(*   confirmed     2xx with an explicit, complete durable acknowledgement  *)
(*   unconfirmed   any other 2xx (ErrUnconfirmedDelivery)                  *)
(*   reset         no status, a connection error worth retrying            *)
(*   unreachable   no status, any other transport error or a timeout       *)
(*   unavailable   5xx                                                     *)
(*   deferred      401, 403, 408, 409, 423, 425, 429                       *)
(*   invalid       400, 404, 405, 410, 413, 414, 415, 422, 431             *)
(*   conflict      409 with batch_payload_conflict                         *)
(*   incompatible  426                                                     *)
(*   other         any other status, such as 402, 406, 412 or 451          *)
(* and one result that only the posting loop makes:                        *)
(*   cancelled     the context ended after an unconfirmed 2xx              *)
(***************************************************************************)
AllAnswers == {"confirmed", "unconfirmed", "reset", "unreachable", "unavailable",
               "deferred", "invalid", "conflict", "incompatible", "other"}
Results == AllAnswers \cup {"cancelled"}

ASSUME BatchesAssumption ==
  Batches \subseteq Nat \ {0} /\ IsFiniteSet(Batches) /\ Prio \in [Batches -> Nat]
ASSUME AnswersAssumption == Answers \subseteq AllAnswers
ASSUME BoundsAssumption  == Retries \in Nat /\ MaxCrashes \in Nat
ASSUME SwitchAssumption  == CanCancel \in BOOLEAN /\ SpoolFaults \in BOOLEAN

isRetryable(a) == a \in {"unconfirmed", "reset", "unavailable"}
isSpoolable(a) == a \in {"unconfirmed", "reset", "unreachable", "unavailable", "deferred"}

\* Mutant: an unauthenticated or throttled request counts as refused.
PermanentIfDeferred(a) == a \in {"invalid", "conflict", "incompatible", "deferred"}

\* isPermanentDeliveryStatus, or an invalid payload.
isPermanent(a) == a \in {"invalid", "conflict", "incompatible"}

\* Mutant: any 2xx counts as a durable acceptance.
AnySuccess(a) == a \in {"confirmed", "unconfirmed"}

\* validateAcknowledgement.
Confirms(a) == a = "confirmed"

\* What deliver takes for a refusal it was told of by the server.
Refusal(a) == a \in AllAnswers \ {"confirmed"} /\ ~isSpoolable(a)

\* The result when the context ends in the backoff after answer a: the error
\* is the context's, the status is the last one seen.
Interrupted(a) == IF a = "unconfirmed" THEN "cancelled" ELSE a

\* Answers that a server which has stored the batch may give, or lose.
Stores == {"confirmed", "unconfirmed", "reset", "unreachable", "unavailable"}

DrainBefore(m, n) == Prio[m] > Prio[n] \/ (Prio[m] = Prio[n] /\ m < n)

NoBatch == 0

Idle ==
  /\ op = "none" /\ pc = "idle" /\ cur = NoBatch /\ attempt = 0
  /\ answer = "confirmed" /\ durable = FALSE /\ todo = {}

Init ==
  /\ Queue!QInit
  /\ Idle
  /\ reported = [b \in Batches |-> "nothing"]
  /\ pending = 0 /\ stored = {} /\ confirmed = {} /\ refused = {}
  /\ slipped = {} /\ crashes = 0

\* The mutex is released and the local variables are gone.
Release ==
  /\ op' = "none" /\ pc' = "idle" /\ cur' = NoBatch /\ attempt' = 0
  /\ answer' = "confirmed" /\ durable' = FALSE /\ todo' = {}

StartPost(b) == pc' = "post" /\ cur' = b /\ attempt' = 0 /\ answer' = "confirmed"

Queued == {b \in Batches : status[b] = "queued"}

\* Mutant: an entry that is removed is taken off the counter twice.
CountTwice(n, D) == IF 2 * Cardinality(D) > n THEN 0 ELSE n - 2 * Cardinality(D)

\* recordRemovalLocked for each entry of D: the counter stops at zero.
CountOff(n, D) == IF Cardinality(D) > n THEN 0 ELSE n - Cardinality(D)

\* The entries a step removes from the backlog.
Leaving == {b \in Queued : status'[b] # "queued"}

-----------------------------------------------------------------------------
(* deliver *)

\* EnqueuePriority: the entry is written and counted, retention takes entries
\* away, perhaps the new one itself.  An error may come before the entry is
\* there, after its rename (it is there, but not counted), or at the last look.
Enqueue(b) ==
  \/ /\ Queue!Store(b)
     /\ pending' = CountOff(pending + 1, Leaving \cup {c \in {b} : status'[c] # "queued"})
     /\ \/ durable' = (status'[b] = "queued")
        \/ SpoolFaults /\ durable' = FALSE
     /\ UNCHANGED slipped
  \/ /\ SpoolFaults /\ durable' = FALSE /\ UNCHANGED pending
     /\ \/ UNCHANGED <<status, slipped>>
        \/ status' = [status EXCEPT ![b] = "queued"] /\ slipped' = slipped \cup {b}

\* Take deliveryMu and store the batch.  When that fails the batch is posted
\* all the same, without a durable copy.
BeginDeliver(b) ==
  /\ op = "none" /\ reported[b] = "nothing" /\ status[b] = "absent"
  /\ op' = "deliver" /\ StartPost(b)
  /\ Enqueue(b)
  /\ UNCHANGED <<todo, reported, stored, confirmed, refused, crashes>>

Report(b, r) == reported' = [reported EXCEPT ![b] = r]

\* Acknowledge or Reject the entry; either may fail and leave it queued.
SettleOrFail(b, r) ==
  /\ \/ Queue!Settle(b, r)
     \/ (SpoolFaults \/ status[b] # "queued") /\ UNCHANGED status
  /\ pending' = CountOff(pending, Leaving)

\* deliver after postWithRetry.
EndDeliver ==
  /\ op = "deliver" /\ pc = "answered"
  /\ CASE durable /\ Confirms(answer) ->
            /\ SettleOrFail(cur, "delivered")
            /\ \/ status'[cur] = "delivered" /\ Report(cur, "delivered")
               \/ (SpoolFaults \/ status'[cur] # "delivered") /\ Report(cur, "error")
       [] durable /\ ~Confirms(answer) /\ isSpoolable(answer) ->
            Report(cur, "queued") /\ UNCHANGED <<status, pending>>
       [] durable /\ ~Confirms(answer) /\ ~isSpoolable(answer) ->
            SettleOrFail(cur, "permanent") /\ Report(cur, "error")
       [] OTHER ->
            /\ Report(cur, IF Confirms(answer) THEN "delivered" ELSE "error")
            /\ UNCHANGED <<status, pending>>
  /\ Release
  /\ UNCHANGED <<stored, confirmed, refused, slipped, crashes>>

-----------------------------------------------------------------------------
(* postWithRetry *)

TriesAgain(a) == isRetryable(a) /\ attempt < Retries

\* postOnce: one request and what the agent learns of it.
PostOnce ==
  /\ pc = "post"
  /\ \E a \in Answers :
       /\ answer' = a
       /\ \/ a \in Stores /\ stored' = stored \cup {cur}
          \/ a # "confirmed" /\ stored' = stored
       /\ confirmed' = IF a = "confirmed" THEN confirmed \cup {cur} ELSE confirmed
       /\ refused' = IF Refusal(a) THEN refused \cup {cur} ELSE refused
       /\ pc' = IF TriesAgain(a) THEN "backoff" ELSE "answered"
  /\ UNCHANGED <<status, pending, op, cur, attempt, durable, todo, reported, slipped, crashes>>

\* sleepBackoff runs to its end.
Backoff ==
  /\ pc = "backoff"
  /\ pc' = "post" /\ attempt' = attempt + 1
  /\ UNCHANGED <<status, pending, op, cur, answer, durable, todo, reported, stored,
                 confirmed, refused, slipped, crashes>>

\* The context ends first: a cycle's HTTP timeout, or shutdown.
Cancel ==
  /\ CanCancel /\ pc = "backoff"
  /\ pc' = "answered" /\ answer' = Interrupted(answer)
  /\ UNCHANGED <<status, pending, op, cur, attempt, durable, todo, reported, stored,
                 confirmed, refused, slipped, crashes>>

-----------------------------------------------------------------------------
(* Flush *)

\* Flush returns at once when the counter is zero; the snapshot is taken from
\* the directory.
BeginFlush ==
  /\ op = "none" /\ pending > 0
  /\ op' = "flush" /\ pc' = "next" /\ todo' = Queued
  /\ UNCHANGED <<status, pending, cur, attempt, answer, durable, reported, stored,
                 confirmed, refused, slipped, crashes>>

\* Drain takes the next entry; an expired or damaged one is dropped unsent.
FlushNext ==
  /\ op = "flush" /\ pc = "next"
  /\ \E b \in todo :
       /\ \A c \in todo \ {b} : DrainBefore(b, c)
       /\ todo' = todo \ {b}
       /\ \/ StartPost(b) /\ UNCHANGED status
          \/ /\ \E r \in {"expired", "corrupt"} : Queue!Settle(b, r)
             /\ UNCHANGED <<pc, cur, attempt, answer>>
  /\ pending' = CountOff(pending, Leaving)
  /\ UNCHANGED <<op, durable, reported, stored, confirmed, refused, slipped, crashes>>

\* The outcome of one entry: confirmed and refused entries leave and the drain
\* goes on; anything else keeps the entry and stops the drain.
FlushSettle ==
  /\ op = "flush" /\ pc = "answered"
  /\ \/ /\ Confirms(answer) \/ isPermanent(answer)
        /\ SettleOrFail(cur, IF Confirms(answer) THEN "delivered" ELSE "permanent")
        /\ pc' = "next" /\ cur' = NoBatch /\ attempt' = 0 /\ answer' = "confirmed"
        /\ UNCHANGED <<op, durable, todo>>
     \/ /\ ~Confirms(answer) /\ ~isPermanent(answer)
        /\ Release /\ UNCHANGED <<status, pending>>
  /\ UNCHANGED <<reported, stored, confirmed, refused, slipped, crashes>>

\* No entry left, the limit reached, the context ended or a removal failed.
EndFlush ==
  /\ op = "flush" /\ pc = "next"
  /\ Release
  /\ UNCHANGED <<status, pending, reported, stored, confirmed, refused, slipped, crashes>>

-----------------------------------------------------------------------------

\* The agent dies at any point and is started again; a refusal it had not yet
\* acted on is lost.  Opening the spool counts the entries anew and applies
\* retention.
Crash ==
  /\ crashes < MaxCrashes /\ crashes' = crashes + 1
  /\ Release
  /\ Queue!Trim
  /\ pending' = Cardinality(Queued \ Leaving) /\ slipped' = {}
  /\ refused' = IF pc = "answered" THEN refused \ {cur} ELSE refused
  /\ UNCHANGED <<reported, stored, confirmed>>

Next ==
  \/ \E b \in Batches : BeginDeliver(b)
  \/ PostOnce \/ Backoff \/ Cancel \/ EndDeliver
  \/ BeginFlush \/ FlushNext \/ FlushSettle \/ EndFlush
  \/ Crash

Spec == Init /\ [][Next]_vars

(***************************************************************************)
(* runAndLog flushes in every cycle and every request has a timeout.  A    *)
(* drain may be cut short before an entry, but not every time, and a       *)
(* server that answers for good answers a batch it is sent again and again *)
(* with an acceptance or a refusal at last, and a removal from the spool   *)
(* that is tried again and again succeeds: strong fairness of those.       *)
(***************************************************************************)
Accepting == PostOnce /\ answer' \in {"confirmed", "invalid", "conflict", "incompatible"}

Fairness ==
  /\ WF_vars(BeginFlush) /\ SF_vars(FlushNext) /\ WF_vars(FlushSettle)
  /\ SF_vars(FlushSettle /\ status' # status) /\ WF_vars(EndFlush)
  /\ WF_vars(PostOnce) /\ SF_vars(Accepting) /\ WF_vars(Backoff) /\ WF_vars(EndDeliver)

FairSpec == Spec /\ Fairness

-----------------------------------------------------------------------------
(* Properties. *)

TypeOK ==
  /\ status \in [Batches -> Queue!Statuses] /\ pending \in Nat
  /\ op \in {"none", "deliver", "flush"}
  /\ pc \in {"idle", "next", "post", "backoff", "answered"}
  /\ cur \in Batches \cup {NoBatch} /\ attempt \in 0 .. Retries /\ answer \in Results
  /\ durable \in BOOLEAN /\ todo \subseteq Batches
  /\ reported \in [Batches -> {"nothing", "delivered", "queued", "error"}]
  /\ stored \subseteq Batches /\ confirmed \subseteq Batches /\ refused \subseteq Batches
  /\ slipped \subseteq Batches /\ crashes \in 0 .. MaxCrashes

\* A batch that left the backlog as delivered is durably held by the server,
\* and so is one whose caller was told it was delivered: lost answers,
\* unconfirmed 2xx and crashes never pass for an acceptance.
DeliveredMeansStored ==
  \A b \in Batches :
    status[b] = "delivered" \/ reported[b] = "delivered" => b \in stored

\* A caller told that its batch is queued (SendEvents counts it as durable and
\* the auth log checkpoint moves on) can rely on it: the batch is on disk, the
\* server has it, or it left for age, capacity, damage or a refusal.
ReportedQueuedIsKept ==
  \A b \in Batches :
    reported[b] = "queued" =>
      \/ status[b] \in {"queued", "expired", "capacity", "corrupt"}
      \/ status[b] = "delivered" /\ b \in stored
      \/ status[b] = "permanent" /\ b \in refused

\* Batches are retained until the server confirms durable acceptance: an entry
\* given up as permanent is one the server refused.
RetainedUntilConfirmed ==
  \A b \in Batches : status[b] = "permanent" => b \in refused

\* A rejected payload is never queued for retry: once the agent has acted on a
\* refusal the batch is out of the backlog.
RefusedIsNotRetried ==
  \A b \in refused : status[b] = "queued" => cur = b /\ pc = "answered"

\* Entries that Flush does not see: the counter is at zero, because an enqueue of
\* this process failed after its rename.
Overlooked == pending = 0 /\ slipped # {}

\* Once the server gives every batch a final answer in the end, the backlog
\* drains, although a failing entry stops each flush at the head of the line.
\* The one exception is named: behind an enqueue that failed after its rename the
\* counter can reach zero with an entry left, which then waits for the next batch
\* that is stored or for a restart.
BacklogDrains ==
  \A b \in Batches : status[b] = "queued" ~> status[b] # "queued" \/ Overlooked
=============================================================================

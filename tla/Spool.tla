-------------------------------- MODULE Spool --------------------------------
(***************************************************************************)
(* The durable delivery backlog, internal/spool/spool.go.                  *)
(*                                                                         *)
(* State on disk: the set of entry files, and the statistics file.  State  *)
(* in memory: the running counters, the set of entries a drain holds       *)
(* (inflight) and the progress of Drain.  The lock mu makes each enqueue,  *)
(* each removal and each bookkeeping step of Drain one atomic action;      *)
(* Drain releases mu while it calls deliver, so an enqueue and the         *)
(* retention it runs interleave with a delivery in progress.  drainMu      *)
(* keeps Acknowledge, Reject and a second Drain out while a drain runs.    *)
(*                                                                         *)
(* A crash may strike between any two actions and, through the CrashIn...  *)
(* actions, between the file operations and the statistics write of one.   *)
(*                                                                         *)
(* Abstractions.  An entry is its file name: names start with the creation *)
(* time, so they are naturals ordered by creation; each has a fixed        *)
(* priority and size.  Age is a set: an entry is stale once its age        *)
(* exceeds MaxAge.  The retry and enqueue-error counters, which nothing    *)
(* reads, are left out.  An entry may grow when its attempt counter gains  *)
(* a digit; MaxGrowth bounds how often.                                    *)
(***************************************************************************)
EXTENDS Integers, FiniteSets, FiniteSetsExt, Sequences

CONSTANTS
  Entries,     \* names of the entries ever written, ordered by creation
  Prio,        \* priority of each entry
  Size,        \* encoded size of each entry when first written
  MaxBytes,    \* opts.MaxBytes
  MaxItems,    \* opts.MaxItems
  Limit,       \* entries one Drain may process
  MaxGrowth,   \* bound: times an entry grows on a retry rewrite
  MaxCrashes,  \* bound: crashes of the process
  DiskFaults   \* whether file operations may fail

ASSUME EntriesAssumption == Entries \subseteq Nat \ {0} /\ IsFiniteSet(Entries)
ASSUME PrioAssumption    == Prio \in [Entries -> Nat]
ASSUME SizeAssumption    == Size \in [Entries -> Nat \ {0}]
ASSUME BudgetAssumption  == MaxBytes \in Nat \ {0} /\ MaxItems \in Nat \ {0}
ASSUME BoundsAssumption  ==
  Limit \in Nat \ {0} /\ MaxGrowth \in Nat /\ MaxCrashes \in Nat
ASSUME FaultsAssumption  == DiskFaults \in BOOLEAN

VARIABLES
  \* on disk
  files,      \* entries whose file exists
  bad,        \* entries whose file does not decode
  stale,      \* entries older than MaxAge
  extra,      \* bytes an entry has gained through retry rewrites
  saved,      \* the statistics file
  \* in memory
  up,         \* whether the process runs
  pending, bytes, enqueued, total,
  inflight,   \* entries held by Drain
  receipts,   \* entries whose enqueuer has not yet acknowledged or rejected
  pc, todo, cur, processed,   \* progress of Drain
  \* history
  used,       \* names ever written
  gone,       \* why an entry last left the directory
  torn,       \* a crash fell between a file operation and the statistics
  crashes

disk    == <<files, bad, stale, extra, saved>>
counts  == <<pending, bytes, enqueued, total>>
drain   == <<pc, todo, cur, processed>>
history == <<used, gone, torn, crashes>>
vars    == <<disk, up, counts, inflight, receipts, drain, history>>

Reasons == {"delivered", "expired", "capacity", "corrupt", "permanent"}
None    == "none"

ZeroTotals == [r \in Reasons |-> 0]
ZeroStats  == [enqueued |-> 0, total |-> ZeroTotals]

Clamp(x) == IF x < 0 THEN 0 ELSE x

SizeOf(n) == Size[n] + extra[n]
Bytes(S)  == MapThenSumSet(SizeOf, S)

PrioOf(n) == IF n \in bad THEN 0 ELSE Prio[n]

Init ==
  /\ files = {} /\ bad = {} /\ stale = {}
  /\ extra = [n \in Entries |-> 0]
  /\ saved = ZeroStats
  /\ up = TRUE
  /\ pending = 0 /\ bytes = 0 /\ enqueued = 0 /\ total = ZeroTotals
  /\ inflight = {} /\ receipts = {}
  /\ pc = "idle" /\ todo = <<>> /\ cur = 0 /\ processed = 0
  /\ used = {} /\ gone = [n \in Entries |-> None]
  /\ torn = FALSE /\ crashes = 0

-----------------------------------------------------------------------------
(* Retention (enforceRetentionLocked) on directory contents F and counter b. *)
(* "stuck" holds the files whose removal fails.                              *)

\* Mutant: retention does not skip the entry a drain holds.
AgedHeldToo(F) == F \cap stale

\* The files to expire: too old, and not held by a drain.
Aged(F) == (F \ inflight) \cap stale

\* Mutant: expired entries are considered again for eviction.
KeptAll(F) == F

\* The entries that remain, in order, after the expired ones.
Kept(F) == F \ Aged(F)

EvictBefore(m, n) ==
  PrioOf(m) < PrioOf(n) \/ (PrioOf(m) = PrioOf(n) /\ m < n)

\* Mutant: the newest and most important entries go first.
GoesAfter(C, n) == {m \in C : EvictBefore(n, m)}

\* The entries of C that the eviction loop comes to before n.
GoesBefore(C, n) == {m \in C : EvictBefore(m, n)}

\* Mutant: only the item limit is looked at.
OverItems(K, b, D) == Cardinality(K \ D) > MaxItems

\* Budget check of the eviction loop once the entries of D have been removed.
OverBudget(K, b, D) == b - Bytes(D) > MaxBytes \/ Cardinality(K \ D) > MaxItems

ExpiredBy(F, stuck) == Aged(F) \ stuck

\* Entries go lowest priority first, oldest first; each is removed exactly
\* when the budget is still exceeded after the removal of all before it.
EvictedBy(F, b, stuck) ==
  LET K == Kept(F)
      C == (K \ inflight) \ stuck
      left == Clamp(b - Bytes(ExpiredBy(F, stuck)))
  IN  {n \in C : OverBudget(K, left, GoesBefore(C, n))}

Victims(F, b, stuck) == ExpiredBy(F, stuck) \cup EvictedBy(F, b, stuck)

\* Directory entries whose removal fails in this step.
Stuck(F) == IF DiskFaults THEN SUBSET F ELSE {{}}

Buried(F, b, stuck) ==
  [n \in Entries |-> IF n \in ExpiredBy(F, stuck) THEN "expired"
                     ELSE IF n \in EvictedBy(F, b, stuck) THEN "capacity"
                     ELSE gone[n]]

\* Mutant: the totals are left out of the statistics file.
PersistEnqueued(e, t) == saved' = [saved EXCEPT !.enqueued = e]

\* persistStatsLocked: its error is ignored by every caller.
PersistStats(e, t) ==
  \/ saved' = [enqueued |-> e, total |-> t]
  \/ DiskFaults /\ saved' = saved

\* Mutant: a pass counts as one removal however many entries it removes.
LessOne(p, D) == Clamp(p - 1)

\* Mutant: the size at the time of the enqueue is subtracted.
LessFirstSize(b, D) == Clamp(b - MapThenSumSet(LAMBDA n : Size[n], D))

\* The counters after the removal of the entries of D (recordRemovalLocked).
LessPending(p, D) == Clamp(p - Cardinality(D))
LessBytes(b, D)   == Clamp(b - Bytes(D))

\* What a file carries goes with it.
Forget(D) ==
  /\ bad' = bad \ D /\ stale' = stale \ D
  /\ extra' = [n \in Entries |-> IF n \in D THEN 0 ELSE extra[n]]

\* The end of EnqueuePriority and of rescanLocked: retention over directory
\* contents F with counters p, b and e, then the statistics are saved.
Retain(F, p, b, e, t, stuck) ==
  /\ files' = F \ Victims(F, b, stuck)
  /\ pending' = LessPending(p, Victims(F, b, stuck))
  /\ bytes' = LessBytes(b, Victims(F, b, stuck))
  /\ enqueued' = e
  /\ total' = [t EXCEPT
       !["expired"]  = @ + Cardinality(ExpiredBy(F, stuck)),
       !["capacity"] = @ + Cardinality(EvictedBy(F, b, stuck))]
  /\ gone' = Buried(F, b, stuck)
  /\ Forget(Victims(F, b, stuck))
  /\ PersistStats(e, total')

-----------------------------------------------------------------------------
(* Enqueue. *)

\* EnqueuePriority succeeds: the caller gets a receipt unless retention has already
\* removed the new entry.
Enqueue(n) ==
  /\ n \notin used
  /\ used' = used \cup {n}
  /\ \E stuck \in Stuck(files \cup {n}) :
       Retain(files \cup {n}, pending + 1, bytes + Size[n], enqueued + 1, total, stuck)
  /\ receipts' = receipts \cup ({n} \cap files')
  /\ UNCHANGED <<up, inflight, drain, torn, crashes>>

\* writeAtomic fails: before the rename nothing is left; after it (the
\* directory sync fails) the file is there but is not counted.
EnqueueFails(n) ==
  /\ DiskFaults /\ n \notin used
  /\ used' = used \cup {n}
  /\ files' \in {files, files \cup {n}}
  /\ PersistStats(enqueued, total)
  /\ UNCHANGED <<bad, stale, extra, up, counts, inflight, receipts, drain,
                 gone, torn, crashes>>

-----------------------------------------------------------------------------
(* Removal of one entry. *)

\* os.Remove followed by recordRemovalLocked; statistics are saved next.
Remove(n, r) ==
  /\ files' = files \ {n}
  /\ pending' = LessPending(pending, {n})
  /\ bytes' = LessBytes(bytes, {n})
  /\ total' = [total EXCEPT ![r] = @ + 1]
  /\ gone' = [gone EXCEPT ![n] = r]
  /\ Forget({n})
  /\ PersistStats(enqueued, total')
  /\ UNCHANGED enqueued

\* removeEnvelope, called by Acknowledge and Reject.  The entry may have been
\* evicted or damaged meanwhile; then the call fails and changes nothing.
RemoveEnvelope(n, r) ==
  /\ up /\ pc = "idle" /\ n \in receipts
  /\ receipts' = receipts \ {n}
  /\ \/ n \in files \ bad /\ Remove(n, r)
     \/ /\ n \notin files \ bad \/ DiskFaults
        /\ UNCHANGED <<disk, counts, gone>>
  /\ UNCHANGED <<up, inflight, drain, used, torn, crashes>>

Acknowledge(n) == RemoveEnvelope(n, "delivered")
Reject(n)      == RemoveEnvelope(n, "permanent")

-----------------------------------------------------------------------------
(* Drain. *)

\* snapshot: damaged entries first, then by priority, then oldest first.
DrainBefore(m, n) ==
  \/ m \in bad /\ n \notin bad
  \/ /\ (m \in bad) = (n \in bad)
     /\ PrioOf(m) > PrioOf(n) \/ (PrioOf(m) = PrioOf(n) /\ m < n)

Snapshots ==
  {s \in [1 .. Cardinality(files) -> files] :
     \A i, j \in 1 .. Cardinality(files) : i < j => DrainBefore(s[i], s[j])}

StartDrain ==
  /\ up /\ pc = "idle"
  /\ pc' = "loop" /\ todo' \in Snapshots /\ processed' = 0
  /\ UNCHANGED <<disk, up, counts, inflight, receipts, cur, history>>

\* Drain returns; its local variables go out of scope.
Return == pc' = "idle" /\ todo' = <<>> /\ cur' = 0 /\ processed' = 0

\* Mutant: the age of an entry is not looked at when it is drained.
FateIgnoringAge(n) == IF n \in bad THEN "corrupt" ELSE "deliver"

Fate(n) ==
  IF n \in bad THEN "corrupt" ELSE IF n \in stale THEN "expired" ELSE "deliver"

\* The head of the loop: mark the entry, read it, and decide what to do with
\* it.  An entry that vanished since the snapshot is skipped.
TakeEntry ==
  /\ up /\ pc = "loop" /\ todo # <<>> /\ processed < Limit
  /\ todo' = Tail(todo) /\ processed' = processed + 1
  /\ LET n == Head(todo) IN
     /\ IF n \in files
        THEN /\ cur' = n
             /\ inflight' = inflight \cup {n}
             /\ pc' = Fate(n)
        ELSE UNCHANGED <<inflight, pc, cur>>
  /\ UNCHANGED <<disk, up, counts, receipts, history>>

\* The deliver callback returns: success, a permanent error, or another error.
Deliver ==
  /\ up /\ pc = "deliver"
  /\ pc' \in {"delivered", "permanent", "retry"}
  /\ UNCHANGED <<disk, up, counts, inflight, receipts, todo, cur, processed, history>>

\* On to the next entry of the snapshot.
Proceed == pc' = "loop" /\ cur' = 0 /\ UNCHANGED <<todo, processed>>

\* The entry is removed after a delivery or by discard, and let go.  When the
\* removal itself fails, discard goes on with the next entry while the path
\* after a delivery gives up.
FinishEntry ==
  /\ up /\ pc \in Reasons
  /\ inflight' = inflight \ {cur}
  /\ \/ Remove(cur, pc) /\ Proceed
     \/ /\ DiskFaults
        /\ IF pc = "delivered" THEN Return ELSE Proceed
        /\ UNCHANGED <<disk, counts, gone>>
  /\ UNCHANGED <<up, receipts, used, torn, crashes>>

\* A failed delivery: the entry is rewritten with one more attempt and the
\* drain stops.  A write that fails after its rename leaves bytes unadjusted.
RetryLater ==
  /\ up /\ pc = "retry"
  /\ \/ /\ files' = files \cup {cur} /\ bad' = bad \ {cur}
        /\ \E g \in {0, 1} :
             /\ extra[cur] + g <= MaxGrowth
             /\ extra' = [extra EXCEPT ![cur] = @ + g]
             /\ \/ bytes' = bytes + g /\ PersistStats(enqueued, total)
                \/ DiskFaults /\ UNCHANGED <<bytes, saved>>
     \/ DiskFaults /\ UNCHANGED <<files, bad, extra, bytes, saved>>
  /\ inflight' = inflight \ {cur}
  /\ Return
  /\ UNCHANGED <<stale, up, pending, enqueued, total, receipts, history>>

\* All entries done, the limit reached, or the context cancelled.
EndDrain ==
  /\ up /\ pc = "loop"
  /\ Return
  /\ UNCHANGED <<disk, up, counts, inflight, receipts, history>>

-----------------------------------------------------------------------------
(* Environment: time, damage, crash and restart. *)

\* Entries pass MaxAge in order of creation.
Age(n) ==
  /\ n \in files \ stale
  /\ \A m \in files : m < n => m \in stale
  /\ stale' = stale \cup {n}
  /\ UNCHANGED <<files, bad, extra, saved, up, counts, inflight, receipts, drain, history>>

\* A file is damaged.  It no longer tells its creation time and retention
\* goes by its modification time, the time of the first or of a later write;
\* the model keeps the first.
Damage(n) ==
  /\ n \in files \ bad
  /\ bad' = bad \cup {n}
  /\ UNCHANGED <<files, stale, extra, saved, up, counts, inflight, receipts, drain, history>>

\* Everything in memory is lost.
Die ==
  /\ crashes < MaxCrashes /\ crashes' = crashes + 1
  /\ up' = FALSE
  /\ pending' = 0 /\ bytes' = 0 /\ enqueued' = 0 /\ total' = ZeroTotals
  /\ inflight' = {} /\ receipts' = {}
  /\ Return

Crash ==
  /\ up /\ Die
  /\ UNCHANGED <<disk, used, gone, torn>>

\* A crash after some of the removals of a retention pass over F.
DieInRetention(F, b) ==
  \E D \in SUBSET Victims(F, b, {}) :
    /\ files' = F \ D
    /\ gone' = [n \in Entries |-> IF n \in D THEN Buried(F, b, {})[n] ELSE gone[n]]
    /\ Forget(D)

\* A crash in EnqueuePriority after its file is in place.
CrashInEnqueue(n) ==
  /\ n \notin used /\ Die
  /\ used' = used \cup {n}
  /\ DieInRetention(files \cup {n}, bytes + Size[n])
  /\ torn' = TRUE
  /\ UNCHANGED saved

\* A crash between the removal of an entry and the statistics write.
CrashInRemoval(n, r) ==
  /\ up /\ Die
  /\ n \in files
  /\ \/ pc = r /\ cur = n
     \/ pc = "idle" /\ n \in receipts \ bad /\ r \in {"delivered", "permanent"}
  /\ files' = files \ {n}
  /\ gone' = [gone EXCEPT ![n] = r]
  /\ Forget({n})
  /\ torn' = TRUE
  /\ UNCHANGED <<saved, used>>

\* New succeeds: the totals come from the statistics file, pending and bytes from the
\* directory, which retention then trims.
Restart ==
  /\ up' = TRUE
  /\ \E s \in {saved} \cup (IF DiskFaults THEN {ZeroStats} ELSE {}),
        stuck \in Stuck(files) :
       Retain(files, Cardinality(files), Bytes(files),
              IF s.enqueued < Cardinality(files) THEN Cardinality(files) ELSE s.enqueued,
              s.total, stuck)
  /\ UNCHANGED <<inflight, receipts, drain, used, torn, crashes>>

CrashInRestart ==
  /\ Die
  /\ DieInRetention(files, Bytes(files))
  /\ torn' = TRUE
  /\ UNCHANGED <<saved, used>>

-----------------------------------------------------------------------------

EnqueuePriority(n) == up /\ (Enqueue(n) \/ EnqueueFails(n) \/ CrashInEnqueue(n))
New == ~up /\ (Restart \/ CrashInRestart)

Next ==
  \/ \E n \in Entries :
       \/ EnqueuePriority(n) \/ Acknowledge(n) \/ Reject(n) \/ Age(n) \/ Damage(n)
       \/ \E r \in Reasons : CrashInRemoval(n, r)
  \/ StartDrain \/ TakeEntry \/ Deliver \/ FinishEntry \/ RetryLater \/ EndDrain
  \/ Crash \/ New

Spec == Init /\ [][Next]_vars

(***************************************************************************)
(* The runtime drains every cycle (loop.go, runAndLog), a delivery returns *)
(* because its HTTP client has a timeout, and time passes.  A cycle's      *)
(* context may be cancelled, but not every one before its first entry,     *)
(* hence strong fairness of TakeEntry.                                     *)
(***************************************************************************)
Fairness ==
  /\ WF_vars(StartDrain) /\ SF_vars(TakeEntry) /\ WF_vars(Deliver)
  /\ WF_vars(FinishEntry) /\ WF_vars(RetryLater) /\ WF_vars(EndDrain)
  /\ WF_vars(New)
  /\ \A n \in Entries : WF_vars(Age(n))

FairSpec == Spec /\ Fairness

-----------------------------------------------------------------------------
(* Properties. *)

Pcs == {"idle", "loop", "deliver", "retry", "corrupt", "expired", "permanent", "delivered"}

\* Every variable but bytes has its type; bytes is given by BytesMatchFiles.
TypeOK ==
  /\ files \subseteq Entries /\ bad \subseteq Entries /\ stale \subseteq Entries
  /\ extra \in [Entries -> Nat]
  /\ saved \in [enqueued : Nat, total : [Reasons -> Nat]]
  /\ up \in BOOLEAN
  /\ pending \in Nat /\ enqueued \in Nat /\ total \in [Reasons -> Nat]
  /\ inflight \subseteq Entries /\ receipts \subseteq Entries
  /\ pc \in Pcs /\ todo \in Seq(Entries) /\ cur \in Entries \cup {0} /\ processed \in Nat
  /\ used \subseteq Entries /\ gone \in [Entries -> Reasons \cup {None}]
  /\ torn \in BOOLEAN /\ crashes \in Nat

\* Drain's hold on an entry: from the moment it is read until its outcome is
\* recorded, the entry stays on disk whatever other goroutines enqueue, and
\* no other entry is held (spool.go: the inflight set skipped by retention).
HeldEntryStaysOnDisk ==
  IF pc \in {"idle", "loop"} THEN inflight = {}
                            ELSE inflight = {cur} /\ cur \in files

\* The pending counter, on which Flush decides whether there is anything to
\* send, is the number of entry files, at every step of the running process.
PendingMatchesFiles == up => pending = Cardinality(files)

\* The byte counter is the size of the directory, through retries that make
\* entries grow and removals that use the size read before the delivery.
BytesMatchFiles == up => bytes = Bytes(files)

\* Loss accounting: every entry ever counted is still pending, was delivered
\* or was dropped for one counted reason.  Only a crash between a file
\* operation and the statistics write makes the totals drift.
EveryEntryAccountedFor ==
  up /\ ~torn =>
     enqueued = pending + MapThenSumSet(LAMBDA r : total[r], Reasons)

\* Whatever crashes happen, no total counts a removal that did not happen,
\* and the entries on disk are all counted as enqueued.
TotalsNeverOverstate ==
  /\ \A r \in Reasons : total[r] <= Cardinality({n \in Entries : gone[n] = r})
  /\ up => enqueued >= pending

\* The directory keeps within both limits as written: retention skips the
\* entry a drain holds, yet finds enough others to remove.
WithinBudget ==
  up => /\ Cardinality(files) <= MaxItems
        /\ MapThenSumSet(LAMBDA n : Size[n], files) <= MaxBytes

\* An entry evicted for capacity is never more important, or newer at equal
\* priority, than one that stays, except for the one a drain holds.
EvictionSparesThePrior ==
  [][\A n, m \in Entries :
       /\ gone[n] # "capacity" /\ gone'[n] = "capacity" /\ up /\ up'
       /\ m \in files' \ inflight
       => EvictBefore(n, m)]_vars

\* Nothing stays in the backlog for ever, even when the server refuses every
\* delivery and a failing entry stops each drain: old entries are dropped.
EveryEntryLeaves == \A n \in Entries : n \in files ~> n \notin files

-----------------------------------------------------------------------------
(* Refinement. *)

\* The state of the abstract queue.
QueueStatus ==
  [n \in Entries |-> IF n \in files THEN "queued"
                     ELSE IF gone[n] = None THEN "absent" ELSE gone[n]]

Queue == INSTANCE DurableQueue WITH status <- QueueStatus

\* The directory implements the queue the sender relies on: an entry leaves
\* for one reason and never reappears, across drains, retention and crashes.
ImplementsQueue == Queue!QSpec
=============================================================================

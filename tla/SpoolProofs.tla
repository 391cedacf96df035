----------------------------- MODULE SpoolProofs -----------------------------
(***************************************************************************)
(* Proofs about the backlog for every number of entries, every budget and  *)
(* any number of crashes.                                                  *)
(***************************************************************************)
EXTENDS Spool, SumTheorems

\* Retention removes files of the directory only, none of them in flight, and
\* each for one reason.
LEMMA VictimsAreFiles ==
  ASSUME NEW F, NEW b, NEW stuck
  PROVE  /\ ExpiredBy(F, stuck) \subseteq F \ inflight
         /\ EvictedBy(F, b, stuck) \subseteq F \ inflight
         /\ Victims(F, b, stuck) \subseteq F \ inflight
         /\ ExpiredBy(F, stuck) \cap EvictedBy(F, b, stuck) = {}
BY DEF ExpiredBy, EvictedBy, Victims, Kept, Aged

\* Every set of entries is finite.
LEMMA EntrySetsAreFinite ==
  ASSUME NEW S \in SUBSET Entries
  PROVE  IsFiniteSet(S) /\ Cardinality(S) \in Nat
BY EntriesAssumption, FS_Subset, FS_CardinalityType

\* What a retention pass over directory contents F leaves behind is well typed,
\* and an entry of F that is in flight is still on disk.
LEMMA RetainKeepsTypes ==
  ASSUME TypeOK, NEW F \in SUBSET Entries, NEW p \in Nat, NEW b, NEW e \in Nat,
         NEW t \in [Reasons -> Nat], NEW stuck, Retain(F, p, b, e, t, stuck)
  PROVE  /\ files' \subseteq F /\ F \cap inflight \subseteq files'
         /\ bad' \subseteq Entries /\ stale' \subseteq Entries
         /\ extra' \in [Entries -> Nat]
         /\ saved' \in [enqueued : Nat, total : [Reasons -> Nat]]
         /\ pending' \in Nat /\ enqueued' \in Nat /\ total' \in [Reasons -> Nat]
         /\ gone' \in [Entries -> Reasons \cup {None}]
<1> DEFINE X == ExpiredBy(F, stuck)
           V == EvictedBy(F, b, stuck)
           W == Victims(F, b, stuck)
<1>1. X \subseteq F \ inflight /\ V \subseteq F \ inflight /\ W \subseteq F \ inflight
  BY VictimsAreFiles
<1>2. Cardinality(X) \in Nat /\ Cardinality(V) \in Nat /\ Cardinality(W) \in Nat
  BY <1>1, EntrySetsAreFinite
<1> HIDE DEF X, V, W
<1>3. files' \subseteq F /\ F \cap inflight \subseteq files'
  BY <1>1 DEF Retain, W
<1>4. /\ bad' \subseteq Entries /\ stale' \subseteq Entries
      /\ extra' \in [Entries -> Nat]
  BY DEF Retain, Forget, TypeOK
<1>5. pending' \in Nat /\ enqueued' \in Nat
  BY <1>2 DEF Retain, LessPending, Clamp, W
<1>6. total' \in [Reasons -> Nat]
  <2> DEFINE u == [t EXCEPT !["expired"] = @ + Cardinality(X)]
  <2>0. "expired" \in Reasons /\ "capacity" \in Reasons
    BY DEF Reasons
  <2>1. u \in [Reasons -> Nat]
    <3>1. t["expired"] + Cardinality(X) \in Nat
      BY <1>2, <2>0
    <3> QED BY <3>1
  <2>2. total' = [u EXCEPT !["capacity"] = @ + Cardinality(V)]
    BY DEF Retain, X, V
  <2> HIDE DEF u
  <2>3. u["capacity"] + Cardinality(V) \in Nat
    BY <1>2, <2>0, <2>1
  <2> QED BY <2>1, <2>2, <2>3
<1>7. saved' \in [enqueued : Nat, total : [Reasons -> Nat]]
  <2>1. saved' = [enqueued |-> e, total |-> total'] \/ saved' = saved
    BY DEF Retain, PersistStats
  <2> QED BY <1>6, <2>1 DEF TypeOK
<1>8. gone' \in [Entries -> Reasons \cup {None}]
  BY DEF Retain, Buried, TypeOK, Reasons
<1> QED BY <1>3, <1>4, <1>5, <1>6, <1>7, <1>8

\* So is what the removal of one entry leaves behind.
LEMMA RemoveKeepsTypes ==
  ASSUME TypeOK, NEW n \in Entries, NEW r \in Reasons, Remove(n, r)
  PROVE  /\ files' = files \ {n}
         /\ bad' \subseteq Entries /\ stale' \subseteq Entries
         /\ extra' \in [Entries -> Nat]
         /\ saved' \in [enqueued : Nat, total : [Reasons -> Nat]]
         /\ pending' \in Nat /\ enqueued' \in Nat /\ total' \in [Reasons -> Nat]
         /\ gone' \in [Entries -> Reasons \cup {None}]
<1>1. /\ files' = files \ {n}
      /\ bad' \subseteq Entries /\ stale' \subseteq Entries
      /\ extra' \in [Entries -> Nat] /\ enqueued' \in Nat
      /\ gone' \in [Entries -> Reasons \cup {None}]
  BY DEF Remove, Forget, TypeOK
<1>4. pending' \in Nat
  <2>1. Cardinality({n}) = 1
    BY FS_Singleton
  <2> QED BY <2>1 DEF Remove, LessPending, Clamp, TypeOK
<1>2. total' \in [Reasons -> Nat]
  BY DEF Remove, TypeOK
<1>3. saved' \in [enqueued : Nat, total : [Reasons -> Nat]]
  <2>1. saved' = [enqueued |-> enqueued, total |-> total'] \/ saved' = saved
    BY DEF Remove, PersistStats
  <2> QED BY <1>2, <2>1 DEF TypeOK
<1> QED BY <1>1, <1>2, <1>3, <1>4

-----------------------------------------------------------------------------

\* The type invariant is inductive only together with Drain's hold on its
\* entry: RetryLater rewrites the entry it holds.
Inv == TypeOK /\ HeldEntryStaysOnDisk

LEMMA InvInit == Init => Inv
<1> SUFFICES ASSUME Init PROVE Inv
  OBVIOUS
<1>1. ZeroTotals \in [Reasons -> Nat]
  BY DEF ZeroTotals
<1>2. TypeOK
  <2>1. /\ saved \in [enqueued : Nat, total : [Reasons -> Nat]]
        /\ extra \in [Entries -> Nat] /\ total \in [Reasons -> Nat]
        /\ gone \in [Entries -> Reasons \cup {None}]
    BY <1>1 DEF Init, ZeroStats
  <2>2. up \in BOOLEAN /\ torn \in BOOLEAN
    BY DEF Init
  <2> QED BY <2>1, <2>2 DEF Init, TypeOK, Pcs
<1> QED BY <1>2 DEF Inv, HeldEntryStaysOnDisk, Init

\* A drain that returns, or a crash, lets go of everything.
LEMMA DieKeepsInv ==
  ASSUME Inv, Die, files' \subseteq Entries, bad' \subseteq Entries,
         stale' \subseteq Entries, extra' \in [Entries -> Nat],
         saved' \in [enqueued : Nat, total : [Reasons -> Nat]],
         used' \subseteq Entries, gone' \in [Entries -> Reasons \cup {None}],
         torn' \in BOOLEAN
  PROVE  Inv'
<1>1. ZeroTotals \in [Reasons -> Nat]
  BY DEF ZeroTotals
<1>2. TypeOK'
  <2>1. up' \in BOOLEAN /\ total' \in [Reasons -> Nat]
    BY <1>1 DEF Die
  <2>2. /\ pending' \in Nat /\ enqueued' \in Nat /\ crashes' \in Nat
        /\ inflight' \subseteq Entries /\ receipts' \subseteq Entries
        /\ pc' \in Pcs /\ todo' \in Seq(Entries) /\ cur' \in Entries \cup {0}
        /\ processed' \in Nat
    BY DEF Inv, TypeOK, Die, Return, Pcs
  <2> QED BY <2>1, <2>2 DEF TypeOK
<1> QED BY <1>2 DEF Inv, HeldEntryStaysOnDisk, Die, Return

\* Removals made before a crash in a retention pass keep the types.
LEMMA DieInRetentionKeepsTypes ==
  ASSUME TypeOK, NEW F \in SUBSET Entries, NEW b, DieInRetention(F, b)
  PROVE  /\ files' \subseteq Entries
         /\ bad' \subseteq Entries /\ stale' \subseteq Entries
         /\ extra' \in [Entries -> Nat]
         /\ gone' \in [Entries -> Reasons \cup {None}]
BY DEF DieInRetention, Forget, TypeOK, Buried, Reasons

LEMMA InvNext == Inv /\ [Next]_vars => Inv'
<1> SUFFICES ASSUME Inv, [Next]_vars PROVE Inv'
  OBVIOUS
<1>t. TypeOK /\ HeldEntryStaysOnDisk
  BY DEF Inv
<1>1. ASSUME NEW n \in Entries, up, Enqueue(n) PROVE Inv'
  <2>1. PICK stuck \in Stuck(files \cup {n}) :
          Retain(files \cup {n}, pending + 1, bytes + Size[n], enqueued + 1, total, stuck)
    BY <1>1 DEF Enqueue
  <2>2. /\ files \cup {n} \in SUBSET Entries /\ pending + 1 \in Nat
        /\ enqueued + 1 \in Nat /\ total \in [Reasons -> Nat]
    BY <1>1, <1>t DEF TypeOK
  <2>3. /\ files' \subseteq files \cup {n} /\ (files \cup {n}) \cap inflight \subseteq files'
        /\ bad' \subseteq Entries /\ stale' \subseteq Entries
        /\ extra' \in [Entries -> Nat]
        /\ saved' \in [enqueued : Nat, total : [Reasons -> Nat]]
        /\ pending' \in Nat /\ enqueued' \in Nat /\ total' \in [Reasons -> Nat]
        /\ gone' \in [Entries -> Reasons \cup {None}]
    BY <1>t, <2>1, <2>2, RetainKeepsTypes
  <2>4. TypeOK'
    BY <1>1, <1>t, <2>3 DEF Enqueue, TypeOK, drain
  <2>5. HeldEntryStaysOnDisk'
    BY <1>1, <1>t, <2>3 DEF Enqueue, HeldEntryStaysOnDisk, drain
  <2> QED BY <2>4, <2>5 DEF Inv
<1>2. ASSUME NEW n \in Entries, up, EnqueueFails(n) PROVE Inv'
  <2>1. saved' \in [enqueued : Nat, total : [Reasons -> Nat]]
    BY <1>2, <1>t DEF EnqueueFails, PersistStats, TypeOK
  <2>2. TypeOK'
    BY <1>2, <1>t, <2>1 DEF EnqueueFails, TypeOK, counts, drain
  <2> QED BY <1>2, <1>t, <2>2 DEF Inv, EnqueueFails, HeldEntryStaysOnDisk, drain
<1>3. ASSUME NEW n \in Entries, NEW r \in Reasons, RemoveEnvelope(n, r) PROVE Inv'
  <2>1. CASE Remove(n, r)
    <3>1. TypeOK'
      BY <1>3, <1>t, <2>1, RemoveKeepsTypes DEF RemoveEnvelope, TypeOK, drain
    <3> QED BY <1>3, <1>t, <3>1 DEF Inv, RemoveEnvelope, HeldEntryStaysOnDisk, drain
  <2>2. CASE UNCHANGED <<disk, counts, gone>>
    <3>1. TypeOK'
      BY <1>3, <1>t, <2>2 DEF RemoveEnvelope, TypeOK, drain, disk, counts
    <3> QED BY <1>3, <1>t, <3>1 DEF Inv, RemoveEnvelope, HeldEntryStaysOnDisk, drain
  <2> QED BY <1>3, <2>1, <2>2 DEF RemoveEnvelope
<1>4. CASE StartDrain
  <2>1. todo' \in Seq(Entries)
    <3>1. Cardinality(files) \in Nat
      BY <1>t, EntrySetsAreFinite DEF TypeOK
    <3>2. todo' \in [1 .. Cardinality(files) -> Entries]
      BY <1>4, <1>t DEF StartDrain, Snapshots, TypeOK
    <3> QED BY <3>1, <3>2
  <2>2. TypeOK'
    BY <1>4, <1>t, <2>1 DEF StartDrain, TypeOK, disk, counts, history, Pcs
  <2> QED BY <1>4, <1>t, <2>2 DEF Inv, StartDrain, HeldEntryStaysOnDisk
<1>5. CASE TakeEntry
  <2>1. Head(todo) \in Entries /\ Tail(todo) \in Seq(Entries)
    BY <1>5, <1>t DEF TakeEntry, TypeOK
  <2>2. TypeOK'
    BY <1>5, <1>t, <2>1 DEF TakeEntry, Fate, TypeOK, disk, counts, history, Pcs
  <2> QED BY <1>5, <1>t, <2>2 DEF Inv, TakeEntry, Fate, HeldEntryStaysOnDisk, disk
<1>6. CASE Deliver
  <2>1. TypeOK'
    BY <1>6, <1>t DEF Deliver, TypeOK, disk, counts, history, Pcs
  <2> QED BY <1>6, <1>t, <2>1 DEF Inv, Deliver, HeldEntryStaysOnDisk, disk
<1>7. CASE FinishEntry
  <2>1. cur \in Entries /\ pc \in Reasons /\ inflight = {cur}
    BY <1>7, <1>t DEF FinishEntry, HeldEntryStaysOnDisk, Reasons, TypeOK
  <2>2. (Return \/ Proceed) /\ inflight' = {}
    BY <1>7, <2>1 DEF FinishEntry
  <2>3. /\ pc' \in {"idle", "loop"} /\ todo' \in Seq(Entries)
        /\ cur' \in Entries \cup {0} /\ processed' \in Nat
    <3>1. CASE Return
      BY <3>1 DEF Return
    <3>2. CASE Proceed
      BY <1>t, <3>2 DEF Proceed, TypeOK
    <3> QED BY <2>2, <3>1, <3>2
  <2>4. CASE Remove(cur, pc)
    <3>1. TypeOK'
      <4>1. /\ files' = files \ {cur}
            /\ bad' \subseteq Entries /\ stale' \subseteq Entries
            /\ extra' \in [Entries -> Nat]
            /\ saved' \in [enqueued : Nat, total : [Reasons -> Nat]]
            /\ pending' \in Nat /\ enqueued' \in Nat /\ total' \in [Reasons -> Nat]
            /\ gone' \in [Entries -> Reasons \cup {None}]
        BY <1>t, <2>1, <2>4, RemoveKeepsTypes
      <4> QED BY <1>7, <1>t, <2>2, <2>3, <4>1 DEF FinishEntry, TypeOK, Pcs
    <3> QED BY <2>2, <2>3, <3>1 DEF Inv, HeldEntryStaysOnDisk
  <2>5. CASE UNCHANGED <<disk, counts, gone>>
    <3>1. TypeOK'
      BY <1>7, <1>t, <2>2, <2>3, <2>5 DEF FinishEntry, TypeOK, Pcs, disk, counts
    <3> QED BY <2>2, <2>3, <3>1 DEF Inv, HeldEntryStaysOnDisk
  <2> QED BY <1>7, <2>4, <2>5 DEF FinishEntry
<1>8. CASE RetryLater
  <2>1. cur \in files /\ cur \in Entries /\ inflight' = {} /\ pc' = "idle"
    BY <1>8, <1>t DEF RetryLater, HeldEntryStaysOnDisk, TypeOK, Return
  <2>2. extra' \in [Entries -> Nat]
    <3>1. \/ extra' = extra
          \/ \E g \in {0, 1} : extra' = [extra EXCEPT ![cur] = extra[cur] + g]
      BY <1>8 DEF RetryLater
    <3>2. extra[cur] \in Nat /\ extra[cur] + 1 \in Nat /\ extra[cur] + 0 \in Nat
      BY <1>t, <2>1 DEF TypeOK
    <3> QED BY <1>t, <3>1, <3>2 DEF TypeOK
  <2>3. saved' \in [enqueued : Nat, total : [Reasons -> Nat]]
    BY <1>8, <1>t DEF RetryLater, PersistStats, TypeOK
  <2>4. files' \subseteq Entries /\ bad' \subseteq Entries
    BY <1>8, <1>t, <2>1 DEF RetryLater, TypeOK
  <2>5. TypeOK'
    BY <1>8, <1>t, <2>1, <2>2, <2>3, <2>4
       DEF RetryLater, Return, TypeOK, history, Pcs
  <2> QED BY <2>1, <2>5 DEF Inv, HeldEntryStaysOnDisk
<1>9. CASE EndDrain
  <2>1. TypeOK'
    BY <1>9, <1>t DEF EndDrain, Return, TypeOK, disk, counts, history, Pcs
  <2> QED BY <1>9, <1>t, <2>1 DEF Inv, EndDrain, Return, HeldEntryStaysOnDisk
<1>10. ASSUME NEW n \in Entries, Age(n) \/ Damage(n) PROVE Inv'
  <2>1. TypeOK'
    BY <1>10, <1>t DEF Age, Damage, TypeOK, counts, drain, history
  <2> QED BY <1>10, <1>t, <2>1 DEF Inv, Age, Damage, HeldEntryStaysOnDisk, drain
<1>11. CASE Crash
  BY <1>11, <1>t, DieKeepsInv DEF Inv, Crash, TypeOK, disk
<1>12. ASSUME NEW n \in Entries, up, CrashInEnqueue(n) PROVE Inv'
  <2>1. files \cup {n} \in SUBSET Entries
    BY <1>12, <1>t DEF TypeOK
  <2>2. /\ files' \subseteq Entries /\ bad' \subseteq Entries /\ stale' \subseteq Entries
        /\ extra' \in [Entries -> Nat] /\ gone' \in [Entries -> Reasons \cup {None}]
    BY <1>12, <1>t, <2>1, DieInRetentionKeepsTypes DEF CrashInEnqueue
  <2> QED BY <1>12, <1>t, <2>2, DieKeepsInv DEF Inv, CrashInEnqueue, TypeOK
<1>13. ASSUME NEW n \in Entries, NEW r \in Reasons, CrashInRemoval(n, r) PROVE Inv'
  <2>1. /\ files' \subseteq Entries /\ bad' \subseteq Entries /\ stale' \subseteq Entries
        /\ extra' \in [Entries -> Nat] /\ gone' \in [Entries -> Reasons \cup {None}]
    BY <1>13, <1>t DEF CrashInRemoval, Forget, TypeOK
  <2> QED BY <1>13, <1>t, <2>1, DieKeepsInv DEF Inv, CrashInRemoval, TypeOK
<1>14. CASE ~up /\ Restart
  <2>1. Cardinality(files) \in Nat /\ files \in SUBSET Entries
    BY <1>t, EntrySetsAreFinite DEF TypeOK
  <2>2. PICK s \in {saved} \cup (IF DiskFaults THEN {ZeroStats} ELSE {}),
             stuck \in Stuck(files) :
          Retain(files, Cardinality(files), Bytes(files),
                 IF s.enqueued < Cardinality(files) THEN Cardinality(files) ELSE s.enqueued,
                 s.total, stuck)
    BY <1>14 DEF Restart
  <2>3. s \in [enqueued : Nat, total : [Reasons -> Nat]]
    BY <1>t, <2>2 DEF TypeOK, ZeroStats, ZeroTotals
  <2>4. /\ files' \subseteq files /\ files \cap inflight \subseteq files'
        /\ bad' \subseteq Entries /\ stale' \subseteq Entries
        /\ extra' \in [Entries -> Nat]
        /\ saved' \in [enqueued : Nat, total : [Reasons -> Nat]]
        /\ pending' \in Nat /\ enqueued' \in Nat /\ total' \in [Reasons -> Nat]
        /\ gone' \in [Entries -> Reasons \cup {None}]
    <3> DEFINE e == IF s.enqueued < Cardinality(files) THEN Cardinality(files) ELSE s.enqueued
    <3>1. e \in Nat /\ s.total \in [Reasons -> Nat]
      BY <2>1, <2>3
    <3> HIDE DEF e
    <3>2. Retain(files, Cardinality(files), Bytes(files), e, s.total, stuck)
      BY <2>2 DEF e
    <3> QED BY <1>t, <2>1, <3>1, <3>2, RetainKeepsTypes
  <2>5. TypeOK'
    BY <1>14, <1>t, <2>4 DEF Restart, TypeOK, drain
  <2> QED BY <1>14, <1>t, <2>4, <2>5 DEF Inv, Restart, HeldEntryStaysOnDisk, drain
<1>15. CASE ~up /\ CrashInRestart
  <2>1. /\ files' \subseteq Entries /\ bad' \subseteq Entries /\ stale' \subseteq Entries
        /\ extra' \in [Entries -> Nat] /\ gone' \in [Entries -> Reasons \cup {None}]
    BY <1>15, <1>t, DieInRetentionKeepsTypes DEF CrashInRestart, TypeOK
  <2> QED BY <1>15, <1>t, <2>1, DieKeepsInv DEF Inv, CrashInRestart, TypeOK
<1>16. CASE UNCHANGED vars
  BY <1>16, <1>t DEF Inv, TypeOK, HeldEntryStaysOnDisk, vars, disk, counts, drain, history
<1>17. "delivered" \in Reasons /\ "permanent" \in Reasons
  BY DEF Reasons
<1> QED
  BY <1>1, <1>2, <1>3, <1>4, <1>5, <1>6, <1>7, <1>8, <1>9, <1>10, <1>11, <1>12,
     <1>13, <1>14, <1>15, <1>16, <1>17 DEF Next, EnqueuePriority, New, Acknowledge, Reject

LEMMA InvAlways == Spec => []Inv
BY InvInit, InvNext, PTL DEF Spec

\* The backlog's state is well typed, whatever fails and whenever it crashes.
THEOREM TypeCorrect == Spec => []TypeOK
<1>1. Inv => TypeOK
  BY DEF Inv
<1> QED BY <1>1, InvAlways, PTL

\* The entry a drain is delivering stays on disk until its outcome is recorded,
\* whatever retention the enqueues of other goroutines run meanwhile.
THEOREM HeldEntryIsSafe == Spec => []HeldEntryStaysOnDisk
<1>1. Inv => HeldEntryStaysOnDisk
  BY DEF Inv
<1> QED BY <1>1, InvAlways, PTL

-----------------------------------------------------------------------------

\* A name that was never written has no file and no fate.
Fresh == \A n \in Entries \ used : n \notin files /\ gone[n] = None

LEMMA FreshNext == Inv /\ Fresh /\ [Next]_vars => Fresh'
<1> SUFFICES ASSUME Inv, Fresh, [Next]_vars PROVE Fresh'
  OBVIOUS
<1>t. TypeOK /\ HeldEntryStaysOnDisk
  BY DEF Inv
<1>v. ASSUME NEW F, NEW b, NEW stuck, NEW D \in SUBSET Victims(F, b, stuck)
      PROVE  D \subseteq F
  BY VictimsAreFiles
<1>b. ASSUME NEW F, NEW b, NEW stuck
      PROVE  \A n \in Entries \ F : Buried(F, b, stuck)[n] = gone[n]
  BY VictimsAreFiles DEF Buried
<1>1. ASSUME NEW n \in Entries, up, Enqueue(n) PROVE Fresh'
  <2>1. PICK stuck \in Stuck(files \cup {n}) :
          Retain(files \cup {n}, pending + 1, bytes + Size[n], enqueued + 1, total, stuck)
    BY <1>1 DEF Enqueue
  <2>2. /\ files' \subseteq files \cup {n} /\ used' = used \cup {n}
        /\ gone' = Buried(files \cup {n}, bytes + Size[n], stuck)
    BY <1>1, <2>1 DEF Enqueue, Retain
  <2>3. \A m \in Entries \ (files \cup {n}) : gone'[m] = gone[m]
    BY <1>b, <2>2
  <2> QED BY <2>2, <2>3 DEF Fresh
<1>2. ASSUME NEW n \in Entries, up, EnqueueFails(n) PROVE Fresh'
  BY <1>2 DEF EnqueueFails, Fresh
<1>3. ASSUME NEW n \in Entries, NEW r \in Reasons, RemoveEnvelope(n, r) PROVE Fresh'
  BY <1>3, <1>t DEF RemoveEnvelope, Remove, Fresh, TypeOK, disk
<1>4. CASE StartDrain \/ TakeEntry \/ Deliver \/ EndDrain
  BY <1>4 DEF StartDrain, TakeEntry, Deliver, EndDrain, Fresh, disk, history
<1>5. CASE FinishEntry
  <2>1. cur \in files
    BY <1>5, <1>t DEF FinishEntry, HeldEntryStaysOnDisk, Reasons
  <2> QED BY <1>5, <1>t, <2>1 DEF FinishEntry, Remove, Fresh, TypeOK, disk
<1>6. CASE RetryLater
  <2>1. cur \in files
    BY <1>6, <1>t DEF RetryLater, HeldEntryStaysOnDisk
  <2> QED BY <1>6, <2>1 DEF RetryLater, Fresh, history
<1>7. ASSUME NEW n \in Entries, Age(n) \/ Damage(n) PROVE Fresh'
  BY <1>7 DEF Age, Damage, Fresh, history
<1>8. CASE Crash
  BY <1>8 DEF Crash, Fresh, disk
<1>9. ASSUME NEW n \in Entries, up, CrashInEnqueue(n) PROVE Fresh'
  <2>1. PICK D \in SUBSET Victims(files \cup {n}, bytes + Size[n], {}) :
          /\ files' = (files \cup {n}) \ D
          /\ gone' = [m \in Entries |-> IF m \in D
                        THEN Buried(files \cup {n}, bytes + Size[n], {})[m] ELSE gone[m]]
    BY <1>9 DEF CrashInEnqueue, DieInRetention
  <2>2. D \subseteq files \cup {n} /\ used' = used \cup {n}
    BY <1>9, <1>v DEF CrashInEnqueue
  <2> QED BY <2>1, <2>2 DEF Fresh
<1>10. ASSUME NEW n \in Entries, NEW r \in Reasons, CrashInRemoval(n, r) PROVE Fresh'
  BY <1>10, <1>t DEF CrashInRemoval, Fresh, TypeOK
<1>11. CASE ~up /\ Restart
  <2>1. PICK p, b, e, t, stuck : Retain(files, p, b, e, t, stuck)
    BY <1>11 DEF Restart
  <2>2. /\ files' \subseteq files /\ used' = used /\ gone' = Buried(files, b, stuck)
    BY <1>11, <2>1 DEF Restart, Retain
  <2>3. \A m \in Entries \ files : gone'[m] = gone[m]
    BY <1>b, <2>2
  <2> QED BY <2>2, <2>3 DEF Fresh
<1>12. CASE ~up /\ CrashInRestart
  <2>1. PICK D \in SUBSET Victims(files, Bytes(files), {}) :
          /\ files' = files \ D
          /\ gone' = [m \in Entries |-> IF m \in D
                        THEN Buried(files, Bytes(files), {})[m] ELSE gone[m]]
    BY <1>12 DEF CrashInRestart, DieInRetention
  <2>2. D \subseteq files /\ used' = used
    BY <1>12, <1>v DEF CrashInRestart
  <2> QED BY <2>1, <2>2 DEF Fresh
<1>13. CASE UNCHANGED vars
  BY <1>13 DEF Fresh, vars, disk, history
<1>14. "delivered" \in Reasons /\ "permanent" \in Reasons
  BY DEF Reasons
<1> QED
  BY <1>1, <1>2, <1>3, <1>4, <1>5, <1>6, <1>7, <1>8, <1>9, <1>10, <1>11, <1>12,
     <1>13, <1>14 DEF Next, EnqueuePriority, New, Acknowledge, Reject

LEMMA FreshAlways == Spec => [](Inv /\ Fresh)
<1>1. Init => Fresh
  BY DEF Init, Fresh
<1> QED BY <1>1, InvInit, InvNext, FreshNext, PTL DEF Spec

-----------------------------------------------------------------------------

\* The abstract queue after a retention pass over F that removed D.
LEMMA AfterRetention ==
  ASSUME TypeOK, NEW F \in SUBSET Entries, NEW D \in SUBSET F,
         files' = F \ D,
         \A n \in D : gone'[n] \in {"expired", "capacity"},
         \A n \in Entries \ D : gone'[n] = gone[n]
  PROVE  /\ QueueStatus' \in [Entries -> Queue!Statuses]
         /\ \A n \in F : QueueStatus'[n] \in {"queued"} \cup Queue!Retention
         /\ \A n \in Entries \ F : n \notin files => QueueStatus'[n] = QueueStatus[n]
<1>2. \A n \in F : QueueStatus'[n] \in {"queued"} \cup Queue!Retention
  BY DEF QueueStatus, Queue!Retention, None
<1>3. \A n \in Entries \ F : n \notin files => QueueStatus'[n] = QueueStatus[n]
  BY DEF QueueStatus
<1>4. QueueStatus' \in [Entries -> Queue!Statuses]
  BY <1>2 DEF TypeOK, QueueStatus, Queue!Statuses, Queue!Reasons, Queue!Retention,
                    Reasons, None
<1> QED BY <1>2, <1>3, <1>4

\* The abstract queue after a retention pass that ran to its end.
LEMMA AfterRetain ==
  ASSUME TypeOK, NEW F \in SUBSET Entries, NEW p, NEW b, NEW e, NEW t, NEW stuck,
         Retain(F, p, b, e, t, stuck)
  PROVE  /\ QueueStatus' \in [Entries -> Queue!Statuses]
         /\ \A n \in F : QueueStatus'[n] \in {"queued"} \cup Queue!Retention
         /\ \A n \in Entries \ F : n \notin files => QueueStatus'[n] = QueueStatus[n]
<1> DEFINE D == Victims(F, b, stuck)
<1>1. files' = F \ D
  BY DEF Retain
<1>2. D \in SUBSET F
  BY VictimsAreFiles
<1>3. /\ \A n \in D : gone'[n] \in {"expired", "capacity"}
      /\ \A n \in Entries \ D : gone'[n] = gone[n]
  BY <1>2 DEF Retain, Buried, Victims
<1> HIDE DEF D
<1> QED BY <1>1, <1>2, <1>3, AfterRetention

\* The removal of one file is one settled entry of the abstract queue.
LEMMA RemovalSettles ==
  ASSUME TypeOK, NEW n \in files, NEW r \in Reasons, files' = files \ {n},
         gone' = [gone EXCEPT ![n] = r]
  PROVE  Queue!Settle(n, r)
<1>1. n \in Entries /\ r # None
  BY DEF TypeOK, Reasons, None
<1>2. QueueStatus[n] = "queued"
  BY <1>1 DEF QueueStatus
<1>3. QueueStatus' = [QueueStatus EXCEPT ![n] = r]
  BY <1>1 DEF QueueStatus, TypeOK
<1> QED BY <1>2, <1>3 DEF Queue!Settle

LEMMA QueueStep == Inv /\ Fresh /\ [Next]_vars => [Queue!QNext]_QueueStatus
<1> SUFFICES ASSUME Inv, Fresh, [Next]_vars
             PROVE  Queue!QNext \/ UNCHANGED QueueStatus
  OBVIOUS
<1>t. TypeOK /\ HeldEntryStaysOnDisk
  BY DEF Inv
<1>r. Reasons = Queue!Reasons
  BY DEF Reasons, Queue!Reasons
<1>q. ASSUME UNCHANGED <<files, gone>> PROVE UNCHANGED QueueStatus
  BY <1>q DEF QueueStatus
<1>s. ASSUME NEW n \in files, NEW r \in Reasons, Queue!Settle(n, r) PROVE Queue!QNext
  BY <1>s, <1>t, <1>r DEF Queue!QNext, TypeOK
\* Storing n: n becomes queued or is evicted, the others are kept or trimmed.
<1>e. ASSUME NEW n \in Entries, n \notin used,
             QueueStatus' \in [Entries -> Queue!Statuses],
             \A m \in files \cup {n} : QueueStatus'[m] \in {"queued"} \cup Queue!Retention,
             \A m \in Entries \ (files \cup {n}) :
                m \notin files => QueueStatus'[m] = QueueStatus[m]
      PROVE  Queue!QNext
  <2>1. QueueStatus[n] = "absent"
    BY <1>e DEF QueueStatus, Fresh
  <2>2. \A m \in files : QueueStatus[m] = "queued"
    BY <1>t DEF QueueStatus, TypeOK
  <2>3. \A m \in Entries \ {n} : Queue!TrimmedOrKept(m)
    BY <1>e, <2>2 DEF Queue!TrimmedOrKept
  <2> QED BY <1>e, <2>1, <2>3 DEF Queue!QNext, Queue!Store
\* Retention at start: entries are kept or trimmed.
<1>k. ASSUME QueueStatus' \in [Entries -> Queue!Statuses],
             \A m \in files : QueueStatus'[m] \in {"queued"} \cup Queue!Retention,
             \A m \in Entries \ files : m \notin files => QueueStatus'[m] = QueueStatus[m]
      PROVE  Queue!QNext
  <2>1. \A m \in files : QueueStatus[m] = "queued"
    BY <1>t DEF QueueStatus, TypeOK
  <2>2. \A m \in Entries : Queue!TrimmedOrKept(m)
    BY <1>k, <2>1 DEF Queue!TrimmedOrKept
  <2> QED BY <1>k, <2>2 DEF Queue!QNext, Queue!Trim
<1>1. ASSUME NEW n \in Entries, up, Enqueue(n) PROVE Queue!QNext
  <2>1. PICK stuck \in Stuck(files \cup {n}) :
          Retain(files \cup {n}, pending + 1, bytes + Size[n], enqueued + 1, total, stuck)
    BY <1>1 DEF Enqueue
  <2>2. n \notin used /\ files \cup {n} \in SUBSET Entries
    BY <1>1, <1>t DEF Enqueue, TypeOK
  <2> QED BY <1>t, <1>e, <2>1, <2>2, AfterRetain
<1>2. ASSUME NEW n \in Entries, up, EnqueueFails(n) PROVE Queue!QNext \/ UNCHANGED QueueStatus
  <2>1. CASE files' = files
    BY <1>2, <1>q, <2>1 DEF EnqueueFails
  <2>2. CASE files' = files \cup {n}
    <3>1. gone' = gone /\ n \notin used /\ n \notin files /\ gone[n] = None
      BY <1>2 DEF EnqueueFails, Fresh
    <3>2. QueueStatus' \in [Entries -> Queue!Statuses]
      BY <1>t, <2>2, <3>1 DEF QueueStatus, Queue!Statuses, Queue!Reasons, Reasons, TypeOK, None
    <3>3. /\ \A m \in files \cup {n} : QueueStatus'[m] = "queued"
          /\ \A m \in Entries \ (files \cup {n}) : QueueStatus'[m] = QueueStatus[m]
      BY <1>t, <2>2, <3>1 DEF QueueStatus, TypeOK
    <3> QED BY <1>e, <3>1, <3>2, <3>3
  <2> QED BY <1>2, <2>1, <2>2 DEF EnqueueFails
<1>3. ASSUME NEW n \in Entries, NEW r \in Reasons, RemoveEnvelope(n, r)
      PROVE Queue!QNext \/ UNCHANGED QueueStatus
  <2>1. CASE n \in files \ bad /\ Remove(n, r)
    BY <1>t, <1>s, <2>1, RemovalSettles DEF Remove
  <2>2. CASE UNCHANGED <<disk, counts, gone>>
    BY <1>q, <2>2 DEF disk
  <2> QED BY <1>3, <2>1, <2>2 DEF RemoveEnvelope
<1>4. CASE StartDrain \/ TakeEntry \/ Deliver \/ EndDrain
  BY <1>4, <1>q DEF StartDrain, TakeEntry, Deliver, EndDrain, disk, history
<1>5. CASE FinishEntry
  <2>1. cur \in files /\ pc \in Reasons
    BY <1>5, <1>t DEF FinishEntry, HeldEntryStaysOnDisk, Reasons
  <2>2. CASE Remove(cur, pc)
    BY <1>t, <1>s, <2>1, <2>2, RemovalSettles DEF Remove
  <2>3. CASE UNCHANGED <<disk, counts, gone>>
    BY <1>q, <2>3 DEF disk
  <2> QED BY <1>5, <2>2, <2>3 DEF FinishEntry
<1>6. CASE RetryLater
  <2>1. cur \in files
    BY <1>6, <1>t DEF RetryLater, HeldEntryStaysOnDisk
  <2>2. UNCHANGED <<files, gone>>
    BY <1>6, <2>1 DEF RetryLater, history
  <2> QED BY <1>q, <2>2
<1>7. ASSUME NEW n \in Entries, Age(n) \/ Damage(n) PROVE UNCHANGED QueueStatus
  BY <1>7, <1>q DEF Age, Damage, history
<1>8. CASE Crash
  BY <1>8, <1>q DEF Crash, disk
<1>9. ASSUME NEW n \in Entries, up, CrashInEnqueue(n) PROVE Queue!QNext
  <2>1. n \notin used /\ files \cup {n} \in SUBSET Entries
    BY <1>9, <1>t DEF CrashInEnqueue, TypeOK
  <2>2. PICK D \in SUBSET (files \cup {n}) :
          /\ files' = (files \cup {n}) \ D
          /\ \A m \in D : gone'[m] \in {"expired", "capacity"}
          /\ \A m \in Entries \ D : gone'[m] = gone[m]
    <3>1. PICK D \in SUBSET Victims(files \cup {n}, bytes + Size[n], {}) :
            /\ files' = (files \cup {n}) \ D
            /\ gone' = [m \in Entries |-> IF m \in D
                          THEN Buried(files \cup {n}, bytes + Size[n], {})[m] ELSE gone[m]]
      BY <1>9 DEF CrashInEnqueue, DieInRetention
    <3>2. D \subseteq files \cup {n}
      BY VictimsAreFiles
    <3> QED BY <2>1, <3>1, <3>2 DEF Buried, Victims
  <2>3. /\ QueueStatus' \in [Entries -> Queue!Statuses]
        /\ \A m \in files \cup {n} : QueueStatus'[m] \in {"queued"} \cup Queue!Retention
        /\ \A m \in Entries \ (files \cup {n}) :
             m \notin files => QueueStatus'[m] = QueueStatus[m]
    BY <1>t, <2>1, <2>2, AfterRetention
  <2> QED BY <1>e, <2>1, <2>3
<1>10. ASSUME NEW n \in Entries, NEW r \in Reasons, CrashInRemoval(n, r) PROVE Queue!QNext
  BY <1>10, <1>t, <1>s, RemovalSettles DEF CrashInRemoval
<1>11. CASE ~up /\ Restart
  <2>1. PICK p, b, e, t, stuck : Retain(files, p, b, e, t, stuck)
    BY <1>11 DEF Restart
  <2>2. files \in SUBSET Entries
    BY <1>t DEF TypeOK
  <2> QED BY <1>t, <1>k, <2>1, <2>2, AfterRetain
<1>12. CASE ~up /\ CrashInRestart
  <2>2. files \in SUBSET Entries
    BY <1>t DEF TypeOK
  <2>1. PICK D \in SUBSET files :
          /\ files' = files \ D
          /\ \A m \in D : gone'[m] \in {"expired", "capacity"}
          /\ \A m \in Entries \ D : gone'[m] = gone[m]
    <3>1. PICK D \in SUBSET Victims(files, Bytes(files), {}) :
            /\ files' = files \ D
            /\ gone' = [m \in Entries |-> IF m \in D
                          THEN Buried(files, Bytes(files), {})[m] ELSE gone[m]]
      BY <1>12 DEF CrashInRestart, DieInRetention
    <3>2. D \subseteq files
      BY VictimsAreFiles
    <3> QED BY <2>2, <3>1, <3>2 DEF Buried, Victims
  <2>3. /\ QueueStatus' \in [Entries -> Queue!Statuses]
        /\ \A m \in files : QueueStatus'[m] \in {"queued"} \cup Queue!Retention
        /\ \A m \in Entries \ files : m \notin files => QueueStatus'[m] = QueueStatus[m]
    BY <1>t, <2>1, <2>2, AfterRetention
  <2> QED BY <1>k, <2>3
<1>13. CASE UNCHANGED vars
  BY <1>13, <1>q DEF vars, disk, history
<1>14. "delivered" \in Reasons /\ "permanent" \in Reasons
  BY DEF Reasons
<1> QED
  BY <1>1, <1>2, <1>3, <1>4, <1>5, <1>6, <1>7, <1>8, <1>9, <1>10, <1>11, <1>12,
     <1>13, <1>14 DEF Next, EnqueuePriority, New, Acknowledge, Reject

\* The directory and the code that works on it implement the abstract queue:
\* an entry leaves for exactly one reason and never comes back, whatever disk
\* operation fails and wherever the process crashes.
THEOREM SpoolImplementsQueue == Spec => ImplementsQueue
<1>1. Init => Queue!QInit
  BY DEF Init, Queue!QInit, QueueStatus
<1> QED BY <1>1, FreshAlways, QueueStep, PTL DEF Spec, ImplementsQueue, Queue!QSpec
-----------------------------------------------------------------------------

\* Counting the files a pass removes.
LEMMA RemovedFilesAreCounted ==
  ASSUME NEW F \in SUBSET Entries, NEW D \in SUBSET F
  PROVE  LessPending(Cardinality(F), D) = Cardinality(F \ D)
<1>1. Cardinality(F) \in Nat /\ Cardinality(D) \in Nat /\ Cardinality(F \ D) \in Nat
  BY EntrySetsAreFinite
<1>2. Cardinality(F \ D) = Cardinality(F) - Cardinality(F \cap D)
  BY EntrySetsAreFinite, FS_Difference
<1>3. F \cap D = D
  OBVIOUS
<1>4. Cardinality(F \ D) = Cardinality(F) - Cardinality(D)
  BY <1>2, <1>3, Zenon
<1>5. LessPending(Cardinality(F), D) = Clamp(Cardinality(F) - Cardinality(D))
  BY DEF LessPending
<1>6. ASSUME NEW x \in Nat PROVE Clamp(x) = x
  BY <1>6 DEF Clamp
<1> QED BY <1>1, <1>4, <1>5, <1>6

LEMMA PendingNext ==
  ASSUME DiskFaults = FALSE
  PROVE  Inv /\ Fresh /\ PendingMatchesFiles /\ [Next]_vars => PendingMatchesFiles'
<1> SUFFICES ASSUME Inv, Fresh, PendingMatchesFiles, [Next]_vars
             PROVE  PendingMatchesFiles'
  OBVIOUS
<1>t. TypeOK /\ HeldEntryStaysOnDisk
  BY DEF Inv
<1>f. files \in SUBSET Entries /\ IsFiniteSet(files)
  BY <1>t, EntrySetsAreFinite DEF TypeOK
<1>r. ASSUME NEW F \in SUBSET Entries, NEW b, NEW e, NEW t, NEW stuck,
             Retain(F, Cardinality(F), b, e, t, stuck)
      PROVE  pending' = Cardinality(files')
  <2> DEFINE D == Victims(F, b, stuck)
  <2>1. D \in SUBSET F
    BY VictimsAreFiles
  <2>2. files' = F \ D /\ pending' = LessPending(Cardinality(F), D)
    BY <1>r DEF Retain
  <2> HIDE DEF D
  <2> QED BY <2>1, <2>2, RemovedFilesAreCounted
<1>m. ASSUME up, NEW n \in files, NEW r, Remove(n, r) PROVE pending' = Cardinality(files')
  <2>1. files' = files \ {n} /\ pending' = LessPending(pending, {n})
    BY <1>m DEF Remove
  <2>2. pending = Cardinality(files) /\ {n} \in SUBSET files
    BY <1>m DEF PendingMatchesFiles
  <2> QED BY <1>f, <2>1, <2>2, RemovedFilesAreCounted
<1>u. ASSUME UNCHANGED <<up, pending, files>> PROVE PendingMatchesFiles'
  BY <1>u DEF PendingMatchesFiles
<1>d. ASSUME ~up' PROVE PendingMatchesFiles'
  BY <1>d DEF PendingMatchesFiles
<1>1. ASSUME NEW n \in Entries, up, Enqueue(n) PROVE PendingMatchesFiles'
  <2>1. PICK stuck \in Stuck(files \cup {n}) :
          Retain(files \cup {n}, pending + 1, bytes + Size[n], enqueued + 1, total, stuck)
    BY <1>1 DEF Enqueue
  <2>2. n \notin files /\ pending = Cardinality(files)
    BY <1>1 DEF Enqueue, Fresh, PendingMatchesFiles
  <2>3. pending + 1 = Cardinality(files \cup {n}) /\ files \cup {n} \in SUBSET Entries
    BY <1>f, <1>1, <2>2, FS_AddElement
  <2>4. pending' = Cardinality(files')
    BY <1>r, <2>1, <2>3
  <2> QED BY <2>4 DEF PendingMatchesFiles
<1>2. ASSUME NEW n \in Entries, up, EnqueueFails(n) PROVE PendingMatchesFiles'
  BY <1>2 DEF EnqueueFails
<1>3. ASSUME NEW n \in Entries, NEW r \in Reasons, RemoveEnvelope(n, r)
      PROVE  PendingMatchesFiles'
  <2>1. CASE n \in files \ bad /\ Remove(n, r)
    BY <1>3, <1>m, <2>1 DEF RemoveEnvelope, PendingMatchesFiles
  <2>2. CASE UNCHANGED <<disk, counts, gone>>
    BY <1>3, <1>u, <2>2 DEF RemoveEnvelope, disk, counts
  <2> QED BY <1>3, <2>1, <2>2 DEF RemoveEnvelope
<1>4. CASE StartDrain \/ TakeEntry \/ Deliver \/ EndDrain
  BY <1>4, <1>u DEF StartDrain, TakeEntry, Deliver, EndDrain, disk, counts
<1>5. CASE FinishEntry
  <2>1. cur \in files /\ up /\ Remove(cur, pc)
    BY <1>5, <1>t DEF FinishEntry, HeldEntryStaysOnDisk, Reasons
  <2>2. pending' = Cardinality(files')
    BY <1>m, <2>1
  <2> QED BY <2>2 DEF PendingMatchesFiles
<1>6. CASE RetryLater
  <2>1. cur \in files
    BY <1>6, <1>t DEF RetryLater, HeldEntryStaysOnDisk
  <2>2. UNCHANGED <<up, pending, files>>
    BY <1>6, <2>1 DEF RetryLater
  <2> QED BY <1>u, <2>2
<1>7. ASSUME NEW n \in Entries, Age(n) \/ Damage(n) PROVE PendingMatchesFiles'
  BY <1>7, <1>u DEF Age, Damage, counts
<1>8. CASE Crash \/ CrashInRestart
  BY <1>8, <1>d DEF Crash, CrashInRestart, Die
<1>9. ASSUME NEW n \in Entries,
             CrashInEnqueue(n) \/ \E r \in Reasons : CrashInRemoval(n, r)
      PROVE  PendingMatchesFiles'
  BY <1>9, <1>d DEF CrashInEnqueue, CrashInRemoval, Die
<1>10. CASE ~up /\ Restart
  <2>1. PICK b, e, t, stuck : Retain(files, Cardinality(files), b, e, t, stuck)
    BY <1>10 DEF Restart
  <2>2. pending' = Cardinality(files')
    BY <1>f, <1>r, <2>1
  <2> QED BY <2>2 DEF PendingMatchesFiles
<1>11. CASE UNCHANGED vars
  BY <1>11, <1>u DEF vars, disk, counts
<1>12. "delivered" \in Reasons /\ "permanent" \in Reasons
  BY DEF Reasons
<1> QED
  BY <1>1, <1>2, <1>3, <1>4, <1>5, <1>6, <1>7, <1>8, <1>9, <1>10, <1>11, <1>12
     DEF Next, EnqueuePriority, New, Acknowledge, Reject

\* As long as no file operation fails, the pending counter on which Flush
\* decides whether there is anything to send is the number of entry files, for
\* any number of entries and crashes.
THEOREM PendingIsExact ==
  ASSUME DiskFaults = FALSE
  PROVE  Spec => []PendingMatchesFiles
<1>1. Init => PendingMatchesFiles
  BY FS_EmptySet DEF Init, PendingMatchesFiles
<1>2. Inv /\ Fresh /\ PendingMatchesFiles /\ [Next]_vars => PendingMatchesFiles'
  BY PendingNext
<1> QED BY <1>1, <1>2, FreshAlways, PTL DEF Spec

-----------------------------------------------------------------------------
(* The byte counter. *)

\* The sizes of the entries when they have gained y[n] bytes each, and what
\* they add up to.
Sizes(y)         == [n \in Entries |-> Size[n] + y[n]]
GrownBytes(y, S) == MapThenSumSet(LAMBDA n : Size[n] + y[n], S)

LEMMA GrownBytesIsSum ==
  ASSUME NEW y, NEW S \in SUBSET Entries
  PROVE  GrownBytes(y, S) = Sum(Sizes(y), S)
<1>f. IsFiniteSet(S)
  BY EntriesAssumption, FS_Subset
<1> DEFINE f == Sizes(y)
<1> DEFINE iter[s \in SUBSET S] ==
             IF s = {} THEN 0
             ELSE LET x == CHOOSE x \in s : TRUE IN (Size[x] + y[x]) + iter[s \ {x}]
           Eq(g) == g = [s \in SUBSET S |->
                         IF s = {} THEN 0
                         ELSE LET x == CHOOSE x \in s : TRUE IN (Size[x] + y[x]) + g[s \ {x}]]
<1>1. GrownBytes(y, S) = iter[S]
  BY DEF GrownBytes, MapThenSumSet, MapThenFoldSet
<1>2. ASSUME NEW g PROVE Sums(f, S, g) <=> Eq(g)
  <2>1. ASSUME NEW s \in SUBSET S, s # {} PROVE f[Pick(s)] = Size[Pick(s)] + y[Pick(s)]
    BY <2>1, PickIn DEF Sizes
  <2> QED BY <2>1 DEF Sums, Pick
<1>3. iter = CHOOSE g : Eq(g)
  OBVIOUS
<1> HIDE DEF Eq, iter, f
<1>4. \E g : Eq(g)
  <2>1. PICK g : Sums(f, S, g)
    BY <1>f, SumsExist
  <2> QED BY <1>2, <2>1
<1>5. Eq(iter)
  BY <1>3, <1>4, Zenon
<1> QED BY <1>1, <1>2, <1>5, <1>f, SumOfSubsets DEF f

LEMMA BytesIsSum ==
  ASSUME NEW S \in SUBSET Entries
  PROVE  Bytes(S) = Sum(Sizes(extra), S)
<1>1. Bytes(S) = GrownBytes(extra, S)
  BY DEF Bytes, SizeOf, GrownBytes
<1> QED BY <1>1, GrownBytesIsSum

LEMMA BytesIsSumNext ==
  ASSUME files' \in SUBSET Entries
  PROVE  Bytes(files)' = Sum(Sizes(extra'), files')
<1>1. Bytes(files)' = GrownBytes(extra', files')
  BY DEF Bytes, SizeOf, GrownBytes, MapThenSumSet, MapThenFoldSet
<1> QED BY <1>1, GrownBytesIsSum

LEMMA SizesAreNat ==
  ASSUME NEW y \in [Entries -> Nat], NEW S \in SUBSET Entries
  PROVE  \A n \in S : Sizes(y)[n] \in Nat /\ Size[n] \in Nat /\ Size[n] <= Sizes(y)[n]
BY SizeAssumption DEF Sizes

\* The sum of the sizes of what a removal leaves is what the counter shows.
LEMMA RemovedBytesAreCounted ==
  ASSUME TypeOK, NEW F \in SUBSET Entries, NEW D \in SUBSET F
  PROVE  /\ LessBytes(Sum(Sizes(extra), F), D) = Sum(Sizes(extra), F \ D)
         /\ Sum(Sizes(extra), F \ D) = Sum(Sizes(extra), F) - Bytes(D)
<1>1. IsFiniteSet(F) /\ IsFiniteSet(F \ D) /\ \A n \in F : Sizes(extra)[n] \in Nat
  BY EntrySetsAreFinite, SizesAreNat DEF TypeOK
<1>2. Sum(Sizes(extra), F) = Sum(Sizes(extra), D) + Sum(Sizes(extra), F \ D)
  BY <1>1, SumSplit
<1>3. /\ Sum(Sizes(extra), D) \in Nat /\ Sum(Sizes(extra), F \ D) \in Nat
      /\ Sum(Sizes(extra), F) \in Nat
  <2>1. F \ D \in SUBSET F /\ F \in SUBSET F
    OBVIOUS
  <2> QED BY <1>1, <2>1, SumSubset
<1>4. Bytes(D) = Sum(Sizes(extra), D)
  BY BytesIsSum
<1>5. ASSUME NEW x \in Nat PROVE Clamp(x) = x
  BY <1>5 DEF Clamp
<1>6. Sum(Sizes(extra), F) - Bytes(D) = Sum(Sizes(extra), F \ D)
  BY <1>2, <1>3, <1>4
<1> QED BY <1>3, <1>5, <1>6 DEF LessBytes

\* A new entry adds the size it is written with.
LEMMA NewEntryIsCounted ==
  ASSUME TypeOK, NEW n \in Entries, n \notin files, extra[n] = 0
  PROVE  Sum(Sizes(extra), files) + Size[n] = Sum(Sizes(extra), files \cup {n})
<1>1. /\ (files \cup {n}) \ {n} = files /\ IsFiniteSet(files \cup {n}) /\ IsFiniteSet(files)
      /\ files \cup {n} \in SUBSET Entries
  BY EntrySetsAreFinite DEF TypeOK
<1>2. /\ \A m \in files \cup {n} : Sizes(extra)[m] \in Nat
      /\ Sizes(extra)[n] = Size[n] /\ Size[n] \in Nat
  BY <1>1, SizesAreNat, SizeAssumption DEF Sizes, TypeOK
<1>3. Sum(Sizes(extra), files \cup {n}) = Sizes(extra)[n] + Sum(Sizes(extra), (files \cup {n}) \ {n})
  BY <1>1, <1>2, SumRemove
<1>4. Sum(Sizes(extra), (files \cup {n}) \ {n}) = Sum(Sizes(extra), files)
  BY <1>1, Zenon
<1>5. Sum(Sizes(extra), files) \in Nat
  BY <1>1, <1>2, SumType
<1> QED BY <1>2, <1>3, <1>4, <1>5

\* An entry gains bytes by retries only, and loses them with its file.
GrowthIsOfFiles == \A n \in Entries \ files : extra[n] = 0

LEMMA BytesNext ==
  ASSUME DiskFaults = FALSE
  PROVE  Inv /\ Fresh /\ GrowthIsOfFiles /\ BytesMatchFiles /\ [Next]_vars
           => (GrowthIsOfFiles /\ BytesMatchFiles)'
<1> SUFFICES ASSUME Inv, Fresh, GrowthIsOfFiles, BytesMatchFiles, [Next]_vars
             PROVE  (GrowthIsOfFiles /\ BytesMatchFiles)'
  OBVIOUS
<1>t. TypeOK /\ HeldEntryStaysOnDisk /\ TypeOK'
  BY InvNext DEF Inv
<1>f. /\ files \in SUBSET Entries /\ files' \in SUBSET Entries
      /\ extra \in [Entries -> Nat] /\ extra' \in [Entries -> Nat]
  BY <1>t DEF TypeOK
<1>b. Bytes(files) = Sum(Sizes(extra), files) /\ Bytes(files)' = Sum(Sizes(extra'), files')
  BY <1>f, BytesIsSum, BytesIsSumNext
\* Sizes count for the files that are there only.
<1>s. ASSUME NEW S \in SUBSET Entries, \A n \in S : extra'[n] = extra[n]
      PROVE  Sum(Sizes(extra'), S) = Sum(Sizes(extra), S)
  <2>1. IsFiniteSet(S) /\ \A n \in S : Sizes(extra')[n] = Sizes(extra)[n]
    BY <1>s, EntrySetsAreFinite DEF Sizes
  <2> QED BY <2>1, SumSame
\* A pass that removes the files of D from directory contents F.
<1>d. ASSUME NEW F \in SUBSET Entries, NEW D \in SUBSET F, files' = F \ D, Forget(D),
             \A n \in Entries \ F : extra[n] = 0
      PROVE  GrowthIsOfFiles' /\ Bytes(files)' = Sum(Sizes(extra), F \ D)
  <2>1. /\ \A n \in D : extra'[n] = 0
        /\ \A n \in Entries \ D : extra'[n] = extra[n]
    BY <1>d DEF Forget
  <2>2. GrowthIsOfFiles'
    BY <1>d, <2>1 DEF GrowthIsOfFiles
  <2> QED BY <1>b, <1>d, <1>s, <2>1, <2>2
<1>r. ASSUME NEW F \in SUBSET Entries, NEW p, NEW b, NEW e, NEW t, NEW stuck,
             b = Sum(Sizes(extra), F), Retain(F, p, b, e, t, stuck),
             \A n \in Entries \ F : extra[n] = 0
      PROVE  (GrowthIsOfFiles /\ BytesMatchFiles)'
  <2> DEFINE D == Victims(F, b, stuck)
  <2>1. D \in SUBSET F
    BY VictimsAreFiles
  <2>2. files' = F \ D /\ Forget(D) /\ bytes' = LessBytes(b, D)
    BY <1>r DEF Retain
  <2> HIDE DEF D
  <2>3. GrowthIsOfFiles' /\ Bytes(files)' = Sum(Sizes(extra), F \ D)
    BY <1>d, <1>r, <2>1, <2>2
  <2>4. bytes' = Sum(Sizes(extra), F \ D)
    BY <1>r, <1>t, <2>1, <2>2, RemovedBytesAreCounted
  <2> QED BY <2>3, <2>4 DEF BytesMatchFiles
<1>m. ASSUME up, NEW n \in files, NEW r, Remove(n, r)
      PROVE  (GrowthIsOfFiles /\ BytesMatchFiles)'
  <2>1. files' = files \ {n} /\ Forget({n}) /\ bytes' = LessBytes(bytes, {n})
        /\ bytes = Sum(Sizes(extra), files) /\ {n} \in SUBSET files
    BY <1>b, <1>m DEF Remove, BytesMatchFiles
  <2>2. GrowthIsOfFiles' /\ Bytes(files)' = Sum(Sizes(extra), files \ {n})
    BY <1>d, <1>f, <2>1 DEF GrowthIsOfFiles
  <2>3. bytes' = Sum(Sizes(extra), files \ {n})
    BY <1>f, <1>t, <2>1, RemovedBytesAreCounted
  <2> QED BY <2>2, <2>3 DEF BytesMatchFiles
<1>u. ASSUME UNCHANGED <<up, bytes, files, extra>> PROVE (GrowthIsOfFiles /\ BytesMatchFiles)'
  <2>1. Bytes(files)' = Bytes(files)
    BY <1>b, <1>u
  <2> QED BY <1>u, <2>1 DEF GrowthIsOfFiles, BytesMatchFiles
\* A crash after the removal of some files.
<1>c. ASSUME NEW F \in SUBSET Entries, NEW b, DieInRetention(F, b), ~up',
             \A n \in Entries \ F : extra[n] = 0
      PROVE  (GrowthIsOfFiles /\ BytesMatchFiles)'
  <2>1. PICK D \in SUBSET Victims(F, b, {}) : files' = F \ D /\ Forget(D)
    BY <1>c DEF DieInRetention
  <2>2. D \in SUBSET F
    BY VictimsAreFiles
  <2> QED BY <1>c, <1>d, <2>1, <2>2 DEF BytesMatchFiles
\* A new entry.
<1>n. ASSUME NEW n \in Entries, n \notin used
      PROVE  /\ files \cup {n} \in SUBSET Entries /\ n \notin files /\ extra[n] = 0
             /\ \A m \in Entries \ (files \cup {n}) : extra[m] = 0
  BY <1>f, <1>n DEF Fresh, GrowthIsOfFiles
<1>1. ASSUME NEW n \in Entries, up, Enqueue(n) PROVE (GrowthIsOfFiles /\ BytesMatchFiles)'
  <2>1. PICK stuck \in Stuck(files \cup {n}) :
          Retain(files \cup {n}, pending + 1, bytes + Size[n], enqueued + 1, total, stuck)
    BY <1>1 DEF Enqueue
  <2>2. bytes = Sum(Sizes(extra), files) /\ n \notin used
    BY <1>1, <1>b DEF Enqueue, BytesMatchFiles
  <2>3. bytes + Size[n] = Sum(Sizes(extra), files \cup {n})
    BY <1>n, <1>t, <2>2, NewEntryIsCounted
  <2> QED BY <1>n, <1>r, <2>1, <2>2, <2>3
<1>2. ASSUME NEW n \in Entries, up, EnqueueFails(n) PROVE FALSE
  BY <1>2 DEF EnqueueFails
<1>3. ASSUME NEW n \in Entries, NEW r \in Reasons, RemoveEnvelope(n, r)
      PROVE  (GrowthIsOfFiles /\ BytesMatchFiles)'
  <2>1. CASE n \in files \ bad /\ Remove(n, r)
    BY <1>3, <1>m, <2>1 DEF RemoveEnvelope
  <2>2. CASE UNCHANGED <<disk, counts, gone>>
    BY <1>3, <1>u, <2>2 DEF RemoveEnvelope, disk, counts
  <2> QED BY <1>3, <2>1, <2>2 DEF RemoveEnvelope
<1>4. CASE StartDrain \/ TakeEntry \/ Deliver \/ EndDrain
  BY <1>4, <1>u DEF StartDrain, TakeEntry, Deliver, EndDrain, disk, counts
<1>5. CASE FinishEntry
  <2>1. cur \in files /\ up /\ Remove(cur, pc)
    BY <1>5, <1>t DEF FinishEntry, HeldEntryStaysOnDisk, Reasons
  <2> QED BY <1>m, <2>1
\* A retry that makes the entry grow.
<1>6. CASE RetryLater
  <2>1. cur \in files /\ up /\ bytes = Sum(Sizes(extra), files)
    BY <1>6, <1>b, <1>t DEF RetryLater, HeldEntryStaysOnDisk, BytesMatchFiles
  <2>2. PICK g \in {0, 1} : extra' = [extra EXCEPT ![cur] = @ + g] /\ bytes' = bytes + g
    BY <1>6 DEF RetryLater
  <2>3. files' = files
    BY <1>6, <2>1 DEF RetryLater
  <2> DEFINE rest == files \ {cur}
  <2>4. rest \in SUBSET Entries /\ IsFiniteSet(files) /\ IsFiniteSet(rest) /\ cur \in Entries
    BY <1>f, <2>1, EntrySetsAreFinite
  <2>5. /\ \A n \in files : Sizes(extra)[n] \in Nat /\ Sizes(extra')[n] \in Nat
        /\ Sizes(extra')[cur] = Sizes(extra)[cur] + g
    <3>1. \A n \in files : Sizes(extra)[n] \in Nat /\ Sizes(extra')[n] \in Nat
      BY <1>f, SizesAreNat
    <3>2. /\ extra'[cur] = extra[cur] + g /\ extra[cur] \in Nat /\ Size[cur] \in Nat
          /\ Sizes(extra')[cur] = Size[cur] + extra'[cur]
          /\ Sizes(extra)[cur] = Size[cur] + extra[cur]
      BY <1>f, <2>2, <2>4, SizeAssumption DEF Sizes
    <3> QED BY <3>1, <3>2
  <2>6. /\ Sum(Sizes(extra), files) = Sizes(extra)[cur] + Sum(Sizes(extra), rest)
        /\ Sum(Sizes(extra'), files) = Sizes(extra')[cur] + Sum(Sizes(extra'), rest)
    BY <2>1, <2>4, <2>5, SumRemove
  <2>7. Sum(Sizes(extra'), rest) = Sum(Sizes(extra), rest)
    BY <1>f, <1>s, <2>2, <2>4
  <2>8. Sum(Sizes(extra), rest) \in Nat /\ Sizes(extra)[cur] \in Nat /\ g \in Nat
    BY <2>1, <2>4, <2>5, SumType
  <2>9. bytes' = Sum(Sizes(extra'), files)
    BY <2>1, <2>2, <2>5, <2>6, <2>7, <2>8
  <2>10. GrowthIsOfFiles'
    BY <1>f, <2>1, <2>2, <2>3 DEF GrowthIsOfFiles
  <2> QED BY <1>b, <2>3, <2>9, <2>10 DEF BytesMatchFiles
<1>7. ASSUME NEW n \in Entries, Age(n) \/ Damage(n) PROVE (GrowthIsOfFiles /\ BytesMatchFiles)'
  BY <1>7, <1>u DEF Age, Damage, counts
<1>8. CASE Crash
  BY <1>8 DEF Crash, Die, disk, GrowthIsOfFiles, BytesMatchFiles
<1>9. ASSUME NEW n \in Entries, up, CrashInEnqueue(n) PROVE (GrowthIsOfFiles /\ BytesMatchFiles)'
  BY <1>9, <1>c, <1>n DEF CrashInEnqueue, Die
<1>10. ASSUME NEW n \in Entries, NEW r \in Reasons, CrashInRemoval(n, r)
       PROVE  (GrowthIsOfFiles /\ BytesMatchFiles)'
  <2>1. files' = files \ {n} /\ Forget({n}) /\ ~up' /\ {n} \in SUBSET files
    BY <1>10 DEF CrashInRemoval, Die
  <2> QED BY <1>d, <1>f, <2>1 DEF GrowthIsOfFiles, BytesMatchFiles
<1>11. CASE ~up /\ Restart
  <2>1. PICK p, e, t, stuck : Retain(files, p, Bytes(files), e, t, stuck)
    BY <1>11 DEF Restart
  <2> QED BY <1>b, <1>f, <1>r, <2>1 DEF GrowthIsOfFiles
<1>12. CASE ~up /\ CrashInRestart
  BY <1>12, <1>c, <1>f DEF CrashInRestart, Die, GrowthIsOfFiles
<1>13. CASE UNCHANGED vars
  BY <1>13, <1>u DEF vars, disk, counts
<1>14. "delivered" \in Reasons /\ "permanent" \in Reasons
  BY DEF Reasons
<1> QED
  BY <1>1, <1>2, <1>3, <1>4, <1>5, <1>6, <1>7, <1>8, <1>9, <1>10, <1>11, <1>12, <1>13, <1>14
     DEF Next, EnqueuePriority, New, Acknowledge, Reject

LEMMA BytesAlways ==
  ASSUME DiskFaults = FALSE
  PROVE  Spec => [](GrowthIsOfFiles /\ BytesMatchFiles)
<1>1. Init => GrowthIsOfFiles /\ BytesMatchFiles
  <2>1. SUFFICES ASSUME Init PROVE GrowthIsOfFiles /\ BytesMatchFiles
    OBVIOUS
  <2>2. files = {} /\ bytes = 0 /\ files \in SUBSET Entries /\ \A n \in Entries : extra[n] = 0
    BY <2>1 DEF Init
  <2>3. Bytes(files) = Sum(Sizes(extra), files)
    BY <2>2, BytesIsSum
  <2>4. Sum(Sizes(extra), files) = 0
    BY <2>2, FS_EmptySet, SumPick
  <2> QED BY <2>2, <2>3, <2>4 DEF GrowthIsOfFiles, BytesMatchFiles
<1>2. Inv /\ Fresh /\ GrowthIsOfFiles /\ BytesMatchFiles /\ [Next]_vars
        => (GrowthIsOfFiles /\ BytesMatchFiles)'
  BY BytesNext
<1> QED BY <1>1, <1>2, FreshAlways, PTL DEF Spec

\* As long as no file operation fails, the byte counter that Stats reports and
\* retention decides by is the size of the entry files, through retries that
\* make them grow, removals and restarts.
THEOREM BytesAreExact ==
  ASSUME DiskFaults = FALSE
  PROVE  Spec => []BytesMatchFiles
BY BytesAlways, PTL

-----------------------------------------------------------------------------
(* The budget. *)

\* Entries are evicted in a strict linear order.
LEMMA EvictOrder ==
  ASSUME NEW S \in SUBSET Entries
  PROVE  /\ \A m \in S : ~EvictBefore(m, m)
         /\ \A m, n, k \in S : EvictBefore(m, n) /\ EvictBefore(n, k) => EvictBefore(m, k)
         /\ \A m, n \in S : m = n \/ EvictBefore(m, n) \/ EvictBefore(n, m)
<1>1. \A m \in S : m \in Nat /\ PrioOf(m) \in Nat
  BY EntriesAssumption, PrioAssumption DEF PrioOf
<1> QED BY <1>1 DEF EvictBefore

\* Of any set of entries one would be evicted first.
LEMMA FirstToGo ==
  ASSUME NEW C \in SUBSET Entries, NEW R \in SUBSET C, R # {}
  PROVE  \E m \in R : \A n \in R : n \notin GoesBefore(C, m)
<1> DEFINE G == {GoesBefore(C, m) : m \in R}
<1>1. IsFiniteSet(C) /\ G \subseteq SUBSET C /\ G # {}
  BY EntrySetsAreFinite DEF GoesBefore
<1>2. PICK T \in G : \A U \in G : U \subseteq T => U = T
  <2> HIDE DEF G
  <2> QED BY <1>1, SmallestSet
<1>3. PICK m \in R : T = GoesBefore(C, m)
  BY <1>2
<1>4. ASSUME NEW n \in R, n \in GoesBefore(C, m) PROVE FALSE
  <2>1. GoesBefore(C, n) \subseteq GoesBefore(C, m)
    BY <1>4, EvictOrder DEF GoesBefore
  <2>2. GoesBefore(C, n) = GoesBefore(C, m)
    BY <1>2, <1>3, <2>1
  <2> QED BY <1>4, <2>2, EvictOrder DEF GoesBefore
<1> QED BY <1>4

\* The entries left by a fault-free pass over contents F whose sizes b counts.
LEMMA RetainLeaves ==
  ASSUME TypeOK, NEW F \in SUBSET Entries, NEW b, b = Sum(Sizes(extra), F),
         NEW K, K = Kept(F), NEW E, E = EvictedBy(F, b, {})
  PROVE  /\ F \ Victims(F, b, {}) = K \ E /\ K \in SUBSET F
         /\ E = {n \in K \ inflight :
                   OverBudget(K, Sum(Sizes(extra), K), GoesBefore(K \ inflight, n))}
<1>1. ExpiredBy(F, {}) = Aged(F) /\ K = F \ Aged(F) /\ Aged(F) \in SUBSET F
  BY DEF ExpiredBy, Kept, Aged
<1>2. F \ Victims(F, b, {}) = K \ E /\ K \in SUBSET F
  BY <1>1 DEF Victims
<1>3. Clamp(b - Bytes(ExpiredBy(F, {}))) = Sum(Sizes(extra), K)
  <2>1. LessBytes(Sum(Sizes(extra), F), Aged(F)) = Sum(Sizes(extra), F \ Aged(F))
    BY <1>1, RemovedBytesAreCounted
  <2> QED BY <1>1, <2>1 DEF LessBytes
<1>4. (K \ inflight) \ {} = K \ inflight
  OBVIOUS
<1>5. EvictedBy(F, b, {}) = {n \in (K \ inflight) \ {} :
        OverBudget(K, Clamp(b - Bytes(ExpiredBy(F, {}))), GoesBefore((K \ inflight) \ {}, n))}
  BY DEF EvictedBy
<1> QED BY <1>2, <1>3, <1>4, <1>5

\* A pass leaves the directory within both limits, given that the entries it
\* may not touch are.
LEMMA RetainFits ==
  ASSUME TypeOK, NEW F \in SUBSET Entries, NEW b, b = Sum(Sizes(extra), F),
         Cardinality(F \cap inflight) <= MaxItems, Sum(Size, F \cap inflight) <= MaxBytes
  PROVE  LET left == F \ Victims(F, b, {})
         IN  Cardinality(left) <= MaxItems /\ Sum(Size, left) <= MaxBytes
<1> DEFINE K == Kept(F)
           E == EvictedBy(F, b, {})
           C == K \ inflight
           left == F \ Victims(F, b, {})
           f == Sizes(extra)
<1>1. /\ left = K \ E /\ K \in SUBSET F /\ K \in SUBSET Entries
      /\ E = {n \in C : OverBudget(K, Sum(f, K), GoesBefore(C, n))}
  BY RetainLeaves
<1> HIDE DEF K, E, left
<1>n. ASSUME NEW S \in SUBSET Entries, NEW T \in SUBSET S
      PROVE  /\ Cardinality(T) \in Nat /\ Cardinality(S) \in Nat
             /\ Cardinality(T) <= Cardinality(S)
             /\ Sum(Size, T) \in Nat /\ Sum(Size, S) \in Nat /\ Sum(Size, T) <= Sum(Size, S)
             /\ Sum(f, S) \in Nat /\ Sum(Size, S) <= Sum(f, S)
  <2>1. IsFiniteSet(S) /\ T \in SUBSET Entries
    BY EntrySetsAreFinite
  <2>2. \A n \in S : f[n] \in Nat /\ Size[n] \in Nat /\ Size[n] <= f[n]
    BY SizesAreNat DEF TypeOK
  <2> HIDE DEF f
  <2>3. Sum(Size, S) <= Sum(f, S)
    BY <2>1, <2>2, SumMonotone
  <2>4. Sum(f, S) \in Nat
    BY <2>1, <2>2, SumType
  <2>5. Sum(Size, T) \in Nat /\ Sum(Size, S) \in Nat /\ Sum(Size, T) <= Sum(Size, S)
    BY <2>1, <2>2, SumSubset
  <2> QED BY <2>1, <2>3, <2>4, <2>5, FS_Subset, EntrySetsAreFinite
<1>b. MaxItems \in Nat /\ MaxBytes \in Nat
  BY BudgetAssumption
\* Every candidate is evicted: what is left was not to be touched.
<1>2. CASE C \ E = {}
  <2>1. left \in SUBSET (F \cap inflight) /\ F \cap inflight \in SUBSET Entries
    BY <1>1, <1>2
  <2> QED BY <1>b, <1>n, <2>1 DEF left
\* Otherwise the first one kept is within the limits, and all before it go.
<1>3. CASE C \ E # {}
  <2>1. C \in SUBSET Entries /\ C \ E \in SUBSET C
    BY <1>1
  <2>2. PICK m \in C \ E : \A n \in C \ E : n \notin GoesBefore(C, m)
    <3> HIDE DEF C
    <3> QED BY <1>3, <2>1, FirstToGo
  <2> DEFINE B == GoesBefore(C, m)
  <2>3. B \in SUBSET C /\ B \in SUBSET K /\ B \subseteq E
    BY <2>2 DEF GoesBefore
  <2>4. ~OverBudget(K, Sum(f, K), B)
    BY <1>1, <2>2
  <2> HIDE DEF B
  <2>5. ~(Sum(f, K) - Bytes(B) > MaxBytes) /\ ~(Cardinality(K \ B) > MaxItems)
    BY <2>4 DEF OverBudget
  <2>6. Sum(f, K \ B) = Sum(f, K) - Bytes(B)
    BY <1>1, <2>3, RemovedBytesAreCounted
  <2>7. left \in SUBSET (K \ B) /\ K \ B \in SUBSET Entries
    BY <1>1, <2>3
  <2> QED BY <1>b, <1>n, <2>5, <2>6, <2>7 DEF left
<1> QED BY <1>2, <1>3 DEF left

\* A process that is down holds nothing.
NothingHeldWhenDown == ~up => inflight = {}

LEMMA BudgetNext ==
  ASSUME DiskFaults = FALSE
  PROVE  Inv /\ Fresh /\ GrowthIsOfFiles /\ BytesMatchFiles /\ NothingHeldWhenDown
           /\ WithinBudget /\ [Next]_vars => (NothingHeldWhenDown /\ WithinBudget)'
<1> SUFFICES ASSUME Inv, Fresh, GrowthIsOfFiles, BytesMatchFiles, NothingHeldWhenDown,
                    WithinBudget, [Next]_vars
             PROVE  (NothingHeldWhenDown /\ WithinBudget)'
  OBVIOUS
<1> DEFINE Fits(S) == Cardinality(S) <= MaxItems /\ Sum(Size, S) <= MaxBytes
<1>t. TypeOK /\ HeldEntryStaysOnDisk
  BY DEF Inv
<1>f. files \in SUBSET Entries /\ Bytes(files) = Sum(Sizes(extra), files)
  BY <1>t, BytesIsSum DEF TypeOK
<1>w. /\ WithinBudget <=> (up => Fits(files))
      /\ WithinBudget' <=> (up' => Fits(files'))
  <2>1. WithinBudget <=> (up => Fits(files))
    BY DEF WithinBudget, Sum
  <2>2. WithinBudget' <=> (up' => Fits(files'))
    BY DEF WithinBudget, Sum, MapThenSumSet, MapThenFoldSet
  <2> QED BY <2>1, <2>2
\* A part of a directory that fits fits.
<1>s. ASSUME NEW S \in SUBSET files, Fits(files) PROVE Fits(S)
  <2>1. IsFiniteSet(files) /\ Cardinality(files) \in Nat /\ Cardinality(S) \in Nat
        /\ Cardinality(S) <= Cardinality(files)
    BY <1>f, EntrySetsAreFinite, FS_Subset
  <2>2. \A n \in files : Size[n] \in Nat
    BY <1>f, SizeAssumption
  <2>3. Sum(Size, S) \in Nat /\ Sum(Size, files) \in Nat /\ Sum(Size, S) <= Sum(Size, files)
    BY <2>1, <2>2, SumSubset
  <2> QED BY <1>s, <2>1, <2>3, BudgetAssumption
<1>h. inflight \subseteq files
  BY <1>t DEF HeldEntryStaysOnDisk
<1> HIDE DEF Fits
<1>u. ASSUME files' \subseteq files, up' = up, up PROVE (NothingHeldWhenDown /\ WithinBudget)'
  <2>1. files' \in SUBSET files
    BY <1>u
  <2> QED BY <1>s, <1>u, <1>w, <2>1 DEF NothingHeldWhenDown
<1>v. ASSUME UNCHANGED <<files, up, inflight>> PROVE (NothingHeldWhenDown /\ WithinBudget)'
  BY <1>v, <1>w DEF NothingHeldWhenDown
<1>d. ASSUME Die PROVE (NothingHeldWhenDown /\ WithinBudget)'
  BY <1>d DEF Die, NothingHeldWhenDown, WithinBudget
<1>1. ASSUME NEW n \in Entries, up, Enqueue(n) PROVE (NothingHeldWhenDown /\ WithinBudget)'
  <2> DEFINE F == files \cup {n}
  <2>1. PICK stuck \in Stuck(F) :
          Retain(F, pending + 1, bytes + Size[n], enqueued + 1, total, stuck)
    BY <1>1 DEF Enqueue
  <2>2. stuck = {}
    BY DEF Stuck
  <2>3. up /\ up' /\ F \in SUBSET Entries /\ n \notin files /\ extra[n] = 0
    BY <1>1, <1>f DEF Enqueue, Fresh, GrowthIsOfFiles
  <2>4. F \cap inflight \in SUBSET files /\ Fits(files)
    BY <1>h, <1>w, <2>3
  <2>5. Fits(F \cap inflight)
    BY <1>s, <2>4
  <2>6. bytes + Size[n] = Sum(Sizes(extra), F)
    BY <1>f, <1>t, <2>3, NewEntryIsCounted DEF BytesMatchFiles
  <2>7. files' = F \ Victims(F, bytes + Size[n], {})
    BY <2>1, <2>2 DEF Retain
  <2> HIDE DEF F
  <2>8. Fits(files')
    BY <1>t, <2>3, <2>5, <2>6, <2>7, RetainFits DEF Fits
  <2> QED BY <1>w, <2>3, <2>8 DEF NothingHeldWhenDown
<1>2. ASSUME NEW n \in Entries, up, EnqueueFails(n) PROVE FALSE
  BY <1>2 DEF EnqueueFails
<1>3. ASSUME NEW n \in Entries, NEW r \in Reasons, RemoveEnvelope(n, r)
      PROVE  (NothingHeldWhenDown /\ WithinBudget)'
  BY <1>3, <1>u DEF RemoveEnvelope, Remove, disk
<1>4. CASE StartDrain \/ TakeEntry \/ Deliver \/ EndDrain
  BY <1>4, <1>u DEF StartDrain, TakeEntry, Deliver, EndDrain, disk
<1>5. CASE FinishEntry
  BY <1>5, <1>u DEF FinishEntry, Remove, disk
<1>6. CASE RetryLater
  <2>1. cur \in files
    BY <1>6, <1>t DEF RetryLater, HeldEntryStaysOnDisk
  <2>2. up /\ UNCHANGED <<up, files>>
    BY <1>6, <2>1 DEF RetryLater
  <2> QED BY <1>u, <2>2
<1>7. ASSUME NEW n \in Entries, Age(n) \/ Damage(n) PROVE (NothingHeldWhenDown /\ WithinBudget)'
  BY <1>7, <1>v DEF Age, Damage
<1>8. CASE Crash \/ CrashInRestart
  BY <1>8, <1>d DEF Crash, CrashInRestart
<1>9. ASSUME NEW n \in Entries,
             CrashInEnqueue(n) \/ \E r \in Reasons : CrashInRemoval(n, r)
      PROVE  (NothingHeldWhenDown /\ WithinBudget)'
  BY <1>9, <1>d DEF CrashInEnqueue, CrashInRemoval
<1>10. CASE ~up /\ Restart
  <2>1. PICK s \in {saved} \cup (IF DiskFaults THEN {ZeroStats} ELSE {}),
             stuck \in Stuck(files) :
          Retain(files, Cardinality(files), Bytes(files),
                 IF s.enqueued < Cardinality(files) THEN Cardinality(files) ELSE s.enqueued,
                 s.total, stuck)
    BY <1>10 DEF Restart
  <2>2. stuck = {}
    BY <2>1 DEF Stuck
  <2>3. up' /\ inflight = {} /\ files \cap inflight = {}
    BY <1>10 DEF Restart, NothingHeldWhenDown
  <2>4. Cardinality(files \cap inflight) = 0 /\ Sum(Size, files \cap inflight) = 0
    BY <2>3, FS_EmptySet, SumPick
  <2>5. Cardinality(files \cap inflight) <= MaxItems /\ Sum(Size, files \cap inflight) <= MaxBytes
    BY <2>4, BudgetAssumption
  <2>6. files' = files \ Victims(files, Bytes(files), {})
    BY <2>1, <2>2 DEF Retain
  <2>7. Fits(files')
    BY <1>f, <1>t, <2>5, <2>6, RetainFits DEF Fits
  <2> QED BY <1>w, <2>3, <2>7 DEF NothingHeldWhenDown
<1>11. CASE UNCHANGED vars
  BY <1>11, <1>v DEF vars, disk
<1>12. "delivered" \in Reasons /\ "permanent" \in Reasons
  BY DEF Reasons
<1> QED
  BY <1>1, <1>2, <1>3, <1>4, <1>5, <1>6, <1>7, <1>8, <1>9, <1>10, <1>11, <1>12
     DEF Next, EnqueuePriority, New, Acknowledge, Reject

\* As long as no file operation fails the directory never exceeds its item or
\* its byte limit as written, although retention must spare the entry that a
\* drain holds.
THEOREM BudgetIsKept ==
  ASSUME DiskFaults = FALSE
  PROVE  Spec => []WithinBudget
<1>1. Init => NothingHeldWhenDown /\ WithinBudget
  <2>1. SUFFICES ASSUME Init PROVE NothingHeldWhenDown /\ WithinBudget
    OBVIOUS
  <2>2. Cardinality(files) = 0 /\ Sum(Size, files) = 0
    BY <2>1, FS_EmptySet, SumPick DEF Init
  <2> QED BY <2>1, <2>2, BudgetAssumption DEF Init, NothingHeldWhenDown, WithinBudget, Sum
<1>2. Inv /\ Fresh /\ GrowthIsOfFiles /\ BytesMatchFiles /\ NothingHeldWhenDown
        /\ WithinBudget /\ [Next]_vars => (NothingHeldWhenDown /\ WithinBudget)'
  BY BudgetNext
<1> QED BY <1>1, <1>2, FreshAlways, BytesAlways, PTL DEF Spec

-----------------------------------------------------------------------------
(* Which entries are evicted. *)

\* Removing less leaves more.
LEMMA OverBudgetIsMonotone ==
  ASSUME TypeOK, NEW K \in SUBSET Entries, NEW s \in Nat, NEW B \in SUBSET K, NEW A \in SUBSET B,
         OverBudget(K, s, B)
  PROVE  OverBudget(K, s, A)
<1>1. IsFiniteSet(B) /\ A \in SUBSET Entries /\ B \in SUBSET Entries
  BY EntrySetsAreFinite
<1>2. \A n \in B : Sizes(extra)[n] \in Nat
  BY <1>1, SizesAreNat DEF TypeOK
<1>3. Bytes(A) = Sum(Sizes(extra), A) /\ Bytes(B) = Sum(Sizes(extra), B)
  BY <1>1, BytesIsSum
<1>4. Bytes(A) \in Nat /\ Bytes(B) \in Nat /\ Bytes(A) <= Bytes(B)
  BY <1>1, <1>2, <1>3, SumSubset
<1>5. K \ B \in SUBSET (K \ A) /\ K \ A \in SUBSET Entries /\ K \ B \in SUBSET Entries
  OBVIOUS
<1>6. /\ Cardinality(K \ A) \in Nat /\ Cardinality(K \ B) \in Nat
      /\ Cardinality(K \ B) <= Cardinality(K \ A)
  BY <1>5, EntrySetsAreFinite, FS_Subset
<1> QED BY <1>4, <1>6, BudgetAssumption DEF OverBudget

\* An entry of the directory that is spared is one that was to go later.
Spares ==
  \A n, m \in Entries :
    /\ gone[n] # "capacity" /\ gone'[n] = "capacity" /\ up /\ up'
    /\ m \in files' \ inflight
    => EvictBefore(n, m)

LEMMA SparesNext ==
  ASSUME DiskFaults = FALSE
  PROVE  Inv /\ Fresh /\ GrowthIsOfFiles /\ BytesMatchFiles /\ [Next]_vars => Spares
<1> SUFFICES ASSUME Inv, Fresh, GrowthIsOfFiles, BytesMatchFiles, [Next]_vars,
                    NEW n \in Entries, NEW m \in Entries,
                    gone[n] # "capacity", gone'[n] = "capacity", up, up', m \in files' \ inflight
             PROVE  EvictBefore(n, m)
  BY DEF Spares
<1>t. TypeOK /\ HeldEntryStaysOnDisk
  BY DEF Inv
<1>f. files \in SUBSET Entries /\ Bytes(files) = Sum(Sizes(extra), files)
  BY <1>t, BytesIsSum DEF TypeOK
<1>1. ASSUME NEW k \in Entries, up, Enqueue(k) PROVE EvictBefore(n, m)
  <2> DEFINE F == files \cup {k}
             b == bytes + Size[k]
             K == Kept(F)
             E == EvictedBy(F, b, {})
             C == K \ inflight
  <2>1. PICK stuck \in Stuck(F) : Retain(F, pending + 1, b, enqueued + 1, total, stuck)
    BY <1>1 DEF Enqueue
  <2>2. stuck = {}
    BY DEF Stuck
  <2>3. F \in SUBSET Entries /\ k \notin files /\ extra[k] = 0
    BY <1>1, <1>f DEF Enqueue, Fresh, GrowthIsOfFiles
  <2>4. b = Sum(Sizes(extra), F)
    BY <1>1, <1>f, <1>t, <2>3, NewEntryIsCounted DEF BytesMatchFiles
  <2>5. files' = F \ Victims(F, b, {}) /\ gone' = Buried(F, b, {})
    BY <2>1, <2>2 DEF Retain
  <2> HIDE DEF F, b
  <2>6. /\ F \ Victims(F, b, {}) = K \ E /\ K \in SUBSET F
        /\ E = {x \in C : OverBudget(K, Sum(Sizes(extra), K), GoesBefore(C, x))}
    BY <1>t, <2>3, <2>4, RetainLeaves
  <2>7. n \in E
    BY <2>5 DEF Buried
  <2> HIDE DEF K, E
  <2>8. m \in C /\ m \notin E /\ n \in C /\ C \in SUBSET Entries
    BY <2>3, <2>5, <2>6, <2>7
  <2>9. CASE EvictBefore(m, n)
    <3>1. /\ GoesBefore(C, n) \in SUBSET K /\ K \in SUBSET Entries
          /\ GoesBefore(C, m) \in SUBSET GoesBefore(C, n)
      BY <2>3, <2>6, <2>8, <2>9, EvictOrder DEF GoesBefore
    <3>2. Sum(Sizes(extra), K) \in Nat
      BY <1>t, <3>1, EntrySetsAreFinite, SizesAreNat, SumType DEF TypeOK
    <3>3. OverBudget(K, Sum(Sizes(extra), K), GoesBefore(C, n))
      BY <2>6, <2>7
    <3>4. OverBudget(K, Sum(Sizes(extra), K), GoesBefore(C, m))
      <4> HIDE DEF C
      <4> QED BY <1>t, <3>1, <3>2, <3>3, OverBudgetIsMonotone
    <3> QED BY <2>6, <2>8, <3>4
  <2> QED BY <2>7, <2>8, <2>9, EvictOrder
<1>2. ASSUME NEW k \in Entries, up, EnqueueFails(k) PROVE FALSE
  BY <1>2 DEF EnqueueFails
\* The other removals are not evictions.
<1>3. ASSUME NEW k \in Entries, NEW r, r # "capacity", Remove(k, r) PROVE FALSE
  <2>1. gone \in [Entries -> Reasons \cup {None}] /\ gone' = [gone EXCEPT ![k] = r]
    BY <1>3, <1>t DEF Remove, TypeOK
  <2> QED BY <1>3, <2>1
<1>u. ASSUME UNCHANGED gone PROVE FALSE
  BY <1>u
<1>4. ASSUME NEW k \in Entries, Acknowledge(k) \/ Reject(k) PROVE FALSE
  BY <1>4, <1>3, <1>u DEF Acknowledge, Reject, RemoveEnvelope
<1>5. CASE StartDrain \/ TakeEntry \/ Deliver \/ EndDrain \/ RetryLater
  BY <1>5, <1>u DEF StartDrain, TakeEntry, Deliver, EndDrain, RetryLater, history
<1>6. CASE FinishEntry
  <2>1. cur \in Entries /\ pc # "capacity"
    BY <1>6, <1>t DEF FinishEntry, HeldEntryStaysOnDisk, TypeOK, Pcs, Reasons
  <2> QED BY <1>6, <1>3, <1>u, <2>1 DEF FinishEntry
<1>7. ASSUME NEW k \in Entries, Age(k) \/ Damage(k) PROVE FALSE
  BY <1>7, <1>u DEF Age, Damage, history
<1>8. CASE Crash \/ (~up /\ Restart) \/ CrashInRestart
  BY <1>8 DEF Crash, Restart, CrashInRestart, Die
<1>9. ASSUME NEW k \in Entries, up, CrashInEnqueue(k) \/ \E r \in Reasons : CrashInRemoval(k, r)
      PROVE  FALSE
  BY <1>9 DEF CrashInEnqueue, CrashInRemoval, Die
<1>10. CASE UNCHANGED vars
  BY <1>10, <1>u DEF vars, history
<1> QED
  BY <1>1, <1>2, <1>4, <1>5, <1>6, <1>7, <1>8, <1>9, <1>10 DEF Next, EnqueuePriority, New

\* As long as no file operation fails, no entry is evicted for capacity while a
\* less important one, or an older one of the same priority, is kept, but for
\* the one a drain holds.
THEOREM EvictionIsInOrder ==
  ASSUME DiskFaults = FALSE
  PROVE  Spec => EvictionSparesThePrior
<1>1. Inv /\ Fresh /\ GrowthIsOfFiles /\ BytesMatchFiles /\ [Next]_vars => [Spares]_vars
  BY SparesNext
<1>2. EvictionSparesThePrior <=> [][Spares]_vars
  BY DEF EvictionSparesThePrior, Spares
<1> QED BY <1>1, <1>2, FreshAlways, BytesAlways, PTL DEF Spec

-----------------------------------------------------------------------------
(* Loss accounting. *)

LEMMA ReasonsAreFinite ==
  /\ IsFiniteSet(Reasons) /\ Reasons # {}
  /\ \A r \in {"delivered", "expired", "capacity", "corrupt", "permanent"} : r \in Reasons
  /\ None \notin Reasons
<1>1. IsFiniteSet({"delivered"} \cup {"expired"} \cup {"capacity"} \cup {"corrupt"} \cup {"permanent"})
  BY FS_Singleton, FS_Union
<1>2. Reasons = {"delivered"} \cup {"expired"} \cup {"capacity"} \cup {"corrupt"} \cup {"permanent"}
  BY DEF Reasons
<1> QED BY <1>1, <1>2 DEF Reasons, None

\* A pass counts every file it removes under one reason.
LEMMA RetainCounts ==
  ASSUME TypeOK, NEW F \in SUBSET Entries, NEW p, NEW b, NEW e, NEW t \in [Reasons -> Nat],
         NEW stuck, Retain(F, p, b, e, t, stuck), e = Cardinality(F) + Sum(t, Reasons)
  PROVE  e = Cardinality(files') + Sum(total', Reasons)
<1> DEFINE X == ExpiredBy(F, stuck)
           V == EvictedBy(F, b, stuck)
           u == [t EXCEPT !["expired"] = @ + Cardinality(X)]
<1>1. X \in SUBSET F /\ V \in SUBSET F /\ X \cap V = {} /\ Victims(F, b, stuck) = X \cup V
  BY VictimsAreFiles DEF Victims
<1>2. /\ files' = F \ (X \cup V)
      /\ total' = [u EXCEPT !["capacity"] = @ + Cardinality(V)]
  BY <1>1 DEF Retain
<1> HIDE DEF X, V
<1>3. /\ IsFiniteSet(X) /\ IsFiniteSet(V) /\ IsFiniteSet(F)
      /\ Cardinality(X) \in Nat /\ Cardinality(V) \in Nat /\ Cardinality(F) \in Nat
  BY <1>1, EntrySetsAreFinite
<1>4. Cardinality(X \cup V) = Cardinality(X) + Cardinality(V)
  <2>1. Cardinality(X \cup V) = Cardinality(X) + Cardinality(V) - Cardinality(X \cap V)
    BY <1>3, FS_Union
  <2>2. Cardinality(X \cap V) = 0
    BY <1>1, FS_EmptySet
  <2> QED BY <1>3, <2>1, <2>2
<1>5. Cardinality(F \ (X \cup V)) = Cardinality(F) - (Cardinality(X) + Cardinality(V))
  <2>1. Cardinality(F \ (X \cup V)) = Cardinality(F) - Cardinality(F \cap (X \cup V))
    BY <1>3, FS_Difference
  <2>2. F \cap (X \cup V) = X \cup V
    BY <1>1
  <2>3. Cardinality(F \cap (X \cup V)) = Cardinality(X \cup V)
    BY <2>2, Zenon
  <2> QED BY <1>4, <2>1, <2>3
<1>6. u \in [Reasons -> Nat] /\ Sum(u, Reasons) = Sum(t, Reasons) + Cardinality(X)
  <2>1. t["expired"] + Cardinality(X) \in Nat
    BY <1>3, ReasonsAreFinite
  <2>2. u \in [Reasons -> Nat]
    BY <2>1
  <2>3. /\ u["expired"] = t["expired"] + Cardinality(X) /\ "expired" \in Reasons
        /\ \A y \in Reasons \ {"expired"} : u[y] = t[y]
    BY ReasonsAreFinite
  <2> HIDE DEF u
  <2> QED BY <1>3, <2>2, <2>3, ReasonsAreFinite, SumRaise
<1> HIDE DEF u
<1>7. Sum(total', Reasons) = Sum(u, Reasons) + Cardinality(V)
  <2>1. total' \in [Reasons -> Nat]
    <3>1. u["capacity"] + Cardinality(V) \in Nat
      BY <1>3, <1>6, ReasonsAreFinite
    <3> QED BY <1>2, <1>6, <3>1
  <2>2. /\ total'["capacity"] = u["capacity"] + Cardinality(V) /\ "capacity" \in Reasons
        /\ \A y \in Reasons \ {"capacity"} : total'[y] = u[y]
    BY <1>2, <1>6, ReasonsAreFinite
  <2> QED BY <1>3, <1>6, <2>1, <2>2, ReasonsAreFinite, SumRaise
<1>8. Sum(t, Reasons) \in Nat
  BY ReasonsAreFinite, SumType
<1> QED BY <1>2, <1>3, <1>5, <1>6, <1>7, <1>8

\* So does the removal of one.
LEMMA RemoveCounts ==
  ASSUME TypeOK, NEW n \in files, NEW r \in Reasons, Remove(n, r),
         enqueued = Cardinality(files) + Sum(total, Reasons)
  PROVE  enqueued = Cardinality(files') + Sum(total', Reasons)
<1>1. files' = files \ {n} /\ total' = [total EXCEPT ![r] = @ + 1] /\ total \in [Reasons -> Nat]
  BY DEF Remove, TypeOK
<1>2. IsFiniteSet(files) /\ Cardinality(files) \in Nat
  BY EntrySetsAreFinite DEF TypeOK
<1>3. Cardinality(files') = Cardinality(files) - 1
  BY <1>1, <1>2, FS_RemoveElement
<1>4. Sum(total', Reasons) = Sum(total, Reasons) + 1 /\ Sum(total, Reasons) \in Nat
  <2>1. /\ total \in [Reasons -> Nat] /\ total' \in [Reasons -> Nat]
        /\ total'[r] = total[r] + 1
    BY <1>1
  <2>2. \A y \in Reasons \ {r} : total'[y] = total[y]
    BY <1>1
  <2>3. Sum(total', Reasons) = Sum(total, Reasons) + 1
    <3>1. PICK d \in Nat : d = 1
      OBVIOUS
    <3>2. total'[r] = total[r] + d
      BY <2>1, <3>1
    <3>3. Sum(total', Reasons) = Sum(total, Reasons) + d
      BY <2>1, <2>2, <3>2, ReasonsAreFinite, SumRaise
    <3> QED BY <3>1, <3>3
  <2> QED BY <1>1, <2>3, ReasonsAreFinite, SumType
<1> QED BY <1>2, <1>3, <1>4

\* The statistics file balances, and tells what the running process counts.
Balanced ==
  ~torn => /\ saved.enqueued = Cardinality(files) + Sum(saved.total, Reasons)
           /\ up => saved.enqueued = enqueued /\ saved.total = total

LEMMA BalancedNext ==
  ASSUME DiskFaults = FALSE
  PROVE  Inv /\ Fresh /\ Balanced /\ [Next]_vars => Balanced'
<1> SUFFICES ASSUME Inv, Fresh, Balanced, [Next]_vars, ~torn' PROVE Balanced'
  BY DEF Balanced
<1>t. TypeOK /\ HeldEntryStaysOnDisk
  BY DEF Inv
<1>f. /\ files \in SUBSET Entries /\ IsFiniteSet(files) /\ Cardinality(files) \in Nat
      /\ saved.enqueued \in Nat /\ saved.total \in [Reasons -> Nat] /\ total \in [Reasons -> Nat]
  BY <1>t, EntrySetsAreFinite DEF TypeOK
<1>u. ASSUME UNCHANGED <<files, saved, torn>>, ~up' \/ UNCHANGED <<up, enqueued, total>>
      PROVE  Balanced'
  BY <1>u DEF Balanced
\* Counters that balance and are saved.
<1>p. ASSUME PersistStats(enqueued', total'), enqueued' = Cardinality(files') + Sum(total', Reasons)
      PROVE  Balanced'
  <2>1. saved'.enqueued = enqueued' /\ saved'.total = total'
    BY <1>p DEF PersistStats
  <2>2. saved'.enqueued = Cardinality(files') + Sum(saved'.total, Reasons)
    BY <1>p, <2>1
  <2> QED BY <2>1, <2>2 DEF Balanced, Sum, MapThenSumSet, MapThenFoldSet
<1>e. up /\ ~torn => enqueued = Cardinality(files) + Sum(total, Reasons)
  BY DEF Balanced
<1>m. ASSUME up, ~torn, NEW n \in files, NEW r \in Reasons, Remove(n, r) PROVE Balanced'
  <2>1. enqueued' = enqueued /\ PersistStats(enqueued, total')
    BY <1>m DEF Remove
  <2>2. enqueued = Cardinality(files') + Sum(total', Reasons)
    BY <1>e, <1>m, <1>t, RemoveCounts
  <2> QED BY <1>p, <2>1, <2>2
<1>r. ASSUME NEW F \in SUBSET Entries, NEW p, NEW b, NEW e, NEW t \in [Reasons -> Nat], NEW stuck,
             Retain(F, p, b, e, t, stuck), e = Cardinality(F) + Sum(t, Reasons)
      PROVE  Balanced'
  <2>1. enqueued' = e /\ PersistStats(enqueued', total')
    BY <1>r DEF Retain, PersistStats
  <2>2. e = Cardinality(files') + Sum(total', Reasons)
    BY <1>r, <1>t, RetainCounts
  <2> QED BY <1>p, <2>1, <2>2
<1>1. ASSUME NEW n \in Entries, up, Enqueue(n) PROVE Balanced'
  <2>1. PICK stuck \in Stuck(files \cup {n}) :
          Retain(files \cup {n}, pending + 1, bytes + Size[n], enqueued + 1, total, stuck)
    BY <1>1 DEF Enqueue
  <2>2. up /\ ~torn /\ n \notin files /\ files \cup {n} \in SUBSET Entries
    BY <1>1, <1>f DEF Enqueue, Fresh
  <2>3. Cardinality(files \cup {n}) = Cardinality(files) + 1
    BY <1>f, <2>2, FS_AddElement
  <2>4. Sum(total, Reasons) \in Nat
    BY <1>f, ReasonsAreFinite, SumType
  <2>5. enqueued + 1 = Cardinality(files \cup {n}) + Sum(total, Reasons)
    BY <1>e, <1>f, <2>2, <2>3, <2>4
  <2> QED BY <1>f, <1>r, <2>1, <2>2, <2>5
<1>2. ASSUME NEW n \in Entries, up, EnqueueFails(n) PROVE FALSE
  BY <1>2 DEF EnqueueFails
<1>3. ASSUME NEW n \in Entries, NEW r \in Reasons, RemoveEnvelope(n, r) PROVE Balanced'
  <2>1. up /\ ~torn /\ UNCHANGED <<up, torn>>
    BY <1>3 DEF RemoveEnvelope
  <2>2. CASE n \in files \ bad /\ Remove(n, r)
    BY <1>m, <2>1, <2>2
  <2>3. CASE UNCHANGED <<disk, counts, gone>>
    BY <1>u, <2>1, <2>3 DEF disk, counts
  <2> QED BY <1>3, <2>2, <2>3 DEF RemoveEnvelope
<1>4. CASE StartDrain \/ TakeEntry \/ Deliver \/ EndDrain
  BY <1>4, <1>u DEF StartDrain, TakeEntry, Deliver, EndDrain, disk, counts, history
<1>5. CASE FinishEntry
  <2>1. cur \in files /\ up /\ ~torn /\ pc \in Reasons /\ Remove(cur, pc)
    BY <1>5, <1>t DEF FinishEntry, HeldEntryStaysOnDisk, Reasons
  <2> QED BY <1>m, <2>1
<1>6. CASE RetryLater
  <2>1. cur \in files /\ up
    BY <1>6, <1>t DEF RetryLater, HeldEntryStaysOnDisk
  <2>2. UNCHANGED <<files, enqueued, total, torn>> /\ PersistStats(enqueued, total)
    BY <1>6, <2>1 DEF RetryLater, history
  <2>3. PersistStats(enqueued', total')
    BY <2>2 DEF PersistStats
  <2> QED BY <1>e, <1>p, <2>1, <2>2, <2>3
<1>7. ASSUME NEW n \in Entries, Age(n) \/ Damage(n) PROVE Balanced'
  BY <1>7, <1>u DEF Age, Damage, counts, history
<1>8. CASE Crash
  BY <1>8, <1>u DEF Crash, Die, disk
<1>9. ASSUME NEW n \in Entries,
             CrashInEnqueue(n) \/ \E r \in Reasons : CrashInRemoval(n, r)
      PROVE  FALSE
  BY <1>9 DEF CrashInEnqueue, CrashInRemoval
<1>10. CASE ~up /\ Restart
  <2>1. PICK stuck \in Stuck(files) :
          Retain(files, Cardinality(files), Bytes(files),
                 IF saved.enqueued < Cardinality(files) THEN Cardinality(files) ELSE saved.enqueued,
                 saved.total, stuck)
    BY <1>10 DEF Restart
  <2>2. saved.enqueued = Cardinality(files) + Sum(saved.total, Reasons)
    BY <1>10 DEF Restart, Balanced
  <2>3. Sum(saved.total, Reasons) \in Nat
    BY <1>f, ReasonsAreFinite, SumType
  <2>4. ~(saved.enqueued < Cardinality(files))
    BY <1>f, <2>2, <2>3
  <2>5. Retain(files, Cardinality(files), Bytes(files), saved.enqueued, saved.total, stuck)
    BY <2>1, <2>4
  <2> QED BY <1>f, <1>r, <2>2, <2>5
<1>11. CASE ~up /\ CrashInRestart
  BY <1>11 DEF CrashInRestart
<1>12. CASE UNCHANGED vars
  BY <1>12, <1>u DEF vars, disk, counts, history
<1> QED
  BY <1>1, <1>2, <1>3, <1>4, <1>5, <1>6, <1>7, <1>8, <1>9, <1>10, <1>11, <1>12, ReasonsAreFinite
     DEF Next, EnqueuePriority, New, Acknowledge, Reject

\* As long as no file operation fails and no crash falls between a file
\* operation and the statistics write, every entry ever counted is pending,
\* delivered or dropped for one counted reason, across any number of restarts.
THEOREM LossesAreCounted ==
  ASSUME DiskFaults = FALSE
  PROVE  Spec => []EveryEntryAccountedFor
<1>1. Init => Balanced
  <2>1. SUFFICES ASSUME Init PROVE Balanced
    OBVIOUS
  <2>2. /\ saved = ZeroStats /\ enqueued = 0 /\ total = ZeroTotals
        /\ Cardinality(files) = 0
    BY <2>1, FS_EmptySet DEF Init
  <2>3. Sum(ZeroTotals, Reasons) = 0
    <3> DEFINE C == {T \in SUBSET Reasons : Sum(ZeroTotals, T) # 0}
    <3>1. SUFFICES ASSUME C # {} PROVE FALSE
      OBVIOUS
    <3>2. PICK T \in C : \A U \in C : U \subseteq T => U = T
      <4>1. C \subseteq SUBSET Reasons
        OBVIOUS
      <4> HIDE DEF C
      <4> QED BY <3>1, <4>1, ReasonsAreFinite, SmallestSet
    <3>3. IsFiniteSet(T)
      BY ReasonsAreFinite, FS_Subset
    <3>4. T # {}
      BY <3>2, <3>3, SumPick
    <3>5. Pick(T) \in T /\ Sum(ZeroTotals, T) = ZeroTotals[Pick(T)] + Sum(ZeroTotals, T \ {Pick(T)})
      BY <3>3, <3>4, SumPick
    <3>6. ZeroTotals[Pick(T)] = 0 /\ Sum(ZeroTotals, T \ {Pick(T)}) = 0
      BY <3>2, <3>5 DEF ZeroTotals
    <3> QED BY <3>2, <3>5, <3>6
  <2> QED BY <2>2, <2>3 DEF Balanced, ZeroStats
<1>2. Inv /\ Fresh /\ Balanced /\ [Next]_vars => Balanced'
  BY BalancedNext
<1>3. Balanced /\ PendingMatchesFiles => EveryEntryAccountedFor
  <2> SUFFICES ASSUME Balanced, PendingMatchesFiles, up, ~torn
              PROVE  enqueued = pending + MapThenSumSet(LAMBDA r : total[r], Reasons)
    BY DEF EveryEntryAccountedFor
  <2>1. /\ saved.enqueued = enqueued /\ saved.total = total /\ pending = Cardinality(files)
        /\ saved.enqueued = Cardinality(files) + Sum(saved.total, Reasons)
    BY DEF Balanced, PendingMatchesFiles
  <2>2. enqueued = pending + Sum(total, Reasons)
    BY <2>1
  <2> QED BY <2>2 DEF Sum
<1> QED BY <1>1, <1>2, <1>3, FreshAlways, PendingIsExact, PTL DEF Spec

-----------------------------------------------------------------------------
(* No total counts a removal that did not happen, whatever fails. *)

\* The entries whose removal for reason r is on record.
Lost(r) == {n \in Entries : gone[n] = r}

\* An entry on disk has not been removed, and neither the totals in memory nor
\* the saved ones count more removals than there were.
Understated ==
  /\ \A n \in files : gone[n] = None
  /\ \A r \in Reasons : /\ total[r] <= Cardinality(Lost(r))
                        /\ saved.total[r] <= Cardinality(Lost(r))
  /\ up => enqueued >= pending

LEMMA LostGrows ==
  ASSUME TypeOK, NEW r, NEW D \in SUBSET Entries, D \cap Lost(r) = {}, Lost(r)' = Lost(r) \cup D
  PROVE  /\ Cardinality(Lost(r)') = Cardinality(Lost(r)) + Cardinality(D)
         /\ Cardinality(Lost(r)) \in Nat /\ Cardinality(D) \in Nat
<1>1. Lost(r) \in SUBSET Entries
  BY DEF Lost
<1> DEFINE L == Lost(r)
           M == Lost(r)'
<1>2. L \in SUBSET Entries /\ M = L \cup D /\ D \cap L = {}
  BY <1>1
<1> HIDE DEF L, M
<1>3. /\ IsFiniteSet(L) /\ IsFiniteSet(D)
      /\ Cardinality(L) \in Nat /\ Cardinality(D) \in Nat
  BY <1>2, EntrySetsAreFinite
<1>4. Cardinality(L \cup D) = Cardinality(L) + Cardinality(D) - Cardinality(L \cap D)
  BY <1>3, FS_Union
<1>5. Cardinality(L \cap D) = 0
  BY <1>2, FS_EmptySet
<1>6. Cardinality(M) = Cardinality(L) + Cardinality(D)
  BY <1>2, <1>3, <1>4, <1>5
<1> QED BY <1>3, <1>6 DEF L, M

\* Records are only added.
LEMMA LostIsMonotone ==
  ASSUME TypeOK, NEW r \in Reasons, Lost(r) \subseteq Lost(r)', Lost(r)' \subseteq Entries
  PROVE  /\ Cardinality(Lost(r)) <= Cardinality(Lost(r)')
         /\ Cardinality(Lost(r)) \in Nat /\ Cardinality(Lost(r)') \in Nat
<1> DEFINE L == Lost(r)
           M == Lost(r)'
<1>1. L \in SUBSET Entries /\ M \in SUBSET Entries /\ L \subseteq M
  BY DEF Lost
<1> HIDE DEF L, M
<1>2. IsFiniteSet(M) /\ Cardinality(L) \in Nat /\ Cardinality(M) \in Nat
  BY <1>1, EntrySetsAreFinite
<1>3. Cardinality(L) <= Cardinality(M)
  BY <1>1, <1>2, FS_Subset
<1> QED BY <1>2, <1>3 DEF L, M


\* A retention pass counts every file it removes once, under the reason it
\* records for it.
LEMMA RetainUnderstates ==
  ASSUME TypeOK, NEW F \in SUBSET Entries, NEW p \in Nat, NEW b, NEW e \in Nat,
         NEW t \in [Reasons -> Nat], NEW stuck, Retain(F, p, b, e, t, stuck), e >= p,
         \A n \in F : gone[n] = None, \A r \in Reasons : t[r] <= Cardinality(Lost(r))
  PROVE  /\ \A n \in files' : gone'[n] = None
         /\ \A r \in Reasons : Lost(r) \subseteq Lost(r)' /\ total'[r] <= Cardinality(Lost(r)')
         /\ enqueued' >= pending'
<1> DEFINE X == ExpiredBy(F, stuck)
           V == EvictedBy(F, b, stuck)
<1>1. X \in SUBSET F /\ V \in SUBSET F /\ X \cap V = {} /\ Victims(F, b, stuck) = X \cup V
  BY VictimsAreFiles DEF Victims
<1>2. /\ files' = F \ (X \cup V) /\ pending' = LessPending(p, X \cup V) /\ enqueued' = e
      /\ total' = [t EXCEPT !["expired"] = @ + Cardinality(X), !["capacity"] = @ + Cardinality(V)]
      /\ gone' = [n \in Entries |-> IF n \in X THEN "expired" ELSE IF n \in V THEN "capacity"
                                    ELSE gone[n]]
  BY <1>1 DEF Retain, Buried
<1> HIDE DEF X, V
<1>3. \A n \in files' : gone'[n] = None
  BY <1>1, <1>2
<1>4. enqueued' >= pending'
  <2>1. X \cup V \in SUBSET Entries
    BY <1>1
  <2>2. Cardinality(X \cup V) \in Nat
    BY <2>1, EntrySetsAreFinite
  <2> QED BY <1>2, <2>2 DEF LessPending, Clamp
<1>5. /\ Lost("expired")' = Lost("expired") \cup X /\ X \cap Lost("expired") = {}
      /\ Lost("capacity")' = Lost("capacity") \cup V /\ V \cap Lost("capacity") = {}
      /\ \A r \in Reasons \ {"expired", "capacity"} : Lost(r)' = Lost(r)
  <2>1. None \notin {"expired", "capacity"} /\ "expired" # "capacity" /\ None \notin Reasons
    BY DEF None, Reasons
  <2>2. \A n \in X \cup V : gone[n] = None
    BY <1>1
  <2> QED BY <1>1, <1>2, <2>1, <2>2 DEF Lost
<1>6. /\ total'["expired"] = t["expired"] + Cardinality(X)
      /\ total'["capacity"] = t["capacity"] + Cardinality(V)
      /\ \A r \in Reasons \ {"expired", "capacity"} : total'[r] = t[r]
  BY <1>2, ReasonsAreFinite
<1>7. X \in SUBSET Entries /\ V \in SUBSET Entries
  BY <1>1
<1>8. /\ Cardinality(Lost("expired")') = Cardinality(Lost("expired")) + Cardinality(X)
      /\ Cardinality(Lost("expired")) \in Nat /\ Cardinality(X) \in Nat
  BY <1>5, <1>7, LostGrows
<1>9. /\ Cardinality(Lost("capacity")') = Cardinality(Lost("capacity")) + Cardinality(V)
      /\ Cardinality(Lost("capacity")) \in Nat /\ Cardinality(V) \in Nat
  BY <1>5, <1>7, LostGrows
<1>10. ASSUME NEW r \in Reasons
       PROVE  Lost(r) \subseteq Lost(r)' /\ total'[r] <= Cardinality(Lost(r)')
  <2>1. CASE r = "expired"
    <3>1. t["expired"] \in Nat /\ t["expired"] <= Cardinality(Lost("expired"))
      BY ReasonsAreFinite
    <3>2. total'["expired"] <= Cardinality(Lost("expired")')
      BY <1>6, <1>8, <3>1
    <3> QED BY <1>5, <2>1, <3>2
  <2>2. CASE r = "capacity"
    <3>1. t["capacity"] \in Nat /\ t["capacity"] <= Cardinality(Lost("capacity"))
      BY ReasonsAreFinite
    <3>2. total'["capacity"] <= Cardinality(Lost("capacity")')
      BY <1>6, <1>9, <3>1
    <3> QED BY <1>5, <2>2, <3>2
  <2>3. CASE r \notin {"expired", "capacity"}
    <3>1. Lost(r)' = Lost(r) /\ total'[r] = t[r] /\ t[r] <= Cardinality(Lost(r))
      BY <1>5, <1>6, <2>3
    <3> QED BY <3>1
  <2> QED BY <2>1, <2>2, <2>3
<1> QED BY <1>3, <1>4, <1>10

LEMMA RemoveUnderstates ==
  ASSUME TypeOK, Understated, NEW n \in files, NEW r \in Reasons, Remove(n, r), up
  PROVE  /\ \A m \in files' : gone'[m] = None
         /\ \A q \in Reasons : Lost(q) \subseteq Lost(q)' /\ total'[q] <= Cardinality(Lost(q)')
         /\ enqueued' >= pending'
<1>1. /\ files' = files \ {n} /\ pending' = LessPending(pending, {n}) /\ enqueued' = enqueued
      /\ total' = [total EXCEPT ![r] = @ + 1] /\ gone' = [gone EXCEPT ![n] = r]
  BY DEF Remove
<1>2. /\ n \in Entries /\ total \in [Reasons -> Nat] /\ pending \in Nat /\ enqueued \in Nat
      /\ gone \in [Entries -> Reasons \cup {None}] /\ files \subseteq Entries
  BY DEF TypeOK
<1>3. /\ gone[n] = None /\ enqueued >= pending /\ None \notin Reasons
      /\ \A q \in Reasons : total[q] <= Cardinality(Lost(q))
      /\ \A m \in files : gone[m] = None
  BY ReasonsAreFinite DEF Understated
<1>4. /\ Lost(r)' = Lost(r) \cup {n} /\ {n} \cap Lost(r) = {}
      /\ \A q \in Reasons \ {r} : Lost(q)' = Lost(q)
  BY <1>1, <1>2, <1>3 DEF Lost
<1>5. Cardinality({n}) = 1
  BY FS_Singleton
<1>6. Cardinality(Lost(r)') = Cardinality(Lost(r)) + 1 /\ Cardinality(Lost(r)) \in Nat
  <2>1. {n} \in SUBSET Entries
    BY <1>2
  <2>2. /\ Cardinality(Lost(r)') = Cardinality(Lost(r)) + Cardinality({n})
        /\ Cardinality(Lost(r)) \in Nat
    BY <1>4, <2>1, LostGrows
  <2> QED BY <1>5, <2>2
<1>7. enqueued' >= pending'
  BY <1>1, <1>2, <1>3, <1>5 DEF LessPending, Clamp
<1>8. total'[r] <= Cardinality(Lost(r)')
  <2>1. total'[r] = total[r] + 1 /\ total[r] \in Nat /\ total[r] <= Cardinality(Lost(r))
    BY <1>1, <1>2, <1>3
  <2> QED BY <1>6, <2>1
<1>9. \A q \in Reasons \ {r} : total'[q] <= Cardinality(Lost(q)')
  <2>1. \A q \in Reasons \ {r} : total'[q] = total[q]
    BY <1>1, <1>2
  <2> QED BY <1>3, <1>4, <2>1
<1> QED BY <1>1, <1>2, <1>3, <1>4, <1>7, <1>8, <1>9


LEMMA UnderstatedNext == Inv /\ Fresh /\ Understated /\ [Next]_vars => Understated'
<1> SUFFICES ASSUME Inv, Fresh, Understated, [Next]_vars PROVE Understated'
  OBVIOUS
<1>t. TypeOK /\ HeldEntryStaysOnDisk
  BY DEF Inv
<1>f. /\ files \subseteq Entries /\ gone \in [Entries -> Reasons \cup {None}]
      /\ total \in [Reasons -> Nat] /\ saved.total \in [Reasons -> Nat] /\ saved.enqueued \in Nat
      /\ pending \in Nat /\ enqueued \in Nat /\ None \notin Reasons
  BY <1>t, ReasonsAreFinite DEF TypeOK
<1>g. /\ \A n \in files : gone[n] = None
      /\ \A r \in Reasons : /\ total[r] <= Cardinality(Lost(r))
                            /\ saved.total[r] <= Cardinality(Lost(r))
      /\ up => enqueued >= pending
  BY DEF Understated
\* The saved totals follow, as the records only grow.
<1>s. ASSUME \A n \in files' : gone'[n] = None, up' => enqueued' >= pending',
             \A r \in Reasons : Lost(r) \subseteq Lost(r)' /\ total'[r] <= Cardinality(Lost(r)'),
             saved' = saved \/ saved'.total = total'
      PROVE  Understated'
  <2>1. ASSUME NEW r \in Reasons PROVE saved'.total[r] <= Cardinality(Lost(r)')
    <3>1. Lost(r)' \subseteq Entries
      BY DEF Lost
    <3>2. /\ Cardinality(Lost(r)) <= Cardinality(Lost(r)')
          /\ Cardinality(Lost(r)) \in Nat /\ Cardinality(Lost(r)') \in Nat
      BY <1>s, <1>t, <3>1, LostIsMonotone
    <3>3. saved.total[r] \in Nat /\ saved.total[r] <= Cardinality(Lost(r))
      BY <1>f, <1>g
    <3>4. saved.total[r] <= Cardinality(Lost(r)')
      BY <3>2, <3>3
    <3> QED BY <1>s, <3>4
  <2> QED BY <1>s, <2>1 DEF Understated
\* Steps that record no removal.
<1>u. ASSUME gone' = gone, \A n \in files' : gone[n] = None, total' = total,
             saved' = saved \/ saved'.total = total', up' => enqueued' >= pending'
      PROVE  Understated'
  <2>1. \A r : Lost(r)' = Lost(r)
    BY <1>u DEF Lost
  <2> QED BY <1>g, <1>s, <1>u, <2>1
<1>m. ASSUME up, NEW n \in files, NEW r \in Reasons, Remove(n, r) PROVE Understated'
  <2>1. saved' = saved \/ saved'.total = total'
    <3>1. PersistStats(enqueued, total')
      BY <1>m DEF Remove
    <3> QED BY <3>1 DEF PersistStats
  <2> QED BY <1>m, <1>s, <1>t, <2>1, RemoveUnderstates
<1>r. ASSUME NEW F \in SUBSET Entries, NEW p \in Nat, NEW b, NEW e \in Nat,
             NEW t \in [Reasons -> Nat], NEW stuck, Retain(F, p, b, e, t, stuck), e >= p,
             \A n \in F : gone[n] = None, \A r \in Reasons : t[r] <= Cardinality(Lost(r))
      PROVE  Understated'
  <2>1. saved' = saved \/ saved'.total = total'
    <3>1. PersistStats(e, total')
      BY <1>r DEF Retain
    <3> QED BY <3>1 DEF PersistStats
  <2> QED BY <1>r, <1>s, <1>t, <2>1, RetainUnderstates
\* After a death the totals in memory are zero.
<1>d. ASSUME Die, saved' = saved, NEW D \in SUBSET Entries, \A n \in D : gone[n] = None,
             \A n \in Entries \ D : gone'[n] = gone[n], \A n \in files' : gone'[n] = None,
             gone' \in [Entries -> Reasons \cup {None}]
      PROVE  Understated'
  <2>1. total' = ZeroTotals /\ ~up'
    BY <1>d DEF Die
  <2>2. ASSUME NEW r \in Reasons
        PROVE  Lost(r) \subseteq Lost(r)' /\ total'[r] <= Cardinality(Lost(r)')
    <3>1. Lost(r) \subseteq Lost(r)'
      BY <1>d, <1>f DEF Lost
    <3>2. Lost(r)' \in SUBSET Entries
      BY DEF Lost
    <3>3. Cardinality(Lost(r)') \in Nat
      BY <3>2, EntrySetsAreFinite
    <3>4. total'[r] = 0
      BY <2>1 DEF ZeroTotals
    <3> QED BY <3>1, <3>3, <3>4
  <2> QED BY <1>d, <1>s, <2>1, <2>2
\* A death in the middle of a retention pass over F.
<1>q. ASSUME NEW F \in SUBSET Entries, NEW b, Die, saved' = saved, DieInRetention(F, b),
             \A n \in F : gone[n] = None
      PROVE  Understated'
  <2>1. PICK D \in SUBSET Victims(F, b, {}) :
          /\ files' = F \ D
          /\ gone' = [n \in Entries |-> IF n \in D THEN Buried(F, b, {})[n] ELSE gone[n]]
    BY <1>q DEF DieInRetention
  <2>2. D \subseteq F
    BY <2>1, VictimsAreFiles
  <2>3. \A n \in Entries : Buried(F, b, {})[n] \in Reasons \cup {None}
    BY <1>f, ReasonsAreFinite DEF Buried
  <2>4. /\ D \in SUBSET Entries /\ \A n \in D : gone[n] = None
        /\ \A n \in Entries \ D : gone'[n] = gone[n] /\ \A m \in files' : gone'[m] = None
        /\ \A m \in files' : gone'[m] = None
        /\ gone' \in [Entries -> Reasons \cup {None}]
    BY <1>f, <1>q, <2>1, <2>2, <2>3
  <2> QED BY <1>d, <1>q, <2>4
<1>1. ASSUME NEW n \in Entries, up, Enqueue(n) PROVE Understated'
  <2>1. PICK stuck \in Stuck(files \cup {n}) :
          Retain(files \cup {n}, pending + 1, bytes + Size[n], enqueued + 1, total, stuck)
    BY <1>1 DEF Enqueue
  <2>2. up /\ gone[n] = None
    BY <1>1 DEF Enqueue, Fresh
  <2>3. /\ files \cup {n} \in SUBSET Entries /\ \A m \in files \cup {n} : gone[m] = None
        /\ pending + 1 \in Nat /\ enqueued + 1 \in Nat /\ enqueued + 1 >= pending + 1
    BY <1>f, <1>g, <2>2
  <2> QED BY <1>f, <1>g, <1>r, <2>1, <2>3
<1>2. ASSUME NEW n \in Entries, up, EnqueueFails(n) PROVE Understated'
  <2>1. gone[n] = None /\ up
    BY <1>2 DEF EnqueueFails, Fresh
  <2>2. saved' = saved \/ saved'.total = total'
    BY <1>2 DEF EnqueueFails, PersistStats, counts
  <2> QED BY <1>2, <1>g, <1>u, <2>1, <2>2 DEF EnqueueFails, counts
<1>3. ASSUME NEW n \in Entries, NEW r \in Reasons, RemoveEnvelope(n, r) PROVE Understated'
  <2>1. CASE n \in files \ bad /\ Remove(n, r)
    BY <1>3, <1>m, <2>1 DEF RemoveEnvelope
  <2>2. CASE UNCHANGED <<disk, counts, gone>>
    BY <1>3, <1>g, <1>u, <2>2 DEF RemoveEnvelope, disk, counts
  <2> QED BY <1>3, <2>1, <2>2 DEF RemoveEnvelope
<1>4. CASE StartDrain \/ TakeEntry \/ Deliver \/ EndDrain
  BY <1>4, <1>g, <1>u DEF StartDrain, TakeEntry, Deliver, EndDrain, disk, counts, history
<1>5. CASE FinishEntry
  <2>1. cur \in files /\ up /\ pc \in Reasons
    BY <1>5, <1>t DEF FinishEntry, HeldEntryStaysOnDisk, Reasons
  <2>2. CASE Remove(cur, pc)
    BY <1>m, <2>1, <2>2
  <2>3. CASE UNCHANGED <<disk, counts, gone>>
    BY <1>g, <1>u, <2>1, <2>3 DEF disk, counts
  <2> QED BY <1>5, <2>2, <2>3 DEF FinishEntry
<1>6. CASE RetryLater
  <2>1. cur \in files
    BY <1>6, <1>t DEF RetryLater, HeldEntryStaysOnDisk
  <2>2. /\ files' = files /\ gone' = gone /\ total' = total
        /\ UNCHANGED <<up, enqueued, pending>>
    BY <1>6, <2>1 DEF RetryLater, history
  <2>3. saved' = saved \/ saved'.total = total'
    BY <1>6, <2>2 DEF RetryLater, PersistStats
  <2> QED BY <1>g, <1>u, <2>2, <2>3
<1>7. ASSUME NEW n \in Entries, Age(n) \/ Damage(n) PROVE Understated'
  BY <1>7, <1>g, <1>u DEF Age, Damage, counts, history
<1>8. CASE Crash
  <2>1. Die /\ saved' = saved /\ files' = files /\ gone' = gone
    BY <1>8 DEF Crash, disk
  <2> QED BY <1>d, <1>f, <1>g, <2>1
<1>9. ASSUME NEW n \in Entries, up, CrashInEnqueue(n) PROVE Understated'
  <2>1. /\ Die /\ saved' = saved /\ gone[n] = None
        /\ DieInRetention(files \cup {n}, bytes + Size[n])
    BY <1>9 DEF CrashInEnqueue, Fresh
  <2>2. files \cup {n} \in SUBSET Entries /\ \A m \in files \cup {n} : gone[m] = None
    BY <1>f, <1>g, <2>1
  <2> QED BY <1>q, <2>1, <2>2
<1>10. ASSUME NEW n \in Entries, NEW r \in Reasons, CrashInRemoval(n, r) PROVE Understated'
  <2>1. /\ Die /\ saved' = saved /\ n \in files /\ files' = files \ {n}
        /\ gone' = [gone EXCEPT ![n] = r]
    BY <1>10 DEF CrashInRemoval
  <2>2. /\ {n} \in SUBSET Entries /\ \A m \in {n} : gone[m] = None
        /\ \A m \in Entries \ {n} : gone'[m] = gone[m]
        /\ \A m \in files' : gone'[m] = None
        /\ gone' \in [Entries -> Reasons \cup {None}]
    BY <1>f, <1>g, <2>1
  <2> QED BY <1>d, <2>1, <2>2
<1>11. CASE ~up /\ Restart
  <2>1. PICK s \in {saved} \cup (IF DiskFaults THEN {ZeroStats} ELSE {}), stuck \in Stuck(files) :
          Retain(files, Cardinality(files), Bytes(files),
                 IF s.enqueued < Cardinality(files) THEN Cardinality(files) ELSE s.enqueued,
                 s.total, stuck)
    BY <1>11 DEF Restart
  <2>2. s \in {saved, ZeroStats}
    BY <2>1
  <2>3. /\ s.enqueued \in Nat /\ s.total \in [Reasons -> Nat]
        /\ \A r \in Reasons : s.total[r] <= Cardinality(Lost(r))
    <3>1. CASE s = saved
      BY <1>f, <1>g, <3>1
    <3>2. CASE s = ZeroStats
      <4>1. s.enqueued = 0 /\ s.total \in [Reasons -> Nat] /\ \A r \in Reasons : s.total[r] = 0
        BY <3>2 DEF ZeroStats, ZeroTotals
      <4>2. ASSUME NEW r \in Reasons PROVE Cardinality(Lost(r)) \in Nat
        <5>1. Lost(r) \in SUBSET Entries
          BY DEF Lost
        <5> QED BY <5>1, EntrySetsAreFinite
      <4> QED BY <4>1, <4>2
    <3> QED BY <2>2, <3>1, <3>2
  <2> DEFINE e == IF s.enqueued < Cardinality(files) THEN Cardinality(files) ELSE s.enqueued
  <2>4. Cardinality(files) \in Nat
    BY <1>f, EntrySetsAreFinite
  <2>5. e \in Nat /\ e >= Cardinality(files)
    BY <2>3, <2>4
  <2>6. Retain(files, Cardinality(files), Bytes(files), e, s.total, stuck)
    BY <2>1
  <2> HIDE DEF e
  <2> QED BY <1>f, <1>g, <1>r, <2>3, <2>4, <2>5, <2>6
<1>12. CASE ~up /\ CrashInRestart
  BY <1>12, <1>f, <1>g, <1>q DEF CrashInRestart
<1>13. CASE UNCHANGED vars
  BY <1>13, <1>g, <1>u DEF vars, disk, counts, history
<1> QED
  BY <1>1, <1>2, <1>3, <1>4, <1>5, <1>6, <1>7, <1>8, <1>9, <1>10, <1>11, <1>12, <1>13,
     ReasonsAreFinite
     DEF Next, EnqueuePriority, New, Acknowledge, Reject

\* Whatever file operations fail and wherever the process dies, no total counts
\* a removal that did not happen, not even one restored from the statistics
\* file, and no more entries are pending than were counted as enqueued.
THEOREM TotalsAreHonest == Spec => []TotalsNeverOverstate
<1>1. Init => Understated
  <2> SUFFICES ASSUME Init PROVE Understated
    OBVIOUS
  <2>1. ASSUME NEW r \in Reasons PROVE Cardinality(Lost(r)) \in Nat
    <3>1. Lost(r) \in SUBSET Entries
      BY DEF Lost
    <3> QED BY <3>1, EntrySetsAreFinite
  <2>2. /\ total = ZeroTotals /\ saved.total = ZeroTotals /\ files = {}
        /\ enqueued = 0 /\ pending = 0
    BY DEF Init, ZeroStats
  <2> QED BY <2>1, <2>2 DEF Understated, ZeroTotals
<1>2. Understated => TotalsNeverOverstate
  BY DEF Understated, TotalsNeverOverstate, Lost
<1> QED BY <1>1, <1>2, FreshAlways, UnderstatedNext, PTL DEF Spec

=============================================================================

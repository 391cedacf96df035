----------------------------- MODULE HostProofs -----------------------------
(***************************************************************************)
(* Proofs about the parts of the agent that act on the host and share no   *)
(* state with each other: quarantine (Quarantine), firewall and process    *)
(* actions (HostActions), the remote configuration with the loops that     *)
(* follow it (RuntimeConfig) and the package scripts (Releases).           *)
(***************************************************************************)
EXTENDS Quarantine, HostActions, RuntimeConfig, Releases, SequenceTheorems, FiniteSetTheorems, WellFoundedInduction, TLAPS

-----------------------------------------------------------------------------
(* Quarantine *)

\* At most one file.
AtMostOne == {{f} : f \in Inodes} \cup {{}}

Copies == [of : Inodes, holds : Nat, whole : BOOLEAN, data : BOOLEAN, entry : BOOLEAN]

\* The steps at which the copy is there and nothing is removed yet.
Copying == {"copy", "sync", "sync directory", "revalidate", "remove"}

\* The steps before which the data of the copy is written, before which it is
\* synced, and before which its directory entry is.
AfterCopy  == {"sync", "sync directory", "revalidate", "remove", "sync removal"}
AfterSync  == {"sync directory", "revalidate", "remove", "sync removal"}
AfterEntry == {"revalidate", "remove", "sync removal"}

QuarType ==
  /\ at \in AtMostOne /\ info \in AtMostOne /\ unsynced \in AtMostOne
  /\ content \in [Inodes -> Nat]
  /\ copy \in SUBSET Copies
  /\ step \in Copying \cup {"look", "open", "create", "sync removal", "end"}
  /\ verdict \in {"none", "success", "failed", "interrupted"}
  /\ (step = "end") <=> (verdict # "none")

\* The copy of a running action is of the file that was opened and has what the
\* steps so far give it.  No copy is ahead of its file.
CopyIsOfTarget ==
  /\ \A c \in copy : c.holds <= content[c.of]
  /\ step \in Copying \cup {"sync removal"} => info # {} /\ \E c \in copy : {c.of} = info
  /\ step \in Copying \cup {"sync removal"} => \A c \in copy : {c.of} = info
  /\ step \in AfterCopy  => \A c \in copy : c.whole
  /\ step \in AfterSync  => \A c \in copy : c.data
  /\ step \in AfterEntry => \A c \in copy : c.entry

Durable(c) == c.whole /\ c.data /\ c.entry

\* What was removed has a copy that no power loss can take away.
RemovedIsKept ==
  /\ step \in Copying \cup {"look", "open", "create"} => removed = {}
  /\ removed \in SUBSET [file : Inodes, held : Nat]
  /\ \A r \in removed : r.file \in info =>
       \E c \in copy : Durable(c) /\ c.of = r.file /\ c.holds <= r.held
  /\ verdict = "success" => \E c \in copy : Durable(c) /\ {c.of} = info

QuarInv == QuarType /\ CopyIsOfTarget /\ RemovedIsKept

LEMMA InitQuar == QInit => QuarInv
BY DEF QInit, QuarInv, QuarType, CopyIsOfTarget, RemovedIsKept, AtMostOne, Copying, Copies,
       AfterCopy, AfterSync, AfterEntry

\* A failure at a step before the removal, with the copy dropped or left.
LEMMA FailKeeps ==
  ASSUME QuarInv, verdict = "none", FailAndDrop \/ FailsHere, removed = {} \/ FailsHere
  PROVE  QuarInv'
<1>1. QuarType'
  BY DEF QuarInv, QuarType, FailAndDrop, FailsHere
<1>2. copy' \subseteq copy /\ UNCHANGED <<content, info, removed>> /\ verdict' = "failed" /\ step' = "end"
  BY DEF FailAndDrop, FailsHere
<1>3. CopyIsOfTarget'
  BY <1>2 DEF QuarInv, CopyIsOfTarget, Copying, AfterCopy, AfterSync, AfterEntry
<1>4. removed = {} \/ UNCHANGED copy
  BY DEF FailsHere
<1>5. RemovedIsKept'
  BY <1>2, <1>4 DEF QuarInv, RemovedIsKept, Copying
<1>6. QED BY <1>1, <1>3, <1>5 DEF QuarInv

LEMMA OthersKeepQuar ==
  ASSUME QuarInv, (\E f \in Inodes : Overwrite(f)) \/ Swap
  PROVE  QuarInv'
<1>1. ASSUME NEW f \in Inodes, Overwrite(f) PROVE QuarInv'
  <2>0. content \in [Inodes -> Nat] /\ content' = [content EXCEPT ![f] = content[f] + 1]
    BY <1>1 DEF QuarInv, QuarType, Overwrite
  <2>1. /\ content' \in [Inodes -> Nat]
        /\ \A g \in Inodes : content[g] <= content'[g]
    <3>1. \A g \in Inodes : content[g] \in Nat /\ content'[g] = IF g = f THEN content[g] + 1 ELSE content[g]
      BY <2>0
    <3>2. \A g \in Inodes : content'[g] \in Nat
      BY <3>1
    <3>3. QED BY <2>0, <3>1, <3>2
  <2>2. CopyIsOfTarget'
    <3>1. \A c \in copy : c.of \in Inodes /\ c.holds \in Nat
      BY DEF QuarInv, QuarType, Copies
    <3>2. ASSUME NEW c \in copy' PROVE c.holds <= content'[c.of]
      <4>1. c \in copy /\ c.of \in Inodes /\ c.holds \in Nat /\ c.holds <= content[c.of]
        BY <1>1, <3>1 DEF QuarInv, CopyIsOfTarget, Overwrite
      <4>2. content[c.of] \in Nat /\ content'[c.of] \in Nat /\ content[c.of] <= content'[c.of]
        BY <2>0, <2>1, <4>1
      <4>3. QED BY <4>1, <4>2
    <3>3. QED BY <1>1, <3>2 DEF QuarInv, CopyIsOfTarget, Overwrite
  <2>3. QED BY <1>1, <2>1, <2>2 DEF QuarInv, QuarType, RemovedIsKept, Overwrite
<1>2. CASE Swap
  BY <1>2 DEF Swap, QuarInv, QuarType, CopyIsOfTarget, RemovedIsKept, AtMostOne
<1>3. QED BY <1>1, <1>2

LEMMA StepsKeepQuar ==
  ASSUME QuarInv,
         Look \/ Open \/ Create \/ CopyData \/ SyncData \/ SyncDirectory \/ Revalidate
  PROVE  QuarInv'
<1> USE DEF Running, GoTo
<1>0. verdict = "none" /\ removed = {}
  BY DEF QuarInv, QuarType, RemovedIsKept, Copying, Look, Open, Create, CopyData, SyncData,
         SyncDirectory, Revalidate
<1>f. ASSUME FailAndDrop \/ FailsHere PROVE QuarInv'
  BY <1>0, <1>f, FailKeeps
<1>1. CASE Look /\ ~FailsHere
  BY <1>0, <1>1 DEF Look, QuarInv, QuarType, CopyIsOfTarget, RemovedIsKept, Copying, AfterCopy,
                    AfterSync, AfterEntry
<1>2. CASE Open /\ ~FailsHere
  BY <1>0, <1>2 DEF Open, QuarInv, QuarType, CopyIsOfTarget, RemovedIsKept, Copying, AfterCopy,
                    AfterSync, AfterEntry
<1>3. CASE Create /\ ~FailsHere
  <2>1. PICK f \in info :
          copy' = {[of |-> f, holds |-> 0, whole |-> FALSE, data |-> FALSE, entry |-> FALSE]}
    BY <1>3 DEF Create
  <2>2. f \in Inodes /\ info = {f}
    BY DEF QuarInv, QuarType, AtMostOne
  <2>3. step' = "copy" /\ UNCHANGED <<at, content, info, unsynced, removed, verdict>>
    BY <1>3 DEF Create
  <2>b. FALSE \in BOOLEAN
    BY Zenon
  <2>4. ASSUME NEW c \in copy'
        PROVE  c \in Copies /\ {c.of} = info /\ c.holds <= content[c.of]
    <3>1. c = [of |-> f, holds |-> 0, whole |-> FALSE, data |-> FALSE, entry |-> FALSE]
      BY <2>1
    <3>2. c \in Copies
      BY <2>2, <2>b, <3>1 DEF Copies
    <3>3. content[f] \in Nat
      BY <2>2 DEF QuarInv, QuarType
    <3>4. c.of = f /\ c.holds = 0
      BY <3>1
    <3>5. QED BY <2>2, <3>2, <3>3, <3>4
  <2>5. copy' # {}
    BY <2>1
  <2>6. QuarType'
    BY <2>3, <2>4, <1>0 DEF QuarInv, QuarType, Copying
  <2>7. CopyIsOfTarget'
    BY <2>2, <2>3, <2>4, <2>5
    DEF QuarInv, QuarType, CopyIsOfTarget, Copying, AfterCopy, AfterSync, AfterEntry
  <2>8. QED BY <1>0, <2>3, <2>6, <2>7 DEF QuarInv, RemovedIsKept, Copying
<1>4. CASE CopyData /\ ~FailAndDrop
  <2>1. /\ step = "copy" /\ step' = "sync"
        /\ UNCHANGED <<at, content, info, unsynced, removed, verdict>>
        /\ copy' = {[c EXCEPT !.holds = content[c.of], !.whole = TRUE] : c \in copy}
    BY <1>4 DEF CopyData
  <2>2. \A c \in copy : c \in Copies /\ {c.of} = info /\ content[c.of] \in Nat
    BY <2>1 DEF QuarInv, QuarType, CopyIsOfTarget, Copying, Copies
  <2>b. TRUE \in BOOLEAN
    BY Zenon
  <2>3. ASSUME NEW c \in copy'
        PROVE  /\ c \in Copies /\ {c.of} = info /\ c.whole
               /\ c.holds <= content[c.of]
    <3>1. PICK d \in copy : c = [d EXCEPT !.holds = content[d.of], !.whole = TRUE]
      BY <2>1
    <3>2. d \in Copies /\ {d.of} = info /\ content[d.of] \in Nat
      BY <2>2
    <3>3. c \in Copies /\ c.of = d.of /\ c.holds = content[d.of] /\ c.whole
      BY <2>b, <3>1, <3>2 DEF Copies
    <3>4. QED BY <3>2, <3>3
  <2>4. info # {} /\ copy' # {}
    BY <2>1 DEF QuarInv, CopyIsOfTarget, Copying
  <2>5. QuarType'
    BY <1>0, <2>1, <2>3 DEF QuarInv, QuarType, Copying
  <2>6. CopyIsOfTarget'
    BY <2>1, <2>3, <2>4
    DEF QuarInv, QuarType, CopyIsOfTarget, Copying, AfterCopy, AfterSync, AfterEntry, Copies
  <2>7. QED BY <1>0, <2>1, <2>5, <2>6 DEF QuarInv, RemovedIsKept, Copying
<1>5. CASE SyncData /\ ~FailAndDrop
  <2>1. /\ step = "sync" /\ step' = "sync directory"
        /\ UNCHANGED <<at, content, info, unsynced, removed, verdict>>
        /\ copy' = {[c EXCEPT !.data = TRUE] : c \in copy}
    BY <1>5 DEF SyncData
  <2>2. \A c \in copy : c \in Copies /\ {c.of} = info /\ c.whole /\ c.holds <= content[c.of]
    BY <2>1 DEF QuarInv, QuarType, CopyIsOfTarget, Copying, AfterCopy
  <2>3. \A c \in copy' :
          c \in Copies /\ {c.of} = info /\ c.holds <= content[c.of] /\ c.whole /\ c.data
    BY <2>1, <2>2 DEF Copies
  <2>4. info # {} /\ copy' # {}
    BY <2>1 DEF QuarInv, CopyIsOfTarget, Copying
  <2>5. QuarType'
    BY <1>0, <2>1, <2>3 DEF QuarInv, QuarType, Copying
  <2>6. CopyIsOfTarget'
    BY <2>1, <2>3, <2>4
    DEF QuarInv, QuarType, CopyIsOfTarget, Copying, AfterCopy, AfterSync, AfterEntry
  <2>7. QED BY <1>0, <2>1, <2>5, <2>6 DEF QuarInv, RemovedIsKept, Copying
<1>6. CASE SyncDirectory /\ ~FailAndDrop
  <2>1. /\ step = "sync directory" /\ step' = "revalidate"
        /\ UNCHANGED <<at, content, info, unsynced, removed, verdict>>
        /\ copy' = {[c EXCEPT !.entry = TRUE] : c \in copy}
    BY <1>6 DEF SyncDirectory, EntrySynced
  <2>2. \A c \in copy :
          c \in Copies /\ {c.of} = info /\ c.whole /\ c.data /\ c.holds <= content[c.of]
    BY <2>1 DEF QuarInv, QuarType, CopyIsOfTarget, Copying, AfterCopy, AfterSync
  <2>3. \A c \in copy' :
          c \in Copies /\ {c.of} = info /\ c.holds <= content[c.of] /\ c.whole /\ c.data /\ c.entry
    BY <2>1, <2>2 DEF Copies
  <2>4. info # {} /\ copy' # {}
    BY <2>1 DEF QuarInv, CopyIsOfTarget, Copying
  <2>5. QuarType'
    BY <1>0, <2>1, <2>3 DEF QuarInv, QuarType, Copying
  <2>6. CopyIsOfTarget'
    BY <2>1, <2>3, <2>4
    DEF QuarInv, QuarType, CopyIsOfTarget, Copying, AfterCopy, AfterSync, AfterEntry
  <2>7. QED BY <1>0, <2>1, <2>5, <2>6 DEF QuarInv, RemovedIsKept, Copying
<1>7. CASE Revalidate /\ ~FailAndDrop
  BY <1>0, <1>7 DEF Revalidate, QuarInv, QuarType, CopyIsOfTarget, RemovedIsKept, Copying,
                    AfterCopy, AfterSync, AfterEntry
<1>8. QED BY <1>f, <1>1, <1>2, <1>3, <1>4, <1>5, <1>6, <1>7

LEMMA RemovalKeepsQuar ==
  ASSUME QuarInv, RemoveTarget \/ SyncRemoval
  PROVE  QuarInv'
<1> USE DEF Running, GoTo
<1>1. CASE RemoveTarget /\ FailAndDrop
  BY <1>1, FailKeeps DEF RemoveTarget, QuarInv, RemovedIsKept, Copying
<1>2. CASE RemoveTarget /\ ~FailAndDrop
  <2>1. /\ step = "remove" /\ step' = "sync removal" /\ verdict = "none"
        /\ at # {} /\ at' = {} /\ unsynced' = at
        /\ UNCHANGED <<content, copy, info, verdict>>
        /\ removed' = {[file |-> f, held |-> content[f]] : f \in at}
    BY <1>2 DEF RemoveTarget
  <2>2. QuarType'
    BY <2>1 DEF QuarInv, QuarType, AtMostOne
  <2>3. CopyIsOfTarget'
    BY <2>1 DEF QuarInv, CopyIsOfTarget, Copying, AfterCopy, AfterSync, AfterEntry
  <2>4. PICK c \in copy :
          {c.of} = info /\ c.whole /\ c.data /\ c.entry /\ c.holds <= content[c.of]
    BY <2>1 DEF QuarInv, CopyIsOfTarget, Copying, AfterCopy, AfterSync, AfterEntry
  <2>a. \A f \in at : f \in Inodes /\ content[f] \in Nat
    BY DEF QuarInv, QuarType, AtMostOne
  <2>5. ASSUME NEW r \in removed'
        PROVE  r.held = content[r.file] /\ r \in [file : Inodes, held : Nat]
    <3>1. PICK f \in at : r = [file |-> f, held |-> content[f]]
      BY <2>1
    <3>2. QED BY <2>a, <3>1
  <2>6. RemovedIsKept'
    BY <2>1, <2>4, <2>5 DEF QuarInv, RemovedIsKept, Durable, Copying
  <2>7. QED BY <2>2, <2>3, <2>6 DEF QuarInv
<1>3. CASE SyncRemoval /\ FailsHere
  BY <1>3, FailKeeps DEF SyncRemoval
<1>4. CASE SyncRemoval /\ ~FailsHere
  <2>1. /\ step = "sync removal" /\ step' = "end" /\ verdict = "none" /\ verdict' = "success"
        /\ unsynced' = {} /\ UNCHANGED <<at, content, copy, info, removed>>
    BY <1>4 DEF SyncRemoval
  <2>2. PICK c \in copy : {c.of} = info /\ c.whole /\ c.data /\ c.entry
    BY <2>1 DEF QuarInv, CopyIsOfTarget, Copying, AfterCopy, AfterSync, AfterEntry
  <2>3. QuarType'
    BY <2>1 DEF QuarInv, QuarType, AtMostOne
  <2>4. CopyIsOfTarget'
    BY <2>1 DEF QuarInv, CopyIsOfTarget, Copying, AfterCopy, AfterSync, AfterEntry
  <2>5. RemovedIsKept'
    BY <2>1, <2>2 DEF QuarInv, RemovedIsKept, Durable, Copying
  <2>6. QED BY <2>3, <2>4, <2>5 DEF QuarInv
<1>5. QED BY <1>1, <1>2, <1>3, <1>4

LEMMA PowerLossKeepsQuar ==
  ASSUME QuarInv, PowerLoss
  PROVE  QuarInv'
<1>1. PICK keepsEntry \in BOOLEAN, keepsData \in BOOLEAN :
        copy' = {[c EXCEPT !.whole = c.whole /\ (c.data \/ keepsData)] :
                   c \in {d \in copy : d.entry \/ keepsEntry}}
  BY DEF PowerLoss
<1>2. /\ verdict' = "interrupted" /\ step' = "end" /\ unsynced' = {}
      /\ at' \in {at, unsynced} /\ UNCHANGED <<content, info, removed>>
  BY DEF PowerLoss
<1>3. \A c \in copy' : c \in Copies /\ \E d \in copy : c.of = d.of /\ c.holds = d.holds
  BY <1>1 DEF QuarInv, QuarType, Copies
<1>4. ASSUME NEW c \in copy, Durable(c) PROVE c \in copy'
  <2>1. c = [c EXCEPT !.whole = c.whole /\ (c.data \/ keepsData)]
    BY <1>4 DEF Durable, QuarInv, QuarType, Copies
  <2>2. QED BY <1>1, <1>4, <2>1 DEF Durable
<1>5. QuarType'
  BY <1>2, <1>3 DEF QuarInv, QuarType, AtMostOne
<1>6. CopyIsOfTarget'
  BY <1>2, <1>3 DEF QuarInv, CopyIsOfTarget, Copying, AfterCopy, AfterSync, AfterEntry
<1>7. RemovedIsKept'
  BY <1>2, <1>4 DEF QuarInv, RemovedIsKept, Copying
<1>8. QED BY <1>5, <1>6, <1>7 DEF QuarInv

\* Whatever fails, whoever writes or replaces the file in between and whenever power
\* is lost, runQuarantineFile leaves what it removed whole in quarantine: the copy
\* and its directory entry are synced before the removal.
THEOREM QuarantineIsSafe == QuarSpec => []QuarantineKeepsEvidence
<1>1. QuarInv /\ [QNext]_qVars => QuarInv'
  <2> SUFFICES ASSUME QuarInv, [QNext]_qVars PROVE QuarInv'
    OBVIOUS
  <2>1. CASE UNCHANGED qVars
    BY <2>1 DEF qVars, QuarInv, QuarType, CopyIsOfTarget, RemovedIsKept
  <2>2. QED
    BY <2>1, OthersKeepQuar, StepsKeepQuar, RemovalKeepsQuar, PowerLossKeepsQuar DEF QNext
<1>2. QuarInv => QuarantineKeepsEvidence
  BY DEF QuarInv, RemovedIsKept, Durable, QuarantineKeepsEvidence
<1>3. QED BY <1>1, <1>2, InitQuar, PTL DEF QuarSpec

-----------------------------------------------------------------------------
(* Firewall and process actions *)

KillSteps == {"resolve", "kill"}
BlockSteps == {"chain", "add"}
UnblockSteps == {"list", "delete", "scoped", "legacy"}

\* There is one request, it passed the guards of Execute, and what the agent does
\* is a step of its kind.
RequestInv ==
  /\ request \subseteq Requests
  /\ \A r \in request : ~Rejected(r)
  /\ \A r, s \in request : r = s
  /\ doing \in KillSteps \cup BlockSteps \cup UnblockSteps \cup {"idle", "shell"}
  /\ \A r \in request :
       /\ doing \in KillSteps => r.type = "kill"
       /\ doing \in BlockSteps => r.type = "block"
       /\ doing \in UnblockSteps => r.type = "unblock"
       /\ doing = "shell" => r.type = "shell"
  /\ doing \in {"list", "delete"} => tool = "nft"
  /\ doing # "idle" => outcome = "none"

\* The targets of a kill are settled once and for all: none is protected.
KillInv ==
  /\ doing \in {"kill", "delete"} => remaining \subseteq Nat
  /\ doing = "kill" => remaining \cap {1, Self, Parent} = {}
  /\ NeverSignalsItself

\* A handle names one rule for good, and a comment with a digest is on a rule for
\* the target that the digest is of.
RulesInv ==
  /\ handles \in Nat
  /\ \A q \in rules \cup deleted : q.handle \in 1 .. handles
  /\ \A p, q \in rules : p.handle = q.handle => p = q
  /\ rules \cap deleted = {}
  /\ \A q \in rules, r \in Requests : q.comment = Scoped(r) => SameTarget(q, r)

\* What an unblock may delete.
Own(q, r) == IsFor(q, r) \/ LegacyByText(q, r)

\* No rule with this comment is left for the target.
NoneLeft(comment, r) == \A q \in rules : ~(SameTarget(q, r) /\ q.comment = comment)

\* What was deleted is counted at least as often as it is reported, and each pass
\* has run to its end or to its limit before the next.
DeletedInv ==
  /\ IsFiniteSet(deleted) /\ tally \in Nat /\ count \in Nat
  /\ tally <= Cardinality(deleted) /\ count <= Cardinality(deleted)
  /\ \A r \in request : r.type = "unblock" =>
       /\ \A q \in deleted : Own(q, r)
       /\ doing = "delete" => \A q \in rules : q.handle \in remaining => Own(q, r)
       /\ doing = "legacy" => Cardinality(deleted) >= MaxDeletes \/ NoneLeft(Scoped(r), r)
       /\ outcome = "success" /\ tool = "iptables" =>
            \/ Cardinality(deleted) >= MaxDeletes
            \/ NoneLeft(Scoped(r), r) /\ NoneLeft(Legacy(r), r)

HostInv == RequestInv /\ KillInv /\ RulesInv /\ DeletedInv


-----------------------------------------------------------------------------

\* A set of numbers that is not empty has a least member.
LEMMA LeastOf ==
  ASSUME NEW S \in SUBSET Nat, S # {}
  PROVE  \E m \in S : \A n \in S : m <= n
<1>1. PICK k \in S : TRUE
  OBVIOUS
<1> DEFINE I == 0 .. k
           C == {T \in SUBSET I : \E m \in S : T = 0 .. m}
<1>2. IsFiniteSet(I)
  BY FS_Interval
<1>3. IsWellFoundedOn(StrictSubsetOrdering(I), SUBSET I)
  BY <1>2, FS_StrictSubsetOrderingWellFounded, FS_FiniteSubsetsOfFinite
<1>4. I \in C
  BY <1>1
<1>5. C \subseteq SUBSET I /\ C # {}
  BY <1>4
<1>6. PICK T \in C : \A U \in C : <<U, T>> \notin StrictSubsetOrdering(I)
  <2> HIDE DEF C, I
  <2> QED BY <1>3, <1>5, WFMin
<1>7. PICK m \in S : T = 0 .. m
  OBVIOUS
<1>8. ASSUME NEW n \in S, ~(m <= n) PROVE FALSE
  <2>1. n \in Nat /\ m \in Nat /\ n < m
    BY <1>8
  <2>2. 0 .. n \subseteq T /\ 0 .. n # T
    <3>1. m \in T /\ m \notin 0 .. n
      BY <1>7, <2>1
    <3>2. 0 .. n \subseteq 0 .. m
      BY <2>1
    <3>3. QED BY <1>7, <3>1, <3>2
  <2>3. T \subseteq I
    OBVIOUS
  <2>4. 0 .. n \in SUBSET I
    BY <2>2, <2>3
  <2>5. 0 .. n \in C
    BY <2>4
  <2> HIDE DEF C, I
  <2>6. QED BY <1>6, <2>2, <2>3, <2>4, <2>5 DEF StrictSubsetOrdering
<1>9. QED BY <1>8

\* Deleting one rule more.
LEMMA OneMore ==
  ASSUME IsFiniteSet(deleted), NEW q, q \notin deleted
  PROVE  /\ IsFiniteSet(deleted \cup {q}) /\ Cardinality(deleted) \in Nat
         /\ Cardinality(deleted \cup {q}) = Cardinality(deleted) + 1
BY FS_AddElement, FS_CardinalityType

LEMMA InitHost == HAInit => HostInv
<1> SUFFICES ASSUME HAInit PROVE HostInv
  OBVIOUS
<1>1. RequestInv
  BY DEF HAInit, RequestInv
<1>2. KillInv
  BY DEF HAInit, KillInv, NeverSignalsItself
<1>3. RulesInv
  <2>1. IsFiniteSet(rules) /\ handles = Cardinality(rules)
    BY ForeignAssumption, FS_EmptySet DEF HAInit
  <2>2. handles \in Nat
    BY <2>1, FS_CardinalityType
  <2>3. \A q \in rules : q.handle \in 1 .. handles
    BY ForeignAssumption DEF HAInit
  <2>4. QED BY <2>2, <2>3, ForeignAssumption DEF HAInit, RulesInv, Scoped, SameTarget
<1>4. DeletedInv
  BY FS_EmptySet DEF HAInit, DeletedInv
<1>5. QED BY <1>1, <1>2, <1>3, <1>4 DEF HostInv

\* Ending an action without a deletion.
LEMMA EndKeeps ==
  ASSUME HostInv, NEW result, Ends(result),
         UNCHANGED <<fw, ps, remaining, deleted, tally, signalled>>, count' \in {0, count},
         \A r \in request : r.type = "unblock" /\ result = "success" /\ tool = "iptables" =>
           \/ Cardinality(deleted) >= MaxDeletes
           \/ NoneLeft(Scoped(r), r) /\ NoneLeft(Legacy(r), r)
  PROVE  HostInv'
<1> USE DEF fw, ps
<1>1. RequestInv'
  BY DEF HostInv, RequestInv, Ends, KillSteps, BlockSteps, UnblockSteps, Rejected
<1>2. KillInv'
  BY DEF HostInv, KillInv, Ends, NeverSignalsItself
<1>3. RulesInv'
  BY DEF HostInv, RulesInv, SameTarget, Scoped
<1>4. DeletedInv'
  <2>1. Cardinality(deleted) \in Nat
    BY FS_CardinalityType DEF HostInv, DeletedInv
  <2>2. count' \in Nat /\ count' <= Cardinality(deleted')
    BY <2>1 DEF HostInv, DeletedInv
  <2>3. QED BY <2>2 DEF HostInv, DeletedInv, Ends, Own, IsFor, LegacyByText, NoneLeft, Scoped, Legacy,
                    SameTarget, Contains
<1>5. QED BY <1>1, <1>2, <1>3, <1>4 DEF HostInv

LEMMA FailKeepsHost == ASSUME HostInv, FailsNow PROVE HostInv'
BY EndKeeps DEF FailsNow

\* Deleting one rule of the request's own.
LEMMA DeleteKeeps ==
  ASSUME HostInv, NEW q \in rules, \A r \in request : Own(q, r),
         rules' = rules \ {q}, deleted' = deleted \cup {q}, tally' \in {tally, tally + 1},
         count' \in {count, count + 1}, remaining' \subseteq remaining,
         UNCHANGED <<tool, handles, request>>,
         \/ UNCHANGED <<doing, outcome>>
         \/ doing' = "idle" /\ outcome' = "failed",
         doing \in UnblockSteps
  PROVE  RulesInv' /\ DeletedInv'
<1> DEFINE n == Cardinality(deleted)
<1>1. q \notin deleted
  BY DEF HostInv, RulesInv
<1>2. IsFiniteSet(deleted') /\ n \in Nat /\ Cardinality(deleted') = n + 1
  BY <1>1, OneMore DEF HostInv, DeletedInv
<1>3. RulesInv'
  BY DEF HostInv, RulesInv, SameTarget, Scoped
<1>4. /\ tally' \in Nat /\ count' \in Nat
      /\ tally' <= Cardinality(deleted') /\ count' <= Cardinality(deleted')
  BY <1>2 DEF HostInv, DeletedInv
<1>5. MaxDeletes \in Nat
  BY HostBounds
<1>6. n >= MaxDeletes => Cardinality(deleted') >= MaxDeletes
  BY <1>2, <1>5
<1>7. ASSUME NEW r \in request', r.type = "unblock"
      PROVE  /\ \A o \in deleted' : Own(o, r)'
             /\ doing' = "delete" => \A o \in rules' : o.handle \in remaining' => Own(o, r)'
             /\ doing' = "legacy" => Cardinality(deleted') >= MaxDeletes \/ NoneLeft(Scoped(r), r)'
             /\ outcome' # "success"
  <2>1. r \in request
    OBVIOUS
  <2>2. \A o \in deleted' : Own(o, r)
    BY <1>7, <2>1 DEF HostInv, DeletedInv
  <2>3. doing' = "delete" => \A o \in rules' : o.handle \in remaining' => Own(o, r)
    BY <1>7, <2>1 DEF HostInv, DeletedInv
  <2>4. doing' = "legacy" => Cardinality(deleted') >= MaxDeletes \/ NoneLeft(Scoped(r), r)'
    BY <1>6, <1>7, <2>1 DEF HostInv, DeletedInv, NoneLeft, Scoped, SameTarget
  <2>5. outcome' # "success"
    BY DEF HostInv, RequestInv, UnblockSteps
  <2>6. QED BY <2>2, <2>3, <2>4, <2>5 DEF Own, IsFor, LegacyByText, Scoped, Legacy, Contains
<1>8. DeletedInv'
  BY <1>2, <1>4, <1>7 DEF DeletedInv
<1>9. QED BY <1>3, <1>8

\* Steps that touch neither the rules nor the deletions nor the request.
LEMMA OtherStepKeeps ==
  ASSUME HostInv, UNCHANGED <<fw, request, doing, count, deleted, tally, outcome>>,
         UNCHANGED remaining \/ doing # "delete"
  PROVE  RequestInv' /\ RulesInv' /\ DeletedInv'
<1> USE DEF fw
<1>1. RequestInv'
  BY DEF HostInv, RequestInv, Rejected
<1>2. RulesInv'
  BY DEF HostInv, RulesInv, SameTarget, Scoped
<1>3. DeletedInv'
  BY DEF HostInv, DeletedInv, Own, IsFor, LegacyByText, NoneLeft, Scoped, Legacy, SameTarget,
               Contains
<1>4. QED BY <1>1, <1>2, <1>3

LEMMA HostStepKeeps ==
  ASSUME HostInv, (\E p \in Pids : ProcessEnds(p) \/ ProcessStarts(p)) \/ RuleFlushed
  PROVE  HostInv'
<1>1. ASSUME NEW p \in Pids, ProcessEnds(p) \/ ProcessStarts(p) PROVE HostInv'
  <2>1. UNCHANGED <<fw, request, doing, remaining, count, deleted, tally, outcome, signalled>>
    BY <1>1 DEF ProcessEnds, ProcessStarts
  <2>2. RequestInv' /\ RulesInv' /\ DeletedInv'
    BY <2>1, OtherStepKeeps
  <2>3. KillInv'
    BY <2>1 DEF HostInv, KillInv, NeverSignalsItself
  <2>4. QED BY <2>2, <2>3 DEF HostInv
<1>2. CASE RuleFlushed
  <2>1. /\ rules' \subseteq rules
        /\ UNCHANGED <<tool, handles, request, doing, remaining, count, deleted, tally, outcome,
                       signalled>>
    BY <1>2 DEF RuleFlushed
  <2>2. RequestInv' /\ KillInv'
    BY <2>1 DEF HostInv, RequestInv, Rejected, KillInv, NeverSignalsItself
  <2>3. RulesInv'
    BY <2>1 DEF HostInv, RulesInv, SameTarget, Scoped
  <2>4. DeletedInv'
    BY <2>1 DEF HostInv, DeletedInv, Own, IsFor, LegacyByText, NoneLeft, Scoped, Legacy, SameTarget,
               Contains
  <2>5. QED BY <2>2, <2>3, <2>4 DEF HostInv
<1>3. QED BY <1>1, <1>2

LEMMA ExecuteKeeps == ASSUME HostInv, Execute PROVE HostInv'
<1> USE DEF fw, ps
<1>1. PICK r \in Requests :
        IF Rejected(r) \/ EndsDry(r)
          THEN /\ outcome' = (IF Rejected(r) THEN "failed" ELSE "success")
               /\ request' = {} /\ UNCHANGED doing
          ELSE request' = {r} /\ doing' = FirstStep(r) /\ outcome' = "none"
  BY DEF Execute
<1>2. /\ doing = "idle" /\ remaining' = {} /\ count' = 0 /\ deleted' = {} /\ tally' = 0
      /\ UNCHANGED <<tool, rules, handles, signalled>>
  BY DEF Execute
<1>3. RequestInv'
  <2>1. CASE Rejected(r) \/ EndsDry(r)
    BY <1>1, <1>2, <2>1 DEF RequestInv
  <2>2. CASE ~(Rejected(r) \/ EndsDry(r))
    <3>1. request' = {r} /\ doing' = FirstStep(r) /\ outcome' = "none" /\ ~Rejected(r)
      BY <1>1, <2>2
    <3>2. r.type \in {"kill", "block", "unblock", "shell"}
      BY <3>1 DEF Rejected
    <3>3. /\ r.type = "kill" => FirstStep(r) = "resolve"
          /\ r.type = "shell" => FirstStep(r) = "shell"
          /\ r.type = "block" => FirstStep(r) \in {"chain", "add"}
          /\ r.type = "unblock" => FirstStep(r) = IF tool = "nft" THEN "list" ELSE "scoped"
      BY DEF FirstStep
    <3>4. /\ doing' \in KillSteps \cup BlockSteps \cup UnblockSteps \cup {"idle", "shell"}
          /\ doing' \in KillSteps => r.type = "kill"
          /\ doing' \in BlockSteps => r.type = "block"
          /\ doing' \in UnblockSteps => r.type = "unblock"
          /\ doing' = "shell" => r.type = "shell"
          /\ doing' \in {"list", "delete"} => tool = "nft"
      <4>1. CASE r.type = "kill"
        BY <3>1, <3>3, <4>1 DEF KillSteps, BlockSteps, UnblockSteps
      <4>2. CASE r.type = "shell"
        BY <3>1, <3>3, <4>2 DEF KillSteps, BlockSteps, UnblockSteps
      <4>3. CASE r.type = "block"
        BY <3>1, <3>3, <4>3 DEF KillSteps, BlockSteps, UnblockSteps
      <4>4. CASE r.type = "unblock"
        BY <3>1, <3>3, <4>4 DEF KillSteps, BlockSteps, UnblockSteps
      <4>5. QED BY <3>2, <4>1, <4>2, <4>3, <4>4
    <3>5. QED BY <1>2, <3>1, <3>4 DEF RequestInv, Rejected
  <2>3. QED BY <2>1, <2>2
<1>4. KillInv'
  BY <1>2 DEF HostInv, KillInv, NeverSignalsItself
<1>5. RulesInv'
  BY <1>2 DEF HostInv, RulesInv, SameTarget, Scoped
<1>6. DeletedInv'
  <2>1. \A s \in request' : outcome' # "success"
    BY <1>1
  <2>2. \A s \in request' : doing' # "legacy"
    BY <1>1 DEF FirstStep
  <2>3. IsFiniteSet(deleted') /\ Cardinality(deleted') = 0
    BY <1>2, FS_EmptySet
  <2>4. QED BY <1>2, <2>1, <2>2, <2>3 DEF DeletedInv
<1>7. QED BY <1>3, <1>4, <1>5, <1>6 DEF HostInv

LEMMA KillStepsKeep ==
  ASSUME HostInv, Resolve \/ Kill \/ KillEnds
  PROVE  HostInv'
<1>1. CASE Resolve
  <2>1. PICK r \in request :
          IF Protected(r) THEN FailsNow
          ELSE /\ remaining' = (IF r.dry THEN {} ELSE Targets(r)) /\ doing' = "kill"
               /\ UNCHANGED <<fw, ps, request, count, deleted, tally, outcome, signalled, actions>>
    BY <1>1 DEF Resolve
  <2>2. CASE Protected(r)
    BY <2>1, <2>2, FailKeepsHost
  <2>3. CASE ~Protected(r)
    <3>1. /\ remaining' \in {{}, Targets(r)} /\ doing' = "kill" /\ doing = "resolve"
          /\ UNCHANGED <<fw, request, count, deleted, tally, outcome, signalled>>
      BY <1>1, <2>1, <2>3 DEF Resolve
    <3>2. r \in Requests /\ ~Rejected(r) /\ r.type = "kill"
          /\ (r.name = "" => r.pid \in Nat /\ r.pid # 1)
      <4>1. r \in Requests /\ ~Rejected(r) /\ r.type = "kill" /\ r.pid \in Int
        BY <3>1, PidsAssumption DEF HostInv, RequestInv, KillSteps
      <4>2. ~(r.type = "kill" /\ r.name = "" /\ r.pid <= 1)
        BY <4>1 DEF Rejected
      <4>3. r.name = "" => ~(r.pid <= 1)
        BY <4>1, <4>2
      <4>4. ASSUME r.name = "" PROVE r.pid \in Nat /\ r.pid # 1
        <5>1. \A n \in Int : ~(n <= 1) => n \in Nat /\ n # 1
          OBVIOUS
        <5>2. QED BY <4>1, <4>3, <4>4, <5>1
      <4>5. QED BY <4>1, <4>4
    <3>3. Targets(r) \subseteq Nat /\ Targets(r) \cap {1, Self, Parent} = {}
      BY <2>3, <3>2, PidsAssumption DEF Targets, Protected
    <3>4. RequestInv'
      BY <3>1 DEF HostInv, RequestInv, Rejected, KillSteps, BlockSteps, UnblockSteps, fw
    <3>5. KillInv'
      BY <3>1, <3>3 DEF HostInv, KillInv, NeverSignalsItself
    <3>6. RulesInv'
      BY <3>1 DEF HostInv, RulesInv, SameTarget, Scoped, fw
    <3>7. DeletedInv'
      BY <3>1 DEF HostInv, DeletedInv, Own, IsFor, LegacyByText, NoneLeft, Scoped, Legacy, SameTarget,
               Contains, fw
    <3>8. QED BY <3>4, <3>5, <3>6, <3>7 DEF HostInv
  <2>4. QED BY <2>2, <2>3
<1>2. CASE Kill
  <2> DEFINE p == CHOOSE p \in remaining : \A q \in remaining : p <= q
  <2>1. /\ doing = "kill" /\ remaining # {} /\ remaining' = remaining \ {p}
        /\ UNCHANGED signalled \/ signalled' = signalled \cup {<<p, born[p]>>}
        /\ UNCHANGED <<fw, request, doing, count, deleted, tally, outcome>>
    BY <1>2 DEF Kill
  <2>2. p \in remaining
    <3>1. \E m \in remaining : \A q \in remaining : m <= q
      BY <2>1, LeastOf DEF HostInv, KillInv
    <3>2. QED BY <3>1
  <2> HIDE DEF p
  <2>3. RequestInv' /\ RulesInv' /\ DeletedInv'
    BY <2>1, OtherStepKeeps
  <2>4. p \notin {1, Self, Parent}
    BY <2>1, <2>2 DEF HostInv, KillInv
  <2>5. NeverSignalsItself'
    BY <2>1, <2>4 DEF HostInv, KillInv, NeverSignalsItself
  <2>6. KillInv'
    BY <2>1, <2>5 DEF HostInv, KillInv
  <2>7. QED BY <2>3, <2>6 DEF HostInv
<1>3. CASE KillEnds
  <2>1. \A r \in request : r.type # "unblock"
    BY <1>3 DEF KillEnds, HostInv, RequestInv, KillSteps
  <2>2. QED BY <1>3, <2>1, EndKeeps DEF KillEnds
<1>4. QED BY <1>1, <1>2, <1>3

LEMMA BlockStepsKeep ==
  ASSUME HostInv, EnsureChain \/ AddRule \/ RunShell
  PROVE  HostInv'
<1>1. CASE EnsureChain /\ ~FailsNow
  <2>1. /\ doing = "chain" /\ doing' = "add"
        /\ UNCHANGED <<tool, rules, handles, request, remaining, count, deleted, tally, outcome, signalled>>
    BY <1>1 DEF EnsureChain
  <2>2. RequestInv'
    BY <2>1 DEF HostInv, RequestInv, Rejected, KillSteps, BlockSteps, UnblockSteps
  <2>3. KillInv'
    BY <2>1 DEF HostInv, KillInv, NeverSignalsItself
  <2>4. RulesInv'
    BY <2>1 DEF HostInv, RulesInv, SameTarget, Scoped
  <2>5. DeletedInv'
    BY <2>1 DEF HostInv, DeletedInv, Own, IsFor, LegacyByText, NoneLeft, Scoped, Legacy, SameTarget,
               Contains
  <2>6. QED BY <2>2, <2>3, <2>4, <2>5 DEF HostInv
<1>2. CASE AddRule /\ ~FailsNow
  <2>1. PICK r \in request :
          /\ handles' = handles + 1
          /\ rules' = rules \cup {[handle |-> handles + 1, ip |-> r.ip, port |-> r.port,
                                   comment |-> Scoped(r)]}
          /\ Ends("success") \/ Ends("failed")
    BY <1>2 DEF AddRule
  <2>2. doing = "add" /\ UNCHANGED <<tool, remaining, count, deleted, tally, signalled>>
    BY <1>2 DEF AddRule
  <2>3. \A s \in request : s.type = "block"
    BY <2>2 DEF HostInv, RequestInv, BlockSteps
  <2>4. RequestInv'
    BY <2>1, <2>2 DEF HostInv, RequestInv, Rejected, KillSteps, BlockSteps, UnblockSteps, Ends
  <2>5. KillInv'
    BY <2>1, <2>2 DEF HostInv, KillInv, NeverSignalsItself, Ends
  <2>6. RulesInv'
    <3> DEFINE new == [handle |-> handles + 1, ip |-> r.ip, port |-> r.port, comment |-> Scoped(r)]
    <3>1. handles \in Nat /\ \A q \in rules \cup deleted : q.handle \in 1 .. handles
      BY DEF HostInv, RulesInv
    <3>2. new.handle = handles + 1 /\ new.ip = r.ip /\ new.port = r.port /\ new.comment = Scoped(r)
      OBVIOUS
    <3>3. \A s \in Requests : new.comment = Scoped(s) => SameTarget(new, s)
      BY <3>2 DEF Scoped, SameTarget
    <3>4. rules' = rules \cup {new}
      BY <2>1
    <3> HIDE DEF new
    <3>5. \A q \in rules \cup deleted : q.handle # new.handle
      BY <3>1, <3>2
    <3>6. handles' \in Nat /\ \A q \in rules' \cup deleted' : q.handle \in 1 .. handles'
      BY <2>1, <2>2, <3>1, <3>2, <3>4
    <3>7. \A q \in rules', o \in rules' : q.handle = o.handle => q = o
      BY <3>4, <3>5 DEF HostInv, RulesInv
    <3>8. rules' \cap deleted' = {}
      BY <2>2, <3>4, <3>5 DEF HostInv, RulesInv
    <3>9. \A q \in rules', s \in Requests : q.comment = Scoped(s) => SameTarget(q, s)
      BY <3>3, <3>4 DEF HostInv, RulesInv
    <3>10. QED BY <3>6, <3>7, <3>8, <3>9 DEF RulesInv, SameTarget, Scoped
  <2>7. DeletedInv'
    <3>1. request' = request
      BY <2>1 DEF Ends
    <3>2. QED BY <2>2, <2>3, <3>1 DEF HostInv, DeletedInv
  <2>8. QED BY <2>4, <2>5, <2>6, <2>7 DEF HostInv
<1>3. CASE RunShell /\ ~FailsNow
  <2>1. \A r \in request : r.type # "unblock"
    BY <1>3 DEF RunShell, HostInv, RequestInv
  <2>2. /\ Ends("success") \/ Ends("failed")
        /\ UNCHANGED <<fw, ps, remaining, count, deleted, tally, signalled, actions>>
    BY <1>3 DEF RunShell
  <2>3. QED BY <2>1, <2>2, EndKeeps
<1>4. QED BY <1>1, <1>2, <1>3, FailKeepsHost

\* A rule of the request's own target under a comment that is sought.
LEMMA SoughtIsOwn ==
  ASSUME NEW q, NEW r, SameTarget(q, r), q.comment = Sought(r)
  PROVE  Own(q, r)
BY DEF SameTarget, Sought, Own, IsFor

\* One step of a pass of iptablesDeleteComment.
LEMMA PassKeeps ==
  ASSUME HostInv, NEW now, NEW next, DeleteNext(now, next),
         <<now, next>> \in {<<"scoped", "legacy">>, <<"legacy", "end">>}
  PROVE  HostInv'
<1>1. doing = now /\ doing \in {"scoped", "legacy"} /\ doing \in UnblockSteps
  BY DEF DeleteNext, UnblockSteps
<1>2. PICK r \in request :
       LET own == {q \in rules : SameTarget(q, r) /\ q.comment = Sought(r)} IN
       IF own # {} /\ count < MaxDeletes
         THEN /\ LET q == CHOOSE q \in own : \A o \in own : q.handle <= o.handle IN
                 rules' = rules \ {q} /\ deleted' = deleted \cup {q}
              /\ count' = count + 1 /\ tally' = tally + 1
              /\ UNCHANGED <<tool, handles, chain, ps, request, doing, remaining, outcome,
                             signalled, actions>>
         ELSE /\ IF next = "end" THEN Ends("success")
                 ELSE doing' = next /\ UNCHANGED <<request, outcome>>
              /\ count' = 0
              /\ UNCHANGED <<fw, ps, remaining, deleted, tally, signalled, actions>>
  BY DEF DeleteNext
<1> DEFINE own == {q \in rules : SameTarget(q, r) /\ q.comment = Sought(r)}
<1>3. \A s \in request : s = r /\ s.type = "unblock"
  BY <1>1 DEF HostInv, RequestInv
<1>4. CASE own # {} /\ count < MaxDeletes
  <2> DEFINE q == CHOOSE q \in own : \A o \in own : q.handle <= o.handle
  <2>1. q \in own
    <3>1. {o.handle : o \in own} \subseteq Nat
      BY DEF HostInv, RulesInv
    <3>2. PICK m \in {o.handle : o \in own} : \A n \in {o.handle : o \in own} : m <= n
      <4> HIDE DEF own
      <4> QED BY <1>4, <3>1, LeastOf
    <3>3. PICK w \in own : m = w.handle
      BY <3>2
    <3>4. \A o \in own : w.handle <= o.handle
      BY <3>2, <3>3
    <3> HIDE DEF own
    <3>5. QED BY <3>3, <3>4
  <2>2. /\ rules' = rules \ {q} /\ deleted' = deleted \cup {q}
        /\ count' = count + 1 /\ tally' = tally + 1
        /\ UNCHANGED <<tool, handles, request, doing, remaining, outcome, signalled>>
    BY <1>2, <1>4
  <2>3. q \in rules /\ Own(q, r)
    BY <2>1, SoughtIsOwn
  <2> HIDE DEF q, own
  <2>4. RulesInv' /\ DeletedInv'
    BY <1>1, <1>3, <2>2, <2>3, DeleteKeeps
  <2>5. RequestInv' /\ KillInv'
    BY <2>2 DEF HostInv, RequestInv, KillInv, Rejected, NeverSignalsItself
  <2>6. QED BY <2>4, <2>5 DEF HostInv
<1>5. CASE ~(own # {} /\ count < MaxDeletes)
  <2>1. /\ IF next = "end" THEN Ends("success") ELSE doing' = next /\ UNCHANGED <<request, outcome>>
        /\ count' = 0 /\ UNCHANGED <<fw, ps, remaining, deleted, tally, signalled>>
    BY <1>2, <1>5
  <2>2. Cardinality(deleted) >= MaxDeletes \/ NoneLeft(Sought(r), r)
    <3>1. CASE own = {}
      BY <3>1 DEF NoneLeft
    <3>2. CASE own # {}
      <4>1. /\ count >= MaxDeletes /\ count \in Nat /\ count <= Cardinality(deleted)
            /\ MaxDeletes \in Nat
        BY <1>5, <3>2, HostBounds DEF HostInv, DeletedInv
      <4>2. Cardinality(deleted) \in Nat
        BY FS_CardinalityType DEF HostInv, DeletedInv
      <4>3. QED BY <4>1, <4>2
    <3>3. QED BY <3>1, <3>2
  <2> HIDE DEF own
  <2>3. CASE now = "legacy"
    <3>1. Ends("success")
      BY <2>1, <2>3
    <3>2. Cardinality(deleted) >= MaxDeletes \/ NoneLeft(Scoped(r), r)
      BY <1>1, <1>3, <2>3 DEF HostInv, DeletedInv
    <3>3. Sought(r) = Legacy(r)
      BY <1>1, <2>3 DEF Sought
    <3>4. QED BY <1>3, <2>1, <2>2, <3>1, <3>2, <3>3, EndKeeps
  <2>4. CASE now = "scoped"
    <3>1. /\ doing' = "legacy" /\ count' = 0
          /\ UNCHANGED <<fw, request, outcome, remaining, deleted, tally, signalled>>
      BY <2>1, <2>4
    <3>2. Sought(r) = Scoped(r)
      BY <1>1, <2>4 DEF Sought
    <3>3. RequestInv'
      BY <1>1, <3>1 DEF HostInv, RequestInv, Rejected, KillSteps, BlockSteps, UnblockSteps, fw
    <3>4. KillInv'
      BY <3>1 DEF HostInv, KillInv, NeverSignalsItself
    <3>5. RulesInv'
      BY <3>1 DEF HostInv, RulesInv, SameTarget, Scoped, fw
    <3>6. Cardinality(deleted) \in Nat
      BY FS_CardinalityType DEF HostInv, DeletedInv
    <3>7. \A s \in request : Cardinality(deleted) >= MaxDeletes \/ NoneLeft(Scoped(s), s)
      BY <1>3, <2>2, <3>2
    <3>8. outcome = "none"
      BY <1>1 DEF HostInv, RequestInv
    <3>9. DeletedInv'
      BY <3>1, <3>6, <3>7, <3>8
      DEF HostInv, DeletedInv, Own, IsFor, LegacyByText, NoneLeft, Scoped, Legacy, SameTarget,
               Contains, fw
    <3>10. QED BY <3>3, <3>4, <3>5, <3>9 DEF HostInv
  <2>5. QED BY <2>3, <2>4
<1>6. QED BY <1>4, <1>5

LEMMA PassFailKeeps == ASSUME HostInv, DeleteFails PROVE HostInv'
<1>1. CASE FailsNow
  BY <1>1, FailKeepsHost
<1>2. CASE ~FailsNow
  <2>1. PICK r \in request, q \in rules :
          /\ doing \in {"scoped", "legacy"} /\ SameTarget(q, r) /\ q.comment = Sought(r)
          /\ rules' = rules \ {q} /\ deleted' = deleted \cup {q} /\ Ends("failed")
          /\ UNCHANGED <<tool, handles, chain, ps, remaining, count, tally, signalled, actions>>
    BY <1>2 DEF DeleteFails
  <2>2. \A s \in request : Own(q, s)
    BY <2>1, SoughtIsOwn DEF HostInv, RequestInv
  <2>3. RulesInv' /\ DeletedInv'
    BY <2>1, <2>2, DeleteKeeps DEF Ends, UnblockSteps
  <2>4. RequestInv' /\ KillInv'
    BY <2>1 DEF HostInv, RequestInv, KillInv, Rejected, NeverSignalsItself, Ends, KillSteps,
                BlockSteps, UnblockSteps
  <2>5. QED BY <2>3, <2>4 DEF HostInv
<1>3. QED BY <1>1, <1>2

LEMMA NftStepsKeep ==
  ASSUME HostInv, ListChain \/ DeleteHandle \/ DeleteEnds
  PROVE  HostInv'
<1>1. CASE ListChain /\ FailsNow
  BY <1>1, FailKeepsHost
<1>2. CASE ListChain /\ ~FailsNow
  <2>1. PICK r \in request :
          remaining' = {q.handle : q \in {q \in rules : q.comment = Scoped(r) \/ LegacyMatch(q, r)}}
    BY <1>2 DEF ListChain
  <2>2. /\ doing = "list" /\ doing' = "delete"
        /\ UNCHANGED <<fw, request, count, deleted, tally, outcome, signalled>>
    BY <1>2 DEF ListChain
  <2>3. RequestInv'
    BY <2>2 DEF HostInv, RequestInv, Rejected, KillSteps, BlockSteps, UnblockSteps, fw
  <2>4. remaining' \subseteq Nat
    BY <2>1 DEF HostInv, RulesInv
  <2>5. KillInv'
    BY <2>2, <2>4 DEF HostInv, KillInv, NeverSignalsItself
  <2>6. RulesInv'
    BY <2>2 DEF HostInv, RulesInv, SameTarget, Scoped, fw
  <2>7. ASSUME NEW q \in rules, q.handle \in remaining' PROVE Own(q, r)
    <3>1. q.comment = Scoped(r) \/ LegacyMatch(q, r)
      BY <2>1, <2>7 DEF HostInv, RulesInv
    <3>2. q.comment = Scoped(r) => SameTarget(q, r)
      BY DEF HostInv, RulesInv, RequestInv
    <3>3. tool = "nft"
      BY <2>2 DEF HostInv, RequestInv
    <3>4. QED BY <3>1, <3>2, <3>3 DEF Own, IsFor, LegacyByText, LegacyMatch, SameTarget
  <2>8. \A s \in request : s = r
    BY DEF HostInv, RequestInv
  <2>9. DeletedInv'
    BY <2>2, <2>7, <2>8
    DEF HostInv, DeletedInv, Own, IsFor, LegacyByText, NoneLeft, Scoped, Legacy, SameTarget,
               Contains, fw
  <2>10. QED BY <2>3, <2>5, <2>6, <2>9 DEF HostInv
<1>3. CASE DeleteHandle
  <2> DEFINE h == CHOOSE h \in remaining : \A g \in remaining : h <= g
  <2>1. /\ doing = "delete" /\ remaining # {} /\ remaining' = remaining \ {h}
        /\ \/ UNCHANGED <<rules, deleted, tally>>
           \/ /\ \E q \in rules : q.handle = h
              /\ rules' = {q \in rules : q.handle # h}
              /\ deleted' = deleted \cup {q \in rules : q.handle = h}
              /\ tally' \in {tally + 1, tally}
        /\ UNCHANGED <<tool, handles, request, doing, count, outcome, signalled>>
    BY <1>3 DEF DeleteHandle
  <2>2. h \in remaining
    <3>1. \E m \in remaining : \A g \in remaining : m <= g
      BY <2>1, LeastOf DEF HostInv, KillInv
    <3>2. QED BY <3>1
  <2> HIDE DEF h
  <2>3. RequestInv' /\ KillInv'
    BY <2>1 DEF HostInv, RequestInv, KillInv, Rejected, NeverSignalsItself
  <2>4. CASE UNCHANGED <<rules, deleted, tally>>
    <3>1. RulesInv'
      BY <2>1, <2>4 DEF HostInv, RulesInv, SameTarget, Scoped
    <3>2. DeletedInv'
      BY <2>1, <2>4 DEF HostInv, DeletedInv, Own, IsFor, LegacyByText, NoneLeft, Scoped, Legacy, SameTarget,
               Contains
    <3>3. QED BY <2>3, <3>1, <3>2 DEF HostInv
  <2>5. CASE ~UNCHANGED <<rules, deleted, tally>>
    <3>1. PICK q \in rules : q.handle = h
      BY <2>1, <2>5
    <3>2. {o \in rules : o.handle = h} = {q} /\ {o \in rules : o.handle # h} = rules \ {q}
      BY <3>1 DEF HostInv, RulesInv
    <3>3. /\ rules' = rules \ {q} /\ deleted' = deleted \cup {q} /\ tally' \in {tally, tally + 1}
      BY <2>1, <2>5, <3>2
    <3>4. \A r \in request : Own(q, r)
      BY <2>1, <2>2, <3>1 DEF HostInv, DeletedInv, RequestInv, UnblockSteps
    <3>5. RulesInv' /\ DeletedInv'
      BY <2>1, <3>3, <3>4, DeleteKeeps DEF UnblockSteps
    <3>6. QED BY <2>3, <3>5 DEF HostInv
  <2>6. QED BY <2>4, <2>5
<1>4. CASE DeleteEnds
  <2>1. tool # "iptables"
    BY <1>4 DEF DeleteEnds, HostInv, RequestInv
  <2>2. QED BY <1>4, <2>1, EndKeeps DEF DeleteEnds
<1>5. QED BY <1>1, <1>2, <1>3, <1>4

LEMMA StepHost == HostInv /\ [HANext]_haVars => HostInv'
<1> SUFFICES ASSUME HostInv, [HANext]_haVars PROVE HostInv'
  OBVIOUS
<1>1. CASE UNCHANGED haVars
  <2>1. UNCHANGED <<fw, request, doing, remaining, count, deleted, tally, outcome, signalled>>
    BY <1>1 DEF haVars
  <2>2. QED BY <2>1, OtherStepKeeps DEF HostInv, KillInv, NeverSignalsItself
<1>2. CASE DeleteScoped \/ DeleteLegacy
  BY <1>2, PassKeeps DEF DeleteScoped, DeleteLegacy
<1>3. QED
  BY <1>1, <1>2, HostStepKeeps, ExecuteKeeps, KillStepsKeep, BlockStepsKeep, PassFailKeeps,
     NftStepsKeep
  DEF HANext

\* kill_process signals neither init nor the agent nor its parent, whichever
\* processes end and start between resolveKillTargets and the signals.
THEOREM AgentIsNeverSignalled == HASpec => []NeverSignalsItself
<1>1. HostInv => NeverSignalsItself
  BY DEF HostInv, KillInv
<1>2. QED BY <1>1, InitHost, StepHost, PTL DEF HASpec

\* unblock_outbound_ip deletes only rules under its label for exactly its address
\* and port, but for rules without a digest that nft lists by their text; it counts
\* no removal it did not make, and with iptables a success leaves nothing of the
\* target unless as many were deleted as one pass may.
THEOREM UnblockDeletesItsOwn == HASpec => []UnblockIsExact
<1>1. HostInv => UnblockIsExact
  BY DEF HostInv, DeletedInv, UnblockIsExact, Own, IsFor, NoneLeft, SameTarget
<1>2. QED BY <1>1, InitHost, StepHost, PTL DEF HASpec

-----------------------------------------------------------------------------
(* The remote configuration *)

\* Configurations that may be in force.
Known == Configs \cup {NoConfig}

\* The configuration in memory, the file and the answers are configurations, and
\* no configuration in force has an invalid revision.
ConfigType ==
  /\ raw \in Known /\ file \in Known
  /\ raw.rev >= 0 /\ file.rev >= 0
  /\ fetched \in [Callers -> SUBSET Configs]

\* The file is never behind the memory: it is the same, or a write that failed
\* after its rename left a newer revision in it, or a start could not read it.
FileIsAhead == file = raw \/ raw = NoConfig \/ file.rev > raw.rev

\* The inductive invariant of the configuration.
ConfigInv == ConfigType /\ FileIsAhead

-----------------------------------------------------------------------------

\* Every configuration has an integer revision.
LEMMA KnownRevisions == \A c \in Known : c.rev \in Int
BY ConfigsAssumption DEF Known, NoConfig

\* Apply accepts only a newer revision, unless nothing is in force, and leaves the
\* file ahead of the memory also when the write fails.
LEMMA ApplyAdvances ==
  ASSUME raw \in Known, file \in Known, raw.rev >= 0, file.rev >= 0, FileIsAhead,
         NEW next \in Configs, Apply(next)
  PROVE  /\ raw' \in Known /\ file' \in Known /\ raw'.rev >= 0 /\ file'.rev >= 0
         /\ FileIsAhead'
         /\ raw' # raw => raw = NoConfig \/ raw'.rev > raw.rev
<1>0. next \in Known /\ next.rev \in Int /\ raw.rev \in Int /\ file.rev \in Int
  BY KnownRevisions DEF Known
<1>1. CASE Refused(next)
  BY <1>1 DEF Apply, FileIsAhead
<1>2. CASE ~Refused(next)
  <2>1. next.rev >= 0 /\ (raw = NoConfig \/ next.rev > raw.rev)
    BY <1>0, <1>2 DEF Refused
  <2>2. CASE Accept(next)
    BY <1>0, <2>1, <2>2 DEF Accept, FileIsAhead
  <2>3. CASE KeepFails(next)
    BY <1>0, <2>1, <2>3 DEF KeepFails, FileIsAhead
  <2>4. QED BY <1>2, <2>2, <2>3 DEF Apply
<1>3. QED BY <1>1, <1>2

LEMMA InitConfig == RCInit => ConfigInv
<1> SUFFICES ASSUME RCInit PROVE ConfigInv
  OBVIOUS
<1>1. NoConfig.rev = 0 /\ NoConfig \in Known
  BY DEF NoConfig, Known
<1>2. QED
  BY <1>1 DEF RCInit, ConfigInv, ConfigType, FileIsAhead, NoFile

\* What one step may do to the configuration in force.
Advances ==
  raw' # raw => \/ raw = NoConfig
                \/ raw'.rev > raw.rev
                \/ raw' = NoConfig /\ phase = "down"

\* Each step keeps the invariant and only advances the configuration.
LEMMA StepConfig == ConfigInv /\ [RCNext]_rcVars => ConfigInv' /\ Advances
<1> SUFFICES ASSUME ConfigInv, [RCNext]_rcVars PROVE ConfigInv' /\ Advances
  OBVIOUS
<1> USE DEF ConfigInv
<1>a. /\ raw \in Known /\ file \in Known /\ raw.rev >= 0 /\ file.rev >= 0
      /\ fetched \in [Callers -> SUBSET Configs]
  BY DEF ConfigType
<1>1. CASE StartProcess
  <2>1. raw' \in {file, NoConfig} /\ UNCHANGED <<file, fetched>> /\ phase = "down"
    BY <1>1 DEF StartProcess, Loaded
  <2>2. NoConfig \in Known /\ NoConfig.rev = 0
    BY DEF Known, NoConfig
  <2>3. ConfigType'
    BY <1>a, <2>1, <2>2 DEF ConfigType
  <2>4. FileIsAhead'
    BY <2>1 DEF FileIsAhead
  <2>5. Advances
    BY <2>1 DEF Advances, FileIsAhead
  <2>6. QED BY <2>3, <2>4, <2>5
<1>2. CASE StartSources
  <2>1. CASE UNCHANGED <<raw, file, changed, owed, staleRuns>>
    BY <1>2, <2>1 DEF StartSources, ConfigType, FileIsAhead, Advances
  <2>2. CASE \E c \in Configs : Apply(c)
    BY <1>a, <1>2, <2>2, ApplyAdvances DEF StartSources, ConfigType, Advances
  <2>3. QED BY <1>2, <2>1, <2>2 DEF StartSources
<1>3. CASE EndProcess
  <2>1. fetched' \in [Callers -> SUBSET Configs]
    BY <1>a, <1>3 DEF EndProcess
  <2>2. QED
    BY <1>3, <2>1 DEF EndProcess, ConfigType, FileIsAhead, Advances
<1>4. ASSUME NEW c \in Callers, Fetch(c) PROVE ConfigInv' /\ Advances
  <2>1. fetched' \in [Callers -> SUBSET Configs]
    BY <1>a, <1>4 DEF Fetch
  <2>2. QED
    BY <1>4, <2>1 DEF Fetch, ConfigType, FileIsAhead, Advances
<1>5. ASSUME NEW c \in Callers, ApplyFetched(c) PROVE ConfigInv' /\ Advances
  <2>1. PICK next \in Configs : Apply(next)
    BY <1>a, <1>5 DEF ApplyFetched
  <2>2. fetched' \in [Callers -> SUBSET Configs]
    BY <1>a, <1>5 DEF ApplyFetched
  <2>3. QED
    BY <1>a, <2>1, <2>2, ApplyAdvances DEF ConfigType, Advances
<1>6. ASSUME NEW l \in Loops, Loop(l) PROVE ConfigInv' /\ Advances
  <2>1. UNCHANGED <<raw, file, fetched>>
    BY <1>6 DEF Loop, Read, Wake, Timer, RunEnds, cvars
  <2>2. QED BY <2>1 DEF ConfigType, FileIsAhead, Advances
<1>7. CASE UNCHANGED rcVars
  BY <1>7 DEF rcVars, cvars, ConfigType, FileIsAhead, Advances
<1>8. QED BY <1>1, <1>2, <1>3, <1>4, <1>5, <1>6, <1>7 DEF RCNext

\* Apply never replaces the configuration in force by an older or a conflicting
\* one, and a restart finds it or a newer one in the file or nothing it can read.
THEOREM RevisionsAdvance == RCSpec => ConfigOnlyAdvances
<1>1. ConfigInv /\ [RCNext]_rcVars => [Advances]_rcVars
  BY StepConfig
<1>2. ConfigInv /\ [RCNext]_rcVars => ConfigInv'
  BY StepConfig
<1>3. QED
  BY InitConfig, <1>1, <1>2, PTL DEF RCSpec, ConfigOnlyAdvances, Advances

-----------------------------------------------------------------------------
(* The loops *)

\* A loop that has run once under an older configuration reads the new one before
\* its next wait.
LoopInv ==
  /\ loopAt \in [Loops -> {"dead", "read", "wait", "run"}]
  /\ DOMAIN view = Loops /\ staleRuns \in [Loops -> Nat]
  /\ \A l \in Loops :
       \/ staleRuns[l] = 0
       \/ staleRuns[l] = 1 /\ (loopAt[l] # "wait" \/ view[l] = raw)

\* Apply leaves raw and the counts alone or sets every count to 0.
LEMMA ApplyResets ==
  ASSUME NEW next, Apply(next)
  PROVE  UNCHANGED <<raw, staleRuns>> \/ staleRuns' = [l \in Loops |-> 0]
BY DEF Apply, Accept, KeepFails

\* Each step of the service or of a loop keeps the invariant of the loops.
LEMMA StepLoops == LoopInv /\ [RCNext]_rcVars => LoopInv'
<1> SUFFICES ASSUME LoopInv, [RCNext]_rcVars PROVE LoopInv'
  OBVIOUS
<1> USE DEF LoopInv
<1>1. CASE StartProcess
  BY <1>1 DEF StartProcess
<1>2. CASE StartSources
  <2>1. /\ loopAt' = [l \in Loops |-> "read"] /\ view' = [l \in Loops |-> NoConfig]
        /\ UNCHANGED <<raw, staleRuns>> \/ staleRuns' = [l \in Loops |-> 0]
    BY <1>2, ApplyResets DEF StartSources
  <2>2. QED BY <2>1
<1>3. CASE EndProcess
  BY <1>3 DEF EndProcess
<1>4. ASSUME NEW c \in Callers, Fetch(c) PROVE LoopInv'
  BY <1>4 DEF Fetch, lvars
<1>5. ASSUME NEW c \in Callers, ApplyFetched(c) PROVE LoopInv'
  <2>1. /\ UNCHANGED <<loopAt, view>>
        /\ UNCHANGED <<raw, staleRuns>> \/ staleRuns' = [l \in Loops |-> 0]
    BY <1>5, ApplyResets DEF ApplyFetched
  <2>2. QED BY <2>1
<1>6. ASSUME NEW l \in Loops, Read(l) PROVE LoopInv'
  BY <1>6 DEF Read, cvars
<1>7. ASSUME NEW l \in Loops, Wake(l) PROVE LoopInv'
  BY <1>7 DEF Wake
<1>8. ASSUME NEW l \in Loops, Timer(l) PROVE LoopInv'
  <2> DEFINE runs == EnabledIn(l, view[l])
  <2>1. /\ loopAt[l] = "wait" /\ UNCHANGED <<raw, view>>
        /\ loopAt' = [loopAt EXCEPT ![l] = IF runs THEN "run" ELSE "read"]
        /\ staleRuns' = [staleRuns EXCEPT ![l] = IF runs /\ view[l] # raw THEN @ + 1 ELSE @]
    BY <1>8 DEF Timer, NextIteration, cvars
  <2> HIDE DEF runs
  <2>2. QED BY <2>1
<1>9. ASSUME NEW l \in Loops, RunEnds(l) PROVE LoopInv'
  BY <1>9 DEF RunEnds, NextIteration, cvars
<1>10. CASE UNCHANGED rcVars
  BY <1>10 DEF rcVars, cvars, lvars
<1>11. QED
  BY <1>1, <1>2, <1>3, <1>4, <1>5, <1>6, <1>7, <1>8, <1>9, <1>10 DEF RCNext, Loop

\* The channel of capacity one that three loops share costs a loop at most one run
\* under the configuration that was replaced, since every iteration reads anew.
THEOREM OneStaleRun == RCSpec => []StaleRunAtMostOnce
<1>1. RCInit => LoopInv
  BY DEF RCInit, LoopInv
<1>2. LoopInv => StaleRunAtMostOnce
  BY DEF LoopInv, StaleRunAtMostOnce
<1>3. QED BY <1>1, <1>2, StepLoops, PTL DEF RCSpec

-----------------------------------------------------------------------------
(* The trigger token *)

\* The vulnerability loop waits with a scan that t forces.
Forced(t) ==
  /\ "vuln" \in Loops /\ loopAt["vuln"] = "wait" /\ force /\ view["vuln"].token = t

\* The next read makes t force a scan; at a start, no token is remembered yet.
Due(t) == raw.token = t /\ (phase = "boot" \/ lastToken # t)

\* A scan that is forced or due is owed.  A token that forces is remembered, so that
\* no token is both.
TokenInv ==
  /\ owed \in [Tokens -> Int] /\ phase \in {"down", "boot", "up"}
  /\ DOMAIN loopAt = Loops /\ DOMAIN view = Loops
  /\ phase # "up" => \A l \in Loops : loopAt[l] = "dead"
  /\ \A t \in Tokens :
       /\ owed[t] >= 0
       /\ Forced(t) => lastToken = t
       /\ phase # "down" /\ (Forced(t) \/ Due(t)) => owed[t] >= 1

\* Apply keeps what is owed: a token that comes into force is owed once more.
LEMMA ApplyOwes ==
  ASSUME TokenInv, phase # "down", NEW next, Apply(next),
         UNCHANGED <<phase, loopAt, view, lastToken, force>>
  PROVE  TokenInv'
<1>1. CASE UNCHANGED <<raw, owed>>
  BY <1>1 DEF TokenInv, Forced, Due
<1>2. CASE Accept(next)
  <2>1. raw' = next
    BY <1>2 DEF Accept
  <2>2. /\ owed' \in [Tokens -> Int]
        /\ \A t \in Tokens : /\ owed[t] \in Int
                             /\ owed'[t] = owed[t] + (IF t = next.token /\ t # raw.token THEN 1 ELSE 0)
    BY <1>2 DEF Accept, TokenInv
  <2>3. ASSUME NEW t \in Tokens
        PROVE  /\ owed'[t] >= 0 /\ (Forced(t)' => lastToken' = t)
               /\ Forced(t)' \/ Due(t)' => owed'[t] >= 1
    <3>1. Forced(t)' <=> Forced(t)
      BY DEF Forced
    <3>2. owed[t] \in Int /\ owed[t] >= 0 /\ (Forced(t) => lastToken = t /\ owed[t] >= 1)
      BY DEF TokenInv
    <3>3. owed'[t] \in Int /\ owed'[t] >= owed[t]
      BY <2>2, <3>2
    <3>4. Due(t)' => owed'[t] >= 1
      <4>1. CASE t = next.token /\ t # raw.token
        <5>1. owed'[t] = owed[t] + 1
          BY <2>2, <4>1
        <5>2. QED BY <3>2, <5>1
      <4>2. CASE t # next.token
        BY <2>1, <4>2 DEF Due
      <4>3. CASE t = next.token /\ t = raw.token
        <5>1. Due(t)' => Due(t)
          BY <4>3 DEF Due
        <5>2. Due(t) => owed[t] >= 1
          BY DEF TokenInv
        <5>3. QED BY <3>2, <3>3, <5>1, <5>2
      <4>4. QED BY <4>1, <4>2, <4>3
    <3>5. QED BY <3>1, <3>2, <3>3, <3>4
  <2>4. QED BY <2>2, <2>3 DEF TokenInv
<1>3. QED BY <1>1, <1>2 DEF Apply, KeepFails

LEMMA StepTokens == TokenInv /\ [RCNext]_rcVars => TokenInv'
<1> SUFFICES ASSUME TokenInv, [RCNext]_rcVars PROVE TokenInv'
  OBVIOUS
<1>1. CASE StartProcess
  <2>1. /\ phase = "down" /\ phase' = "boot" /\ UNCHANGED <<loopAt, view, lastToken, force>>
        /\ owed' = [t \in Tokens |-> IF t = raw'.token THEN 1 ELSE 0]
    BY <1>1 DEF StartProcess
  <2>2. \A t \in Tokens : ~Forced(t)'
    BY <2>1 DEF TokenInv, Forced
  <2>3. \A t \in Tokens : owed'[t] >= 0 /\ (Due(t)' => owed'[t] >= 1)
    BY <2>1 DEF Due
  <2>4. owed' \in [Tokens -> Int]
    BY <2>1
  <2>5. QED BY <2>1, <2>2, <2>3, <2>4 DEF TokenInv
<1>2. CASE StartSources
  <2>1. /\ phase = "boot" /\ phase' = "up" /\ lastToken' = 0
        /\ loopAt' = [l \in Loops |-> "read"] /\ view' = [l \in Loops |-> NoConfig]
        /\ UNCHANGED <<raw, owed>> \/ \E c \in Configs : Apply(c)
    BY <1>2 DEF StartSources
  <2>2. \A t \in Tokens : ~Forced(t)'
    BY <2>1 DEF Forced
  <2>3. \A t \in Tokens : owed[t] \in Int /\ owed[t] >= 0 /\ (raw.token = t => owed[t] >= 1)
    BY <2>1 DEF TokenInv, Due
  <2>4. CASE UNCHANGED <<raw, owed>>
    BY <2>1, <2>2, <2>3, <2>4 DEF TokenInv, Due
  <2>5. CASE ~UNCHANGED <<raw, owed>>
    <3>1. PICK c \in Configs : Accept(c)
      BY <2>1, <2>5 DEF Apply, KeepFails
    <3>2. /\ owed' \in [Tokens -> Int] /\ raw' = c
          /\ \A t \in Tokens : owed'[t] = owed[t] + (IF t = c.token /\ t # raw.token THEN 1 ELSE 0)
      BY <2>3, <3>1 DEF Accept
    <3>3. ASSUME NEW t \in Tokens PROVE owed'[t] >= 0 /\ (Due(t)' => owed'[t] >= 1)
      <4>1. Due(t)' => t = c.token
        BY <3>2 DEF Due
      <4>2. owed'[t] = owed[t] + (IF t = c.token /\ t # raw.token THEN 1 ELSE 0)
        BY <3>2
      <4>3. owed[t] \in Int /\ owed[t] >= 0 /\ (raw.token = t => owed[t] >= 1)
        BY <2>3
      <4>4. CASE t = c.token /\ t # raw.token
        BY <4>2, <4>3, <4>4
      <4>5. CASE ~(t = c.token /\ t # raw.token)
        BY <4>1, <4>2, <4>3, <4>5
      <4>6. QED BY <4>4, <4>5
    <3>4. QED BY <2>1, <2>2, <3>2, <3>3 DEF TokenInv
  <2>6. QED BY <2>4, <2>5
<1>3. CASE EndProcess
  <2>1. /\ phase' = "down" /\ UNCHANGED <<raw, owed, view>>
        /\ loopAt' = [l \in Loops |-> "dead"]
    BY <1>3 DEF EndProcess
  <2>2. \A t \in Tokens : ~Forced(t)'
    BY <2>1 DEF Forced
  <2>3. QED BY <2>1, <2>2 DEF TokenInv
<1>4. ASSUME NEW c \in Callers, Fetch(c) PROVE TokenInv'
  BY <1>4 DEF Fetch, lvars, TokenInv, Forced, Due
<1>5. ASSUME NEW c \in Callers, ApplyFetched(c) PROVE TokenInv'
  BY <1>5, ApplyOwes DEF ApplyFetched
<1>6. ASSUME NEW l \in Loops, Read(l) PROVE TokenInv'
  <2>1. /\ loopAt[l] = "read" /\ UNCHANGED <<raw, phase, owed>>
        /\ loopAt' = [loopAt EXCEPT ![l] = "wait"] /\ view' = [view EXCEPT ![l] = raw]
    BY <1>6 DEF Read, cvars
  <2>2. phase = "up"
    BY <2>1 DEF TokenInv
  <2>3. ASSUME NEW t \in Tokens
        PROVE  /\ Forced(t)' => lastToken' = t /\ (Forced(t) \/ Due(t))
               /\ Due(t)' => Due(t)
    <3>0. t # 0
      BY DEF Tokens
    <3>1. CASE l = "vuln"
      <4>1. /\ force' = (raw.token # 0 /\ raw.token # lastToken)
            /\ lastToken' = IF raw.token # 0 THEN raw.token ELSE lastToken
        BY <1>6, <3>1 DEF Read, Remember
      <4>2. view'["vuln"] = raw
        BY <2>1, <3>1 DEF TokenInv
      <4>3. Forced(t)' => raw.token = t /\ raw.token # lastToken
        BY <4>1, <4>2 DEF Forced
      <4>4. QED BY <2>1, <2>2, <3>0, <4>1, <4>3 DEF Due
    <3>2. CASE l # "vuln"
      <4>1. UNCHANGED <<force, lastToken>>
        BY <1>6, <3>2 DEF Read
      <4>2. "vuln" \in Loops => loopAt'["vuln"] = loopAt["vuln"] /\ view'["vuln"] = view["vuln"]
        BY <2>1, <3>2 DEF TokenInv
      <4>3. Forced(t)' => Forced(t)
        BY <4>1, <4>2 DEF Forced
      <4>4. QED BY <2>1, <4>1, <4>3 DEF TokenInv, Due
    <3>3. QED BY <3>1, <3>2
  <2>4. QED BY <2>1, <2>2, <2>3 DEF TokenInv
<1>7. ASSUME NEW l \in Loops, Wake(l) PROVE TokenInv'
  <2>1. /\ loopAt[l] = "wait" /\ loopAt' = [loopAt EXCEPT ![l] = "read"]
        /\ UNCHANGED <<raw, phase, view, lastToken, force, owed>>
    BY <1>7 DEF Wake
  <2>2. \A t \in Tokens : Forced(t)' => Forced(t)
    BY <2>1 DEF TokenInv, Forced
  <2>3. QED BY <2>1, <2>2 DEF TokenInv, Due
<1>8. ASSUME NEW l \in Loops, Timer(l) PROVE TokenInv'
  <2> DEFINE runs == EnabledIn(l, view[l])
  <2>1. /\ loopAt[l] = "wait" /\ UNCHANGED <<raw, phase, view, lastToken, force>>
        /\ loopAt' = [loopAt EXCEPT ![l] = IF runs THEN "run" ELSE "read"]
        /\ owed' = IF runs /\ l = "vuln" /\ force
                      THEN [owed EXCEPT ![view[l].token] = owed[view[l].token] - 1] ELSE owed
    BY <1>8 DEF Timer, NextIteration, cvars
  <2> HIDE DEF runs
  <2>2. phase = "up"
    BY <2>1 DEF TokenInv
  <2>3. \A t \in Tokens : Forced(t)' => Forced(t) /\ l # "vuln"
    BY <2>1 DEF TokenInv, Forced
  <2>4. CASE runs /\ l = "vuln" /\ force /\ view[l].token \in Tokens
    <3> DEFINE v == view[l].token
    <3>1. owed[v] \in Int /\ Forced(v)
      BY <2>1, <2>4 DEF TokenInv, Forced
    <3>2. lastToken = v /\ owed[v] >= 1
      BY <2>2, <2>4, <3>1 DEF TokenInv
    <3>3. owed' = [owed EXCEPT ![v] = owed[v] - 1]
      BY <2>1, <2>4
    <3>5. v \in Tokens /\ l = "vuln"
      BY <2>4
    <3> HIDE DEF v
    <3>4. /\ owed' \in [Tokens -> Int]
          /\ \A t \in Tokens : owed'[t] = IF t = v THEN owed[v] - 1 ELSE owed[t]
      BY <3>1, <3>3, <3>5 DEF TokenInv
    <3>6. \A t \in Tokens : owed'[t] >= 0 /\ (Due(t)' => owed'[t] >= 1)
      <4> SUFFICES ASSUME NEW t \in Tokens PROVE owed'[t] >= 0 /\ (Due(t)' => owed'[t] >= 1)
        OBVIOUS
      <4>1. CASE t = v
        <5>1. ~Due(t)'
          BY <2>1, <2>2, <3>2, <4>1 DEF Due
        <5>2. owed'[t] = owed[v] - 1
          BY <3>4, <4>1
        <5>3. QED BY <3>1, <3>2, <5>1, <5>2
      <4>2. CASE t # v
        BY <2>1, <2>2, <3>4, <4>2 DEF TokenInv, Due
      <4>3. QED BY <4>1, <4>2
    <3>7. QED BY <2>1, <2>2, <2>3, <3>4, <3>5, <3>6 DEF TokenInv
  <2>5. CASE ~(runs /\ l = "vuln" /\ force /\ view[l].token \in Tokens)
    <3>1. owed' = owed
      BY <2>1, <2>5 DEF TokenInv
    <3>2. QED BY <2>1, <2>2, <2>3, <3>1 DEF TokenInv, Due
  <2>6. QED BY <2>4, <2>5
<1>9. ASSUME NEW l \in Loops, RunEnds(l) PROVE TokenInv'
  <2>1. /\ loopAt[l] = "run" /\ loopAt' = [loopAt EXCEPT ![l] = "read"]
        /\ UNCHANGED <<raw, phase, view, lastToken, force, owed>>
    BY <1>9 DEF RunEnds, NextIteration, cvars
  <2>2. \A t \in Tokens : Forced(t)' => Forced(t)
    BY <2>1 DEF TokenInv, Forced
  <2>3. QED BY <2>1, <2>2 DEF TokenInv, Due
<1>10. CASE UNCHANGED rcVars
  BY <1>10 DEF rcVars, cvars, lvars, TokenInv, Forced, Due
<1>11. QED
  BY <1>1, <1>2, <1>3, <1>4, <1>5, <1>6, <1>7, <1>8, <1>9, <1>10 DEF RCNext, Loop

\* A scan_now_token is remembered before the wait, so that it forces at most one
\* scan each time it comes into force, also over restarts and when other changes
\* wake the loop.
THEOREM OneScanPerChange == RCSpec => []ScanNowOncePerChange
<1>1. RCInit => TokenInv
  <2> SUFFICES ASSUME RCInit PROVE TokenInv
    OBVIOUS
  <2>1. \A t \in Tokens : ~Forced(t)
    BY DEF RCInit, Forced
  <2>2. QED BY <2>1 DEF RCInit, TokenInv
<1>2. TokenInv => ScanNowOncePerChange
  BY DEF TokenInv, ScanNowOncePerChange
<1>3. QED BY <1>1, <1>2, StepTokens, PTL DEF RCSpec

-----------------------------------------------------------------------------
(* The package scripts *)

\* The release of version v can be activated.
Stored(v) == v \in Versions /\ \E r \in store[v] : VersionOf(r.bin) = v

\* A step of S comes only behind one of T that is still to come; none of S comes.
Before(S, T, steps) ==
  \A i \in 1 .. Len(steps) : steps[i] \in S => \E j \in 1 .. i - 1 : steps[j] \in T
Never(S, steps) == \A i \in 1 .. Len(steps) : steps[i] \notin S

\* The steps that need the target in the store.
UseTarget == {"bin", "unit", "record", "health", "prune"}

Adoption == {"keep", "adopt"}

StepNames == UseTarget \cup Adoption \cup {"store", "stop", "start", "snapshot", "assert", "refuse"}

\* An adoption is at the head of the script.
AdoptsFirst(steps) ==
  \A i \in 1 .. Len(steps) : steps[i] = "adopt" => i <= 2 /\ steps[1] \in Adoption

\* A directory of the store is empty, half removed, or one release of its version.
StoreInv ==
  /\ store = [v \in Versions |-> store[v]]
  /\ \A v \in Versions :
       store[v] = {} \/ store[v] = Partial \/ \E r : store[v] = {r} /\ VersionOf(r.bin) = v
  /\ bin = NoBuild \/ VersionOf(bin) \in Versions

\* What is on record can be activated.
RecordInv == \A v \in {record.cur, record.prev} \ {NoRelease} : Stored(v)

\* What the rest of the script still has to bring about before it relies on it: the
\* version found active is stored or is about to be kept; the target is stored, or
\* "store" comes first; the record names what a prune spares, or "record" comes
\* first.
ScriptInv ==
  /\ op = [kind |-> op.kind, target |-> op.target, build |-> op.build, prior |-> op.prior,
           auto |-> op.auto, steps |-> op.steps]
  /\ op.steps \in Seq(StepNames) /\ op.steps # <<>> /\ op.target \in Versions
  /\ op.kind \in {"upgrade", "reconcile"} =>
       Stored(Found) \/ (op.steps[1] = "keep" /\ Found \in Versions /\ VersionOf(bin) = Found)
  /\ op.kind \notin {"upgrade", "reconcile"} => Never(Adoption, op.steps)
  /\ op.kind # "upgrade" => op.prior = NoRelease \/ Stored(op.prior)
  /\ op.kind = "rollback" => Stored(op.prior)
  /\ Stored(op.target) \/ Before(UseTarget, {"store"}, op.steps)
  /\ VersionOf(op.build) = op.target \/ Never({"store"}, op.steps)
  /\ AdoptsFirst(op.steps)
  /\ \/ Before({"prune"}, {"record"}, op.steps)
     \/ record = [cur |-> op.target, prev |-> op.prior] /\ Never({"adopt"}, op.steps)

RelInv == StoreInv /\ RecordInv /\ (op # Idle => ScriptInv)

\* The rest of a script after its first step.
LEMMA RestKeeps ==
  ASSUME NEW steps \in Seq(StepNames), Len(steps) # 1, steps # <<>>
  PROVE  /\ Tail(steps) \in Seq(StepNames) /\ Tail(steps) # <<>>
         /\ \A S : Never(S, steps) => Never(S, Tail(steps))
         /\ \A S, T : Before(S, T, steps) /\ steps[1] \notin T => Before(S, T, Tail(steps))
         /\ AdoptsFirst(steps) => AdoptsFirst(Tail(steps))
<1> DEFINE t == Tail(steps)
<1>1. /\ t \in Seq(StepNames) /\ Len(t) = Len(steps) - 1
      /\ \A i \in 1 .. Len(t) : t[i] = steps[i + 1]
  BY HeadTailProperties
<1>2. Len(steps) \in Nat /\ Len(steps) > 1
  <2> DEFINE n == Len(steps)
  <2>1. n \in Nat /\ n # 0 /\ n # 1
    BY EmptySeq
  <2> HIDE DEF n
  <2>2. n > 1
    BY <2>1
  <2>3. QED BY <2>1, <2>2 DEF n
<1>3. t # <<>>
  BY <1>1, <1>2
<1> HIDE DEF t
<1>4. ASSUME NEW S, Never(S, steps) PROVE Never(S, t)
  BY <1>1, <1>2, <1>4 DEF Never
<1>5. ASSUME NEW S, NEW T, Before(S, T, steps), steps[1] \notin T PROVE Before(S, T, t)
  <2> SUFFICES ASSUME NEW i \in 1 .. Len(t), t[i] \in S
               PROVE  \E j \in 1 .. i - 1 : t[j] \in T
    BY DEF Before
  <2>1. i + 1 \in 1 .. Len(steps) /\ steps[i + 1] \in S
    BY <1>1, <1>2
  <2>2. PICK j \in 1 .. i : steps[j] \in T
    BY <1>5, <2>1 DEF Before
  <2>3. j # 1
    BY <1>5, <2>2
  <2>4. j - 1 \in 1 .. i - 1 /\ j - 1 \in 1 .. Len(t)
    BY <2>2, <2>3, <1>1, <1>2
  <2>5. t[j - 1] = steps[j]
    BY <1>1, <2>4
  <2>6. QED BY <2>2, <2>4, <2>5
<1>6. ASSUME AdoptsFirst(steps) PROVE AdoptsFirst(t)
  <2> SUFFICES ASSUME NEW i \in 1 .. Len(t), t[i] = "adopt"
               PROVE  i <= 2 /\ t[1] \in Adoption
    BY DEF AdoptsFirst
  <2>1. i + 1 \in 1 .. Len(steps) /\ steps[i + 1] = "adopt"
    BY <1>1, <1>2
  <2>2. i + 1 <= 2
    BY <1>6, <2>1 DEF AdoptsFirst
  <2>3. i = 1
    BY <2>2
  <2>4. QED BY <2>3 DEF Adoption
<1>7. QED BY <1>1, <1>3, <1>4, <1>5, <1>6 DEF t

\* The first step is not one that has to wait, and an adoption is over once another
\* step has come.
LEMMA FirstStepReady ==
  ASSUME NEW steps \in Seq(StepNames), steps # <<>>
  PROVE  /\ \A S, T : Before(S, T, steps) => steps[1] \notin S
         /\ \A S : Never(S, steps) => steps[1] \notin S
         /\ AdoptsFirst(steps) /\ steps[1] \notin Adoption => Never({"adopt"}, steps)
<1>1. 1 \in 1 .. Len(steps)
  BY EmptySeq
<1>2. QED BY <1>1 DEF Before, Never, AdoptsFirst

\* A script behind a head that needs nothing.
LEMMA HeadKeeps ==
  ASSUME NEW h \in Seq(StepNames), NEW r \in Seq(StepNames), NEW S, NEW T,
         Never(S, h), Before(S, T, r)
  PROVE  Before(S, T, h \o r)
<1>1. /\ Len(h \o r) = Len(h) + Len(r) /\ Len(h) \in Nat /\ Len(r) \in Nat
      /\ \A i \in 1 .. Len(h) + Len(r) : (h \o r)[i] = IF i <= Len(h) THEN h[i] ELSE r[i - Len(h)]
  BY ConcatProperties
<1> DEFINE n == Len(h)
           w == h \o r
<1> SUFFICES ASSUME NEW i \in 1 .. Len(w), w[i] \in S
             PROVE  \E j \in 1 .. i - 1 : w[j] \in T
  BY DEF Before
<1> HIDE DEF w
<1>2. i > n
  BY <1>1 DEF Never, w
<1>3. i - n \in 1 .. Len(r) /\ r[i - n] \in S
  BY <1>1, <1>2 DEF w
<1>4. PICK j \in 1 .. (i - n) - 1 : r[j] \in T
  BY <1>3 DEF Before
<1>5. j + n \in 1 .. i - 1 /\ j + n \in 1 .. Len(w) /\ j + n > n
  BY <1>1, <1>3, <1>4 DEF w
<1>6. w[j + n] = r[(j + n) - n] /\ (j + n) - n = j
  BY <1>1, <1>4, <1>5 DEF w
<1>7. QED BY <1>4, <1>5, <1>6

\* What each main promises about the order of its steps.
LEMMA PlanOrder ==
  /\ \A k \in {"install", "upgrade", "reconcile", "rollback", "restore"} :
       /\ Plan(k) \in Seq(StepNames) /\ Plan(k) # <<>>
       /\ Before({"prune"}, {"record"}, Plan(k)) /\ Never({"adopt"}, Plan(k))
  /\ \A k \in {"install", "upgrade", "reconcile"} : Before(UseTarget, {"store"}, Plan(k))
  /\ \A k \in {"rollback", "restore"} : Never({"store"}, Plan(k))
  /\ \A k \in {"install", "rollback", "restore"} : Never(Adoption, Plan(k))
<1>1. /\ Plan("install") \in Seq(StepNames) /\ Plan("install") # <<>>
      /\ Before({"prune"}, {"record"}, Plan("install")) /\ Never({"adopt"}, Plan("install"))
      /\ Before(UseTarget, {"store"}, Plan("install")) /\ Never(Adoption, Plan("install"))
  <2> DEFINE s == <<"store", "stop", "bin", "unit", "record", "prune", "start", "health">>
  <2>1. /\ s \in Seq(StepNames) /\ s # <<>> /\ Len(s) = 8
        /\ s[1] = "store" /\ s[2] = "stop" /\ s[3] = "bin" /\ s[4] = "unit"
        /\ s[5] = "record" /\ s[6] = "prune" /\ s[7] = "start" /\ s[8] = "health"
    BY DEF StepNames, UseTarget, Adoption
  <2>2. Plan("install") = s
    BY DEF Plan
  <2> HIDE DEF s
  <2>3. \A i \in 1 .. 8 : i = 1 \/ i = 2 \/ i = 3 \/ i = 4 \/ i = 5 \/ i = 6 \/ i = 7 \/ i = 8
    OBVIOUS
  <2>4. Before({"prune"}, {"record"}, s) /\ Never({"adopt"}, s)
    BY <2>1, <2>3 DEF Before, Never
  <2>5. Before(UseTarget, {"store"}, s) /\ Never(Adoption, s)
    BY <2>1, <2>3 DEF Before, Never, UseTarget, Adoption
  <2>6. QED BY <2>1, <2>2, <2>4, <2>5
<1>2. /\ Plan("upgrade") \in Seq(StepNames) /\ Plan("upgrade") # <<>>
      /\ Before({"prune"}, {"record"}, Plan("upgrade")) /\ Never({"adopt"}, Plan("upgrade"))
      /\ Before(UseTarget, {"store"}, Plan("upgrade"))
  <2> DEFINE s == <<"snapshot", "keep", "store", "stop", "bin", "unit",
                  "assert", "record", "start", "health", "prune">>
  <2>1. /\ s \in Seq(StepNames) /\ s # <<>> /\ Len(s) = 11
        /\ s[1] = "snapshot" /\ s[2] = "keep" /\ s[3] = "store" /\ s[4] = "stop"
        /\ s[5] = "bin" /\ s[6] = "unit" /\ s[7] = "assert" /\ s[8] = "record"
        /\ s[9] = "start" /\ s[10] = "health" /\ s[11] = "prune"
    BY DEF StepNames, UseTarget, Adoption
  <2>2. Plan("upgrade") = s
    BY DEF Plan
  <2> HIDE DEF s
  <2>3. \A i \in 1 .. 11 : i = 1 \/ i = 2 \/ i = 3 \/ i = 4 \/ i = 5 \/ i = 6 \/ i = 7 \/ i = 8 \/ i = 9 \/ i = 10 \/ i = 11
    OBVIOUS
  <2>4. Before({"prune"}, {"record"}, s) /\ Never({"adopt"}, s)
    BY <2>1, <2>3 DEF Before, Never
  <2>5. Before(UseTarget, {"store"}, s)
    BY <2>1, <2>3 DEF Before, Never, UseTarget, Adoption
  <2>6. QED BY <2>1, <2>2, <2>4, <2>5
<1>3. /\ Plan("reconcile") \in Seq(StepNames) /\ Plan("reconcile") # <<>>
      /\ Before({"prune"}, {"record"}, Plan("reconcile")) /\ Never({"adopt"}, Plan("reconcile"))
      /\ Before(UseTarget, {"store"}, Plan("reconcile"))
  <2> DEFINE s == <<"store", "stop", "bin", "unit", "record", "start", "health">>
  <2>1. /\ s \in Seq(StepNames) /\ s # <<>> /\ Len(s) = 7
        /\ s[1] = "store" /\ s[2] = "stop" /\ s[3] = "bin" /\ s[4] = "unit"
        /\ s[5] = "record" /\ s[6] = "start" /\ s[7] = "health"
    BY DEF StepNames, UseTarget, Adoption
  <2>2. Plan("reconcile") = s
    BY DEF Plan
  <2> HIDE DEF s
  <2>3. \A i \in 1 .. 7 : i = 1 \/ i = 2 \/ i = 3 \/ i = 4 \/ i = 5 \/ i = 6 \/ i = 7
    OBVIOUS
  <2>4. Before({"prune"}, {"record"}, s) /\ Never({"adopt"}, s)
    BY <2>1, <2>3 DEF Before, Never
  <2>5. Before(UseTarget, {"store"}, s)
    BY <2>1, <2>3 DEF Before, Never, UseTarget, Adoption
  <2>6. QED BY <2>1, <2>2, <2>4, <2>5
<1>4. /\ Plan("rollback") \in Seq(StepNames) /\ Plan("rollback") # <<>>
      /\ Before({"prune"}, {"record"}, Plan("rollback")) /\ Never({"adopt"}, Plan("rollback"))
      /\ Never({"store"}, Plan("rollback")) /\ Never(Adoption, Plan("rollback"))
  <2> DEFINE s == <<"snapshot", "stop", "bin", "unit", "assert", "record",
                  "start", "health">>
  <2>1. /\ s \in Seq(StepNames) /\ s # <<>> /\ Len(s) = 8
        /\ s[1] = "snapshot" /\ s[2] = "stop" /\ s[3] = "bin" /\ s[4] = "unit"
        /\ s[5] = "assert" /\ s[6] = "record" /\ s[7] = "start" /\ s[8] = "health"
    BY DEF StepNames, UseTarget, Adoption
  <2>2. Plan("rollback") = s
    BY DEF Plan
  <2> HIDE DEF s
  <2>3. \A i \in 1 .. 8 : i = 1 \/ i = 2 \/ i = 3 \/ i = 4 \/ i = 5 \/ i = 6 \/ i = 7 \/ i = 8
    OBVIOUS
  <2>4. Before({"prune"}, {"record"}, s) /\ Never({"adopt"}, s)
    BY <2>1, <2>3 DEF Before, Never
  <2>5. Never({"store"}, s) /\ Never(Adoption, s)
    BY <2>1, <2>3 DEF Before, Never, UseTarget, Adoption
  <2>6. QED BY <2>1, <2>2, <2>4, <2>5
<1>5. /\ Plan("restore") \in Seq(StepNames) /\ Plan("restore") # <<>>
      /\ Before({"prune"}, {"record"}, Plan("restore")) /\ Never({"adopt"}, Plan("restore"))
      /\ Never({"store"}, Plan("restore")) /\ Never(Adoption, Plan("restore"))
  <2> DEFINE s == <<"stop", "bin", "unit", "record", "start", "health">>
  <2>1. /\ s \in Seq(StepNames) /\ s # <<>> /\ Len(s) = 6
        /\ s[1] = "stop" /\ s[2] = "bin" /\ s[3] = "unit" /\ s[4] = "record"
        /\ s[5] = "start" /\ s[6] = "health"
    BY DEF StepNames, UseTarget, Adoption
  <2>2. Plan("restore") = s
    BY DEF Plan
  <2> HIDE DEF s
  <2>3. \A i \in 1 .. 6 : i = 1 \/ i = 2 \/ i = 3 \/ i = 4 \/ i = 5 \/ i = 6
    OBVIOUS
  <2>4. Before({"prune"}, {"record"}, s) /\ Never({"adopt"}, s)
    BY <2>1, <2>3 DEF Before, Never
  <2>5. Never({"store"}, s) /\ Never(Adoption, s)
    BY <2>1, <2>3 DEF Before, Never, UseTarget, Adoption
  <2>6. QED BY <2>1, <2>2, <2>4, <2>5
<1>6. QED BY <1>1, <1>2, <1>3, <1>4, <1>5

\* One step of a script, by what it does to the store and to the record.
LEMMA ProceedKeeps ==
  ASSUME RelInv, op # Idle, GoOn, StoreInv', RecordInv',
         NEW t, t = op.target, NEW p, p = op.prior, NEW f, f = Found,
         Stored(t) => Stored(t)', Stored(p) => Stored(p)',
         op.steps[1] = "keep" => Stored(f)',
         op.steps[1] = "store" => Stored(t)',
         op.steps[1] = "record" => record' = [cur |-> t, prev |-> p],
         op.steps[1] \notin {"record", "adopt"} => record' = record
  PROVE  RelInv'
<1> DEFINE now == op.steps
           rest == Tail(op.steps)
<1>1. CASE Len(now) = 1
  BY <1>1 DEF GoOn, ScriptEnds, RelInv
<1>2. CASE Len(now) # 1
  <2>1. ScriptInv
    BY DEF RelInv
  <2>2. op' = [kind |-> op.kind, target |-> t, build |-> op.build, prior |-> p,
               auto |-> op.auto, steps |-> rest]
    <3>1. op' = [op EXCEPT !.steps = rest]
      BY <1>2 DEF GoOn
    <3>2. op = [kind |-> op.kind, target |-> op.target, build |-> op.build, prior |-> op.prior,
                auto |-> op.auto, steps |-> op.steps]
      BY <2>1 DEF ScriptInv
    <3> HIDE DEF rest
    <3>3. QED BY <3>1, <3>2
  <2>3. now \in Seq(StepNames) /\ now # <<>>
    BY <2>1 DEF ScriptInv
  <2>4. /\ rest \in Seq(StepNames) /\ rest # <<>>
        /\ \A S : Never(S, now) => Never(S, rest)
        /\ \A S, T : Before(S, T, now) /\ now[1] \notin T => Before(S, T, rest)
        /\ AdoptsFirst(now) => AdoptsFirst(rest)
    BY <1>2, <2>3, RestKeeps
  <2>5. /\ \A S, T : Before(S, T, now) => now[1] \notin S
        /\ \A S : Never(S, now) => now[1] \notin S
        /\ AdoptsFirst(now) /\ now[1] \notin Adoption => Never({"adopt"}, now)
    BY <2>3, FirstStepReady
  <2> HIDE DEF rest
  <2>6. /\ op'.kind = op.kind /\ op'.target = t /\ op'.build = op.build /\ op'.prior = p
        /\ op'.auto = op.auto /\ op'.steps = rest
    BY <2>2
  <2>7. op.kind \in {"upgrade", "reconcile"} => Stored(f)'
    <3>1. CASE now[1] = "keep"
      BY <3>1
    <3>2. CASE now[1] # "keep"
      <4>1. f \in {t, p}
        BY DEF Found
      <4>2. op.kind \in {"upgrade", "reconcile"} => Stored(f)
        BY <2>1, <3>2 DEF ScriptInv
      <4>3. QED BY <4>1, <4>2
    <3>3. QED BY <3>1, <3>2
  <2>8. Found' = f
    BY <2>6 DEF Found
  <2>9. Stored(t)' \/ Before(UseTarget, {"store"}, rest)
    <3>1. Stored(t) \/ Before(UseTarget, {"store"}, now)
      BY <2>1 DEF ScriptInv
    <3>2. QED BY <2>4, <3>1
  <2>10. \/ Before({"prune"}, {"record"}, rest)
         \/ record' = [cur |-> t, prev |-> p] /\ Never({"adopt"}, rest)
    <3>1. CASE now[1] = "record"
      <4>1. Never({"adopt"}, now)
        BY <2>1, <2>5, <3>1 DEF ScriptInv, Adoption
      <4>2. QED BY <2>4, <3>1, <4>1
    <3>2. CASE now[1] # "record" /\ Before({"prune"}, {"record"}, now)
      BY <2>4, <3>2
    <3>3. CASE now[1] # "record" /\ ~Before({"prune"}, {"record"}, now)
      <4>1. record = [cur |-> t, prev |-> p] /\ Never({"adopt"}, now)
        BY <2>1, <3>3 DEF ScriptInv
      <4>2. now[1] # "adopt"
        BY <2>5, <4>1
      <4>3. record' = record
        BY <3>3, <4>2
      <4>4. QED BY <2>4, <4>1, <4>3
    <3>4. QED BY <3>1, <3>2, <3>3
  <2>11. /\ op.kind \notin {"upgrade", "reconcile"} => Never(Adoption, rest)
         /\ op.kind # "upgrade" => p = NoRelease \/ Stored(p)'
         /\ op.kind = "rollback" => Stored(p)'
         /\ VersionOf(op.build) = t \/ Never({"store"}, rest)
         /\ AdoptsFirst(rest) /\ t \in Versions
    BY <2>1, <2>4 DEF ScriptInv
  <2>12. ScriptInv'
    <3>1. (op = [kind |-> op.kind, target |-> op.target, build |-> op.build, prior |-> op.prior,
                 auto |-> op.auto, steps |-> op.steps])'
      BY <2>2, <2>6
    <3>2. (op.kind \in {"upgrade", "reconcile"} => Stored(Found))'
      BY <2>6, <2>7, <2>8 DEF Stored
    <3>3. (op.kind # "upgrade" => op.prior = NoRelease \/ Stored(op.prior))'
      BY <2>6, <2>11 DEF Stored
    <3>4. (op.kind = "rollback" => Stored(op.prior))'
      BY <2>6, <2>11 DEF Stored
    <3>5. (Stored(op.target) \/ Before(UseTarget, {"store"}, op.steps))'
      BY <2>6, <2>9 DEF Stored, Before, UseTarget
    <3>6. (\/ Before({"prune"}, {"record"}, op.steps)
           \/ record = [cur |-> op.target, prev |-> op.prior] /\ Never({"adopt"}, op.steps))'
      BY <2>6, <2>10 DEF Before, Never
    <3>7. /\ (op.kind \notin {"upgrade", "reconcile"} => Never(Adoption, op.steps))'
          /\ (VersionOf(op.build) = op.target \/ Never({"store"}, op.steps))'
          /\ AdoptsFirst(op.steps)'
      BY <2>6, <2>11 DEF Never, AdoptsFirst, VersionOf, Adoption
    <3>8. (op.steps \in Seq(StepNames) /\ op.steps # <<>> /\ op.target \in Versions)'
      BY <2>4, <2>6, <2>11 DEF StepNames
    <3>9. QED BY <3>1, <3>2, <3>3, <3>4, <3>5, <3>6, <3>7, <3>8 DEF ScriptInv
  <2>13. QED BY <2>12 DEF RelInv
<1>3. QED BY <1>1, <1>2

\* A script that ends leaves nothing to be relied on but the record.
LEMMA EndKeepsReleases ==
  ASSUME op' = Idle, StoreInv', RecordInv'
  PROVE  RelInv'
BY DEF RelInv

\* Steps that leave store, binary and record alone.
LEMMA SameFiles ==
  ASSUME RelInv, UNCHANGED <<store, bin, record>>
  PROVE  StoreInv' /\ RecordInv' /\ \A v : Stored(v)' <=> Stored(v)
BY DEF RelInv, StoreInv, RecordInv, Stored, Partial, VersionOf, NoBuild

LEMMA PlainStepKeeps ==
  ASSUME RelInv, op # Idle, UNCHANGED <<store, bin, record>>, GoOn \/ op' = Idle,
         op.steps[1] \notin {"keep", "store", "record", "adopt"}
  PROVE  RelInv'
BY SameFiles, ProceedKeeps, EndKeepsReleases

\* A release that is put where there was none.
LEMMA NewReleaseKeeps ==
  ASSUME RelInv, NEW v \in Versions, NEW r, VersionOf(r.bin) = v,
         store' = [store EXCEPT ![v] = {r}], UNCHANGED <<bin, record>>,
         store[v] = {} \/ store[v] = {r}
  PROVE  /\ StoreInv' /\ RecordInv' /\ Stored(v)'
         /\ \A w : Stored(w) => Stored(w)'
<1>1. store = [w \in Versions |-> store[w]]
  BY DEF RelInv, StoreInv
<1>2. store' = [w \in Versions |-> IF w = v THEN {r} ELSE store[w]]
  BY <1>1
<1>3. \A w \in Versions : store'[w] = IF w = v THEN {r} ELSE store[w]
  BY <1>2
<1>4. Stored(v)' /\ \A w : Stored(w) => Stored(w)'
  BY <1>3 DEF Stored, VersionOf
<1>5. RecordInv'
  BY <1>4 DEF RelInv, RecordInv
<1>6. store' = [w \in Versions |-> store'[w]]
  BY <1>2, <1>3
<1>7. \A w \in Versions :
        store'[w] = {} \/ store'[w] = Partial \/ \E q : store'[w] = {q} /\ VersionOf(q.bin) = w
  BY <1>3 DEF RelInv, StoreInv
<1>8. StoreInv'
  BY <1>6, <1>7 DEF RelInv, StoreInv, VersionOf, NoBuild, Partial
<1>9. QED BY <1>4, <1>5, <1>8

LEMMA KeepStepKeeps == ASSUME RelInv, Keep PROVE RelInv'
<1>0. PICK f : f = Found
  OBVIOUS
<1>1. op # Idle /\ op.steps[1] = "keep" /\ UNCHANGED <<bin, record>> /\ ScriptInv
  BY DEF Keep, Step, RelInv
<1>2. op.kind \in {"upgrade", "reconcile"}
  <2>1. Never(Adoption, op.steps) => op.steps[1] \notin Adoption
    BY <1>1, FirstStepReady DEF ScriptInv
  <2>2. QED BY <1>1, <2>1 DEF ScriptInv, Adoption
<1>3. f \in Versions /\ (Stored(f) \/ VersionOf(bin) = f)
  BY <1>0, <1>1, <1>2 DEF ScriptInv, Stored
<1>4. CASE store[f] = {}
  <2>1. store' = [store EXCEPT ![f] = {[bin |-> bin, unit |-> unit]}] /\ GoOn
    BY <1>0, <1>4 DEF Keep, Partial
  <2>2. ~Stored(f)
    BY <1>4 DEF Stored
  <2>3. VersionOf([bin |-> bin, unit |-> unit].bin) = f
    BY <1>3, <2>2
  <2>4. /\ StoreInv' /\ RecordInv' /\ Stored(f)'
        /\ \A w : Stored(w) => Stored(w)'
    <3> DEFINE r == [bin |-> bin, unit |-> unit]
    <3>1. VersionOf(r.bin) = f /\ store' = [store EXCEPT ![f] = {r}]
      BY <2>1, <2>3
    <3> HIDE DEF r
    <3>2. QED BY <1>1, <1>3, <1>4, <3>1, NewReleaseKeeps
  <2>5. \A g : g = Found => Stored(g)'
    BY <1>0, <2>4
  <2>6. QED BY <1>1, <2>1, <2>4, <2>5, ProceedKeeps
<1>5. CASE store[f] # {} /\ store[f] = Partial
  <2>1. op' = Idle /\ UNCHANGED store
    BY <1>0, <1>5 DEF Keep, ScriptEnds, Partial
  <2>2. QED BY <1>1, <2>1, SameFiles, EndKeepsReleases
<1>6. CASE store[f] # {} /\ store[f] # Partial
  <2>1. GoOn /\ UNCHANGED store
    BY <1>0, <1>6 DEF Keep
  <2>2. Stored(f)
    BY <1>3, <1>6 DEF RelInv, StoreInv, Stored
  <2>3. \A g : g = Found => Stored(g)'
    BY <1>0, <1>1, <2>1, <2>2, SameFiles
  <2>4. QED BY <1>1, <2>1, <2>3, SameFiles, ProceedKeeps
<1>7. QED BY <1>4, <1>5, <1>6

LEMMA StoreStepKeeps == ASSUME RelInv, StoreRelease PROVE RelInv'
<1> DEFINE r == [bin |-> op.build, unit |-> op.build]
<1>1. op # Idle /\ op.steps[1] = "store" /\ UNCHANGED <<bin, record>> /\ ScriptInv
  BY DEF StoreRelease, Step, RelInv
<1>2. VersionOf(r.bin) = op.target /\ op.target \in Versions
  <2>1. Never({"store"}, op.steps) => op.steps[1] # "store"
    BY <1>1, FirstStepReady DEF ScriptInv
  <2>2. QED BY <1>1, <2>1 DEF ScriptInv
<1>3. CASE store[op.target] \in {{}, {r}}
  <2>1. store' = [store EXCEPT ![op.target] = {r}] /\ GoOn
    BY <1>3 DEF StoreRelease
  <2> HIDE DEF r
  <2>2. \A v \in Versions : v = op.target =>
          Stored(v)' /\ StoreInv' /\ RecordInv' /\ \A w : Stored(w) => Stored(w)'
    BY <1>1, <1>2, <1>3, <2>1, NewReleaseKeeps
  <2>3. QED BY <1>1, <1>2, <2>1, <2>2, ProceedKeeps
<1>4. CASE store[op.target] \notin {{}, {r}}
  <2>1. op' = Idle /\ UNCHANGED store
    BY <1>4 DEF StoreRelease, ScriptEnds
  <2>2. QED BY <1>1, <2>1, SameFiles, EndKeepsReleases
<1>5. QED BY <1>3, <1>4

\* The target is stored when a step is reached that uses it.
LEMMA TargetIsThere ==
  ASSUME RelInv, op # Idle, op.steps[1] \in UseTarget
  PROVE  Stored(op.target)
<1>1. ScriptInv
  BY DEF RelInv
<1>2. Before(UseTarget, {"store"}, op.steps) => op.steps[1] \notin UseTarget
  BY <1>1, FirstStepReady DEF ScriptInv
<1>3. QED BY <1>1, <1>2 DEF ScriptInv

\* The previous release is stored, or there is none, when a step is reached that
\* comes behind the keeping.
LEMMA PriorIsThere ==
  ASSUME RelInv, op # Idle, op.steps[1] # "keep"
  PROVE  /\ op.prior = NoRelease \/ Stored(op.prior)
         /\ op.kind \in {"upgrade", "rollback"} => Stored(op.prior)
BY DEF RelInv, ScriptInv, Found

LEMMA ActivateKeeps == ASSUME RelInv, ActivateBinary PROVE RelInv'
<1>1. /\ op # Idle /\ op.steps[1] = "bin" /\ UNCHANGED <<store, record>> /\ GoOn
      /\ \E r \in store[op.target] : bin' = r.bin
  BY DEF ActivateBinary, Step
<1>2. Stored(op.target)
  BY <1>1, TargetIsThere DEF UseTarget
<1>3. VersionOf(bin') = op.target /\ op.target \in Versions
  <2>1. PICK q \in store[op.target] : VersionOf(q.bin) = op.target
    BY <1>2 DEF Stored
  <2>2. op.target \in Versions
    BY <1>2 DEF Stored
  <2>3. op.target # -1
    BY <2>2, ReleasesAssumption
  <2>4. store[op.target] # Partial
    <3>1. CASE store[op.target] = Partial
      <4>1. q.bin = NoBuild
        BY <2>1, <3>1 DEF Partial
      <4>2. VersionOf(q.bin) = -1
        BY <4>1 DEF VersionOf, NoBuild
      <4>3. QED BY <2>1, <2>3, <4>2
    <3>2. QED BY <3>1
  <2>5. PICK r : store[op.target] = {r} /\ VersionOf(r.bin) = op.target
    BY <2>1, <2>2, <2>4 DEF RelInv, StoreInv
  <2>6. QED BY <1>1, <2>2, <2>5
<1>4. StoreInv' /\ RecordInv'
  BY <1>1, <1>3 DEF RelInv, StoreInv, RecordInv, Stored, VersionOf, NoBuild, Partial
<1>5. \A v : Stored(v) => Stored(v)'
  BY <1>1 DEF Stored
<1>6. QED BY <1>1, <1>4, <1>5, ProceedKeeps

LEMMA RecordStepsKeep == ASSUME RelInv, RecordRelease \/ Adopt PROVE RelInv'
<1>1. CASE RecordRelease
  <2>1. /\ op # Idle /\ op.steps[1] = "record" /\ UNCHANGED <<store, bin>> /\ GoOn
        /\ record' = [cur |-> op.target, prev |-> op.prior]
    BY <1>1 DEF RecordRelease, Step
  <2>2. Stored(op.target) /\ (op.prior = NoRelease \/ Stored(op.prior))
    BY <2>1, TargetIsThere, PriorIsThere DEF UseTarget
  <2>3. StoreInv' /\ \A v : Stored(v)' <=> Stored(v)
    BY <2>1 DEF RelInv, StoreInv, Stored, VersionOf, NoBuild, Partial
  <2>4. record'.cur = op.target /\ record'.prev = op.prior
    BY <2>1
  <2>5. RecordInv'
    BY <2>2, <2>3, <2>4 DEF RecordInv
  <2>6. QED BY <2>1, <2>3, <2>5, ProceedKeeps
<1>2. CASE Adopt
  <2>1. /\ op # Idle /\ op.steps[1] = "adopt" /\ UNCHANGED <<store, bin>> /\ GoOn
        /\ record' = [cur |-> Found, prev |-> NoRelease] /\ ScriptInv
    BY <1>2 DEF Adopt, Step, RelInv
  <2>2. op.kind \in {"upgrade", "reconcile"}
    <3>1. Never(Adoption, op.steps) => op.steps[1] \notin Adoption
      BY <2>1, FirstStepReady DEF ScriptInv
    <3>2. QED BY <2>1, <3>1 DEF ScriptInv, Adoption
  <2>3. Stored(Found)
    BY <2>1, <2>2 DEF ScriptInv
  <2>4. StoreInv' /\ \A v : Stored(v)' <=> Stored(v)
    BY <2>1 DEF RelInv, StoreInv, Stored, VersionOf, NoBuild, Partial
  <2>5. record'.cur = Found /\ record'.prev = NoRelease
    BY <2>1
  <2>6. RecordInv'
    BY <2>3, <2>4, <2>5 DEF RecordInv
  <2>7. QED BY <2>1, <2>4, <2>6, ProceedKeeps
<1>3. QED BY <1>1, <1>2

\* Before a prune, the record names what the prune spares.
LEMMA PruneSpares ==
  ASSUME RelInv, op # Idle, op.steps[1] = "prune"
  PROVE  /\ record = [cur |-> op.target, prev |-> op.prior]
         /\ \A v \in OtherReleases : v \notin {record.cur, record.prev, op.target, op.prior}
<1>1. ScriptInv
  BY DEF RelInv
<1>2. Before({"prune"}, {"record"}, op.steps) => op.steps[1] # "prune"
  BY <1>1, FirstStepReady DEF ScriptInv
<1>3. record = [cur |-> op.target, prev |-> op.prior]
  BY <1>1, <1>2 DEF ScriptInv
<1>4. record.cur = op.target /\ record.prev = op.prior
  BY <1>3
<1>5. \A v \in OtherReleases : v \in Versions /\ v # NoRelease
  BY ReleasesAssumption DEF OtherReleases, NoRelease
<1>6. QED BY <1>3, <1>4, <1>5 DEF OtherReleases, KeptReleases

\* Whatever becomes of the other releases, those on record stay.
LEMMA OthersGo ==
  ASSUME RelInv, UNCHANGED <<bin, record>>, NEW gone, NEW left, left \in {{}, Partial},
         store' = [v \in Versions |-> IF v \in gone THEN left ELSE store[v]],
         gone \cap {record.cur, record.prev} = {}
  PROVE  /\ StoreInv' /\ RecordInv'
         /\ \A v : v \notin gone /\ Stored(v) => Stored(v)'
<1>1. \A v \in Versions : store'[v] = IF v \in gone THEN left ELSE store[v]
  OBVIOUS
<1>2. \A v : v \notin gone /\ Stored(v) => Stored(v)'
  BY <1>1 DEF Stored, VersionOf
<1>3. RecordInv'
  BY <1>2 DEF RelInv, RecordInv
<1>4. store' = [v \in Versions |-> store'[v]]
  BY <1>1
<1>5. \A v \in Versions :
        store'[v] = {} \/ store'[v] = Partial \/ \E q : store'[v] = {q} /\ VersionOf(q.bin) = v
  BY <1>1 DEF RelInv, StoreInv
<1>6. StoreInv'
  BY <1>4, <1>5 DEF RelInv, StoreInv, VersionOf, NoBuild, Partial
<1>7. QED BY <1>2, <1>3, <1>6

LEMMA PruneKeeps == ASSUME RelInv, Prune PROVE RelInv'
<1>1. op # Idle /\ op.steps[1] = "prune" /\ UNCHANGED <<bin, record>> /\ GoOn
  BY DEF Prune, Step
<1>2. PICK keep \in SUBSET OtherReleases :
        store' = [v \in Versions |-> IF v \in OtherReleases \ keep THEN {} ELSE store[v]]
  BY DEF Prune
<1> DEFINE gone == OtherReleases \ keep
<1>3. gone \cap {record.cur, record.prev, op.target, op.prior} = {}
  BY <1>1, PruneSpares
<1> HIDE DEF gone
<1>4. /\ StoreInv' /\ RecordInv'
      /\ \A v : v \notin gone /\ Stored(v) => Stored(v)'
  BY <1>1, <1>2, <1>3, OthersGo DEF gone
<1>5. QED BY <1>1, <1>3, <1>4, ProceedKeeps

LEMMA InterruptKeeps == ASSUME RelInv, Interrupt PROVE RelInv'
<1>1. op # Idle /\ op' = Idle /\ UNCHANGED <<bin, record>>
  BY DEF Interrupt
<1>2. CASE UNCHANGED store
  BY <1>1, <1>2, SameFiles, EndKeepsReleases
<1>3. CASE ~UNCHANGED store
  <2>1. op.steps[1] = "prune"
    BY <1>3 DEF Interrupt
  <2>2. PICK v \in OtherReleases : store' = [store EXCEPT ![v] = Partial]
    BY <1>3 DEF Interrupt
  <2>3. v \in Versions /\ v \notin {record.cur, record.prev}
    BY <1>1, <2>1, PruneSpares DEF OtherReleases
  <2>4. store = [w \in Versions |-> store[w]]
    BY DEF RelInv, StoreInv
  <2>5. store' = [w \in Versions |-> IF w \in {v} THEN Partial ELSE store[w]]
    <3> DEFINE q == Partial
    <3>1. store' = [store EXCEPT ![v] = q]
      BY <2>2
    <3> HIDE DEF q
    <3>2. store' = [w \in Versions |-> IF w \in {v} THEN q ELSE store[w]]
      BY <2>3, <2>4, <3>1
    <3>3. QED BY <3>2 DEF q
  <2>6. {v} \cap {record.cur, record.prev} = {}
    BY <2>3
  <2>7. StoreInv' /\ RecordInv'
    <3> DEFINE gone == {v}
               left == Partial
    <3>1. left \in {{}, Partial}
      OBVIOUS
    <3>2. store' = [w \in Versions |-> IF w \in gone THEN left ELSE store[w]]
      BY <2>5
    <3> HIDE DEF gone, left
    <3>3. QED BY <1>1, <2>6, <3>1, <3>2, OthersGo DEF gone
  <2>8. QED BY <1>1, <2>7, EndKeepsReleases
<1>4. QED BY <1>2, <1>3

LEMMA HealthKeeps == ASSUME RelInv, WaitHealthy PROVE RelInv'
<1>1. op # Idle /\ op.steps[1] = "health" /\ UNCHANGED <<store, bin, record>> /\ ScriptInv
  BY DEF WaitHealthy, Step, RelInv
<1>2. CASE GoOn \/ op' = Idle
  BY <1>1, <1>2, PlainStepKeeps
<1>3. CASE ~(GoOn \/ op' = Idle)
  <2>1. PICK t, p : t = op.prior /\ p = op.target
    OBVIOUS
  <2>2. op.kind \in {"upgrade", "rollback"} /\ op' = Run("restore", t, NoBuild, p, TRUE)
    BY <1>3, <2>1 DEF WaitHealthy, ScriptEnds
  <2>3. Stored(p) /\ Stored(t)
    BY <1>1, <2>1, <2>2, TargetIsThere, PriorIsThere DEF UseTarget
  <2>4. Stored(p)' /\ Stored(t)' /\ StoreInv' /\ RecordInv'
    BY <1>1, <2>3, SameFiles
  <2>5. /\ op'.kind = "restore" /\ op'.target = t /\ op'.prior = p /\ op'.steps = Plan("restore")
        /\ (op = [kind |-> op.kind, target |-> op.target, build |-> op.build, prior |-> op.prior,
                  auto |-> op.auto, steps |-> op.steps])'
    BY <2>2 DEF Run
  <2>6. ScriptInv'
    <3>1. /\ Plan("restore") \in Seq(StepNames) /\ Plan("restore") # <<>>
          /\ Before({"prune"}, {"record"}, Plan("restore")) /\ Never({"adopt"}, Plan("restore"))
          /\ Never({"store"}, Plan("restore")) /\ Never(Adoption, Plan("restore"))
      BY PlanOrder
    <3>2. AdoptsFirst(Plan("restore"))
      BY <3>1 DEF AdoptsFirst, Never
    <3>3. (Stored(op.target) /\ Stored(op.prior) /\ op.target \in Versions)'
      BY <2>4, <2>5 DEF Stored
    <3>4. QED BY <2>5, <3>1, <3>2, <3>3 DEF ScriptInv
  <2>7. QED BY <2>4, <2>6 DEF RelInv
<1>4. QED BY <1>2, <1>3

\* A script that starts: what its main has found out.
LEMMA StartKeeps ==
  ASSUME RelInv, UNCHANGED <<store, bin, record>>,
         NEW k \in {"install", "upgrade", "reconcile", "rollback"}, NEW t \in Versions, NEW b,
         NEW p, NEW auto, NEW steps \in Seq(StepNames), steps # <<>>,
         op' = [kind |-> k, target |-> t, build |-> b, prior |-> p, auto |-> auto, steps |-> steps],
         NEW f, f = (IF k = "reconcile" THEN t ELSE p),
         k \in {"upgrade", "reconcile"} =>
           Stored(f) \/ (steps[1] = "keep" /\ f \in Versions /\ VersionOf(bin) = f),
         k \notin {"upgrade", "reconcile"} => Never(Adoption, steps),
         k # "upgrade" => p = NoRelease \/ Stored(p),
         k = "rollback" => Stored(p),
         Stored(t) \/ Before(UseTarget, {"store"}, steps),
         VersionOf(b) = t \/ Never({"store"}, steps),
         AdoptsFirst(steps), Before({"prune"}, {"record"}, steps)
  PROVE  RelInv'
<1>1. /\ op'.kind = k /\ op'.target = t /\ op'.build = b /\ op'.prior = p /\ op'.auto = auto
      /\ op'.steps = steps
  OBVIOUS
<1>2. StoreInv' /\ RecordInv' /\ \A v : Stored(v)' <=> Stored(v)
  BY SameFiles
<1>3. Found' = f
  BY <1>1 DEF Found
<1>4. ScriptInv'
  <2>1. (op = [kind |-> op.kind, target |-> op.target, build |-> op.build, prior |-> op.prior,
               auto |-> op.auto, steps |-> op.steps])'
    BY <1>1
  <2>2. (op.kind \in {"upgrade", "reconcile"} =>
          Stored(Found) \/ (op.steps[1] = "keep" /\ Found \in Versions /\ VersionOf(bin) = Found))'
    BY <1>1, <1>2, <1>3 DEF Stored
  <2>3. /\ (op.kind # "upgrade" => op.prior = NoRelease \/ Stored(op.prior))'
        /\ (op.kind = "rollback" => Stored(op.prior))'
        /\ (Stored(op.target) \/ Before(UseTarget, {"store"}, op.steps))'
    BY <1>1, <1>2 DEF Stored
  <2>4. QED BY <1>1, <2>1, <2>2, <2>3 DEF ScriptInv
<1>5. QED BY <1>2, <1>4 DEF RelInv

LEMMA InstallKeeps == ASSUME RelInv, NEW pkg \in Offered, Install(pkg) PROVE RelInv'
<1>1. PICK t, p, steps : t = VersionOf(pkg) /\ p = record.prev /\ steps = Plan("install")
  OBVIOUS
<1>2. /\ UNCHANGED <<store, bin, record>>
      /\ op' = [kind |-> "install", target |-> t, build |-> pkg, prior |-> p, auto |-> FALSE,
                steps |-> steps]
  BY <1>1 DEF Install, Unstarted, Run
<1>3. t \in Versions
  BY <1>1, ReleasesAssumption DEF VersionOf
<1>4. p = NoRelease \/ Stored(p)
  BY <1>1 DEF RelInv, RecordInv
<1>5. /\ steps \in Seq(StepNames) /\ steps # <<>> /\ Before({"prune"}, {"record"}, steps)
      /\ Never({"adopt"}, steps) /\ Never(Adoption, steps) /\ Before(UseTarget, {"store"}, steps)
  BY <1>1, PlanOrder
<1>6. AdoptsFirst(steps)
  BY <1>5 DEF AdoptsFirst, Never
<1>7. QED BY <1>1, <1>2, <1>3, <1>4, <1>5, <1>6, StartKeeps

LEMMA RollBackKeeps == ASSUME RelInv, NEW v \in Versions, RollBack(v) PROVE RelInv'
<1>1. PICK p, steps, b : p = record.cur /\ steps = Plan("rollback") /\ b = NoBuild
  OBVIOUS
<1>2. /\ UNCHANGED <<store, bin, record>> /\ p # NoRelease
      /\ op' = [kind |-> "rollback", target |-> v, build |-> b, prior |-> p, auto |-> TRUE,
                steps |-> steps]
  BY <1>1 DEF RollBack, Unstarted, Run
<1>3. Stored(v)
  BY DEF RollBack, RelInv, StoreInv, Stored
<1>4. Stored(p)
  BY <1>1, <1>2 DEF RelInv, RecordInv
<1>5. /\ steps \in Seq(StepNames) /\ steps # <<>> /\ Before({"prune"}, {"record"}, steps)
      /\ Never({"adopt"}, steps) /\ Never(Adoption, steps) /\ Never({"store"}, steps)
  BY <1>1, PlanOrder
<1>6. AdoptsFirst(steps)
  BY <1>5 DEF AdoptsFirst, Never
<1>7. QED BY <1>2, <1>3, <1>4, <1>5, <1>6, StartKeeps

\* The steps of upgrade.sh with and without an adoption in front.
LEMMA UpgradeOrder ==
  ASSUME NEW k \in {"upgrade", "reconcile"}, NEW rest, rest = Plan(k) \/ rest = <<"refuse">>,
         NEW h, h = <<>> \/ h = <<"keep", "adopt">>, NEW steps, steps = h \o rest
  PROVE  /\ steps \in Seq(StepNames) /\ steps # <<>>
         /\ h # <<>> => steps[1] = "keep"
         /\ Before(UseTarget, {"store"}, steps) /\ Before({"prune"}, {"record"}, steps)
         /\ AdoptsFirst(steps)
<1>1. /\ rest \in Seq(StepNames) /\ rest # <<>>
      /\ Before(UseTarget, {"store"}, rest) /\ Before({"prune"}, {"record"}, rest)
      /\ Never({"adopt"}, rest)
  <2>1. CASE rest = Plan(k)
    BY <2>1, PlanOrder
  <2>2. CASE rest = <<"refuse">>
    <3>1. rest \in Seq(StepNames) /\ Len(rest) = 1 /\ rest[1] = "refuse" /\ rest # <<>>
      BY <2>2 DEF StepNames
    <3>2. \A i \in 1 .. Len(rest) : rest[i] = "refuse"
      BY <3>1
    <3>3. QED BY <3>1, <3>2 DEF Before, Never, UseTarget
  <2>3. QED BY <2>1, <2>2
<1>2. /\ h \in Seq(StepNames) /\ Len(h) \in {0, 2}
      /\ h # <<>> => Len(h) = 2 /\ h[1] = "keep" /\ h[2] = "adopt"
      /\ h = <<>> => Len(h) = 0
  <2>1. CASE h = <<>>
    BY <2>1
  <2>2. CASE h = <<"keep", "adopt">>
    BY <2>2 DEF StepNames, Adoption
  <2>3. QED BY <2>1, <2>2
<1>3. \A i \in 1 .. Len(h) : h[i] \in {"keep", "adopt"}
  <2>1. CASE h = <<>>
    BY <2>1
  <2>2. CASE h # <<>>
    <3>1. \A i \in 1 .. 2 : i = 1 \/ i = 2
      OBVIOUS
    <3>2. QED BY <1>2, <2>2, <3>1
  <2>3. QED BY <2>1, <2>2
<1>4. Never(UseTarget, h) /\ Never({"prune"}, h)
  BY <1>3 DEF Never, UseTarget
<1>5. Before(UseTarget, {"store"}, steps) /\ Before({"prune"}, {"record"}, steps)
  BY <1>1, <1>2, <1>4, HeadKeeps
<1>6. /\ steps \in Seq(StepNames) /\ Len(steps) = Len(h) + Len(rest)
      /\ \A i \in 1 .. Len(h) + Len(rest) : steps[i] = IF i <= Len(h) THEN h[i] ELSE rest[i - Len(h)]
  BY <1>1, <1>2, ConcatProperties
<1>7. Len(rest) \in Nat /\ Len(rest) # 0
  BY <1>1, EmptySeq
<1> DEFINE n == Len(rest)
<1> HIDE DEF n
<1>8. CASE h = <<>>
  <2>1. Len(h) = 0 /\ n \in Nat /\ n # 0
    BY <1>2, <1>7, <1>8 DEF n
  <2>2. Len(steps) = n /\ \A i \in 1 .. n : steps[i] = rest[i]
    BY <1>6, <2>1 DEF n
  <2>3. Never({"adopt"}, steps)
    BY <1>1, <2>2 DEF Never, n
  <2>4. steps # <<>>
    BY <2>1, <2>2
  <2>5. QED BY <1>5, <1>6, <1>8, <2>3, <2>4 DEF AdoptsFirst, Never
<1>9. CASE h # <<>>
  <2>1. Len(h) = 2 /\ n \in Nat /\ n # 0
    BY <1>2, <1>7, <1>9 DEF n
  <2>2. /\ Len(steps) = 2 + n
        /\ \A i \in 1 .. 2 + n : steps[i] = IF i <= 2 THEN h[i] ELSE rest[i - 2]
    BY <1>6, <2>1 DEF n
  <2>3. steps[1] = "keep"
    BY <1>2, <1>9, <2>1, <2>2
  <2>4. \A i \in 1 .. 2 + n : i > 2 => i - 2 \in 1 .. n
    BY <2>1
  <2>5. \A i \in 1 .. Len(steps) : steps[i] = "adopt" => i <= 2
    BY <1>1, <2>1, <2>2, <2>4 DEF Never, n
  <2>6. AdoptsFirst(steps)
    BY <2>3, <2>5 DEF AdoptsFirst, Adoption
  <2>7. steps # <<>>
    BY <2>1, <2>2
  <2>8. QED BY <1>5, <1>6, <2>3, <2>6, <2>7
<1>10. QED BY <1>8, <1>9

LEMMA UpgradeKeeps ==
  ASSUME RelInv, NEW pkg \in Offered, NEW d, NEW a, Upgrade(pkg, d, a)
  PROVE  RelInv'
<1>1. PICK prev, k, t, p, h, rest, steps :
        /\ prev = IF record.cur # NoRelease THEN record.cur ELSE VersionOf(bin)
        /\ t = VersionOf(pkg)
        /\ k = IF t = prev THEN "reconcile" ELSE "upgrade"
        /\ p = IF k = "reconcile" THEN record.prev ELSE prev
        /\ h = IF record.cur # NoRelease THEN <<>> ELSE <<"keep", "adopt">>
        /\ rest = IF t >= prev \/ d THEN Plan(k) ELSE <<"refuse">>
        /\ steps = h \o rest
  BY Zenon
<1>2. /\ UNCHANGED <<store, bin, record>> /\ bin # NoBuild
      /\ op' = [Run(k, t, pkg, p, a) EXCEPT !.steps = steps]
  <2>1. Run(k, t, pkg, p, a).steps = Plan(k)
    BY DEF Run
  <2>2. QED BY <1>1, <2>1 DEF Upgrade, Unstarted
<1>3. op' = [kind |-> k, target |-> t, build |-> pkg, prior |-> p, auto |-> a, steps |-> steps]
  BY <1>2 DEF Run
<1>4. k \in {"upgrade", "reconcile"} /\ (h = <<>> \/ h = <<"keep", "adopt">>)
      /\ (rest = Plan(k) \/ rest = <<"refuse">>) /\ steps = h \o rest
  BY <1>1
<1>5. /\ steps \in Seq(StepNames) /\ steps # <<>>
      /\ h # <<>> => steps[1] = "keep"
      /\ Before(UseTarget, {"store"}, steps) /\ Before({"prune"}, {"record"}, steps)
      /\ AdoptsFirst(steps)
  BY <1>4, UpgradeOrder
<1>6. t \in Versions
  BY <1>1, ReleasesAssumption DEF VersionOf
<1>7. Stored(prev) \/ (steps[1] = "keep" /\ prev \in Versions /\ VersionOf(bin) = prev)
  <2>1. CASE record.cur # NoRelease
    BY <1>1, <2>1 DEF RelInv, RecordInv
  <2>2. CASE record.cur = NoRelease
    <3>1. h = <<"keep", "adopt">> /\ prev = VersionOf(bin)
      BY <1>1, <2>2
    <3>2. h # <<>>
      BY <3>1
    <3>3. VersionOf(bin) \in Versions
      BY <1>2 DEF RelInv, StoreInv
    <3>4. QED BY <1>5, <3>1, <3>2, <3>3
  <2>3. QED BY <2>1, <2>2
<1>8. k # "upgrade" => p = NoRelease \/ Stored(p)
  BY <1>1 DEF RelInv, RecordInv
<1>9. prev = IF k = "reconcile" THEN t ELSE p
  BY <1>1
<1>10. /\ VersionOf(pkg) = t /\ k \in {"install", "upgrade", "reconcile", "rollback"}
       /\ k \in {"upgrade", "reconcile"} /\ k # "rollback"
  BY <1>1, <1>4
<1>11. UNCHANGED <<store, bin, record>>
  BY <1>2
<1>12. QED BY <1>3, <1>5, <1>6, <1>7, <1>8, <1>9, <1>10, <1>11, StartKeeps

LEMMA InitReleases == RelInit => RelInv
<1> SUFFICES ASSUME RelInit PROVE RelInv
  OBVIOUS
<1>1. RecordInv /\ op = Idle
  BY DEF RelInit, RecordInv
<1>2. \A pkg \in Offered : VersionOf(pkg) \in Versions
  BY ReleasesAssumption DEF VersionOf
<1>3. VersionOf(Damaged) \in Versions
  BY ReleasesAssumption DEF VersionOf, Damaged
<1>4. StoreInv
  <2>1. bin = NoBuild \/ VersionOf(bin) \in Versions
    BY <1>2, <1>3 DEF RelInit
  <2>2. store = [v \in Versions |-> {}]
    BY DEF RelInit
  <2>3. (\A v \in Versions : store[v] = {}) /\ store = [v \in Versions |-> store[v]]
    BY <2>2
  <2>4. QED BY <2>1, <2>3 DEF StoreInv
<1>5. QED BY <1>1, <1>4 DEF RelInv

LEMMA StepReleases == RelInv /\ [RelNext]_relVars => RelInv'
<1> SUFFICES ASSUME RelInv, [RelNext]_relVars PROVE RelInv'
  OBVIOUS
<1>a. ASSUME UNCHANGED <<store, bin, record, op>> PROVE RelInv'
  <2>1. StoreInv' /\ RecordInv' /\ \A v : Stored(v)' <=> Stored(v)
    BY <1>a, SameFiles
  <2>2. op # Idle => ScriptInv'
    BY <1>a DEF RelInv, ScriptInv, Stored, Found
  <2>3. QED BY <1>a, <2>1, <2>2 DEF RelInv
<1>1. CASE Renew \/ UNCHANGED relVars
  BY <1>1, <1>a DEF Renew, relVars
<1>2. CASE DamageActive
  <2>1. UNCHANGED <<store, record, op>> /\ op = Idle /\ bin' \in {bin, Damaged}
    BY <1>2 DEF DamageActive
  <2>2. VersionOf(Damaged) \in Versions
    BY ReleasesAssumption DEF VersionOf, Damaged
  <2>3. StoreInv'
    BY <2>1, <2>2 DEF RelInv, StoreInv, VersionOf, NoBuild, Partial
  <2>4. RecordInv'
    BY <2>1 DEF RelInv, RecordInv, Stored, VersionOf
  <2>5. QED BY <2>1, <2>3, <2>4 DEF RelInv
<1>3. CASE Reboot
  BY <1>3, SameFiles, EndKeepsReleases DEF Reboot
<1>4. CASE Refuse \/ SnapshotIdentity \/ StopService \/ ActivateUnit \/ AssertIdentity \/ StartService
  <2>1. /\ op # Idle /\ UNCHANGED <<store, bin, record>> /\ (GoOn \/ op' = Idle)
        /\ op.steps[1] \in {"refuse", "snapshot", "stop", "unit", "assert", "start"}
    BY <1>4 DEF Refuse, SnapshotIdentity, StopService, ActivateUnit, AssertIdentity, StartService,
                Step, ScriptEnds
  <2>2. QED BY <2>1, PlainStepKeeps
<1>5. QED
  BY <1>1, <1>2, <1>3, <1>4, InterruptKeeps, InstallKeeps, UpgradeKeeps, RollBackKeeps,
     KeepStepKeeps, StoreStepKeeps, ActivateKeeps, RecordStepsKeep, HealthKeeps, PruneKeeps
  DEF RelNext, ScriptStep

\* Wherever install.sh, upgrade.sh or rollback.sh is interrupted and whatever
\* state_prune_releases removes, the releases on record are in the store: rollback.sh
\* and the restore of a failed upgrade find what they activate.
THEOREM RecordedReleasesAreStored == RelSpec => []RollbackIsPossible
<1>1. RelInv => RollbackIsPossible
  BY DEF RelInv, RecordInv, Stored, RollbackIsPossible
<1>2. QED BY <1>1, InitReleases, StepReleases, PTL DEF RelSpec
=============================================================================

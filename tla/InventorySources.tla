--------------------------- MODULE InventorySources ---------------------------
(***************************************************************************)
(* The inventory and the vulnerability source: runSyscollectorOnce         *)
(* (internal/sources/syscollector.go), runVulnOnce (vuln.go) and Collect   *)
(* (internal/collectors/syscollector).                                     *)
(*                                                                         *)
(* Each source runs in a loop of its own, collects the installed packages, *)
(* compares their hash with the one it last delivered and sends what is    *)
(* new.  The packages change at any time, a send may fail although the     *)
(* server has stored it or may be delivered later from the backlog, and a  *)
(* restart forgets what was delivered.  A topology run sends a snapshot as *)
(* well, without the inventory source taking notice.                       *)
(*                                                                         *)
(* A set of packages stands for its hash, which is never empty.  Fields of *)
(* the status that only the heartbeat reports, and the progress updates of *)
(* a scan, whose errors are ignored, are left out.  External: the server   *)
(* goes by the time of collection, so one that comes late changes nothing  *)
(* when a newer one has been stored.                                       *)
(***************************************************************************)
EXTENDS Naturals

CONSTANTS
  Packages,      \* sets of packages the host may have
  MaxChanges,    \* bound: changes of the packages
  InvMaxCrashes  \* bound: restarts of the agent

VARIABLES
  packages,             \* installed on the host
  sysStep, sysSnap,     \* inventory source: "wait" or "send", its snapshot
  sysHash,              \* sysStatus.LastHash
  vulnStep, vulnSnap,   \* vulnerability source: "wait", "query" or "ingest"
  forceScan, doPkg,
  vulnHash, vulnSent,   \* vulnStatus.LastPackagesHash, LastSentAt is set
  inventory, findings,  \* server: the packages of the newest snapshot and of the
                        \* newest findings it has stored
  overtaken,            \* history: since the source last delivered, the server has stored
                        \* a snapshot of other packages from another send
  lateInv, lateFind,    \* newest in the backlog that the server would still take
  changes, invCrashes

srcVars  == <<sysStep, sysSnap, sysHash, vulnStep, vulnSnap, forceScan, doPkg,
              vulnHash, vulnSent>>
sysVars  == <<sysStep, sysSnap, sysHash>>
vulnVars == <<vulnStep, vulnSnap, forceScan, doPkg, vulnHash, vulnSent>>
invVars  == <<packages, srcVars, inventory, findings, overtaken, lateInv, lateFind,
              changes, invCrashes>>

NoHash == 0

ASSUME PackagesAssumption == Packages \subseteq Nat \ {NoHash}
ASSUME InventoryBounds == MaxChanges \in Nat /\ InvMaxCrashes \in Nat

\* The status is kept in memory only.
Fresh ==
  /\ sysStep = "wait" /\ sysSnap = NoHash /\ sysHash = NoHash
  /\ vulnStep = "wait" /\ vulnSnap = NoHash /\ forceScan = FALSE /\ doPkg = TRUE
  /\ vulnHash = NoHash /\ vulnSent = FALSE

InvInit ==
  /\ packages \in Packages /\ Fresh
  /\ inventory = NoHash /\ findings = NoHash /\ overtaken = FALSE
  /\ lateInv = {} /\ lateFind = {} /\ changes = 0 /\ invCrashes = 0

\* External: packages are installed or removed.
Install ==
  /\ changes < MaxChanges /\ changes' = changes + 1
  /\ packages' \in Packages \ {packages}
  /\ UNCHANGED <<srcVars, inventory, findings, overtaken, lateInv, lateFind, invCrashes>>

InvRestart ==
  /\ invCrashes < InvMaxCrashes /\ invCrashes' = invCrashes + 1
  /\ sysStep' = "wait" /\ sysSnap' = NoHash /\ sysHash' = NoHash
  /\ vulnStep' = "wait" /\ vulnSnap' = NoHash /\ forceScan' = FALSE /\ doPkg' = TRUE
  /\ vulnHash' = NoHash /\ vulnSent' = FALSE /\ overtaken' = FALSE
  /\ UNCHANGED <<packages, inventory, findings, lateInv, lateFind, changes>>

-----------------------------------------------------------------------------
(* Deliveries: the server stores a snapshot p, or it is kept in the backlog, *)
(* or it is refused and gone.                                                *)

StoreSnapshot(p) ==
  inventory' = p /\ overtaken' = (sysHash \notin {NoHash, p}) /\ lateInv' = {}
QueueSnapshot(p) == lateInv' = {p} /\ UNCHANGED <<inventory, overtaken>>
NoSnapshot       == UNCHANGED <<inventory, overtaken, lateInv>>

StoreFindings(p) == findings' = p /\ lateFind' = {}
QueueFindings(p) == lateFind' = {p} /\ UNCHANGED findings
NoFindings       == UNCHANGED <<findings, lateFind>>

\* Flush delivers what the backlog holds.
ReplaySnapshot ==
  /\ \E p \in lateInv : StoreSnapshot(p)
  /\ UNCHANGED <<packages, srcVars, findings, lateFind, changes, invCrashes>>

ReplayFindings ==
  /\ \E p \in lateFind : StoreFindings(p)
  /\ UNCHANGED <<packages, srcVars, inventory, overtaken, lateInv, changes, invCrashes>>

\* A topology run collects and sends a snapshot; one that fails may be queued.
TopologySnapshot ==
  /\ StoreSnapshot(packages) \/ QueueSnapshot(packages)
  /\ UNCHANGED <<packages, srcVars, findings, lateFind, changes, invCrashes>>

-----------------------------------------------------------------------------
(* Inventory source.  A collection that fails changes nothing here. *)

\* Collect, and identical snapshots are not sent again.
SysCollect ==
  /\ sysStep = "wait"
  /\ IF packages = sysHash THEN UNCHANGED <<sysStep, sysSnap>>
     ELSE sysStep' = "send" /\ sysSnap' = packages
  /\ UNCHANGED <<packages, sysHash, vulnVars, inventory, findings, overtaken, lateInv,
                 lateFind, changes, invCrashes>>

\* Mutant: the hash is remembered whatever becomes of the send.
RememberAlways == sysSnap

\* LastHash after a send that returned an error: LastSentAt alone is reset.
HashAfterFailure == sysHash

SysSent ==
  /\ sysStep = "send"
  /\ inventory' = sysSnap /\ overtaken' = FALSE /\ lateInv' = {}
  /\ sysHash' = sysSnap /\ sysStep' = "wait" /\ sysSnap' = NoHash
  /\ UNCHANGED <<packages, vulnVars, findings, lateFind, changes, invCrashes>>

SysSendFails ==
  /\ sysStep = "send"
  /\ StoreSnapshot(sysSnap) \/ QueueSnapshot(sysSnap) \/ NoSnapshot
  /\ sysHash' = HashAfterFailure /\ sysStep' = "wait" /\ sysSnap' = NoHash
  /\ UNCHANGED <<packages, vulnVars, findings, lateFind, changes, invCrashes>>

-----------------------------------------------------------------------------
(* Vulnerability source *)

\* Mutant: a failed ingest does not force the next query.
HashOnly(p, forced) == forced \/ p # vulnHash

\* doPkg: a scheduled scan skips the query when the packages are those of the
\* last ingest and that one has been delivered.
NeedsQuery(p, forced) == forced \/ p # vulnHash \/ ~vulnSent

VulnEnds ==
  vulnStep' = "wait" /\ vulnSnap' = NoHash /\ forceScan' = FALSE /\ doPkg' = TRUE

\* The updates of a run, Collect and the decision.  A collection that fails ends
\* the run and leaves the hash and LastSentAt.
VulnCollect ==
  /\ vulnStep = "wait"
  /\ \E forced \in BOOLEAN :
       /\ forceScan' = forced /\ doPkg' = NeedsQuery(packages, forced)
       /\ vulnStep' = IF NeedsQuery(packages, forced) THEN "query" ELSE "ingest"
  /\ vulnSnap' = packages
  /\ UNCHANGED <<packages, sysVars, vulnHash, vulnSent, inventory, findings, overtaken,
                 lateInv, lateFind, changes, invCrashes>>

\* QueryOSV.
VulnQuery ==
  /\ vulnStep = "query" /\ vulnStep' = "ingest"
  /\ UNCHANGED <<packages, sysVars, vulnSnap, forceScan, doPkg, vulnHash, vulnSent,
                 inventory, findings, overtaken, lateInv, lateFind, changes, invCrashes>>

VulnQueryFails ==
  /\ vulnStep = "query" /\ VulnEnds
  /\ UNCHANGED <<packages, sysVars, vulnHash, vulnSent, inventory, findings, overtaken,
                 lateInv, lateFind, changes, invCrashes>>

\* SendVulnIngest.  Without a query the batch has no findings to store.
VulnIngested ==
  /\ vulnStep = "ingest"
  /\ IF doPkg THEN StoreFindings(vulnSnap) ELSE NoFindings
  /\ vulnHash' = vulnSnap /\ vulnSent' = TRUE /\ VulnEnds
  /\ UNCHANGED <<packages, sysVars, inventory, overtaken, lateInv, changes, invCrashes>>

VulnIngestFails ==
  /\ vulnStep = "ingest"
  /\ IF doPkg THEN StoreFindings(vulnSnap) \/ QueueFindings(vulnSnap) \/ NoFindings
     ELSE NoFindings
  /\ vulnSent' = FALSE /\ VulnEnds
  /\ UNCHANGED <<packages, sysVars, vulnHash, inventory, overtaken, lateInv, changes,
                 invCrashes>>

-----------------------------------------------------------------------------
(* The two sources share only the packages, so each can be run by itself. *)

SysNext ==
  \/ Install \/ InvRestart \/ ReplaySnapshot \/ TopologySnapshot
  \/ SysCollect \/ SysSent \/ SysSendFails

VulnNext ==
  \/ Install \/ InvRestart \/ ReplayFindings
  \/ VulnCollect \/ VulnQuery \/ VulnQueryFails \/ VulnIngested \/ VulnIngestFails

-----------------------------------------------------------------------------
(* Properties. *)

\* "avoid emitting identical snapshots" must not suppress one that the server lacks:
\* it comes to hold the packages that stay, although sends fail, arrive late or are
\* refused and the agent restarts.  One exception: packages that were delivered, and
\* that a snapshot of others has overtaken since, from a send that was stored and told
\* as failed, the backlog or a topology run.  They are then taken for known.
InventoryIsCurrent ==
  \A p \in Packages :
    [](packages = p => <>(packages # p \/ inventory = p \/ (overtaken /\ sysHash = p)))

\* The findings of the server come to be about the packages that the host has, also
\* when packages come back after an ingest whose outcome the agent does not know.
FindingsAreCurrent ==
  \A p \in Packages : [](packages = p => <>(packages # p \/ findings = p))
=============================================================================

------------------------------ MODULE CertPair ------------------------------
(***************************************************************************)
(* Installation of a client key and certificate as a pair of files, and    *)
(* its recovery after a crash: PersistPair and recoverPair of              *)
(* internal/certrenew/certrenew.go, as called at start (main.go), by the   *)
(* enrollment manager and by certificate rotation.                         *)
(*                                                                         *)
(* One step is one operation on the file system, so a crash may fall       *)
(* between any two.  pairMu serialises the callers, hence one pc.  A file  *)
(* holds the number of the pair its contents belong to; a certificate and  *)
(* a key load together exactly when they belong to the same pair.  The     *)
(* transaction marker is written and removed but never read, and is left   *)
(* out.  Renames are taken as durable in the order they are made, as the   *)
(* directory syncs after them intend.                                      *)
(***************************************************************************)
EXTENDS Naturals, Sequences

CONSTANTS
  MaxPairs,    \* bound: pairs issued to this agent, numbered in order
  MaxCrashes,  \* bound: crashes of the agent
  DiskFaults   \* whether a file operation may fail

ASSUME BoundsAssumption == MaxPairs \in Nat /\ MaxCrashes \in Nat
ASSUME FaultsAssumption == DiskFaults \in BOOLEAN

Absent    == 0
Artifacts == <<"cert.next", "key.next", "cert.previous", "key.previous">>
Slots     == {"cert", "key", "cert.next", "key.next", "cert.previous", "key.previous"}

VARIABLES
  disk,     \* the pair each file belongs to
  pc,       \* step of the call in progress, "idle" or "down"
  caller,   \* who waits for recoverPair or cleanupPairArtifacts
  goal,     \* the pair PersistPair installs
  pick,     \* the candidate recoverPair restores
  swept,    \* artifacts cleanupPairArtifacts has been through
  errored,  \* a removal of this cleanup failed
  issued,   \* pairs issued so far
  trusted,  \* the pair in place when a call last returned success
  refused,  \* some recovery found nothing to restore
  crashes

vars == <<disk, pc, caller, goal, pick, swept, errored, issued, trusted, refused, crashes>>
call == <<caller, goal, pick, swept, errored>>

\* tls.X509KeyPair.
Loads(c, k) == c # Absent /\ c = k

\* What recoverPair tries in turn when the current pair does not load.
Candidates(d) ==
  << <<d["cert"],          d["key.previous"]>>,
     <<d["cert.previous"], d["key.previous"]>>,
     <<d["cert.next"],     d["key"]>>,
     <<d["cert.next"],     d["key.next"]>>,
     <<d["cert.previous"], d["key"]>> >>

Fits(d, i) == Loads(Candidates(d)[i][1], Candidates(d)[i][2])

FirstFit(d, p) ==
  \E i \in 1 .. 5 : /\ Fits(d, i) /\ \A j \in 1 .. (i - 1) : ~Fits(d, j)
                    /\ p = Candidates(d)[i][1]

Current(d)  == Loads(d["cert"], d["key"])
NoFit(d)    == \A i \in 1 .. 5 : ~Fits(d, i)
Pristine(d) == \A s \in Slots : d[s] = Absent

\* What a recovery started now comes to.
Outcome(d, p) ==
  \/ Current(d) /\ p = d["cert"]
  \/ ~Current(d) /\ FirstFit(d, p)
  \/ ~Current(d) /\ NoFit(d) /\ p = Absent

Init ==
  /\ disk = [s \in Slots |-> Absent]
  /\ pc = "down" /\ caller = "none" /\ goal = Absent /\ pick = Absent
  /\ swept = 0 /\ errored = FALSE
  /\ issued = 0 /\ trusted = Absent /\ refused = FALSE /\ crashes = 0

-----------------------------------------------------------------------------
(* Calls. *)

Enter(c, p) ==
  /\ pc' = "recover" /\ caller' = c /\ goal' = p
  /\ pick' = Absent /\ swept' = 0 /\ errored' = FALSE

\* main calls RecoverPair before anything else.
Start ==
  /\ pc = "down" /\ Enter("start", Absent)
  /\ UNCHANGED <<disk, issued, trusted, refused, crashes>>

\* certificateIdentityUsable calls RecoverPair.
CheckIdentity ==
  /\ pc = "idle" /\ Enter("check", Absent)
  /\ UNCHANGED <<disk, issued, trusted, refused, crashes>>

\* Enrollment or rotation has a newly issued pair and calls PersistPair, which
\* first recovers from an earlier transaction.
PersistPair ==
  /\ pc = "idle" /\ issued < MaxPairs
  /\ issued' = issued + 1 /\ Enter("persist", issued + 1)
  /\ UNCHANGED <<disk, trusted, refused, crashes>>

\* A call ends.  A failed recovery at start is fatal (log.Fatalf).
ReturnTo(p) ==
  /\ pc' = p /\ caller' = "none" /\ goal' = Absent /\ pick' = Absent
  /\ swept' = 0 /\ errored' = FALSE

Fail ==
  /\ ReturnTo(IF caller = "start" THEN "down" ELSE "idle")
  /\ UNCHANGED trusted

\* recoverPair succeeds: PersistPair goes on, any other caller returns.
Recovered ==
  IF caller = "persist"
  THEN /\ pc' = "stageKey" /\ swept' = 0
       /\ UNCHANGED <<caller, goal, pick, errored, trusted>>
  ELSE ReturnTo("idle") /\ trusted' = disk'["cert"]

-----------------------------------------------------------------------------
(* recoverPair *)

RecoverCurrent ==
  /\ pc = "recover" /\ Current(disk)
  /\ pc' = "cleanup"
  /\ UNCHANGED <<disk, call, issued, trusted, refused, crashes>>

RecoverCandidate ==
  /\ pc = "recover" /\ ~Current(disk)
  /\ \E p \in 1 .. issued : FirstFit(disk, p) /\ pick' = p
  /\ pc' = "restoreKey"
  /\ UNCHANGED <<disk, caller, goal, swept, errored, issued, trusted, refused, crashes>>

RecoverNothing ==
  /\ pc = "recover" /\ Pristine(disk)
  /\ UNCHANGED disk /\ Recovered
  /\ UNCHANGED <<issued, refused, crashes>>

RecoverRefuses ==
  /\ pc = "recover" /\ ~Current(disk) /\ NoFit(disk) /\ ~Pristine(disk)
  /\ Fail /\ refused' = TRUE
  /\ UNCHANGED <<disk, issued, crashes>>

\* AtomicWriteFile: when it fails the file may nevertheless be in place.
Write(s, p) == disk' = [disk EXCEPT ![s] = p]
WriteFails(s, p) == DiskFaults /\ (Write(s, p) \/ UNCHANGED disk)

RestoreKey ==
  /\ pc = "restoreKey"
  /\ \/ /\ Write("key", pick) /\ pc' = "restoreCert" /\ UNCHANGED <<call, trusted>>
     \/ WriteFails("key", pick) /\ Fail
  /\ UNCHANGED <<issued, refused, crashes>>

RestoreCert ==
  /\ pc = "restoreCert"
  /\ \/ /\ Write("cert", pick) /\ pc' = "cleanup" /\ UNCHANGED <<call, trusted>>
     \/ WriteFails("cert", pick) /\ Fail
  /\ UNCHANGED <<issued, refused, crashes>>

\* cleanupPairArtifacts goes on after a removal that fails; the directory sync
\* at its end may fail too.
Sweep ==
  /\ pc = "cleanup" /\ swept < Len(Artifacts)
  /\ swept' = swept + 1
  /\ \/ Write(Artifacts[swept + 1], Absent) /\ UNCHANGED errored
     \/ DiskFaults /\ errored' = TRUE /\ UNCHANGED disk
  /\ UNCHANGED <<pc, caller, goal, pick, issued, trusted, refused, crashes>>

\* Mutant: the errors of the removals are not looked at.
EndCleanupRegardless ==
  /\ pc = "cleanup" /\ swept = Len(Artifacts)
  /\ UNCHANGED disk /\ Recovered
  /\ UNCHANGED <<issued, refused, crashes>>

EndCleanup ==
  /\ pc = "cleanup" /\ swept = Len(Artifacts)
  /\ UNCHANGED disk
  /\ \/ ~errored /\ Recovered
     \/ (errored \/ DiskFaults) /\ Fail
  /\ UNCHANGED <<issued, refused, crashes>>

-----------------------------------------------------------------------------
(* PersistPair after its recovery: stage, then commit. *)

StageKey ==
  /\ pc = "stageKey"
  /\ \/ /\ Write("key.next", goal) /\ pc' = "stageCert" /\ UNCHANGED <<call, trusted>>
     \/ WriteFails("key.next", goal) /\ Fail
  /\ UNCHANGED <<issued, refused, crashes>>

\* A staged key is removed again when its certificate cannot be staged.
StageCert ==
  /\ pc = "stageCert"
  /\ \/ /\ Write("cert.next", goal) /\ pc' = "backupKey" /\ UNCHANGED <<call, trusted>>
     \/ /\ DiskFaults /\ Fail
        /\ \E k, c \in {Absent, goal} :
             disk' = [disk EXCEPT !["key.next"] = k, !["cert.next"] = c]
  /\ UNCHANGED <<issued, refused, crashes>>

\* Mutant: a failed commit only removes the files of the transaction.
RollbackByCleanup ==
  /\ pc' = "cleanup" /\ caller' = "rollback"
  /\ UNCHANGED <<goal, pick, swept, errored>>

\* A commit step that fails leads to a recovery, whose caller gets an error.
Rollback ==
  /\ pc' = "recover" /\ caller' = "rollback"
  /\ UNCHANGED <<goal, pick, swept, errored>>

\* Rename s to t, or fail before or after the rename (in the directory sync).
\* A backup first removes t, so with nothing to back up t is absent after it;
\* the recovery before a commit has already removed t, and the staged files of
\* a commit are there.
Move(s, t) == disk' = [disk EXCEPT ![t] = disk[s], ![s] = Absent]

CommitStep(at, s, t, next) ==
  /\ pc = at
  /\ \/ Move(s, t) /\ pc' = next /\ UNCHANGED call
     \/ DiskFaults /\ (Move(s, t) \/ UNCHANGED disk) /\ Rollback
  /\ UNCHANGED <<issued, trusted, refused, crashes>>

BackupKey  == CommitStep("backupKey", "key", "key.previous", "backupCert")
BackupCert == CommitStep("backupCert", "cert", "cert.previous", "commitKey")
CommitKey  == CommitStep("commitKey", "key.next", "key", "commitCert")
CommitCert == CommitStep("commitCert", "cert.next", "cert", "validate")

\* The committed pair is loaded once more before the old one is removed.
Validate ==
  /\ pc = "validate"
  /\ \/ /\ Current(disk) /\ pc' = "cleanup" /\ caller' = "commit"
        /\ UNCHANGED <<goal, pick, swept, errored>>
     \/ (~Current(disk) \/ DiskFaults) /\ Rollback
  /\ UNCHANGED <<disk, issued, trusted, refused, crashes>>

-----------------------------------------------------------------------------

Crash ==
  /\ pc # "down" /\ crashes < MaxCrashes /\ crashes' = crashes + 1
  /\ ReturnTo("down")
  /\ UNCHANGED <<disk, issued, trusted, refused>>

Next ==
  \/ Start \/ CheckIdentity \/ PersistPair
  \/ RecoverCurrent \/ RecoverCandidate \/ RecoverNothing \/ RecoverRefuses
  \/ RestoreKey \/ RestoreCert \/ Sweep \/ EndCleanup
  \/ StageKey \/ StageCert
  \/ BackupKey \/ BackupCert \/ CommitKey \/ CommitCert \/ Validate
  \/ Crash

Spec == Init /\ [][Next]_vars

-----------------------------------------------------------------------------
(* Properties. *)

Steps == {"idle", "down", "recover", "restoreKey", "restoreCert", "cleanup",
          "stageKey", "stageCert", "backupKey", "backupCert", "commitKey",
          "commitCert", "validate"}

TypeOK ==
  /\ disk \in [Slots -> Nat]
  /\ pc \in Steps
  /\ caller \in {"none", "start", "check", "persist", "rollback", "commit"}
  /\ pc \in {"stageKey", "stageCert"} => goal # Absent
  /\ goal \in Nat /\ pick \in Nat /\ swept \in 0 .. 4 /\ errored \in BOOLEAN
  /\ issued \in Nat /\ trusted \in Nat /\ refused \in BOOLEAN /\ crashes \in Nat

\* The endpoint identity survives: at every single file operation, a recovery
\* that starts from the files as they are comes to the pair in use or to a
\* newer one.  It never loses the pair, mixes two pairs or goes back to one
\* that was replaced.
NeverRolledBack == \E p \in trusted .. issued : Outcome(disk, p)

\* A call that returns success leaves the newest pair it knows of in place: a
\* successful PersistPair has installed its own pair, and any successful call
\* leaves a pair that loads and no copy of a key beside it.
SuccessIsComplete ==
  [][pc # "idle" /\ pc' = "idle" /\ trusted' # trusted =>
       /\ Loads(disk'["cert"], disk'["key"]) /\ trusted' = disk'["cert"]
       /\ caller = "commit" => trusted' = goal
       /\ \A i \in 1 .. Len(Artifacts) : disk'[Artifacts[i]] = Absent]_vars

\* RecoverPair "completes a fresh interrupted install": whatever the point at
\* which an installation was interrupted, a later recovery does not refuse.
InterruptedInstallRecovers == ~refused
=============================================================================

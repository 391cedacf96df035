------------------------------ MODULE Releases ------------------------------
(***************************************************************************)
(* packaging/scripts: install.sh, upgrade.sh, rollback.sh and lib/state.sh.*)
(*                                                                         *)
(* A script holds the lock of acquire_install_lock, so one runs at a time. *)
(* It is a sequence of file replacements and calls of systemctl; with      *)
(* "set -e" it ends at the first that fails, it may be killed, and the     *)
(* host may go down.  The agent runs meanwhile, until the script stops it, *)
(* and writes new identity files when its credential or certificate is     *)
(* renewed.                                                                *)
(*                                                                         *)
(* A binary or unit is a pair: its version and which build of it.  A       *)
(* release is replaced by a rename after a sync, and the record by an      *)
(* atomic write.  Options, the environment file, the profile drop-in,      *)
(* owners and modes, and the migration of older layouts are left out, as   *)
(* is a host without systemd.                                              *)
(***************************************************************************)
EXTENDS Integers, Sequences, FiniteSets

CONSTANTS
  Versions,       \* versions in the order of semver_compare; 0: 0.0.0-legacy
  Offered,        \* the packages, <<version, build>> for binary and unit
  KeepReleases,   \* SEAGULL_RELEASE_RETENTION
  RelMaxRuns,     \* bound: scripts started
  RelMaxRenewals, \* bound: identity files written by the agent
  RelMaxDamages,  \* bound: damage to the active binary or unit
  RelInterrupts   \* bound: scripts that are killed or fail, hosts that go down

VARIABLES
  store,     \* RELEASE_DIR: per version {}, {a release} or Partial
  bin, unit, \* BIN_PATH and UNIT_PATH; NoBuild: absent
  record,    \* RELEASE_STATE_PATH: current and previous
  serviceUp, \* the service is started: systemd restarts it for ever
  identity,  \* the identity files, how often they were written
  op,        \* the script: what it does, and its next step
  copied,    \* SNAPSHOT_DIR
  ending,    \* history: how the last script ended
  relRuns, relDamages, relInterrupts

relVars == <<store, bin, unit, record, serviceUp, identity, op, copied, ending,
             relRuns, relDamages, relInterrupts>>

NoBuild == <<-1, 0>>
NoRelease == -1
Damaged == <<0, 0>>
Partial == {[bin |-> NoBuild, unit |-> NoBuild]}   \* its directory is there, files are not
VersionOf(c) == c[1]
Idle == [kind |-> "none"]

ASSUME ReleasesAssumption ==
  /\ Versions \subseteq Nat /\ 0 \in Versions /\ KeepReleases \in Nat /\ KeepReleases >= 2
  /\ Offered \subseteq (Versions \ {0}) \X Nat
ASSUME ReleasesBounds ==
  RelMaxRuns \in Nat /\ RelMaxRenewals \in Nat /\ RelMaxDamages \in Nat /\ RelInterrupts \in Nat

\* Nothing is installed, or an installation that has no release store yet.
RelInit ==
  /\ store = [v \in Versions |-> {}] /\ record = [cur |-> NoRelease, prev |-> NoRelease]
  /\ \/ bin = NoBuild /\ unit = NoBuild /\ serviceUp = FALSE
     \/ bin \in Offered \cup {Damaged} /\ unit = bin /\ serviceUp = TRUE
  /\ identity = 0 /\ copied = 0 /\ op = Idle /\ ending = "none"
  /\ relRuns = 0 /\ relDamages = 0 /\ relInterrupts = 0

-----------------------------------------------------------------------------
(* What state_prune_releases may remove *)

\* Mutant: only the current release is protected.
CurrentOnly == {op.target}

\* keep_current and keep_previous.
KeptReleases == {op.target, op.prior} \ {NoRelease}

OtherReleases == {v \in Versions \ KeptReleases : store[v] # {}}
Room == KeepReleases - Cardinality(KeptReleases)

-----------------------------------------------------------------------------
(* The host *)

\* The agent rotates its credential or renews its certificate.
Renew ==
  /\ serviceUp /\ identity < RelMaxRenewals /\ identity' = identity + 1
  /\ UNCHANGED <<store, bin, unit, record, serviceUp, op, copied, ending, relRuns,
                 relDamages, relInterrupts>>

\* Somebody overwrites one of the active files.
DamageActive ==
  /\ op = Idle /\ relDamages < RelMaxDamages /\ relDamages' = relDamages + 1
  /\ bin # NoBuild /\ unit # NoBuild
  /\ \/ bin' = Damaged /\ UNCHANGED unit
     \/ unit' = Damaged /\ UNCHANGED bin
  /\ UNCHANGED <<store, record, serviceUp, identity, op, copied, ending, relRuns, relInterrupts>>

\* The script is killed or one of its commands fails.  A removal of a release
\* may have begun.
Interrupt ==
  /\ relInterrupts < RelInterrupts /\ relInterrupts' = relInterrupts + 1
  /\ op # Idle /\ op' = Idle /\ ending' = "interrupted"
  /\ \/ UNCHANGED store
     \/ /\ op.steps[1] = "prune" /\ Cardinality(OtherReleases) > Room
        /\ \E v \in OtherReleases : store' = [store EXCEPT ![v] = Partial]
  /\ UNCHANGED <<bin, unit, record, serviceUp, identity, copied, relRuns, relDamages>>

\* The host goes down and comes up again; the unit is enabled.
Reboot ==
  /\ relInterrupts < RelInterrupts /\ relInterrupts' = relInterrupts + 1
  /\ serviceUp' = (bin # NoBuild /\ unit # NoBuild)
  /\ op' = Idle /\ ending' = IF op = Idle THEN ending ELSE "interrupted"
  /\ UNCHANGED <<store, bin, unit, record, identity, copied, relRuns, relDamages>>

-----------------------------------------------------------------------------
(* The scripts *)

\* The steps of each main, after its checks; "keep" is preserve_untracked_release.
Plan(kind) ==
  CASE kind = "install"   -> <<"store", "stop", "bin", "unit", "record", "prune", "start", "health">>
    [] kind = "upgrade"   -> <<"snapshot", "keep", "store", "stop", "bin", "unit", "assert",
                               "record", "start", "health", "prune">>
    [] kind = "reconcile" -> <<"store", "stop", "bin", "unit", "record", "start", "health">>
    [] kind = "rollback"  -> <<"snapshot", "stop", "bin", "unit", "assert", "record",
                               "start", "health">>
    [] kind = "restore"   -> <<"stop", "bin", "unit", "record", "start", "health">>

Run(kind, target, build, prior, auto) ==
  [kind |-> kind, target |-> target, build |-> build, prior |-> prior, auto |-> auto,
   steps |-> Plan(kind)]

Starts == op = Idle /\ relRuns < RelMaxRuns /\ relRuns' = relRuns + 1 /\ ending' = "none"
Unstarted == UNCHANGED <<store, bin, unit, record, serviceUp, identity, copied, relDamages,
                          relInterrupts>>

\* install.sh, for a first installation or for the release that is installed.
Install(p) ==
  /\ Starts /\ record.cur \in {NoRelease, VersionOf(p)}
  /\ op' = Run("install", VersionOf(p), p, record.prev, FALSE)
  /\ Unstarted

\* upgrade.sh up to the comparison of versions.  An installation that has no record
\* is stored under the version its binary reports, and recorded, before that.
Upgrade(p, downgrade, auto) ==
  LET previous == IF record.cur # NoRelease THEN record.cur ELSE VersionOf(bin)
      kind == IF VersionOf(p) = previous THEN "reconcile" ELSE "upgrade"
      main == Run(kind, VersionOf(p), p,
                  IF kind = "reconcile" THEN record.prev ELSE previous, auto)
      head == IF record.cur # NoRelease THEN <<>> ELSE <<"keep", "adopt">>
      rest == IF VersionOf(p) >= previous \/ downgrade THEN main.steps ELSE <<"refuse">> IN
  /\ Starts /\ bin # NoBuild
  /\ op' = [main EXCEPT !.steps = head \o rest]
  /\ Unstarted

\* rollback.sh, to the recorded or to a named release that is stored and that is
\* not on record as the active one.
RollBack(v) ==
  /\ Starts /\ record.cur # NoRelease
  /\ store[v] \notin {{}, Partial} /\ v # record.cur
  /\ op' = Run("rollback", v, NoBuild, record.cur, TRUE)
  /\ Unstarted

-----------------------------------------------------------------------------
(* Steps *)

Step(s) == op # Idle /\ op.steps[1] = s

ScriptEnds(how) == op' = Idle /\ ending' = how

GoOn ==
  IF Len(op.steps) = 1 THEN ScriptEnds(IF op.kind = "restore" THEN "restored" ELSE "success")
  ELSE op' = [op EXCEPT !.steps = Tail(@)] /\ UNCHANGED ending

Counts == UNCHANGED <<relRuns, relDamages, relInterrupts>>

\* The version upgrade.sh found active when it started.
Found == IF op.kind = "reconcile" THEN op.target ELSE op.prior

\* preserve_untracked_release: the active files are stored under the version found.
Keep ==
  /\ Step("keep")
  /\ CASE store[Found] = {} ->
            store' = [store EXCEPT ![Found] = {[bin |-> bin, unit |-> unit]}] /\ GoOn
       [] store[Found] = Partial -> ScriptEnds("refused") /\ UNCHANGED store
       [] OTHER -> GoOn /\ UNCHANGED store
  /\ UNCHANGED <<bin, unit, record, serviceUp, identity, copied>> /\ Counts

\* state_record_release for an installation without a record.
Adopt ==
  /\ Step("adopt") /\ record' = [cur |-> Found, prev |-> NoRelease] /\ GoOn
  /\ UNCHANGED <<store, bin, unit, serviceUp, identity, copied>> /\ Counts

\* A downgrade without --allow-downgrade.
Refuse ==
  /\ Step("refuse") /\ ScriptEnds("refused")
  /\ UNCHANGED <<store, bin, unit, record, serviceUp, identity, copied>> /\ Counts

SnapshotIdentity ==
  /\ Step("snapshot") /\ copied' = identity /\ GoOn
  /\ UNCHANGED <<store, bin, unit, record, serviceUp, identity>> /\ Counts

\* state_store_release: a stored release is never replaced.
StoreRelease ==
  /\ Step("store")
  /\ LET new == {[bin |-> op.build, unit |-> op.build]} IN
     IF store[op.target] \in {{}, new}
       THEN store' = [store EXCEPT ![op.target] = new] /\ GoOn
       ELSE ScriptEnds("refused") /\ UNCHANGED store
  /\ UNCHANGED <<bin, unit, record, serviceUp, identity, copied>> /\ Counts

StopService ==
  /\ Step("stop") /\ serviceUp' = FALSE /\ GoOn
  /\ UNCHANGED <<store, bin, unit, record, identity, copied>> /\ Counts

\* state_activate_release: the binary, then the unit.
ActivateBinary ==
  /\ Step("bin") /\ \E r \in store[op.target] : bin' = r.bin
  /\ GoOn
  /\ UNCHANGED <<store, unit, record, serviceUp, identity, copied>> /\ Counts

ActivateUnit ==
  /\ Step("unit") /\ \E r \in store[op.target] : unit' = r.unit
  /\ GoOn
  /\ UNCHANGED <<store, bin, record, serviceUp, identity, copied>> /\ Counts

\* state_assert_identity_preserved: identity files other than those of the snapshot
\* end the script.
AssertIdentity ==
  /\ Step("assert")
  /\ IF identity = copied THEN GoOn ELSE ScriptEnds("failed")
  /\ UNCHANGED <<store, bin, unit, record, serviceUp, identity, copied>> /\ Counts

RecordRelease ==
  /\ Step("record") /\ record' = [cur |-> op.target, prev |-> op.prior] /\ GoOn
  /\ UNCHANGED <<store, bin, unit, serviceUp, identity, copied>> /\ Counts

\* service_restart.  install.sh may be told not to start the service.
StartService ==
  /\ Step("start")
  /\ \/ serviceUp' = TRUE /\ GoOn
     \/ op.kind = "install" /\ ScriptEnds("success") /\ UNCHANGED serviceUp
  /\ UNCHANGED <<store, bin, unit, record, identity, copied>> /\ Counts

\* service_wait_healthy, and what each script does when the agent is not stable.
WaitHealthy ==
  /\ Step("health")
  /\ \/ GoOn
     \/ op.kind \in {"upgrade", "rollback"} /\ op.auto
        /\ op' = Run("restore", op.prior, NoBuild, op.target, TRUE) /\ UNCHANGED ending
     \/ op.kind = "upgrade" /\ ~op.auto /\ ScriptEnds("kept")
     \/ op.kind \in {"install", "reconcile", "restore"} /\ ScriptEnds("unhealthy")
  /\ UNCHANGED <<store, bin, unit, record, serviceUp, identity, copied>> /\ Counts

\* state_prune_releases: of the others the newest stay, up to the retention.
Prune ==
  /\ Step("prune") /\ GoOn
  /\ \E keep \in SUBSET OtherReleases :
       /\ Cardinality(keep) = Room \/ (Cardinality(OtherReleases) < Room /\ keep = OtherReleases)
       /\ store' = [v \in Versions |-> IF v \in OtherReleases \ keep THEN {} ELSE store[v]]
  /\ UNCHANGED <<bin, unit, record, serviceUp, identity, copied>> /\ Counts

ScriptStep ==
  \/ Keep \/ Adopt \/ Refuse \/ SnapshotIdentity \/ StoreRelease \/ StopService
  \/ ActivateBinary \/ ActivateUnit \/ AssertIdentity \/ RecordRelease
  \/ StartService \/ WaitHealthy \/ Prune

RelNext ==
  \/ Renew \/ DamageActive \/ Interrupt \/ Reboot
  \/ \E p \in Offered : Install(p) \/ \E d, a \in BOOLEAN : Upgrade(p, d, a)
  \/ \E v \in Versions : RollBack(v)
  \/ ScriptStep

RelSpec == RelInit /\ [][RelNext]_relVars

-----------------------------------------------------------------------------
(* Properties. *)

\* The releases on record, current and previous, are in the store as the release
\* of that version: wherever a script was interrupted and whatever was pruned,
\* rollback.sh and the restore of a failed upgrade find what they activate.
RollbackIsPossible ==
  \A v \in {record.cur, record.prev} \ {NoRelease} :
    \E r \in store[v] : VersionOf(r.bin) = v

\* "Replace the running release, preserving identity, with automatic rollback": a
\* script that fails by itself after it stopped the agent ends with the agent
\* started again and with the recorded release active.  Left out are a target
\* that --no-rollback keeps and a restored release that is unhealthy as well.
FailureRestores ==
  ending \in {"failed", "restored"} => serviceUp /\ VersionOf(bin) = record.cur
=============================================================================

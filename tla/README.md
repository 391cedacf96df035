# TLA+ specifications of seagull-agent

Seagull agent collects security telemetry on a Linux host, delivers it to a
server that may be out of reach for days, and in its managed profile executes
response actions the server asks for. What makes it hard is not the collecting:
it is that nothing may be lost, repeated or forgotten while goroutines overlap,
answers get lost and the process dies between two file operations. These modules
model that part of the agent, check it with TLC on small instances and prove the
main results with TLAPS for every instance.

## The system

| Component | State it keeps | Operations | What makes it correct |
|---|---|---|---|
| Spool (`internal/spool`) | entry files, statistics file; counters, in-flight set | enqueue, acknowledge, reject, drain, retention, reopen | an entry leaves once and for one counted reason; counters match the directory; limits hold; the entry being sent is not evicted |
| Sender (`internal/sender`) | delivery mutex; the spool | `SendEvents`/`deliver`, `Flush`, posting loop with backoff | delivered means stored by the server; undelivered batches stay queued; refused ones are not retried |
| Response actions (`internal/responseactions`, `runtime/controlplane.go`) | stage and its memory of handled ids; journal files | poll, stage, accept, execute, report, recover | at most one execution; every execution is reported, truthfully; full stage or journal only delays |
| Client certificate pair (`internal/certrenew`) | key and certificate files, staged and previous copies | install, recover at start and before use | a matching pair is always recoverable and never an older one |
| Enrollment (`internal/enrollment`, `runtime/certrotate.go`) | identity file, pending enrollment file, tokens | enroll, recover identity, resume, rotate credential, renew certificate | a spent token is redeemed; the newest renewal token is kept; certificate and credential belong together; a rejected credential is replaced |
| Runtime configuration (`sources/runtime_config.go`) | configuration, revision, file; one signal for all loops | apply from enrollment, pull, action | revisions never go back; a change reaches every loop; a token forces one scan |
| Collection cycle and auth log (`sources/cycle.go`, `collectors/ssh`) | file offset and identity, checkpoint, duplicate cache | capture, send in batches, commit, roll back | no line is skipped unless its event is durable; every line is settled |
| File integrity (`collectors/fim`) | baseline, digest cache | capture while files change | what is reported is what the file holds |
| Process execution (`collectors/procexec`) | pids seen with their start times | capture in batches | every process that lives is reported |
| Inventory and vulnerability sources (`sources/syscollector.go`, `vuln.go`) | hash last delivered | collect, query, send | what the server holds comes to be about the host's packages (one exception, below) |
| Topology discovery (`sources/topology_discovery.go`, `topologydiscovery`) | the runs in progress | plan, probe, report | nothing outside the local policy is probed |
| Host actions (`responseactions/executor.go`) | firewall rules, processes, quarantine directory | kill, block, unblock, shell, quarantine | the agent does not harm itself; an unblock takes back a block and nothing else (nft rules of older agents excepted, below); evidence survives |
| Protocol negotiation (`protocol`, `runtime/service.go`) | negotiated versions, the fatal error | verify at start, heartbeat | an incompatible server stops the agent and the exit says so |
| Packaging scripts (`packaging/scripts`) | release store, active binary and unit, record | install, upgrade, rollback | the releases on record stay whole in the store |
| Network collectors (`ddos`, `scan`, `l7`, `lateral`, `proc`) | windows, estimates | sample, summarise | numerical; not modelled |
| Control plane client, transport, config loading | little or none | requests, parsing | |

How they interact. The collection cycle (`RunOnce`) hands batches to the sender
and commits the auth log checkpoint when the sender reports them durable. The
sender stores each batch in the spool before it posts it; the main loop flushes
the spool every cycle (`runAndLog`, `drainSpool`). The poller goroutine stages
actions, the executor goroutine takes them from the stage through the journal;
both share the stage under its lock. At start `main` recovers the certificate
pair before anything else, the journal turns interrupted executions into results,
and the spool rebuilds its counters from the directory. Enrollment and rotation
both install certificate pairs, serialised by `pairMu`. A remote configuration is
applied by whoever fetched it and wakes one of the inventory, vulnerability and
topology loops through a channel of capacity one. The heartbeat goroutine ends the
service through `fail` when the server is not compatible. The packaging scripts run
beside the agent until they stop it.

Hard behaviours, listed with their lines under `hazards` in PROJECT.json: the
spool releases its lock while it delivers; every file operation can be the last
one before a crash; a write may fail after its rename; a post may be processed
and its answer lost; contexts end in the middle of a backoff; a list of actions
is fetched long before it is staged; bounded memories overflow; files, processes
and firewall rules change between two system calls.

## Modules

| Module | Models | |
|---|---|---|
| `DurableQueue` | what the spool promises | abstract: `Store`, `Settle`, `Trim` |
| `Spool` | `internal/spool/spool.go` | implements `DurableQueue` (`ImplementsQueue`) |
| `SumTheorems`, `SpoolProofs` | | sums over finite sets; theorems about `Spool` |
| `Sender` | `internal/sender/sender.go` | built on `DurableQueue` by INSTANCE |
| `SenderProofs` | | theorems about `Sender` |
| `ResponseActions` | `internal/responseactions`, `runtime/controlplane.go` | poller, stage, journal, executor and server together |
| `ResponseActionsProofs` | | theorems about `ResponseActions` |
| `CertPair` | `internal/certrenew/certrenew.go` | one step per file operation |
| `CertPairProofs` | | theorems about `CertPair` |
| `Enrollment` | `internal/enrollment`, `config/identity.go`, the rotations of `runtime/controlplane.go`, `runtime/certrotate.go` | recovery, rotations, certificate renewal and server together |
| `EnrollmentProofs` | | theorems about `Enrollment` |
| `RuntimeConfig` | `sources/runtime_config.go`, the loops' waits | callers, file, restart, signal |
| `AuthLog` | `collectors/ssh/authlog.go`, `sources/cycle.go`, `SendEvents` | log, collector, cycle and sender's report together |
| `Compatibility` | `protocol/version.go`, `runtime/service.go`, `heartbeat` | negotiation against a reference definition, and the end of the service |
| `InventorySources` | `sources/syscollector.go`, `sources/vuln.go` | both sources and the server |
| `Discovery` | `topologydiscovery`, `TopologyDiscovery`, `sources/topology_discovery.go` | policy, plan, overlapping runs |
| `HostActions` | `responseactions/executor.go` | kill, block, unblock, shell |
| `Quarantine` | `runQuarantineFile` | one step per system call, power loss |
| `Fim`, `ProcExec` | `collectors/fim`, `collectors/procexec` | captures read by read |
| `Releases` | `packaging/scripts` | scripts step by step, interruption, reboot |
| `HostProofs` | | theorems about `Quarantine`, `HostActions`, `RuntimeConfig` and `Releases` |
| `SourcesProofs` | | theorems about `Compatibility`, `AuthLog`, `Discovery` and `Fim` |
| `MCHost`, `MCSources` | | instances for the parts that share no state with each other, one part at a time |
| other `MC*` | | instances for TLC |

**Spool.** `files`, `bad`, `stale`, `extra` and `saved` are the directory, what is
wrong or old in it, and the statistics file; `pending`, `bytes`, `enqueued` and
`total` are the counters of the struct; `inflight` its map. An entry is its file
name, which begins with the creation time, hence a natural number. `mu` makes
`Enqueue`, `RemoveEnvelope` and each bookkeeping step of Drain one action. Drain is
`StartDrain`, then for every entry `TakeEntry`, `Deliver` and `FinishEntry` or
`RetryLater`; between them anything else may happen. Retention is not a loop but
the set of its victims: an entry is evicted exactly when the limits are still
exceeded after the removal of all entries that come before it. `CrashIn...` are
the crashes that fall between the file operations and the statistics write of one
action. `EnqueuePriority` succeeds, fails or is cut short by one, and so does `New`,
which opens the directory. With `DiskFaults` every write and removal may fail, a write also after
its rename.

**Sender.** `op` says which of `deliver` and `Flush` holds `deliveryMu`. An answer
is one of ten classes, the coarsest division the code's four tests tell apart.
The server is external: it may store a batch with any answer that gets lost.
`Queue!Store` and `Queue!Settle` are the spool's promise, so retention may take
entries whenever one is stored. `reported` is what the caller was told. `pending` is
the spool's counter, the only thing `Flush` looks at before it begins: an enqueue
that fails after its rename leaves an entry that is not counted, and removals stop
the counter at zero. `slipped` remembers the entries this process has so left.

**ResponseActions.** `srv`, `srvResult` and `expired` are the server and the clock.
`phase`, `result`, `started` and `late` are the journal. `items`, `order` and
`handled` are the stage. `fetched` is the poller's list on its way to the stage.
The executor's program counter goes idle, loop, begin, handled, running, mark,
execute, complete, report, delete. `late` says which records were accepted after
expiry, the only expiry `Execute` sees, because it is given the time of
acceptance. A journal write that fails stops the service and is a crash here.

**CertPair.** A file holds the number of the pair it belongs to; a key and a
certificate load together when the numbers agree. `Outcome(d, p)` is what a
recovery from files `d` comes to, so that `NeverRolledBack` speaks of every single
moment and not only of the recoveries that happen. Reads are taken to succeed, and
renames to become durable in the order they are made.

**Enrollment.** `saved` and `mem` are the identity in the state file and in the
`Manager`, `pend` the pending enrollment file, `cert` the certificate that
`PersistPair` has installed. `pc` is the step of the one recovery
`recoveryInFlight` admits; `methods` and `cur` are the tokens it read at its
beginning, which may be stale when they are sent. `starting` is true in
`EnsureInitialIdentity`, where a failure ends the process. `rot` holds, for each of
the rotators (the refresh after a start and the ticker), the answer between
`RotateCredential` and `ApplyCredentialUpdate`; `crossed` remembers that both had one.
`ren` is the renewed certificate between the request of `maybeRenewCertificate` and
its `PersistPair`, which does not ask whether a recovery has installed another
meanwhile; renewed certificates have numbers above those of enrollments. `PersistPair`
itself is one step here and is in `CertPair` file by file. The server is
external: it replays an enrollment it knows if it is repeated with the same token,
spends the bootstrap token once, and may otherwise accept, refuse or lose anything.

**RuntimeConfig.** `raw` and `file` are the configuration in memory and on disk,
`fetched` each caller's answer that is not applied yet, `changed` the channel. A
configuration is its revision, the modules it disables and its scan token. `view` is what each loop read before its wait; `owed` and
`staleRuns` are histories of this process and of this configuration.

**AuthLog.** Lines are numbered as they are written; `log` is the file at the path,
`inode` its identity. `Capture` reads complete lines; `SendBatch`, `SendQueued` and
`SendFails` are the answers of the sender to one batch, of which a queued one ends
`SendEvents`; `Commit` or `RollbackCapture` ends the cycle. A checkpoint that cannot
be read leaves the collector unusable (`cycle = "unreadable"`), as in the code.

**Compatibility.** `Negotiate` follows the code case by case; `Compatible` is the
reference, from the ranges alone. `main` and `beat` are the two goroutines, `fatal`
and `cancelled` the channel and the context that connect them.

**InventorySources.** A set of packages stands for its hash. The server keeps the
newest by time of collection. A send that is told as failed may have been stored,
may come later from the backlog or may be gone. `overtaken` remembers that the server
took another snapshot after the one the source has recorded as delivered.

**Discovery.** Addresses are numbers and a CIDR an interval of them, of which half
are private. Each run carries the policy it was given at its beginning. `BuildPlan`
walks the networks in order, skips what it has seen, and stops at `max_hosts`; the
model gives the result of that walk: the eligible addresses by their rank in it, as
many as `max_hosts` admits.

**HostActions, Quarantine.** Every command or system call is a step and the host
changes between any two. A command that is killed may have worked. A dry run of a
kill resolves its targets as a real one does, a dry run of a firewall action needs no
tool. After a power
loss unsynced data and directory entries are as the disk has them.

**Fim, ProcExec.** A capture is one step per file or process. `Fim` counts time in
ticks and keeps modification times coarser than that, so a file can change twice
under one modification time. Files are renamed over each other with their times,
times are set back, and the target of a link is written while the link keeps its
time: `masked` names the files whose content is not the one last met under their size
and time. `dirty` are the files that changed under the capture, `gaps` those whose
last change has no event because a batch was cut or the file could not be read. The
walk may come to a path twice, as it does with the
default watch paths (`/var/spool/cron` and the `crontabs` below it), and the second
look replaces the first. The first capture does not trim the digest cache unless it
emits the initial state. `ProcExec` reuses pids and fills batches.

**Releases.** A script is a list of steps; the record, the store, the active binary
and the active unit are replaced one by one. `Interrupt` and `Reboot` may come
between any two, also in the middle of the removal of a pruned release. Only the
lock makes scripts exclude each other; the agent renews its identity meanwhile.

## Runs

| Run | Bounds | Shows |
|---|---|---|
| `spool` | 3 entries of two priorities and sizes, 2 items, 3 bytes, 1 crash | counters, limits, eviction order, the hold of a drain and that every entry leaves, no disk faults |
| `sender_faults` | 2 batches, 1 retry, all answers, cancellation, storage faults, 1 crash | delivered means stored; queued is kept; the backlog drains but for entries the counter has lost |
| `response` | 2 actions, stage, journal and cycle of 1, 1 crash | at most once, reported, truthful; every action settles |
| `enrollment` | 4 identities and renewed certificates, 2 rotators, 1 expiry, 1 crash, disk faults | tokens are not lost or reused, the identity is whole, a rejected credential is replaced |
| `host` | quarantine: 2 files, 2 writes, 2 swaps, a power loss. Actions: 3 in a row, 14 requests, both firewall tools and none, 2 deletions in a pass. Discovery: 16 addresses, 3 local and 4 remote policies. Fim: 2 paths, 2 changes or failed reads, 5 ticks, a cache and a batch of one. Spool: 2 entries, 1 item, 2 crashes (one may fall into a restart), disk faults. Configuration: 4 configurations, 2 callers, 2 loops, 2 starts, faults. Releases: 3 versions and an untracked one, 3 scripts, 1 interruption, 1 renewal | per part, below |
| `sources` | auth log: 3 lines, captures of 2, batches of 1, a rotation, a truncation, a crash, faults. Negotiation: 73 servers, 1 upgrade, 2 starts. Inventory: 2 package sets, 3 changes, 1 restart. Processes: 2 pids, batches of 1, 2 processes, 1 exec. Certificates: 3 pairs, 3 crashes, faults | per part, below |
| `sender_cancelled`, `sender_other`, `response_expired`, `certpair_fresh`, `unblock_legacy`, `release_race` | | disagreements, below |

`host` and `sources` hold parts that neither call each other nor share state. The
variable `part` picks one; it then runs with everything its module lets happen.

| Part | Property | Says |
|---|---|---|
| quarantine | `QuarantineKeepsEvidence` | what was removed is whole in quarantine or back, at every failure and power loss |
| actions | `NeverSignalsItself`, `UnblockIsExact` | init, agent and parent are spared; an unblock deletes the rules of exactly its target (but for `LegacyByText`) and counts them truly |
| discovery | `ProbesWithinLocalPolicy` | no remote policy makes a run leave the local one |
| fim | `ReportsTellContents` | cache and coarse clock do not make events tell an old content; a content masked by an old time is told once the cached digest is too old |
| spool | `TotalsNeverOverstate`, `ImplementsQueue` | with failing file operations and crashes an entry still leaves once for one reason, and no total counts a removal that did not happen |
| config | `ConfigOnlyAdvances`, `StaleRunAtMostOnce`, `ScanNowOncePerChange` | out of order, over restarts and failed writes |
| releases | `RollbackIsPossible` | the releases on record are in the store, wherever a script was cut short |
| auth | `NoLineSkipped`, `EveryLineSettles` | a committed offset stands for durable events; no line waits for ever |
| compat | `VerifiedIsCompatible`, `ExitTellsIncompatibility`, `IncompatibleIsStopped` | negotiation is right, and an incompatible server ends the service with its error |
| sys, vuln | `InventoryArrives` | the server comes to hold the packages and findings of the host, unless the snapshot delivered was overtaken |
| proc | `EveryProcessIsReported` | full batches and reused pids leave no living process out |
| pair | `NeverRolledBack`, `SuccessIsComplete` | recovery from any moment finds the trusted pair or a newer one |

The bounds are chosen so that the interesting cases happen. Limits below the
number of entries force eviction while another entry is held. Entry sizes differ:
the byte limit binds first in `spool`, the item limit in the spool part of `host`, and an
entry may grow once. A stage and a journal of one make every second action meet a full
one. Three crashes let a recovery be interrupted and its own recovery too. In
`response` the memory of handled ids holds one of two, so that ids are forgotten: a
list fetched before an action was completed can be staged after that, and then
`Journal.Begin` finds the record or the action runs a second time. The variable
`forgotten` records which ids this can happen to, and `AtMostOnce` and
`ReportedResultIsTrue` except them; in the code the memory is 512 ids or more and a
list is staged right after its fetch. In
`sources` a capture of two lines in batches of one is sent in part, and
a log of three lines with the same user twice meets the duplicate cache before and
after a rollback. In `host` one of the addresses is a textual prefix of another, the
watched paths exchange files, the last configuration brings back the token of the
first, and retention 2 with three versions and a failed upgrade prunes.
Four identities are the first enrollment, a rotation that is
answered early and applied late, the recovery it crosses, and one more.
With two rotators both can have an answer in hand while a recovery goes on.
`CHECK_DEADLOCK FALSE` in the sender's runs: once every batch is settled there is
nothing left to do. In `enrollment` the bound on identities ends a behaviour, and in
`host`, `sources`, `unblock_legacy` and `release_race` an action or the bounded changes of the host are
over. Every property of a passing run is also checked to fail for a
plausible mistake in the code (`mutants` in PROJECT.json; the operators marked
"Mutant" in the modules).

**Exceptions.** Six properties name a state in which the code does not do what one
would wish, and say that nothing else goes wrong:

| Property | Exception | What happens there |
|---|---|---|
| `BacklogDrains` | `Overlooked` | an enqueue failed after its rename, so its entry is not counted; when the counter is at zero `Flush` does nothing although an entry is left, until the next batch is stored or the process restarts |
| `NewestTokenIsKept` | `crossed` | the refresh after a start and the ticker had rotations in flight together; older answers applied late push the newest token out of both places |
| `RejectedIsReplaced` | `StuckOnExpired` | the renewal token of the enrollment on disk, or the certificate of its answer, has expired: the enrollment is repeated for ever and no other method is tried |
| `UnblockIsExact` | `LegacyByText` | nft, rules without a digest: run `unblock_legacy` |
| `ReportsTellContents` | `masked` within `HashCacheTTL` | another content under the size and time for which a digest is cached: a rename with its time, a time set back, a link whose target was written |
| `InventoryArrives` | `overtaken` | packages A are delivered, a snapshot of B reaches the server although its send was told as failed, A come back: they equal the last delivered hash and are not sent, and the server keeps B until the next change |

The fourth contradicts a test of the repository and has a run that shows it. For the
others no document or test speaks of the case:
`TestDiffDetectsSameSizeRewriteWithUnchangedModTime` sets a time back right after the
file was read, within the settle window, where the property has no exception.

**Fairness.** `runAndLog` runs on a ticker and flushes in every cycle, the poller
and the executor have tickers of their own, each request has a timeout, and
systemd restarts the process: weak fairness of those steps. Strong fairness is
used for four things. A drain takes an entry now and then although contexts may
end first. The server gives a final answer to a batch that is sent over and over
(`sender_faults`; `spool` assumes nothing of the server), and accepts an enrollment
that is (`enrollment`). A file operation that is repeated succeeds at last. In
`enrollment` these are `Choose`, `Served`, `Store`, `Install` and `Apply`, each of which
a fault, an expiry or a crash may come before; the rest of a recovery (`Proceeds`) is
weakly fair. Nothing is assumed of the rotators and of the certificate renewal. The
server takes a report that is repeated (`response`); if it refuses one for ever the code
does stop executing, since `processResponseActions` returns at the first result
it cannot report. `sources` adds that a batch, snapshot or query that is tried again
and again is taken at last. `EveryLineSettles` needs this of the server itself and not
of the spool: `SendEvents` returns at the first batch it could only queue, so while the
server is away a capture of more than one batch is queued in part, rolled back and
captured again in every cycle.

## Disagreements between code and documentation

* `sender_cancelled`: an unconfirmed 2xx followed by the end of the context makes
  `deliver` remove the batch as rejected, where the README says batches are
  retained until the server confirms.
* `sender_other`: statuses in neither list (402, 406, 412, 451...) are final for
  `deliver` and retried by `Flush`.
* `response_expired`: `Execute` refuses expired actions by the time of acceptance,
  so an action that waited in the journal runs after it has expired.
* `release_race`: the identity files are copied while the agent still runs. If it
  rotates its credential before `service_stop`, `upgrade.sh` and `rollback.sh` end in
  `state_assert_identity_preserved` with the target active, the service stopped and no
  rollback.
* `unblock_legacy`: `parseLegacyNftHandles` finds rules of older agents by text, so an
  unblock of one address also deletes the rule of an address or port that begins with
  its own, where `TestLegacyNftHandleMatchingIsScopedToTheRuleTarget` expects the rules
  of its target only.
* `certpair_fresh`: a first installation cut short after `key.next` is written
  leaves a state that every start refuses.

## Proofs

Every safety invariant and every action property that a passing run checks is also a
theorem, for any number of entries, batches, actions, identities, pairs, lines, paths,
versions and steps; `theorems` in PROJECT.json lists them.

**Assumptions.** The named `ASSUME`s of the modules, which TLC evaluates in every run.
They say what the code ensures before the modelled part begins: sets of entries,
actions and identities are finite, limits are positive (the constructors' defaults and
`applyDefaults`), version ranges are integers (`DescriptorsAssumption`). Two deserve a
word. `CidrsAssumption` says that two networks of one family are nested or disjoint;
`ParseStrictCIDRs` and the kernel's interface list yield masked prefixes, for which
this is so, and without it the comparison of a size and a base address would not show
that a network lies in another. `FimAssumption` says that modification times are no
coarser than `hashCacheSettleWindow` and the interval between captures.

A few theorems have a hypothesis beyond that, because the code promises no more:

| Theorem | Hypothesis | Without it |
|---|---|---|
| `PendingIsExact`, `BytesAreExact`, `BudgetIsKept`, `EvictionIsInOrder`, `LossesAreCounted` | no disk faults | a removal that fails is retried later; `TotalsAreHonest` and `SpoolImplementsQueue` hold with faults |
| `UncancelledBatchIsRetained` | no context ends | run `sender_cancelled` |
| `KnownRefusalIsFinal` | the spool does not fail, every status is in one of the lists | run `sender_other` |
| `NeverTwiceInMemory` | memory of handled ids at least as long as the number of actions | `ExecutedAtMostOnce` holds for every length |

The conditional theorems about `Sender` complete two findings: they show that the case
TLC found is the only way to the violation.

**SumTheorems.** What `MapThenSumSet` computes: the sum over a union of disjoint sets,
of a part, of equal and of smaller summands. The prover cannot apply an induction
theorem to an operator, so each fact is proved from a smallest set for which it fails;
that one exists is `WFMin` of the library, which takes sets only. `HostProofs` and
`SourcesProofs` find least numbers in the same way.

**SpoolProofs.** The inductive invariant is `TypeOK /\ HeldEntryStaysOnDisk` with
`Fresh` (an entry not yet written has no file and no recorded reason). The hold
needs no other fact: retention takes its victims outside `inflight`
(`VictimsAreFiles`), so no enqueue can touch the held entry. From it follow
`TypeCorrect`, `HeldEntryIsSafe` and `SpoolImplementsQueue`; for the last, `Fresh`
shows that an enqueue maps to `Store` of an absent entry, and every other action
to `Settle`, `Trim` or a stutter. `PendingIsExact` counts disjoint removals, and
`BytesAreExact` sums their sizes, with `GrowthIsOfFiles` (a retry lets only files on
disk grow). `BudgetIsKept` looks at what retention leaves (`RetainFits`): the first
candidate it spares was within the limits once all before it were gone; if it spares
none, only the held entry is left, and that one fits by itself. `EvictionIsInOrder` (`Spares`) is an action
property. `LossesAreCounted` carries `Balanced`, the equation between the counters and
the saved statistics; `TotalsAreHonest` carries `Understated`, the same as an
inequality per reason, which also survives torn writes and faults.

**SenderProofs.** `SInv` ties what the holder of `deliveryMu` knows to the server and
the backlog: an answer that confirms is about a batch the server has (`Told`), the
entry that a flush is posting is still queued and is not in the rest of its list
(`Entry`). It gives `DeliveredIsStored`, `QueuedIsKept` and `SenderKeepsToTheQueue`,
the refinement that says the sender uses the backlog only through the operations of
`DurableQueue`.

**ResponseActionsProofs.** Five layers, each inductive relative to those before it.
`Control` (what the executor's step implies about the record at hand, that only
that record is executing, and that the rest of the list keeps the phase it was
read for) gives `StepPhases`. `Told` (a terminal record has a result; a record to
be deleted is one the server holds) gives `NoExecutionForgotten` and
`RunningIsKnown`. `MInv` (every journalled action is remembered or was forgotten,
but for the moment between Begin and MarkHandled, and nothing the stage remembers
is staged) and `EInv` (an action executed and deleted is finished at the server
and, unless it was forgotten, cannot be staged from an older list) give
`ExecutedAtMostOnce`, for a memory of any length. `RInv` (a result in the journal, at
the executor or at the server says what the number of executions was) gives
`ServerIsToldTheTruth`. `NeverTwiceInMemory` removes the exception when the memory is
at least as long as the number of actions: the pigeonhole principle shows that it then
never evicts, and that after a restart it holds exactly the journalled ids.

**CertPairProofs.** Every state of the files is `Safe`: the current pair loads; or the
old pair can be put together from the previous key and a certificate; or no pair was
ever in use and all files belong to one fresh pair. The rest of `CInv` names the six
files at each step of an installation and of a recovery, which is itself interrupted.

**EnrollmentProofs.** `EInv` has one part per question: what the recovery in progress
holds (`Phase`), which tokens it may offer (`Offers`), what the server has on record
(`Ledger`), that the spent token is redeemable (`Redeemable`: `saved.consumed` alone is
not inductive, the memory must agree while the process runs) and that certificate and
credential fit (`Fits`: a certificate is that of the enrollment applied last or a renewed
one, also while a renewal is under way). `NewestTokenStays` adds `NewestIsHeld`: unless
rotations have crossed, every token still to come, from the pending enrollment or a
rotation, is `Harmless` to the newest one: applying it does not push that one out.

**HostProofs.** *Quarantine*: `QuarInv` says which of data and directory entry is
synced at each step, and that what was removed has a copy that is durable by then.
*HostActions*: `HostInv` relates the targets resolved, the rules listed and those
deleted to the request; the count of deletions is the cardinality of a set of
handles. *RuntimeConfig*: `ConfigInv` adds to the types that the file is never behind
the memory (`FileIsAhead`: equal, or newer after a write that failed past its rename,
or the memory is empty because a start could not read the file). Without it a restart
could go back. `LoopInv` (a loop that ran once under an older configuration does not
wait again before it has read the new one) gives `OneStaleRun`. `TokenInv` gives
`OneScanPerChange`: a scan that is forced or due is owed, and no token is both.
*Releases*: the invariant is about the steps the script has still before it
(`ScriptInv`): the target is in the store, or `store` comes before every step that
relies on it; the record names what a prune spares, or `record` comes before `prune`.

**SourcesProofs.** *Compatibility*: `NegotiateIsSound` compares `Negotiate` with the
reference for all ranges; `CompatInv` says that the fatal error is in the channel
before the context is cancelled. *AuthLog*: every line behind the position in memory
or in the checkpoint is `Accounted` for, by a durable event, by needing none, or by
the batch in hand; a duplicate only if the event it repeats is. *Discovery*: what a
run goes by is `WithinLocal`, from `RemoteNarrows`; `RanksAreTaken` shows that the
ranks of n eligible addresses are 0 to n-1, so the plan names eligible addresses only
(`PlanFits`). *Fim*: `SettledEntries` says that a cached digest taken at least a settle
window after its modification time is the content of the file with that time, unless
the file is masked; a write has a later time (`StampIsRecent`). `ScanInv` carries this
to what the capture has so far, and `KnownInv` to what was told. That a masked file is
told in the end follows from the age of the digests: none that a capture uses is older
than `HashCacheTTL`.

**Only model-checked.** The eight liveness properties: `EveryEntryLeaves`,
`BacklogDrains`, `EveryActionSettles`, `RejectedIsReplaced`, `EveryLineSettles`,
`IncompatibleIsStopped`, `InventoryArrives`, `EveryProcessIsReported`; liveness and
fairness are out of the prover's reach. `InventorySources` and `ProcExec` have no other
property and so no theorem. The properties of the violation runs are false of the code,
but for the two that are proved under a hypothesis.

## Not modelled

* The network and process-table collectors: packets become counts in one goroutine
  each, and what has to be right there is numerical.
* The overrides at startup (`config/overrides.go`): settings of the fetched configuration
  are copied over the local ones once, before the sources start, and nothing changes
  them afterwards; `applySourceState` can only turn a source off.
* Configuration loading, transport, the contents of messages, logging: formatting and
  parsing without state that changes. Parsing of logs, `/proc` and package lists is a
  classification of the input.
* The read-only response actions (triage, inventory). The diagnostic counters of the
  spool, the byte budget of the journal, reads that fail except where named.
* Uninstall, the migration of old layouts (`migrate.sh` copies files in place before it
  removes the originals), the environment file and the profile drop-in.

Limits that the code has and the properties name rather than hide: the unread tail of
a rotated auth log is lost; events of a `fim` capture beyond its batch are never
reported; processes of the first `procexec` pass are reported after a full batch made
it forget them; a pid that is reused between resolution and signal is signalled; a
`scan_now_token` is spent before the wait, so a signal in that wait drops its scan; an
interrupted upgrade leaves the target's files under the old record, and `rollback.sh`
then takes the recorded release for the active one.

## Plan

1. The safety halves of the two modules without a theorem: what `InventorySources`
   suppresses is what the server was told, and what `ProcExec` remembers as seen was
   reported or was there at the first pass.
2. `FailureRestores` of `Releases` and `InterruptedInstallRecovers` of `CertPair` under
   the hypothesis that excludes the finding, as for `Sender`.
3. The composition of `Sender` with `Spool`: `SpoolImplementsQueue` and
   `SenderKeepsToTheQueue` meet in `DurableQueue`.

--------------------------- MODULE RuntimeConfig ---------------------------
(***************************************************************************)
(* The remote configuration, internal/sources/runtime_config.go, the       *)
(* goroutines that fetch and apply it, and the loops that follow it.       *)
(*                                                                         *)
(* A caller fetches the server's configuration and applies it later, so    *)
(* answers are applied in any order.  Apply keeps what it accepts in a     *)
(* file and in memory and leaves a signal in a channel of capacity one,    *)
(* which the inventory, vulnerability and topology loops all wait on: one  *)
(* of them takes the signal, the others go on with what they read before.  *)
(*                                                                         *)
(* A configuration is a record: rev is its revision (0: none, negative:    *)
(* not a positive integer), off the modules it disables, token its         *)
(* scan_now_token.  Two configurations have the same hash when they are    *)
(* the same record.                                                        *)
(***************************************************************************)
EXTENDS Integers

CONSTANTS
  Configs,     \* configurations the server may hand out
  Callers,     \* goroutines that fetch and apply while the service is up
  Enroller,    \* the caller whose answer is kept on disk until it is applied
  Loops,       \* the loops that wait on the signal
  LocalOn,     \* loops enabled by the local configuration
  ConfigFaults,  \* whether writing and reading the file may fail
  MaxStarts    \* bound: starts of the service

VARIABLES
  raw,        \* r.raw; while the service is down, what it last was
  file,       \* agent.config.json
  changed,    \* r.changed holds a signal
  fetched,    \* each caller's answer that is not applied yet, if any
  phase,      \* "down", "boot" or "up"
  loopAt, view,   \* each loop: where it is and the configuration it read
  lastToken,  \* vulnerability loop: lastTriggerToken
  force,      \* vulnerability loop: forceScanNow
  owed,       \* history: times each token came into force in this process, less
              \* the scans it has forced
  staleRuns,  \* history: runs each loop began since raw changed, with an older view
  starts

cvars == <<raw, file, changed, fetched, phase, starts>>
lvars == <<loopAt, view, lastToken, force, owed, staleRuns>>
rcVars  == <<cvars, lvars>>

NoConfig == [rev |-> 0, off |-> {}, token |-> 0]

\* The file does not exist yet; loadFromFile then leaves r.raw empty.
NoFile == NoConfig

Tokens == {c.token : c \in Configs} \ {0}

ASSUME ConfigsAssumption ==
  Configs \subseteq [rev : Int, off : SUBSET Loops, token : Nat]
ASSUME CallersAssumption == Enroller \in Callers
ASSUME LocalAssumption ==
  /\ Loops \subseteq {"syscollector", "vuln", "topology"} /\ LocalOn \subseteq Loops
  /\ ConfigFaults \in BOOLEAN
ASSUME StartsAssumption == MaxStarts \in Nat \ {0}

-----------------------------------------------------------------------------
(* What a configuration says. *)

\* Syscollector, VulnScanner, TopologyDiscovery: the remote side may disable a
\* module and cannot enable one.
EnabledIn(l, c) == l \in LocalOn /\ l \notin c.off

-----------------------------------------------------------------------------
(* Apply *)

\* Mutant: an equal revision with other content is taken.
OlderOnly(next) ==
  \/ next.rev < 0 \/ next = raw
  \/ raw # NoConfig /\ raw.rev = 0 /\ next.rev = 0
  \/ raw.rev > 0 /\ next.rev < raw.rev

\* The revision of next is invalid, next is what is in force, or it is stale or
\* in conflict with it.
Refused(next) ==
  \/ next.rev < 0 \/ next = raw
  \/ raw # NoConfig /\ raw.rev = 0 /\ next.rev = 0
  \/ raw.rev > 0 /\ next.rev <= raw.rev

\* AtomicWriteFile fails before its rename, or after it with the directory
\* sync: the file is then new and the memory is not.
KeepFails(next) ==
  /\ ConfigFaults
  /\ file' \in {file, next}
  /\ UNCHANGED <<raw, changed, owed, staleRuns>>

\* The signal is sent without waiting; a signal already there is enough.
Accept(next) ==
  /\ file' = next /\ raw' = next /\ changed' = TRUE
  /\ owed' = [t \in Tokens |-> owed[t] + (IF t = next.token /\ t # raw.token THEN 1 ELSE 0)]
  /\ staleRuns' = [l \in Loops |-> 0]

Apply(next) ==
  IF Refused(next) THEN UNCHANGED <<raw, file, changed, owed, staleRuns>>
  ELSE Accept(next) \/ KeepFails(next)

-----------------------------------------------------------------------------
(* The service and its callers *)

RCInit ==
  /\ raw = NoConfig /\ file = NoFile /\ changed = FALSE
  /\ fetched = [c \in Callers |-> {}]
  /\ phase = "down" /\ starts = 0
  /\ loopAt = [l \in Loops |-> "dead"] /\ view = [l \in Loops |-> NoConfig]
  /\ lastToken = 0 /\ force = FALSE
  /\ owed = [t \in Tokens |-> 0] /\ staleRuns = [l \in Loops |-> 0]

\* What loadFromFile leaves in r.raw: the file, or nothing when it cannot be
\* read or is not a valid configuration.
Loaded == IF ConfigFaults THEN {file, NoConfig} ELSE {file}

\* NewRuntimeConfig.
StartProcess ==
  /\ phase = "down" /\ phase' = "boot" /\ starts' = starts + 1
  /\ raw' \in Loaded
  /\ changed' = FALSE
  /\ owed' = [t \in Tokens |-> IF t = raw'.token THEN 1 ELSE 0]
  /\ staleRuns' = [l \in Loops |-> 0]
  /\ UNCHANGED <<file, fetched, loopAt, view, lastToken, force>>

\* initializeSources: the configuration is fetched, perhaps in vain, and applied,
\* and the loops start.
StartSources ==
  /\ phase = "boot" /\ phase' = "up"
  /\ \/ UNCHANGED <<raw, file, changed, owed, staleRuns>>
     \/ \E c \in Configs : Apply(c)
  /\ loopAt' = [l \in Loops |-> "read"] /\ view' = [l \in Loops |-> NoConfig]
  /\ lastToken' = 0 /\ force' = FALSE
  /\ UNCHANGED <<fetched, starts>>

EndProcess ==
  /\ phase # "down" /\ starts < MaxStarts /\ phase' = "down"
  /\ fetched' = [c \in Callers |-> IF c = Enroller THEN fetched[c] ELSE {}]
  /\ loopAt' = [l \in Loops |-> "dead"]
  /\ UNCHANGED <<raw, file, changed, starts, view, lastToken,
                 force, owed, staleRuns>>

\* GetConfig, or the answer of an enrollment, which is stored before it is used.
\* The server is external: it may hand out any configuration at any time, also an
\* older one, one without a revision or other content under the same revision.
Fetch(c) ==
  /\ phase = "up" /\ fetched[c] = {}
  /\ \E answer \in Configs : fetched' = [fetched EXCEPT ![c] = {answer}]
  /\ UNCHANGED <<raw, file, changed, phase, starts, lvars>>

\* The ticker, refreshRuntimeConfig and finalizePendingEnrollment.  The last
\* also runs at startup, and its answer stays if the pending file cannot be
\* removed.
ApplyFetched(c) ==
  /\ phase = "up" \/ (phase = "boot" /\ c = Enroller)
  /\ \E next \in fetched[c] : Apply(next)
  /\ \/ fetched' = [fetched EXCEPT ![c] = {}]
     \/ c = Enroller /\ ConfigFaults /\ UNCHANGED fetched
  /\ UNCHANGED <<phase, starts, loopAt, view, lastToken, force>>

-----------------------------------------------------------------------------
(* The loops *)

\* Mutant: a token is only remembered once its scan is over.
RememberLater(token) == lastToken

\* The trigger token after a read: it is spent before the wait.
Remember(token) == IF token # 0 THEN token ELSE lastToken

\* The head of a loop: it reads its configuration, and the vulnerability loop
\* decides whether a new token forces a scan.
Read(l) ==
  /\ loopAt[l] = "read"
  /\ loopAt' = [loopAt EXCEPT ![l] = "wait"] /\ view' = [view EXCEPT ![l] = raw]
  /\ IF l = "vuln"
       THEN /\ force' = (raw.token # 0 /\ raw.token # lastToken)
            /\ lastToken' = Remember(raw.token)
       ELSE UNCHANGED <<force, lastToken>>
  /\ UNCHANGED <<cvars, owed, staleRuns>>

\* case <-Changed(): the signal is for whichever loop takes it.
Wake(l) ==
  /\ loopAt[l] = "wait" /\ changed
  /\ changed' = FALSE /\ loopAt' = [loopAt EXCEPT ![l] = "read"]
  /\ UNCHANGED <<raw, file, fetched, phase, starts, view,
                 lastToken, force, owed, staleRuns>>

\* Mutant: the configuration is read once, before the loop.
BackToWait == "wait"

\* Where a loop goes on when its iteration is over.
NextIteration == "read"

\* case <-t.C: after the module's interval, or 30 s when it is disabled.  The
\* loop runs under the configuration it read before the wait.
Timer(l) ==
  /\ loopAt[l] = "wait"
  /\ loopAt' = [loopAt EXCEPT ![l] = IF EnabledIn(l, view[l]) THEN "run" ELSE NextIteration]
  /\ LET runs == EnabledIn(l, view[l]) IN
     /\ staleRuns' = [staleRuns EXCEPT ![l] =
                        IF runs /\ view[l] # raw THEN @ + 1 ELSE @]
     /\ owed' = IF runs /\ l = "vuln" /\ force
                  THEN [owed EXCEPT ![view[l].token] = @ - 1] ELSE owed
  /\ UNCHANGED <<cvars, view, lastToken, force>>

\* The run ends, see InventorySources for what it does.
RunEnds(l) ==
  /\ loopAt[l] = "run" /\ loopAt' = [loopAt EXCEPT ![l] = NextIteration]
  /\ UNCHANGED <<cvars, view, lastToken, force, owed, staleRuns>>

Loop(l) == Read(l) \/ Wake(l) \/ Timer(l) \/ RunEnds(l)

RCNext ==
  \/ StartProcess \/ StartSources \/ EndProcess
  \/ \E c \in Callers : Fetch(c) \/ ApplyFetched(c)
  \/ \E l \in Loops : Loop(l)

RCSpec == RCInit /\ [][RCNext]_rcVars

-----------------------------------------------------------------------------
(* Properties. *)

\* Stale configuration revisions are rejected: whichever caller applies an
\* answer late, whatever the server hands out, and over restarts with a failed
\* write before them, the configuration in force is only followed by a newer
\* revision.  Only a start that cannot read the file begins with none.
ConfigOnlyAdvances ==
  [][raw' # raw =>
       \/ raw = NoConfig
       \/ raw'.rev > raw.rev
       \/ raw' = NoConfig /\ phase = "down"]_rcVars

\* A loop that missed the signal because another loop took it runs at most once
\* under the configuration that was replaced.
StaleRunAtMostOnce == \A l \in Loops : staleRuns[l] <= 1

\* A scan_now_token forces at most one scan each time it comes into force, by a
\* start or by a change from another token: neither the other changes that wake the
\* loop nor a newer revision with the same token make it scan again.
ScanNowOncePerChange == \A t \in Tokens : owed[t] >= 0
=============================================================================

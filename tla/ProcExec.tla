------------------------------ MODULE ProcExec ------------------------------
(***************************************************************************)
(* Process execution, internal/collectors/procexec/procexec.go.            *)
(*                                                                         *)
(* A capture lists the process ids, then reads them one after the other in *)
(* ascending order, reports those it has not seen with their start time,   *)
(* and forgets the ones it did not come across.  It stops reading when the *)
(* batch is full.  Processes start, end, execute another program and reuse *)
(* ids meanwhile.                                                          *)
(*                                                                         *)
(* A process is {} or {[ticks, ignored]}: its start time, which is unique  *)
(* here, and whether shouldIgnore holds of what it executes.  What an      *)
(* event says of a process, and the caches for users and hashes that serve *)
(* it, are left out.                                                       *)
(***************************************************************************)
EXTENDS Naturals, FiniteSets

CONSTANTS
  MaxPid,          \* process ids are 1 .. MaxPid
  MaxBatch,        \* MaxBatchSize
  EmitInitialState,
  MaxProcs,        \* bound: processes started
  MaxExecs         \* bound: programs executed in a running process

VARIABLES
  procs,       \* pid -> process
  started, execs,
  pass,        \* "idle" or "read"
  listed,      \* pids of the capture in progress still to be read
  emitted,     \* processes reported by it
  live,        \* pids it came across
  seenTicks,   \* c.seen: pid -> start time, 0 if absent
  firstDone,   \* c.initialized
  baseline,    \* history: processes the first pass took as known
  reports,     \* history: processes reported so far
  shunned      \* history: processes that were ignored at some time

peVars  == <<procs, started, execs, pass, listed, emitted, live, seenTicks,
             firstDone, baseline, reports, shunned>>
agentPE == <<pass, listed, emitted, live, seenTicks, firstDone, baseline, reports>>

ProcIds == 1 .. MaxPid

ASSUME ProcExecAssumption ==
  MaxPid \in Nat /\ MaxBatch \in Nat \ {0} /\ EmitInitialState \in BOOLEAN
ASSUME ProcExecBounds == MaxProcs \in Nat /\ MaxExecs \in Nat

Alive(t) == \E p \in ProcIds : \E x \in procs[p] : x.ticks = t

PEInit ==
  /\ procs = [p \in ProcIds |-> {}] /\ started = 0 /\ execs = 0
  /\ pass = "idle" /\ listed = {} /\ emitted = {} /\ live = {}
  /\ seenTicks = [p \in ProcIds |-> 0] /\ firstDone = FALSE
  /\ baseline = {} /\ reports = {} /\ shunned = {}

-----------------------------------------------------------------------------
(* External: processes *)

Fork(p) ==
  /\ procs[p] = {} /\ started < MaxProcs /\ started' = started + 1
  /\ \E ig \in BOOLEAN :
       /\ procs' = [procs EXCEPT ![p] = {[ticks |-> started', ignored |-> ig]}]
       /\ shunned' = IF ig THEN shunned \cup {started'} ELSE shunned
  /\ UNCHANGED <<execs, agentPE>>

\* Another program: the start time stays.
ExecIn(p) ==
  /\ execs < MaxExecs /\ execs' = execs + 1
  /\ \E x \in procs[p] :
       /\ procs' = [procs EXCEPT ![p] = {[x EXCEPT !.ignored = ~x.ignored]}]
       /\ shunned' = shunned \cup {x.ticks}
  /\ UNCHANGED <<started, agentPE>>

ExitProc(p) ==
  /\ procs[p] # {} /\ procs' = [procs EXCEPT ![p] = {}]
  /\ UNCHANGED <<started, execs, shunned, agentPE>>

-----------------------------------------------------------------------------
(* Capture *)

\* listPIDs; when the directory cannot be read the capture ends with an error and
\* nothing changes.
ListPIDs ==
  /\ pass = "idle" /\ pass' = "read"
  /\ listed' = {p \in ProcIds : procs[p] # {}} /\ emitted' = {} /\ live' = {}
  /\ UNCHANGED <<procs, started, execs, seenTicks, firstDone, baseline, reports,
                 shunned>>

Lowest(s) == CHOOSE p \in s : \A q \in s : p <= q

\* Mutant: a process id that was seen is not compared further.
SameId(p, x) == seenTicks[p] # 0

IsKnown(p, x) == seenTicks[p] = x.ticks

\* One round of the loop.  A process that has gone is passed over.
ReadNext ==
  /\ pass = "read" /\ listed # {} /\ Cardinality(emitted) < MaxBatch
  /\ LET p == Lowest(listed) IN
       /\ listed' = listed \ {p}
       /\ \/ procs[p] = {} /\ UNCHANGED <<live, seenTicks, emitted, baseline, reports>>
          \/ \E x \in procs[p] :
               /\ live' = live \cup {p}
               /\ IF IsKnown(p, x) THEN UNCHANGED <<seenTicks, emitted, baseline, reports>>
                  ELSE /\ seenTicks' = [seenTicks EXCEPT ![p] = x.ticks]
                       /\ IF x.ignored THEN UNCHANGED <<emitted, baseline, reports>>
                          ELSE IF ~firstDone /\ ~EmitInitialState
                          THEN baseline' = baseline \cup {x.ticks} /\ UNCHANGED <<emitted, reports>>
                          ELSE /\ emitted' = emitted \cup {x.ticks} /\ reports' = reports \cup {x.ticks}
                               /\ UNCHANGED baseline
  /\ UNCHANGED <<procs, started, execs, pass, firstDone, shunned>>

\* cleanupSeen keeps the ids that this capture came across.
KeptSeen == live

\* All are read, or the batch is full.
EndPass ==
  /\ pass = "read" /\ (listed = {} \/ Cardinality(emitted) >= MaxBatch)
  /\ pass' = "idle" /\ firstDone' = TRUE /\ listed' = {} /\ emitted' = {} /\ live' = {}
  /\ seenTicks' = [p \in ProcIds |-> IF p \in KeptSeen THEN seenTicks[p] ELSE 0]
  /\ UNCHANGED <<procs, started, execs, baseline, reports, shunned>>

PENext ==
  \/ ListPIDs \/ ReadNext \/ EndPass
  \/ \E p \in ProcIds : Fork(p) \/ ExecIn(p) \/ ExitProc(p)

-----------------------------------------------------------------------------
(* Properties. *)

\* proc_exec watches process execution: a process that is not ignored and keeps
\* running is reported or was there at the first pass, although its id was used
\* before and batches fill up with processes of lower ids.
EveryProcessIsReported ==
  \A t \in 1 .. MaxProcs :
    []((Alive(t) /\ t \notin shunned)
         => <>(~Alive(t) \/ t \in shunned \/ t \in reports \cup baseline))
=============================================================================

------------------------------ MODULE AuthLog ------------------------------
(***************************************************************************)
(* The auth log collector, internal/collectors/ssh/authlog.go, and the     *)
(* collection cycle that commits or rolls back what it read,               *)
(* internal/sources/cycle.go.                                              *)
(*                                                                         *)
(* A cycle captures complete lines from the offset on, puts the events of  *)
(* the other collectors behind them and sends all of it in batches.  Only  *)
(* if every captured line is durable, delivered or in the spool, is the    *)
(* capture committed and the checkpoint written; otherwise offset, file    *)
(* identity and duplicate cache go back to what they were.  The log grows, *)
(* is rotated and is truncated at any time, and the agent may crash        *)
(* between any two steps.                                                  *)
(*                                                                         *)
(* A line is its number in order of writing, an offset counts lines, and a *)
(* line that is not complete is not in the log yet.  Of time, only that an *)
(* entry of the duplicate cache may expire whenever no line refreshes it.  *)
(***************************************************************************)
EXTENDS Naturals, Sequences, FiniteSets

CONSTANTS
  Lines,        \* Lines[n]: what parseLine makes of line n: a key, "sudo" or "other"
  CaptureMax,   \* opts.MaxBatchSize
  SendMax,      \* sender: events per batch
  MaxFiles,     \* bound: rotations, the log is file 1, 2, ...
  MaxTruncates, \* bound: truncations in place
  AuthFaults,   \* whether reading the log and writing the checkpoint may fail
  AuthMaxCrashes

VARIABLES
  log, inode,               \* the file at opts.Path and its identity
  written, truncates,       \* lines written so far, truncations so far
  offset, lastInode, cache, \* the capturer
  pending,                  \* c.pending: the state to go back to, if any
  checkpoint,               \* the checkpoint file
  cycle,                    \* "idle", "send", "decide", "down" or "unreadable"
  batch, sent, others,      \* captured lines, durable events so far, other events
  noticed,                  \* history: the capture began behind the last truncation
  durable,                  \* history: lines whose event is durable
  truncated,                \* history: the offset may be of a truncated content
  authCrashes

capturer == <<offset, lastInode, cache>>
fvars == <<log, inode, written, truncates>>
authVars == <<fvars, capturer, pending, checkpoint, cycle, batch, sent, others,
              noticed, durable, truncated, authCrashes>>

Written == 1 .. Len(Lines)

ASSUME LinesAssumption == Lines \in Seq(STRING)
ASSUME SizesAssumption == CaptureMax \in Nat \ {0} /\ SendMax \in Nat \ {0}
ASSUME AuthBounds ==
  /\ MaxFiles \in Nat \ {0} /\ MaxTruncates \in Nat /\ AuthMaxCrashes \in Nat
  /\ AuthFaults \in BOOLEAN

AuthInit ==
  /\ log = <<>> /\ inode = 1 /\ written = 0 /\ truncates = 0
  /\ offset = 0 /\ lastInode = 0 /\ cache = {} /\ pending = {}
  /\ checkpoint = [offset |-> 0, inode |-> 0]
  /\ cycle = "idle" /\ batch = <<>> /\ sent = 0 /\ others = 0 /\ noticed = FALSE
  /\ durable = {} /\ truncated = FALSE /\ authCrashes = 0

-----------------------------------------------------------------------------
(* The log file *)

WriteLine ==
  /\ written < Len(Lines)
  /\ written' = written + 1 /\ log' = Append(log, written + 1)
  /\ UNCHANGED <<inode, truncates, capturer, pending, checkpoint, cycle, batch,
                 sent, others, noticed, durable, truncated, authCrashes>>

\* The log is renamed and a new file takes its place: what was not read is lost
\* to the collector.
Rotate ==
  /\ inode < MaxFiles /\ log # <<>>
  /\ inode' = inode + 1 /\ log' = <<>> /\ truncated' = FALSE
  /\ UNCHANGED <<written, truncates, capturer, pending, checkpoint, cycle, batch,
                 sent, others, noticed, durable, authCrashes>>

\* copytruncate, or a new file that got the inode of the old one.
TruncateLog ==
  /\ truncates < MaxTruncates /\ log # <<>>
  /\ truncates' = truncates + 1 /\ log' = <<>> /\ truncated' = TRUE
  /\ noticed' = FALSE
  /\ UNCHANGED <<inode, written, capturer, pending, checkpoint, cycle, batch,
                 sent, others, durable, authCrashes>>

-----------------------------------------------------------------------------
(* Capture *)

\* Another file, or one that is shorter than what was read, is read from the start.
StartOffset ==
  IF (lastInode # 0 /\ inode # lastInode) \/ offset > Len(log) THEN 0 ELSE offset

HasKey(n) == Lines[n] \notin {"sudo", "other"}

(***************************************************************************)
(* The lines in front of position i that become events, when those from    *)
(* "start" on are read with the cache c: a key is kept from its first line *)
(* on, sudo commands are never taken for duplicates.                       *)
(***************************************************************************)
Becomes(start, c, i) ==
  LET n == log[i] IN
  \/ Lines[n] = "sudo"
  \/ /\ HasKey(n) /\ Lines[n] \notin c
     /\ \A j \in start + 1 .. i - 1 : Lines[log[j]] # Lines[n]

Events(start, c, upto) == {i \in start + 1 .. upto : Becomes(start, c, i)}

\* Reading stops at the end of the log or behind the event that fills the batch.
ReadTo(start, c) ==
  CHOOSE e \in start .. Len(log) :
    LET n == Cardinality(Events(start, c, e)) IN
    \/ n = CaptureMax /\ e \in Events(start, c, e)
    \/ n < CaptureMax /\ e = Len(log)

\* The events of a capture, in the order of the log.
Captured(start, c, upto) ==
  LET ev == Events(start, c, upto) IN
  [k \in 1 .. Cardinality(ev) |->
     log[CHOOSE i \in ev : Cardinality({j \in ev : j <= i}) = k]]

KeysRead(start, upto) == {Lines[log[i]] : i \in {j \in start + 1 .. upto : HasKey(log[j])}}

Memory == [offset |-> offset, inode |-> lastInode, cache |-> cache]

\* RunOnce up to SendEvents: the capture succeeds, and the events of the other
\* collectors are put behind the captured ones.  A capture that fails, at the
\* start or after a rollback, changes nothing.
Capture ==
  /\ cycle = "idle"
  /\ LET c == cache
         upto == ReadTo(StartOffset, c) IN
     /\ pending' = {Memory} /\ noticed' = (StartOffset = 0)
     /\ offset' = upto /\ lastInode' = inode
     /\ cache' = c \cup KeysRead(StartOffset, upto)
     /\ batch' = Captured(StartOffset, c, upto)
  /\ others' \in 0 .. 1 /\ sent' = 0
  /\ cycle' = IF Len(batch') + others' = 0 THEN "decide" ELSE "send"
  /\ UNCHANGED <<fvars, checkpoint, durable, truncated, authCrashes>>

-----------------------------------------------------------------------------
(* SendEvents and what follows it *)

Total == Len(batch) + others
AuthSent(n) == IF n < Len(batch) THEN n ELSE Len(batch)
Lesser(m, n) == IF m < n THEN m ELSE n

\* The events of the next batch become durable.
NextBatch ==
  /\ cycle = "send"
  /\ sent' = Lesser(sent + SendMax, Total)
  /\ durable' = durable \cup {batch[k] : k \in 1 .. AuthSent(sent')}
  /\ UNCHANGED <<fvars, capturer, pending, checkpoint, batch, others, noticed,
                 truncated, authCrashes>>

\* The next batch is delivered, and the one behind it is tried.
SendBatch == NextBatch /\ cycle' = IF sent' = Total THEN "decide" ELSE "send"

\* It is only stored in the spool: it counts as durable, and SendEvents returns
\* the error, so that the batches behind it are not tried.
SendQueued == NextBatch /\ cycle' = "decide"

\* It is neither delivered nor stored.
SendFails ==
  /\ cycle = "send" /\ cycle' = "decide"
  /\ UNCHANGED <<fvars, capturer, pending, checkpoint, batch, sent, others, noticed,
                 durable, truncated, authCrashes>>

\* Mutant: one durable event is enough.
SomeDurable == Len(batch) = 0 \/ sent > 0

\* delivery.Durable >= authCaptured
AllDurable == sent >= Len(batch)

EndCycle == cycle' = "idle" /\ batch' = <<>> /\ sent' = 0 /\ others' = 0 /\ noticed' = FALSE

\* Commit: the memory is final first; writing the checkpoint may fail, before
\* its rename or after it.
Commit ==
  /\ cycle = "decide" /\ AllDurable
  /\ pending' = {}
  /\ LET new == [offset |-> offset, inode |-> lastInode] IN
     /\ checkpoint' \in IF AuthFaults THEN {new, checkpoint} ELSE {new}
     /\ truncated' = (truncated /\ ~(noticed /\ checkpoint' = new))
  /\ EndCycle
  /\ UNCHANGED <<fvars, capturer, durable, authCrashes>>

\* Mutant: the duplicate cache keeps the keys of the events that were not sent.
KeepCache(p) == cache

\* The duplicate cache after a rollback.
RestoredCache(p) == p.cache

RollbackCapture ==
  /\ cycle = "decide" /\ ~AllDurable
  /\ \E p \in pending :
       /\ offset' = p.offset /\ lastInode' = p.inode /\ cache' = RestoredCache(p)
  /\ pending' = {}
  /\ EndCycle
  /\ UNCHANGED <<fvars, checkpoint, durable, truncated, authCrashes>>

\* The time to live of a key has passed since its last line.
Expires ==
  /\ cycle = "idle"
  /\ \E k \in cache : cache' = cache \ {k}
  /\ UNCHANGED <<fvars, offset, lastInode, pending, checkpoint, cycle, batch, sent,
                 others, noticed, durable, truncated, authCrashes>>

-----------------------------------------------------------------------------
(* Crash and restart *)

CrashAgent ==
  /\ cycle # "down" /\ authCrashes < AuthMaxCrashes
  /\ authCrashes' = authCrashes + 1 /\ cycle' = "down"
  /\ offset' = 0 /\ lastInode' = 0 /\ cache' = {} /\ pending' = {}
  /\ batch' = <<>> /\ sent' = 0 /\ others' = 0 /\ noticed' = FALSE
  /\ UNCHANGED <<fvars, checkpoint, durable, truncated>>

\* NewAuthLogCapturer, loadCheckpoint.  With a checkpoint that cannot be read
\* every capture of this process fails.
LoadCheckpoint ==
  /\ cycle = "down"
  /\ \/ /\ cycle' = "idle"
        /\ offset' = checkpoint.offset /\ lastInode' = checkpoint.inode
     \/ /\ AuthFaults /\ cycle' = "unreadable"
        /\ UNCHANGED <<offset, lastInode>>
  /\ UNCHANGED <<fvars, cache, pending, checkpoint, batch, sent, others, noticed,
                 durable, truncated, authCrashes>>

Collect == Capture \/ SendBatch \/ SendQueued \/ SendFails \/ Commit \/ RollbackCapture

AuthNext ==
  \/ WriteLine \/ Rotate \/ TruncateLog
  \/ Collect \/ Expires
  \/ CrashAgent \/ LoadCheckpoint

\* Without fairness, for what is proved of every behaviour.
AuthSpec == AuthInit /\ [][AuthNext]_authVars

-----------------------------------------------------------------------------
(* Properties. *)

\* What became of line n: nothing to report, its event is durable, or it was
\* left out in favour of a durable event of the same user, address and action.
Settled(n) ==
  \/ Lines[n] = "other" \/ n \in durable
  \/ HasKey(n) /\ \E m \in durable : Lines[m] = Lines[n]

\* The lines a position stands for as read, when it is one of the current file.
ReadBy(position, ino) ==
  IF ino = inode THEN {log[i] : i \in 1 .. Lesser(position, Len(log))} ELSE {}

\* Evidence is not skipped: a line in front of the committed offset, in memory
\* or in the checkpoint, is settled, whatever was rolled back, sent in part or
\* lost in a crash; a truncation that the log outgrew before it was noticed is
\* the exception the code has.
NoLineSkipped ==
  ~truncated =>
    /\ \A n \in ReadBy(checkpoint.offset, checkpoint.inode) : Settled(n)
    /\ pending = {} => \A n \in ReadBy(offset, lastInode) : Settled(n)
    /\ \A p \in pending : \A n \in ReadBy(p.offset, p.inode) : Settled(n)

\* Every line is settled in the end unless the log was rotated or truncated
\* under it or the checkpoint cannot be read, although sends fail, captures are
\* rolled back and the agent crashes.
EveryLineSettles ==
  \A n \in Written :
    (written >= n) ~> \/ Settled(n) \/ cycle = "unreadable" \/ truncated
                      \/ n \notin {log[i] : i \in DOMAIN log}
=============================================================================

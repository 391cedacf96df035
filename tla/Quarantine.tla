----------------------------- MODULE Quarantine -----------------------------
(***************************************************************************)
(* The action quarantine_file, runQuarantineFile in                        *)
(* internal/responseactions/executor.go: the file is copied into the       *)
(* quarantine directory and removed from its place.                        *)
(*                                                                         *)
(* Every system call that matters is a step: other processes may write to  *)
(* the file or put another one in its place between any two, each may      *)
(* fail, and power may be lost, after which data that was not synced and   *)
(* directory entries that were not synced are as new or as old as the      *)
(* disk happens to have them.                                              *)
(*                                                                         *)
(* A file is its inode, its content the number of writes to it.  The       *)
(* validation of the path and the hash of a dry run change nothing.        *)
(***************************************************************************)
EXTENDS Naturals

CONSTANTS
  Inodes,     \* files that come to be at the path
  MaxWrites,  \* bound: writes by other processes
  MaxSwaps    \* bound: times another process changes what is at the path

VARIABLES
  at,        \* the file at payload.path, if any
  content,   \* what each file holds
  copy,      \* action-<id>.quar, if it exists
  step,      \* the next step of runQuarantineFile
  info,      \* the file that was opened, if any
  unsynced,  \* the file whose removal is not synced yet, if any
  verdict,   \* "none", "success", "failed" or "interrupted"
  removed,   \* history: what the agent removed from the path
  swaps

qVars == <<at, content, copy, step, info, unsynced, verdict, removed, swaps>>

ASSUME InodesAssumption == Inodes # {}
ASSUME QuarantineBounds == MaxWrites \in Nat /\ MaxSwaps \in Nat

QInit ==
  /\ at \in {{f} : f \in Inodes} \cup {{}}
  /\ content = [f \in Inodes |-> 0]
  /\ copy = {} /\ step = "look" /\ info = {} /\ unsynced = {}
  /\ verdict = "none" /\ removed = {} /\ swaps = 0

-----------------------------------------------------------------------------
(* Other processes *)

Overwrite(f) ==
  /\ content[f] < MaxWrites /\ content' = [content EXCEPT ![f] = @ + 1]
  /\ UNCHANGED <<at, copy, step, info, unsynced, verdict, removed, swaps>>

\* The file is removed, renamed away, or replaced by another.
Swap ==
  /\ swaps < MaxSwaps /\ swaps' = swaps + 1
  /\ \E next \in {{f} : f \in Inodes} \cup {{}} : next # at /\ at' = next
  /\ unsynced' = {}
  /\ UNCHANGED <<content, copy, step, info, verdict, removed>>

-----------------------------------------------------------------------------
(* runQuarantineFile *)

Running(s) == step = s /\ verdict = "none"

GoTo(s) == step' = s /\ UNCHANGED verdict

\* An error: the copy, if there is one of this action, is removed first; that
\* removal may fail without notice.
FailAndDrop ==
  /\ verdict' = "failed" /\ step' = "end"
  /\ copy' \in {copy, {}}
  /\ UNCHANGED <<at, content, info, unsynced, removed, swaps>>

FailsHere ==
  /\ verdict' = "failed" /\ step' = "end"
  /\ UNCHANGED <<at, content, copy, info, unsynced, removed, swaps>>

\* openQuarantineTarget: Lstat.
Look ==
  /\ Running("look")
  /\ IF at = {} THEN FailsHere
     ELSE /\ info' = at /\ GoTo("open")
          /\ UNCHANGED <<at, content, copy, unsynced, removed, swaps>>

\* openQuarantineTarget: Open and Stat must find the same file; then the hash and
\* prepareQuarantineDirectory, which may fail.
Open ==
  /\ Running("open")
  /\ \/ FailsHere
     \/ /\ at = info /\ GoTo("create")
        /\ UNCHANGED <<at, content, copy, info, unsynced, removed, swaps>>

\* copyQuarantineTarget: O_EXCL refuses a destination that exists.
Create ==
  /\ Running("create")
  /\ \/ FailsHere
     \/ /\ copy = {} /\ GoTo("copy")
        /\ \E f \in info :
             copy' = {[of |-> f, holds |-> 0, whole |-> FALSE, data |-> FALSE, entry |-> FALSE]}
        /\ UNCHANGED <<at, content, info, unsynced, removed, swaps>>

CopyData ==
  /\ Running("copy")
  /\ \/ FailAndDrop
     \/ /\ GoTo("sync")
        /\ copy' = {[c EXCEPT !.holds = content[c.of], !.whole = TRUE] : c \in copy}
        /\ UNCHANGED <<at, content, info, unsynced, removed, swaps>>

\* Sync, Chmod and Close of the copy.
SyncData ==
  /\ Running("sync")
  /\ \/ FailAndDrop
     \/ /\ GoTo("sync directory")
        /\ copy' = {[c EXCEPT !.data = TRUE] : c \in copy}
        /\ UNCHANGED <<at, content, info, unsynced, removed, swaps>>

\* Mutant: the directory of the copy is not synced.
SkipSync(c) == c

\* The entry of the copy after syncResponseDirectory.
EntrySynced(c) == [c EXCEPT !.entry = TRUE]

SyncDirectory ==
  /\ Running("sync directory")
  /\ \/ FailAndDrop
     \/ /\ GoTo("revalidate")
        /\ copy' = {EntrySynced(c) : c \in copy}
        /\ UNCHANGED <<at, content, info, unsynced, removed, swaps>>

Revalidate ==
  /\ Running("revalidate")
  /\ IF at # info THEN FailAndDrop
     ELSE /\ GoTo("remove")
          /\ UNCHANGED <<at, content, copy, info, unsynced, removed, swaps>>

\* os.Remove takes away what is at the path now.
RemoveTarget ==
  /\ Running("remove")
  /\ \/ FailAndDrop
     \/ /\ at # {} /\ at' = {} /\ unsynced' = at /\ GoTo("sync removal")
        /\ removed' = {[file |-> f, held |-> content[f]] : f \in at}
        /\ UNCHANGED <<content, copy, info, swaps>>

\* A failure is reported although the file is in quarantine.
SyncRemoval ==
  /\ Running("sync removal")
  /\ \/ FailsHere
     \/ /\ verdict' = "success" /\ step' = "end" /\ unsynced' = {}
        /\ UNCHANGED <<at, content, copy, info, removed, swaps>>

\* Power is lost, also after the action: the journal then reports an interrupted
\* action and does not run it again.  What the copy is without its syncs, and
\* whether an unsynced removal happened, is up to the disk.
PowerLoss ==
  /\ verdict # "interrupted" /\ verdict' = "interrupted" /\ step' = "end"
  /\ \E keepsEntry, keepsData \in BOOLEAN :
       copy' = {[c EXCEPT !.whole = c.whole /\ (c.data \/ keepsData)] :
                  c \in {d \in copy : d.entry \/ keepsEntry}}
  /\ at' \in IF at = {} THEN {at, unsynced} ELSE {at}
  /\ unsynced' = {}
  /\ UNCHANGED <<content, info, removed, swaps>>

QNext ==
  \/ \E f \in Inodes : Overwrite(f)
  \/ Swap
  \/ Look \/ Open \/ Create \/ CopyData \/ SyncData \/ SyncDirectory
  \/ Revalidate \/ RemoveTarget \/ SyncRemoval
  \/ PowerLoss

QuarSpec == QInit /\ [][QNext]_qVars

-----------------------------------------------------------------------------
(* Properties. *)

\* Evidence survives quarantine: whatever fails and whenever power is lost, what
\* the agent removed is whole in quarantine as it was when it was copied, or back
\* in its place; only a file put there after the revalidation goes without a
\* copy.  A success is told only when the copy is whole and on disk.
QuarantineKeepsEvidence ==
  /\ \A r \in removed :
       \/ at = {r.file} \/ r.file \notin info
       \/ \E c \in copy : c.whole /\ c.of = r.file /\ c.holds <= r.held
  /\ verdict = "success" => \E c \in copy : c.whole /\ c.data /\ c.entry /\ {c.of} = info
=============================================================================

---------------------------- MODULE DurableQueue ----------------------------
(***************************************************************************)
(* What the on-disk delivery backlog (internal/spool) promises to the      *)
(* sender that uses it, without files, locks, counters or crashes.         *)
(*                                                                         *)
(* An entry is absent until it is stored; once stored it stays queued      *)
(* until it leaves for exactly one reason, and that reason is final: an    *)
(* entry that left never comes back.  Storing an entry may push out other  *)
(* entries, or the new one itself, but only for age or capacity.           *)
(*                                                                         *)
(* Spool.tla implements this specification; Sender.tla is built on it.     *)
(***************************************************************************)
CONSTANT Entries

VARIABLE status

Reasons   == {"delivered", "expired", "capacity", "corrupt", "permanent"}
Retention == {"expired", "capacity"}

Statuses == {"absent", "queued"} \cup Reasons

QInit == status = [n \in Entries |-> "absent"]

\* Retention may remove any queued entry, and nothing else may change.
TrimmedOrKept(n) ==
  \/ status'[n] = status[n]
  \/ status[n] = "queued" /\ status'[n] \in Retention

\* Store entry n; it ends up queued, or evicted at once.
Store(n) ==
  /\ status[n] = "absent"
  /\ status' \in [Entries -> Statuses]
  /\ status'[n] \in {"queued"} \cup Retention
  /\ \A m \in Entries \ {n} : TrimmedOrKept(m)

\* One queued entry is settled: delivered, or given up for reason r.
Settle(n, r) ==
  /\ status[n] = "queued"
  /\ status' = [status EXCEPT ![n] = r]

\* Retention run on its own, when the backlog is opened after a restart.
Trim ==
  /\ status' \in [Entries -> Statuses]
  /\ \A n \in Entries : TrimmedOrKept(n)

QNext ==
  \/ \E n \in Entries : Store(n)
  \/ \E n \in Entries, r \in Reasons : Settle(n, r)
  \/ Trim

QSpec == QInit /\ [][QNext]_status
=============================================================================

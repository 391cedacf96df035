----------------------------- MODULE MCSender -----------------------------
(* Instances of Sender for TLC. *)
EXTENDS Sender

MCBatches == {1, 2}
\* An event batch and a later, more urgent inventory batch.
MCPrio == [b \in MCBatches |-> IF b = 1 THEN 10 ELSE 100]

KnownAnswers == AllAnswers \ {"other"}

=============================================================================

------------------------------ MODULE MCSpool ------------------------------
(* An instance of Spool for TLC. *)
EXTENDS Spool

\* Three entries: a large urgent one, a small and a large ordinary one.
MCEntries == {1, 2, 3}
MCPrio == [n \in {1, 2, 3} |-> IF n = 2 THEN 1 ELSE 0]
MCSize == [n \in {1, 2, 3} |-> IF n = 1 THEN 1 ELSE 2]
=============================================================================

------------------------------ MODULE MCSources ------------------------------
(***************************************************************************)
(* One instance for the loops of the service that share no state with each *)
(* other: the auth log's collection cycle, protocol negotiation and the    *)
(* end of the service, the inventory and the vulnerability source, the     *)
(* process captures and the certificate pair.  "part" is chosen once; that *)
(* part runs with everything that its module lets happen, and the others   *)
(* stand still.                                                            *)
(***************************************************************************)
EXTENDS AuthLog, Compatibility, InventorySources, ProcExec, CertPair

VARIABLE part

sourceVars == <<part, authVars, coVars, invVars, peVars, vars>>

-----------------------------------------------------------------------------
(* Constants *)

MCLines == <<"k", "sudo", "k">>

\* Servers: ranges that overlap below, above or not at all, or are left out.
D(v, lo, hi, s, slo, shi) ==
  [version |-> v, min |-> lo, max |-> hi, schema |-> s, smin |-> slo, smax |-> shi]
MCDescriptors ==
  {D(0, 0, 0, 0, 0, 0)}
  \cup {D(2, lo, hi, s, slo, shi) : lo \in {0, 3}, hi \in {0, 3}, s \in {0, 2},
                                    slo \in {0, 1, 3}, shi \in {0, 1, 3}}

-----------------------------------------------------------------------------

\* The parts that stand still have one initial state.
SourcesInit ==
  /\ part \in {"auth", "compat", "sys", "vuln", "proc", "pair"}
  /\ AuthInit /\ COInit /\ InvInit /\ PEInit /\ Init
  /\ part # "compat" => server = {}
  /\ part \notin {"sys", "vuln"} => packages = 1

SourcesNext ==
  /\ UNCHANGED part
  /\ \/ part = "auth" /\ AuthNext /\ UNCHANGED <<coVars, invVars, peVars, vars>>
     \/ part = "compat" /\ CONext /\ UNCHANGED <<authVars, invVars, peVars, vars>>
     \/ part = "sys" /\ SysNext /\ UNCHANGED <<authVars, coVars, peVars, vars>>
     \/ part = "vuln" /\ VulnNext /\ UNCHANGED <<authVars, coVars, peVars, vars>>
     \/ part = "proc" /\ PENext /\ UNCHANGED <<authVars, coVars, invVars, vars>>
     \/ part = "pair" /\ Next /\ UNCHANGED <<authVars, coVars, invVars, peVars>>

(***************************************************************************)
(* Fairness of the part that runs.                                         *)
(*                                                                         *)
(* Auth log: the cycle runs on a ticker and the service is restarted; a    *)
(* batch that is sent again and again, the first of a capture or a later   *)
(* one, is delivered in the end.  While the server is away that is not so: *)
(* a capture of more than one batch is then rolled back in every cycle     *)
(* although its first batch is in the spool, and captured again.           *)
(***************************************************************************)
AuthFairness ==
  /\ WF_authVars(part = "auth" /\ Capture)
  /\ WF_authVars(part = "auth" /\ (Commit \/ RollbackCapture))
  /\ WF_authVars(part = "auth" /\ (SendBatch \/ SendQueued \/ SendFails))
  /\ SF_authVars(part = "auth" /\ SendBatch /\ sent = 0)
  /\ SF_authVars(part = "auth" /\ SendBatch /\ sent > 0)
  /\ WF_authVars(part = "auth" /\ LoadCheckpoint)

\* The main loop and the heartbeat goroutine run, a heartbeat that is repeated is
\* answered in the end, and startup comes to an end.
COFairness ==
  /\ WF_coVars(part = "compat" /\ (LoopFatal \/ LoopDone))
  /\ WF_coVars(part = "compat" /\ (Beat \/ Hands \/ Cancels))
  /\ WF_coVars(part = "compat" /\ (Verify \/ VerifyFails))
  /\ WF_coVars(part = "compat" /\ (VerifyAgain \/ NewCredential \/ Unverified))

\* The loops come round, and a step that is tried again and again succeeds in the
\* end.
InvFairness ==
  /\ WF_invVars(part = "sys" /\ SysCollect)
  /\ WF_invVars(part = "sys" /\ (SysSent \/ SysSendFails))
  /\ SF_invVars(part = "sys" /\ SysSent)
  /\ WF_invVars(part = "vuln" /\ VulnCollect)
  /\ WF_invVars(part = "vuln" /\ (VulnQuery \/ VulnQueryFails))
  /\ WF_invVars(part = "vuln" /\ (VulnIngested \/ VulnIngestFails))
  /\ SF_invVars(part = "vuln" /\ VulnQuery) /\ SF_invVars(part = "vuln" /\ VulnIngested)

\* Process captures are taken on the same ticker.
PEFairness ==
  /\ WF_peVars(part = "proc" /\ ListPIDs)
  /\ WF_peVars(part = "proc" /\ (ReadNext \/ EndPass))

SourcesSpec ==
  /\ SourcesInit /\ [][SourcesNext]_sourceVars
  /\ AuthFairness /\ COFairness /\ InvFairness /\ PEFairness

\* What the server holds comes to be about the packages of the host: the inventory
\* when that source runs, but for packages that an overtaken delivery suppresses, and
\* the findings when the vulnerability source does.
InventoryArrives ==
  /\ part = "sys" => InventoryIsCurrent
  /\ part = "vuln" => FindingsAreCurrent
=============================================================================

------------------------------ MODULE Discovery ------------------------------
(***************************************************************************)
(* Active topology discovery: TopologyDiscovery of                         *)
(* internal/sources/runtime_config.go, the runs of topology_discovery.go   *)
(* and internal/topologydiscovery/discovery.go.                            *)
(*                                                                         *)
(* A scheduled run and one asked for by a response action may overlap.     *)
(* Each takes the policy that the local and the remote configuration give  *)
(* at one moment, works out which addresses to probe from the networks it  *)
(* finds later, and probes them one by one, while the remote configuration *)
(* changes.                                                                *)
(*                                                                         *)
(* Addresses are numbers; a CIDR is a record of its first address, its     *)
(* size (a power of two) and its family.  Intervals, rates and timeouts    *)
(* are left out: a run may be cut short at any probe.                      *)
(***************************************************************************)
EXTENDS Naturals, FiniteSets, Sequences, Functions

CONSTANTS
  LocalPolicies,   \* local configurations: [on, public, max, cidrs]
  RemotePolicies,  \* remote ones; on and public are statements, max 0: not given
  PrivateCidrs,    \* private and internal ranges
  HostCidrs,       \* networks of the host's interfaces, in order
  HostIPs, DenyCidrs,
  Triggers         \* "scheduled" and "manual"

VARIABLES
  policy,       \* the local configuration
  remote,       \* the remote one, if any
  run,          \* each trigger: "idle", "plan", "probe" or "report"
  runCfg,       \* the policy each run goes by
  targets,      \* addresses it has still to probe
  probed,       \* addresses it has probed
  lastTrigger, lastFailed   \* topoStatus

discVars == <<policy, remote, run, runCfg, targets, probed, lastTrigger, lastFailed>>

ASSUME PoliciesAssumption ==
  /\ \A p \in LocalPolicies : p.max \in Nat \ {0} /\ p.on \in BOOLEAN /\ p.public \in BOOLEAN
  /\ \A r \in RemotePolicies : r.max \in Nat /\ r.on \in BOOLEAN /\ r.public \in BOOLEAN

-----------------------------------------------------------------------------
(* Addresses *)

Span(c) == c.base .. (c.base + c.size - 1)

Cidrs ==
  PrivateCidrs \cup Range(HostCidrs)
  \cup UNION {Range(p.cidrs) : p \in LocalPolicies \cup RemotePolicies}

\* The networks are CIDR blocks: of one family, two of them are nested or have no
\* address in common.
ASSUME CidrsAssumption ==
  /\ \A c \in Cidrs : c.base \in Nat /\ c.size \in Nat \ {0} /\ c.v6 \in BOOLEAN
  /\ HostCidrs \in Seq(Cidrs)
  /\ \A p \in LocalPolicies \cup RemotePolicies : p.cidrs \in Seq(Cidrs)
  /\ \A c, d \in Cidrs :
       c.v6 = d.v6 => \/ Span(c) \subseteq Span(d) \/ Span(d) \subseteq Span(c)
                      \/ Span(c) \cap Span(d) = {}

\* cidrContainedWithin; a boundary of cidrsWithin contains a request likewise.
Inside(c, d) == c.v6 = d.v6 /\ c.size <= d.size /\ c.base \in Span(d)

IsPrivate(c) == \E d \in PrivateCidrs : Inside(c, d)

\* firstIPv4Host to the last nextIPv4Host: without the network and the broadcast
\* address, except in networks of one or two addresses.
HostsOf(c) == IF c.size >= 4 THEN c.base + 1 .. c.base + c.size - 2 ELSE Span(c)

IsDenied(ip) == \E d \in DenyCidrs : ~d.v6 /\ ip \in Span(d)

-----------------------------------------------------------------------------
(* TopologyDiscovery *)

\* Mutant: the size of a requested network is not compared.
StartsWithin(requested, allowed) ==
  \A c \in Range(requested) : \E d \in Range(allowed) : c.v6 = d.v6 /\ c.base \in Span(d)

cidrsWithin(requested, allowed) ==
  \A c \in Range(requested) : \E d \in Range(allowed) : Inside(c, d)

\* The remote side narrows: it may disable, lower max_hosts, and choose networks
\* among the local ones, or among the private ones where none are configured.
Narrowed(l, r) ==
  [on     |-> l.on /\ r.on,
   public |-> l.public /\ r.public,
   max    |-> IF r.max > 0 /\ r.max <= l.max THEN r.max ELSE l.max,
   cidrs  |-> IF r.cidrs = <<>> THEN l.cidrs ELSE r.cidrs]

\* The remote networks are refused, and with them the run.
Exceeds(l, r) ==
  /\ r.cidrs # <<>>
  /\ \/ ~(l.public /\ r.public) /\ \E c \in Range(r.cidrs) : ~IsPrivate(c)
     \/ l.cidrs # <<>> /\ ~cidrsWithin(r.cidrs, l.cidrs)

\* The policies in force: one, or none when it is an error.
TopologyDiscovery ==
  IF remote = {} THEN {policy}
  ELSE {Narrowed(policy, r) : r \in {x \in remote : ~Exceeds(policy, x)}}

-----------------------------------------------------------------------------
(* BuildPlan *)

\* The networks to probe by their places in the list, configured or the host's own.
SelectedCidrs(cfg) ==
  IF cfg.cidrs # <<>> THEN cfg.cidrs
  ELSE [i \in {j \in DOMAIN HostCidrs : ~HostCidrs[j].v6 /\ IsPrivate(HostCidrs[j])} |->
          HostCidrs[i]]

PlanRefused(cfg) ==
  \E c \in Range(SelectedCidrs(cfg)) : c.v6 \/ (~cfg.public /\ ~IsPrivate(c))

Eligible(nets) ==
  {ip \in UNION {HostsOf(nets[i]) : i \in DOMAIN nets} : ip \notin HostIPs /\ ~IsDenied(ip)}

\* Network i is the first one that has the address.
FirstIn(nets, ip, i) ==
  ip \in HostsOf(nets[i]) /\ \A j \in DOMAIN nets : j < i => ip \notin HostsOf(nets[j])

\* The walk takes address a before b.
ComesBefore(nets, a, b) ==
  \E i, j \in DOMAIN nets :
    FirstIn(nets, a, i) /\ FirstIn(nets, b, j) /\ (i < j \/ (i = j /\ a < b))

\* Every eligible address once, in the order of the walk, up to max_hosts.
PlanTargets(cfg) ==
  LET ips     == Eligible(SelectedCidrs(cfg))
      rank(b) == Cardinality({a \in ips : ComesBefore(SelectedCidrs(cfg), a, b)})
      n       == IF Cardinality(ips) > cfg.max THEN cfg.max ELSE Cardinality(ips)
  IN [k \in 1 .. n |-> CHOOSE ip \in ips : rank(ip) = k - 1]

-----------------------------------------------------------------------------
(* Runs *)

DiscInit ==
  /\ policy \in LocalPolicies /\ remote = {}
  /\ run = [t \in Triggers |-> "idle"] /\ runCfg = [t \in Triggers |-> policy]
  /\ targets = [t \in Triggers |-> <<>>] /\ probed = [t \in Triggers |-> {}]
  /\ lastTrigger = "none" /\ lastFailed = FALSE

\* Apply accepts another remote configuration.
SetRemote ==
  /\ remote' \in {{}} \cup {{r} : r \in RemotePolicies}
  /\ UNCHANGED <<policy, run, runCfg, targets, probed, lastTrigger, lastFailed>>

\* The loop or RunTopologyDiscoveryNow; an error or a disabled policy ends it here.
BeginRun(t) ==
  /\ run[t] = "idle"
  /\ \E cfg \in TopologyDiscovery :
       cfg.on /\ run' = [run EXCEPT ![t] = "plan"] /\ runCfg' = [runCfg EXCEPT ![t] = cfg]
  /\ probed' = [probed EXCEPT ![t] = {}]
  /\ UNCHANGED <<policy, remote, targets, lastTrigger, lastFailed>>

\* recordTopologyDiscoveryFailure.
FailRun(t) ==
  /\ run' = [run EXCEPT ![t] = "idle"] /\ targets' = [targets EXCEPT ![t] = <<>>]
  /\ lastTrigger' = t /\ lastFailed' = TRUE
  /\ UNCHANGED <<policy, remote, runCfg, probed>>

\* The networks are collected and the plan is built; without ping nothing is
\* probed.
MakePlan(t) ==
  /\ run[t] = "plan" /\ ~PlanRefused(runCfg[t])
  /\ \E ping \in BOOLEAN :
       /\ run' = [run EXCEPT ![t] = IF ping THEN "probe" ELSE "report"]
       /\ targets' = [targets EXCEPT ![t] = IF ping THEN PlanTargets(runCfg[t]) ELSE <<>>]
  /\ UNCHANGED <<policy, remote, runCfg, probed, lastTrigger, lastFailed>>

PlanFails(t) == run[t] = "plan" /\ FailRun(t)

\* RunProbes: one probe, answered or not.
ProbeNext(t) ==
  /\ run[t] = "probe" /\ targets[t] # <<>>
  /\ probed' = [probed EXCEPT ![t] = @ \cup {Head(targets[t])}]
  /\ targets' = [targets EXCEPT ![t] = Tail(@)]
  /\ UNCHANGED <<policy, remote, run, runCfg, lastTrigger, lastFailed>>

\* All are probed, or the time is up.
ProbesEnd(t) ==
  /\ run[t] = "probe" /\ run' = [run EXCEPT ![t] = "report"]
  /\ targets' = [targets EXCEPT ![t] = <<>>]
  /\ UNCHANGED <<policy, remote, runCfg, probed, lastTrigger, lastFailed>>

\* The neighbours and packages are collected and the snapshot is sent.
ReportRun(t) ==
  /\ run[t] = "report" /\ run' = [run EXCEPT ![t] = "idle"]
  /\ lastTrigger' = t /\ lastFailed' = FALSE
  /\ UNCHANGED <<policy, remote, runCfg, targets, probed>>

ReportFails(t) == run[t] = "report" /\ FailRun(t)

DiscNext ==
  \/ SetRemote
  \/ \E t \in Triggers :
       \/ BeginRun(t) \/ MakePlan(t) \/ PlanFails(t) \/ ProbeNext(t) \/ ProbesEnd(t)
       \/ ReportRun(t) \/ ReportFails(t)

\* A specification of its own, for what is proved.
DiscSpec == DiscInit /\ [][DiscNext]_discVars

-----------------------------------------------------------------------------
(* Properties. *)

\* What the local configuration permits, whatever the server asks for.
Permitted(ip) ==
  /\ ip \notin HostIPs /\ ~IsDenied(ip)
  /\ policy.public \/ \E d \in PrivateCidrs : ~d.v6 /\ ip \in Span(d)
  /\ policy.cidrs # <<>> => \E d \in Range(policy.cidrs) : ip \in Span(d)

\* The agent refuses anything outside its local policy regardless of server intent:
\* a run probes permitted addresses only, not more than max_hosts of them, and none
\* when discovery is disabled locally, also while the remote configuration changes.
ProbesWithinLocalPolicy ==
  \A t \in Triggers :
    /\ \A ip \in probed[t] : Permitted(ip)
    /\ Cardinality(probed[t]) <= policy.max
    /\ probed[t] # {} => policy.on
=============================================================================

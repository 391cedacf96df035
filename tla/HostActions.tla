---------------------------- MODULE HostActions ----------------------------
(***************************************************************************)
(* The response actions that change the firewall and signal processes,     *)
(* Execute in internal/responseactions/executor.go with kill_process,      *)
(* block_outbound_ip, unblock_outbound_ip and run_shell_command.           *)
(*                                                                         *)
(* The journal runs one action at a time.  Its commands are separate       *)
(* steps: the rules and processes of the host change in between, a command *)
(* may fail, and one that is killed for its time limit may have done its   *)
(* work all the same.                                                      *)
(*                                                                         *)
(* A rule has a handle, an address, a port (0: all) and a comment, which   *)
(* is a label, or a label with a digest of the target.  The digest is      *)
(* taken to be unique.  A process is told from an earlier one with the     *)
(* same pid by its birth number.  A signal ends its process.               *)
(***************************************************************************)
EXTENDS Integers, FiniteSets

CONSTANTS
  Requests,    \* actions the server may ask for
  Foreign,     \* rules of the host that the agent did not make
  Longer,      \* pairs of addresses or ports whose texts are prefix and whole
  Pids, Self, Parent, Name,  \* processes at the start and what they are called
  ShellOn, ShellAllowed,     \* AllowShellExec, the resolved allowlist
  MaxDeletes,  \* 128 in iptablesDeleteComment
  MaxActions,  \* bound
  MaxBirths    \* bound: new processes that take the pid of one that ended

VARIABLES
  tool,       \* "iptables", "nft" or "none", from resolveFirewallTool
  rules,      \* the chain: OUTPUT of iptables or seagull/output of nft
  handles,    \* handles given out so far
  chain,      \* nft: whether the table and the chain exist
  born,       \* pid -> birth number of the process that has it, 0 when none
  births,
  request,    \* the action in execution or the last one, if any
  doing,      \* what it does next
  remaining,       \* pids or handles still to be worked on
  count,      \* deletions of the current loop
  deleted,    \* history: rules this action has deleted
  tally,      \* rules_removed of the result
  outcome,    \* of the last action: "none", "success", "failed"
  signalled,  \* history: <<pid, birth>> of every process signalled
  actions

fw == <<tool, rules, handles, chain>>
ps == <<born, births>>
haVars == <<fw, ps, request, doing, remaining, count, deleted, tally, outcome, signalled, actions>>

ASSUME HostBounds == MaxDeletes \in Nat /\ MaxActions \in Nat /\ MaxBirths \in Nat
ASSUME PidsAssumption ==
  /\ Pids \subseteq Nat /\ 1 \in Pids /\ Self \in Pids \ {1} /\ Parent \in Pids \ {Self}
  /\ \A r \in Requests : r.pid \in Int
\* Handles are given out once.  A comment with a digest is one of an earlier run of
\* the agent, on a rule for the target that the digest is of.
ASSUME ForeignAssumption ==
  /\ IsFiniteSet(Foreign)
  /\ \A q \in Foreign : q.handle \in 1 .. Cardinality(Foreign)
  /\ \A p, q \in Foreign : p.handle = q.handle => p = q
  /\ \A q \in Foreign, r \in Requests :
       q.comment = <<r.label, r.ip, r.port>> => q.ip = r.ip /\ q.port = r.port

HAInit ==
  /\ tool \in {"iptables", "nft", "none"}
  /\ rules \in {Foreign, {}} /\ (tool = "none" => rules = {}) /\ handles = Cardinality(rules)
  /\ chain = (tool = "iptables" \/ rules # {})
  /\ born = [p \in Pids |-> 1] /\ births = 1
  /\ request = {} /\ doing = "idle" /\ remaining = {} /\ count = 0 /\ deleted = {} /\ tally = 0
  /\ outcome = "none" /\ signalled = {} /\ actions = 0

-----------------------------------------------------------------------------
(* The host *)

\* A process ends; its pid may be given to a new one.  The agent and its parent
\* live on.
ProcessEnds(p) ==
  /\ p \notin {1, Self, Parent} /\ born[p] # 0
  /\ born' = [born EXCEPT ![p] = 0]
  /\ UNCHANGED <<fw, births, request, doing, remaining, count, deleted, tally, outcome,
                 signalled, actions>>

ProcessStarts(p) ==
  /\ born[p] = 0 /\ births < MaxBirths
  /\ births' = births + 1 /\ born' = [born EXCEPT ![p] = births + 1]
  /\ UNCHANGED <<fw, request, doing, remaining, count, deleted, tally, outcome,
                 signalled, actions>>

\* An administrator deletes a rule, whoever made it.
RuleFlushed ==
  /\ \E q \in rules : rules' = rules \ {q}
  /\ UNCHANGED <<tool, handles, chain, ps, request, doing, remaining, count, deleted, tally,
                 outcome, signalled, actions>>

-----------------------------------------------------------------------------
(* Execute *)

Ends(result) ==
  /\ doing' = "idle" /\ outcome' = result /\ UNCHANGED request

\* The guards of Execute and of the parsers, one request at a time; expiry is in
\* ResponseActions.
Rejected(r) ==
  \/ r.id <= 0 \/ ~r.profile \/ ~r.mine
  \/ r.type = "kill" /\ r.name = "" /\ r.pid <= 1
  \/ r.type \in {"block", "unblock"} /\ r.proto # "" /\ r.port = 0
  \/ r.type \in {"block", "unblock"} /\ tool = "none" /\ ~r.dry
  \/ r.type \notin {"kill", "block", "unblock", "shell"}

\* A dry run of a firewall action only tells what it would do; one of a kill
\* resolves its targets all the same, and there is none of a command.
EndsDry(r) == r.dry /\ r.type \in {"block", "unblock"}

\* Where an accepted request begins.
FirstStep(r) ==
  CASE r.type = "kill"  -> "resolve"
    [] r.type = "shell" -> "shell"
    [] r.type = "block" -> IF tool = "nft" THEN "chain" ELSE "add"
    [] OTHER            -> IF tool = "nft" THEN "list" ELSE "scoped"

Execute ==
  /\ doing = "idle" /\ actions < MaxActions /\ actions' = actions + 1
  /\ remaining' = {} /\ count' = 0 /\ deleted' = {} /\ tally' = 0
  /\ \E r \in Requests :
       IF Rejected(r) \/ EndsDry(r)
         THEN /\ outcome' = IF Rejected(r) THEN "failed" ELSE "success"
              /\ request' = {} /\ UNCHANGED doing
         ELSE request' = {r} /\ doing' = FirstStep(r) /\ outcome' = "none"
  /\ UNCHANGED <<fw, ps, signalled>>

FailsNow ==
  /\ Ends("failed")
  /\ UNCHANGED <<fw, ps, remaining, count, deleted, tally, signalled, actions>>

-----------------------------------------------------------------------------
(* kill_process *)

\* Mutant: a name that the parent matches is no reason to refuse.
ByNameOnly(r) == r.name = "" /\ r.pid \in {Self, Parent}

\* resolveKillTargets refuses the agent and its parent; by name, the agent is
\* left out and a match of the parent refuses all.
Protected(r) ==
  IF r.name = "" THEN r.pid \in {Self, Parent} ELSE Name[Parent] = r.name

Targets(r) ==
  IF r.name = "" THEN {r.pid}
  ELSE {p \in Pids \ {1, Self} : born[p] # 0 /\ Name[p] = r.name}

Resolve ==
  /\ doing = "resolve"
  /\ \E r \in request :
       IF Protected(r) THEN FailsNow
       ELSE /\ remaining' = (IF r.dry THEN {} ELSE Targets(r)) /\ doing' = "kill"
            /\ UNCHANGED <<fw, ps, request, count, deleted, tally, outcome, signalled, actions>>

\* One Kill after the other, of whichever process has the pid by now; a pid that
\* is free, or a process that may not be signalled, is an entry of the result's
\* errors and the action is a success.
Kill ==
  /\ doing = "kill" /\ remaining # {}
  /\ LET p == CHOOSE p \in remaining : \A q \in remaining : p <= q IN
     /\ remaining' = remaining \ {p}
     /\ \/ UNCHANGED <<born, signalled>>
        \/ /\ born[p] # 0 /\ signalled' = signalled \cup {<<p, born[p]>>}
           /\ born' = [born EXCEPT ![p] = 0]
  /\ UNCHANGED <<fw, births, request, doing, count, deleted, tally, outcome, actions>>

KillEnds ==
  /\ doing = "kill" /\ remaining = {} /\ Ends("success")
  /\ UNCHANGED <<fw, ps, remaining, count, deleted, tally, signalled, actions>>

-----------------------------------------------------------------------------
(* block_outbound_ip *)

Scoped(r) == <<r.label, r.ip, r.port>>
Legacy(r) == <<r.label>>

\* ensureNftChain: looking for the chain, adding the table and adding the chain may
\* fail.
EnsureChain ==
  /\ doing = "chain"
  /\ \/ /\ doing' = "add" /\ chain' = TRUE
        /\ UNCHANGED <<tool, rules, handles, ps, request, remaining, count, deleted, tally,
                       outcome, signalled, actions>>
     \/ FailsNow

\* The rule is appended, also next to an equal one; a command killed for its
\* time limit fails with the rule in place.
AddRule ==
  /\ doing = "add"
  /\ \E r \in request :
       \/ FailsNow
       \/ /\ handles' = handles + 1
          /\ rules' = rules \cup {[handle |-> handles + 1, ip |-> r.ip, port |-> r.port,
                                   comment |-> Scoped(r)]}
          /\ \/ Ends("success") \/ Ends("failed")
          /\ UNCHANGED <<tool, chain, ps, remaining, count, deleted, tally, signalled, actions>>

-----------------------------------------------------------------------------
(* unblock_outbound_ip *)

\* Mutant: -D does not name the port.
SameAddress(rule, r) == rule.ip = r.ip

SameTarget(rule, r) == rule.ip = r.ip /\ rule.port = r.port

\* The comment of the rule that -D names.
Sought(r) == IF doing = "scoped" THEN Scoped(r) ELSE Legacy(r)

\* iptablesDeleteComment: -D takes away the first rule that is exactly this one,
\* up to MaxDeletes of them, first with the scoped comment and then with the
\* label alone.
DeleteNext(now, next) ==
  /\ doing = now
  /\ \E r \in request :
       LET own == {q \in rules : SameTarget(q, r) /\ q.comment = Sought(r)} IN
       IF own # {} /\ count < MaxDeletes
         THEN /\ LET q == CHOOSE q \in own : \A o \in own : q.handle <= o.handle IN
                 rules' = rules \ {q} /\ deleted' = deleted \cup {q}
              /\ count' = count + 1 /\ tally' = tally + 1
              /\ UNCHANGED <<tool, handles, chain, ps, request, doing, remaining, outcome,
                             signalled, actions>>
         ELSE /\ IF next = "end" THEN Ends("success")
                 ELSE doing' = next /\ UNCHANGED <<request, outcome>>
              /\ count' = 0
              /\ UNCHANGED <<fw, ps, remaining, deleted, tally, signalled, actions>>

DeleteScoped == DeleteNext("scoped", "legacy")
DeleteLegacy == DeleteNext("legacy", "end")

\* A command that fails for another reason ends the action; one killed for its
\* time limit may have deleted its rule.
DeleteFails ==
  \/ doing \in {"scoped", "legacy"} /\ FailsNow
  \/ \E r \in request, q \in rules :
       /\ doing \in {"scoped", "legacy"} /\ SameTarget(q, r) /\ q.comment = Sought(r)
       /\ rules' = rules \ {q} /\ deleted' = deleted \cup {q} /\ Ends("failed")
       /\ UNCHANGED <<tool, handles, chain, ps, remaining, count, tally, signalled, actions>>

\* strings.Contains on the listed rule: an address or a port also matches a
\* longer one that begins with it.
Contains(whole, part) == whole = part \/ <<part, whole>> \in Longer

\* parseLegacyNftHandles; without a port every port matches.
LegacyMatch(rule, r) ==
  /\ rule.comment = Legacy(r)
  /\ Contains(rule.ip, r.ip)
  /\ r.port = 0 \/ Contains(rule.port, r.port)

\* nftDeleteByComment lists the chain; one that does not exist has no rules.
ListChain ==
  /\ doing = "list"
  /\ \/ FailsNow
     \/ \E r \in request :
          /\ remaining' = {q.handle : q \in {q \in rules : q.comment = Scoped(r) \/ LegacyMatch(q, r)}}
          /\ doing' = "delete"
          /\ UNCHANGED <<fw, ps, request, count, deleted, tally, outcome,
                         signalled, actions>>

\* One deletion by handle; its failure is not counted and not an error.
DeleteHandle ==
  /\ doing = "delete" /\ remaining # {}
  /\ LET h == CHOOSE h \in remaining : \A g \in remaining : h <= g IN
     /\ remaining' = remaining \ {h}
     /\ \/ UNCHANGED <<rules, deleted, tally>>
        \/ /\ \E q \in rules : q.handle = h
           /\ rules' = {q \in rules : q.handle # h}
           /\ deleted' = deleted \cup {q \in rules : q.handle = h}
           /\ tally' \in {tally + 1, tally}
  /\ UNCHANGED <<tool, handles, chain, ps, request, doing, count, outcome, signalled, actions>>

DeleteEnds ==
  /\ doing = "delete" /\ remaining = {} /\ Ends("success")
  /\ UNCHANGED <<fw, ps, remaining, count, deleted, tally, signalled, actions>>

-----------------------------------------------------------------------------
(* run_shell_command *)

\* The resolved executable is on the local allowlist, and there is one.
shellCommandAllowed(r) == ShellOn /\ r.exe \in ShellAllowed

\* The command runs and ends, with whatever status, or is killed with its group
\* after its time limit.
RunShell ==
  /\ doing = "shell"
  /\ \E r \in request :
       IF ~shellCommandAllowed(r) THEN FailsNow
       ELSE /\ \/ Ends("success") \/ Ends("failed")
            /\ UNCHANGED <<fw, ps, remaining, count, deleted, tally, signalled, actions>>

-----------------------------------------------------------------------------
HANext ==
  \/ \E p \in Pids : ProcessEnds(p) \/ ProcessStarts(p)
  \/ RuleFlushed
  \/ Execute \/ Resolve \/ Kill \/ KillEnds
  \/ EnsureChain \/ AddRule
  \/ DeleteScoped \/ DeleteLegacy \/ DeleteFails
  \/ ListChain \/ DeleteHandle \/ DeleteEnds
  \/ RunShell

HASpec == HAInit /\ [][HANext]_haVars

-----------------------------------------------------------------------------
(* Properties. *)

\* Whatever has changed on the host since the targets were resolved, by pid or
\* by name, init, the agent and its parent are never signalled.
NeverSignalsItself == \A s \in signalled : s[1] \notin {1, Self, Parent}

\* The rule is one that the request is for, of this agent or of one before it
\* that did not put a digest into the comment.
IsFor(rule, r) ==
  rule.ip = r.ip /\ rule.port = r.port /\ rule.comment \in {Scoped(r), Legacy(r)}

\* The exception: nft lists a rule without a digest under the request's label, and
\* the text of its address begins with the request's.
LegacyByText(rule, r) ==
  tool = "nft" /\ rule.comment = Legacy(r) /\ Contains(rule.ip, r.ip)

\* An unblock deletes only rules for exactly its address and port, whatever the
\* chain has under the same label, but for rules without a digest that nft lists
\* (see LegacyUnblockIsScoped); it never reports a removal it did not make; and a
\* success on iptables leaves no rule of its target, unless there were as many as
\* one pass deletes.
UnblockIsExact ==
  \A r \in request : r.type = "unblock" =>
    /\ \A q \in deleted : IsFor(q, r) \/ LegacyByText(q, r)
    /\ tally <= Cardinality(deleted)
    /\ outcome = "success" /\ tool = "iptables" =>
         Cardinality(deleted) >= MaxDeletes \/ \A q \in rules : ~IsFor(q, r)

\* What TestLegacyNftHandleMatchingIsScopedToTheRuleTarget expects of
\* parseLegacyNftHandles: the rules without a digest that an unblock deletes are
\* those of its target.
LegacyUnblockIsScoped ==
  \A r \in request : r.type = "unblock" =>
    \A q \in deleted : q.ip = r.ip /\ (r.port # 0 => q.port = r.port)
=============================================================================

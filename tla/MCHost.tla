------------------------------- MODULE MCHost -------------------------------
(***************************************************************************)
(* One instance for the parts of the agent that act on the host and share  *)
(* no state with each other: firewall and process actions, quarantine,     *)
(* topology discovery, file integrity monitoring, the remote configuration *)
(* with the loops that follow it, the package scripts, and the spool's     *)
(* directory on a disk whose operations fail.  "part" is chosen once; that *)
(* part runs with everything that its module lets happen, and the others   *)
(* stand still.                                                            *)
(***************************************************************************)
EXTENDS Quarantine, HostActions, Discovery, Fim, RuntimeConfig, Releases, Spool

CONSTANTS f1, f2

VARIABLE part

hostVars == <<part, qVars, haVars, discVars, fimVars, rcVars, relVars, vars>>

-----------------------------------------------------------------------------
(* Constants *)

\* Requests: by pid and by name; blocks of two addresses, one the beginning of
\* the other, with and without a port; a refused one, a dry run and a command.
Ask(t) == [id |-> 1, profile |-> TRUE, mine |-> TRUE, dry |-> FALSE, type |-> t,
           pid |-> 0, name |-> "", ip |-> 0, port |-> 0, proto |-> "", label |-> "l", exe |-> ""]
MCRequests ==
  {[Ask("kill") EXCEPT !.pid = p] : p \in {0 - 1, 3, 4}}
  \cup {[Ask("kill") EXCEPT !.name = n] : n \in {"sh", "w"}}
  \cup {[Ask(t) EXCEPT !.ip = a] : t \in {"block", "unblock"}, a \in {1, 12}}
  \cup {[Ask("unblock") EXCEPT !.ip = 1, !.port = 1],
        [Ask("unblock") EXCEPT !.ip = 1, !.dry = TRUE], [Ask("kill") EXCEPT !.pid = 4, !.dry = TRUE],
        [Ask("shell") EXCEPT !.exe = "x"], [Ask("shell") EXCEPT !.exe = "y"]}
MCForeign ==
  {[handle |-> 1, ip |-> 1,  port |-> 1, comment |-> <<"l">>],
   [handle |-> 2, ip |-> 12, port |-> 0, comment |-> <<"l">>],
   [handle |-> 3, ip |-> 2,  port |-> 0, comment |-> <<"l">>]}
MCLonger == {<<1, 12>>}
MCName == <<"init", "agent", "sh", "w", "w">>

\* Networks: eight private addresses and eight public ones.
C(b, n) == [base |-> b, size |-> n, v6 |-> FALSE]
V6 == [base |-> 0, size |-> 8, v6 |-> TRUE]
P(on, public, max, cidrs) == [on |-> on, public |-> public, max |-> max, cidrs |-> cidrs]
MCLocal ==
  {P(TRUE, FALSE, 2, <<>>), P(TRUE, TRUE, 3, <<C(8, 2)>>), P(FALSE, FALSE, 1, <<>>)}
MCRemote ==
  {P(TRUE, TRUE, 0, <<>>), P(TRUE, TRUE, 9, <<C(8, 8)>>), P(TRUE, FALSE, 1, <<C(4, 4), C(6, 2)>>),
   P(FALSE, FALSE, 0, <<>>)}
MCPrivate == {C(0, 8), V6}
MCHostCidrs == <<C(8, 4), C(0, 8), V6>>
MCDeny == {C(5, 1), V6}

MCWatch == <<"p", "q", "p">>

\* Configurations: one without a revision, and two revisions, the second with two
\* contents, one of which has the token of the first configuration.
Config(rev, off, token) == [rev |-> rev, off |-> off, token |-> token]
MCConfigs ==
  {Config(0, {}, 1), Config(1, {"syscollector"}, 2),
   Config(2, {}, 1), Config(2, {"syscollector"}, 0)}
MCLoops == {"vuln", "syscollector"}

\* Packages: three versions.
MCOffered == {<<1, 1>>, <<2, 1>>, <<3, 1>>}

\* A spool of two entries of which its limits let one stay.
MCEntries == {1, 2}
MCPrio == [n \in MCEntries |-> n - 1]
MCSize == [n \in MCEntries |-> n]

-----------------------------------------------------------------------------

\* The parts that stand still have one initial state.
HostInit ==
  /\ part \in {"quarantine", "actions", "discovery", "fim", "config", "releases", "spool"}
  /\ QInit /\ HAInit /\ DiscInit /\ FimInit /\ RCInit /\ RelInit /\ Init
  /\ part # "quarantine" => at = {}
  /\ part # "actions" => tool = "nft" /\ rules = {}
  /\ part # "discovery" => ~policy.on
  /\ \A x \in fsFiles["p"] : x.content = "c1" /\ x.attr = "a"
  /\ part # "releases" => bin = NoBuild

Only(p) ==
  /\ part = p /\ UNCHANGED part
  /\ p # "quarantine" => UNCHANGED qVars
  /\ p # "actions" => UNCHANGED haVars
  /\ p # "discovery" => UNCHANGED discVars
  /\ p # "fim" => UNCHANGED fimVars
  /\ p # "config" => UNCHANGED rcVars
  /\ p # "releases" => UNCHANGED relVars
  /\ p # "spool" => UNCHANGED vars

HostNext ==
  \/ Only("quarantine") /\ QNext
  \/ Only("actions") /\ HANext
  \/ Only("discovery") /\ DiscNext
  \/ Only("fim") /\ FimNext
  \/ Only("config") /\ RCNext
  \/ Only("releases") /\ RelNext
  \/ Only("spool") /\ Next

HostSpec == HostInit /\ [][HostNext]_hostVars
=============================================================================

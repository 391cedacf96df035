--------------------------- MODULE Compatibility ---------------------------
(***************************************************************************)
(* Protocol negotiation and the end of a service that is not compatible:   *)
(* protocol/version.go, Heartbeat of internal/controlplane/client.go,      *)
(* verifyCompatibility and fail of internal/runtime/service.go, the        *)
(* heartbeat goroutine and the main loop.                                  *)
(*                                                                         *)
(* The service asks once before it starts the collectors and then with     *)
(* every heartbeat.  An incompatibility found by the heartbeat goroutine   *)
(* is handed to the main loop in a channel before the context is           *)
(* cancelled; a signal may cancel the context at any time as well, and the *)
(* service manager starts the process again.                               *)
(*                                                                         *)
(* What the server answers is a record: min and max its protocols, smin,   *)
(* smax and schema its event schemas (0: not given), version its own; or   *)
(* one of the strings below for an answer without a descriptor.            *)
(***************************************************************************)
EXTENDS Integers

CONSTANTS
  Version, EventSchemaVersion, MinEventSchema, MaxEventSchema,  \* of this agent
  Descriptors,   \* descriptors a server may answer with
  MaxUpgrades,   \* bound: changes of the server
  MaxRuns        \* bound: starts of the agent

VARIABLES
  server,      \* what the server answers: {d}, or {} for an upgrade-required status
  upgrades,
  main,        \* "off", "verify", "recover", "verify again", "loop" or "exited"
  beat,        \* heartbeat goroutine: "off", "wait", "report" or "cancel"
  fatal,       \* s.fatal holds the error
  cancelled,   \* rootCtx is done
  status,      \* how the last run ended: "none", "nil" or "error"
  met,         \* history: the heartbeat met an incompatibility in this run
  signalledFirst,  \* history: a signal came before it was handed over
  verified,    \* history: an answer was judged before the collectors started
  runs

coVars == <<server, upgrades, main, beat, fatal, cancelled, status, met,
            signalledFirst, verified, runs>>

ASSUME VersionAssumption ==
  /\ Version \in Nat \ {0}
  /\ MaxEventSchema \in Nat /\ MinEventSchema \in 1 .. MaxEventSchema
  /\ EventSchemaVersion = MaxEventSchema
ASSUME DescriptorsAssumption ==
  \A d \in Descriptors :
    /\ d.version \in Int /\ d.min \in Int /\ d.max \in Int
    /\ d.schema \in Int /\ d.smin \in Int /\ d.smax \in Int
ASSUME CompatibilityBounds == MaxUpgrades \in Nat /\ MaxRuns \in Nat \ {0}

-----------------------------------------------------------------------------
(* Negotiate *)

\* A range that is not given at all is the single version, if there is one.
RangeOf(lo, hi, single) ==
  IF lo <= 0 /\ hi <= 0 /\ single > 0 THEN <<single, single>> ELSE <<lo, hi>>

Usable(r) == r[1] > 0 /\ r[2] > 0 /\ r[1] <= r[2]

\* The server's event schemas; without any statement, those of this agent.
SchemaOf(d) ==
  IF d.smin <= 0 /\ d.smax <= 0 /\ d.schema <= 0 THEN EventSchemaVersion ELSE d.schema

\* Mutant: the lower end of the server's schemas is not looked at.
UpperEndOnly(r) == MinEventSchema <= r[2]

\* The agent and the server have an event schema in common.
Overlap(r) == MaxEventSchema >= r[1] /\ MinEventSchema <= r[2]

Negotiate(d) ==
  LET protocols == RangeOf(d.min, d.max, d.version)
      schemas   == RangeOf(d.smin, d.smax, SchemaOf(d)) IN
  /\ Usable(protocols) /\ protocols[1] <= Version /\ Version <= protocols[2]
  /\ Usable(schemas)
  /\ SchemaOf(d) > 0 => schemas[1] <= SchemaOf(d) /\ SchemaOf(d) <= schemas[2]
  /\ Overlap(schemas)

\* The event schema in use after a negotiation that succeeded.
NegotiatedSchema(d) ==
  LET hi == RangeOf(d.smin, d.smax, SchemaOf(d))[2] IN
  IF EventSchemaVersion > hi THEN hi ELSE EventSchemaVersion

\* Heartbeat: status 426, or a descriptor that Negotiate refuses.  An answer
\* without a descriptor, or one whose version is not positive, is accepted.
Incompatible == server = {} \/ \E d \in server : d.version > 0 /\ ~Negotiate(d)

-----------------------------------------------------------------------------
(* The service *)

COInit ==
  /\ server \in {{d} : d \in Descriptors} \cup {{}} /\ upgrades = 0
  /\ main = "off" /\ beat = "off" /\ fatal = FALSE
  /\ cancelled = FALSE /\ status = "none" /\ met = FALSE /\ signalledFirst = FALSE
  /\ verified = FALSE /\ runs = 0

\* External: the server is replaced by another version.
Upgrade ==
  /\ upgrades < MaxUpgrades /\ upgrades' = upgrades + 1
  /\ server' \in {{d} : d \in Descriptors} \cup {{}}
  /\ UNCHANGED <<main, beat, fatal, cancelled, status, met, signalledFirst,
                 verified, runs>>

\* SIGTERM or SIGINT.
Signal ==
  /\ main \notin {"off", "exited"} /\ ~cancelled /\ cancelled' = TRUE
  /\ signalledFirst' = ~fatal
  /\ UNCHANGED <<server, upgrades, main, beat, fatal, status, met, verified, runs>>

\* main, New and Run up to verifyCompatibility; Restart=always.
StartAgent ==
  /\ main \in {"off", "exited"} /\ runs < MaxRuns /\ runs' = runs + 1
  /\ main' = "verify" /\ beat' = "off" /\ fatal' = FALSE
  /\ cancelled' = FALSE /\ status' = "none" /\ met' = FALSE
  /\ signalledFirst' = FALSE /\ verified' = FALSE
  /\ UNCHANGED <<server, upgrades>>

Exit(how) ==
  /\ main' = "exited" /\ beat' = "off" /\ status' = how
  /\ UNCHANGED <<server, upgrades, fatal, cancelled, met, signalledFirst,
                 verified, runs>>

\* Mutant: an incompatibility is logged like any other error.
LogOnly == FALSE

\* errors.As: the error of a heartbeat is an incompatibility, which ends the
\* service.
IsIncompatibility == Incompatible

\* The answer to the first heartbeat is judged.
Answered ==
  IF IsIncompatibility THEN Exit("error")
  ELSE /\ main' = "loop" /\ beat' = "wait" /\ verified' = TRUE
       /\ UNCHANGED <<server, upgrades, fatal, cancelled, status, met,
                      signalledFirst, runs>>

Verify == main = "verify" /\ ~cancelled /\ Answered

\* Any other error: the identity is recovered, see Enrollment.
VerifyFails ==
  /\ main = "verify" /\ main' = "recover"
  /\ UNCHANGED <<server, upgrades, beat, fatal, cancelled, status, met,
                 signalledFirst, verified, runs>>

\* The credential has changed and the heartbeat is sent again.
NewCredential ==
  /\ main = "recover" /\ main' = "verify again"
  /\ UNCHANGED <<server, upgrades, beat, fatal, cancelled, status, met,
                 signalledFirst, verified, runs>>

VerifyAgain == main = "verify again" /\ ~cancelled /\ Answered

\* No new credential, or a second failure: the collectors start unverified.
Unverified ==
  /\ main \in {"recover", "verify again"}
  /\ main' = "loop" /\ beat' = "wait"
  /\ UNCHANGED <<server, upgrades, fatal, cancelled, status, met,
                 signalledFirst, verified, runs>>

-----------------------------------------------------------------------------
(* The heartbeat goroutine and the main loop *)

\* Mutant: the context is cancelled first.
CancelFirst == "cancel"

\* What fail does first.
FirstOfFail == "report"

\* A heartbeat is answered; OnError meets the incompatibility.  A heartbeat that
\* fails otherwise, or is accepted, changes nothing here.
Beat ==
  /\ main = "loop" /\ beat = "wait" /\ ~cancelled /\ IsIncompatibility
  /\ beat' = FirstOfFail /\ met' = TRUE
  /\ UNCHANGED <<server, upgrades, main, fatal, cancelled, status,
                 signalledFirst, verified, runs>>

\* fail: s.fatal <- err, then s.stop().  It runs once: no heartbeat is sent when
\* the context is done.
Hands ==
  /\ main = "loop" /\ beat = "report" /\ fatal' = TRUE
  /\ beat' = IF FirstOfFail = "report" THEN "cancel" ELSE "wait"
  /\ UNCHANGED <<server, upgrades, main, cancelled, status, met, signalledFirst,
                 verified, runs>>

Cancels ==
  /\ main = "loop" /\ beat = "cancel" /\ cancelled' = TRUE
  /\ beat' = IF FirstOfFail = "cancel" THEN "report" ELSE "wait"
  /\ UNCHANGED <<server, upgrades, main, fatal, status, met, signalledFirst,
                 verified, runs>>

\* loop: case <-s.fatal.
LoopFatal == main = "loop" /\ fatal /\ Exit("error")

\* loop: case <-rootCtx.Done(), which looks into the channel once more.
LoopDone ==
  /\ main = "loop" /\ cancelled /\ Exit(IF fatal THEN "error" ELSE "nil")

CONext ==
  \/ Upgrade \/ Signal \/ StartAgent
  \/ Verify \/ VerifyFails \/ NewCredential \/ VerifyAgain \/ Unverified
  \/ Beat \/ Hands \/ Cancels \/ LoopFatal \/ LoopDone

\* Without fairness, for what is proved of every behaviour.
COSpec == COInit /\ [][CONext]_coVars

-----------------------------------------------------------------------------
(* Properties. *)

\* What compatible means, from the ranges alone: the server takes the agent's
\* protocol, and there is an event schema both sides know.
Compatible(d) ==
  /\ Version \in RangeOf(d.min, d.max, d.version)[1] .. RangeOf(d.min, d.max, d.version)[2]
  /\ \E s \in MinEventSchema .. MaxEventSchema :
       LET r == RangeOf(d.smin, d.smax, SchemaOf(d)) IN s \in r[1] .. r[2]

\* A server that was verified is compatible and the negotiated event schema is
\* one that both sides know, however the ranges are given or left out.
VerifiedIsCompatible ==
  verified /\ upgrades = 0 =>
    \A d \in server : d.version > 0 =>
      /\ Compatible(d)
      /\ NegotiatedSchema(d) \in MinEventSchema .. MaxEventSchema
      /\ LET r == RangeOf(d.smin, d.smax, SchemaOf(d)) IN NegotiatedSchema(d) \in r[1] .. r[2]

\* Unsupported combinations fail explicitly: a run in which the heartbeat met an
\* incompatibility does not end as if nothing had happened, although the main
\* loop may see the cancelled context first; only a signal may come before it.
ExitTellsIncompatibility ==
  main = "exited" /\ met /\ status = "nil" => signalledFirst

\* A server that becomes incompatible and stays so stops the service, also one
\* that started unverified.
IncompatibleIsStopped ==
  [](Incompatible /\ main = "loop" => <>(main = "exited" \/ ~Incompatible))
=============================================================================

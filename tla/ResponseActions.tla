-------------------------- MODULE ResponseActions --------------------------
(***************************************************************************)
(* Response actions in the managed profile: the poller                     *)
(* (responseactions/poller.go), the stage (stage.go), the durable journal  *)
(* (journal.go) and the executor loop that ties them together              *)
(* (runtime/controlplane.go, processResponseActions).                      *)
(*                                                                         *)
(* Three actors interleave.  The poller goroutine fetches the list of      *)
(* pending actions and stages it some time later.  The executor goroutine  *)
(* runs cycles: report the results left in the journal, take up the        *)
(* actions accepted earlier, then accept staged ones.  The server, which   *)
(* is external, issues actions, lists those without a final result, and    *)
(* may process a report whose answer is lost.  The agent may crash between *)
(* any two steps, and the journal is all that survives.  A journal write   *)
(* that fails stops the service, which is a crash to this model.           *)
(*                                                                         *)
(* Stage and Stage.Next keep their lock while they go through a list; here *)
(* they go entry by entry, which only adds interleavings.  Actions for     *)
(* another agent, which Stage drops on sight, are left out, and the byte   *)
(* limit of the journal is folded into its record limit.                   *)
(***************************************************************************)
EXTENDS Naturals, Sequences, FiniteSets

CONSTANTS
  Actions,     \* response action ids
  StageMax,    \* stage capacity
  HandledMax,  \* length of the stage's memory of handled ids
  MaxRecords,  \* journal capacity
  CycleMax,    \* records or staged actions one cycle goes through (8)
  MaxCrashes   \* bound: crashes of the agent

ASSUME ActionsAssumption == IsFiniteSet(Actions)
ASSUME LimitsAssumption  ==
  /\ StageMax \in Nat \ {0} /\ HandledMax \in Nat \ {0}
  /\ MaxRecords \in Nat \ {0} /\ CycleMax \in Nat \ {0} /\ MaxCrashes \in Nat

None == "none"

VARIABLES
  \* server
  srv,        \* "unissued", "pending", "running" or "done"
  srvResult,  \* the final result the server holds
  expired,    \* actions past their expires_at
  \* journal (on disk)
  phase, result, started, begins,
  late,       \* actions accepted after their expires_at
  \* stage and poller
  items, order, handled, fetched, polling,
  \* executor
  up, pc, mode, work, cur,
  quota,      \* staged actions the cycle may still take
  \* history
  execs,      \* times each action's side effects were run
  outdated,   \* actions whose side effects were run after they had expired
  forgotten,  \* actions that ever fell out of the stage's memory of handled ids
  crashes

server   == <<srv, srvResult, expired>>
journal  == <<phase, result, started, begins, late>>
stage    == <<items, order, handled>>
poller   == <<fetched, polling>>
executor == <<pc, mode, work, cur, quota>>
history  == <<execs, outdated, forgotten, crashes>>
vars     == <<server, journal, stage, poller, up, executor, history>>

Phases  == {"none", "accepted", "executing", "terminal"}
Results == {"success", "failed", "indeterminate"}

InJournal(p) == {a \in Actions : phase[a] = p}
Records      == {a \in Actions : phase[a] # None}
HandledSet   == {handled[i] : i \in DOMAIN handled}

\* Records come back sorted by the time they were accepted, the first CycleMax.
Oldest(S, a) == a \in S /\ \A b \in S : started[a] <= started[b]

\* Mutant: the list is cut one record short.
OneTooFew(S) == {a \in S : Cardinality({b \in S : started[b] < started[a]}) < CycleMax - 1}

FirstOf(S) == {a \in S : Cardinality({b \in S : started[b] < started[a]}) < CycleMax}

Init ==
  /\ srv = [a \in Actions |-> "unissued"]
  /\ srvResult = [a \in Actions |-> None] /\ expired = {}
  /\ phase = [a \in Actions |-> None] /\ result = [a \in Actions |-> None]
  /\ started = [a \in Actions |-> 0] /\ begins = 0 /\ late = {}
  /\ items = {} /\ order = <<>> /\ handled = <<>>
  /\ fetched = {} /\ polling = FALSE
  /\ up = TRUE /\ pc = "idle" /\ mode = None /\ work = {} /\ cur = None
  /\ quota = 0
  /\ execs = [a \in Actions |-> 0] /\ outdated = {} /\ forgotten = {}
  /\ crashes = 0

-----------------------------------------------------------------------------
(* Server and clock. *)

Issue(a) ==
  /\ srv[a] = "unissued"
  /\ srv' = [srv EXCEPT ![a] = "pending"]
  /\ UNCHANGED <<srvResult, expired, journal, stage, poller, up, executor, history>>

Expire(a) ==
  /\ a \notin expired /\ srv[a] # "unissued"
  /\ expired' = expired \cup {a}
  /\ UNCHANGED <<srv, srvResult, journal, stage, poller, up, executor, history>>

-----------------------------------------------------------------------------
(* Poller: StartPolling and Stage. *)

\* The list of actions without a final result, as of now; it is staged later.
Fetch ==
  /\ up /\ ~polling
  /\ polling' = TRUE
  /\ fetched' = {a \in Actions : srv[a] \in {"pending", "running"}}
  /\ UNCHANGED <<server, journal, stage, up, executor, history>>

\* Whether Stage adds an action of the list.
Admissible(a) == a \notin expired /\ a \notin items /\ a \notin HandledSet

StageIgnore(a) ==
  /\ up /\ a \in fetched /\ ~Admissible(a)
  /\ fetched' = fetched \ {a}
  /\ UNCHANGED <<server, journal, stage, polling, up, executor, history>>

StageFull == Cardinality(items) >= StageMax

StageAdd(a) ==
  /\ up /\ a \in fetched /\ Admissible(a)
  /\ ~StageFull
  /\ items' = items \cup {a} /\ order' = Append(order, a)
  /\ fetched' = fetched \ {a}
  /\ UNCHANGED <<server, journal, handled, polling, up, executor, history>>

\* A full stage drops its oldest entry for the new one.
StageReplace(a) ==
  /\ up /\ a \in fetched /\ Admissible(a)
  /\ StageFull
  /\ \E k \in DOMAIN order :
       /\ order[k] \in items /\ \A j \in 1 .. (k - 1) : order[j] \notin items
       /\ items' = (items \ {order[k]}) \cup {a}
       /\ order' = Append(SubSeq(order, k + 1, Len(order)), a)
  /\ fetched' = fetched \ {a}
  /\ UNCHANGED <<server, journal, handled, polling, up, executor, history>>

EndPoll ==
  /\ up /\ polling /\ fetched = {}
  /\ polling' = FALSE
  /\ UNCHANGED <<server, journal, stage, fetched, up, executor, history>>

-----------------------------------------------------------------------------
(* Executor: the cycle. *)

\* Mutant: handled ids are not remembered.
Unremembered(h, a) == h

\* markHandledLocked: remember the id, forget the oldest beyond HandledMax.
Remember(h, a) ==
  IF \E i \in DOMAIN h : h[i] = a THEN h
  ELSE IF Len(h) < HandledMax THEN Append(h, a) ELSE Tail(Append(h, a))

\* The outcome of remembering the ids of h one after the other.
Latest(h) == IF Len(h) <= HandledMax THEN h
             ELSE SubSeq(h, Len(h) - HandledMax + 1, Len(h))

\* History: of the ids in S, those the memory no longer has after this step.
Forgets(S) == forgotten' = forgotten \cup (S \ HandledSet')

\* Reports reach the server or not, and the answer comes back or not.
Delivered(a, s, r) ==
  /\ srv' = [srv EXCEPT ![a] = IF @ = "done" THEN @ ELSE s]
  /\ srvResult' = [srvResult EXCEPT ![a] = IF @ = None THEN r ELSE @]
  /\ UNCHANGED expired

StartCycle ==
  /\ up /\ pc = "idle"
  /\ pc' = "loop" /\ mode' = "terminal" /\ work' = FirstOf(InJournal("terminal"))
  /\ UNCHANGED <<server, journal, stage, poller, up, cur, quota, history>>

\* Terminal records done: on to the accepted ones, then to the stage.
NextMode ==
  /\ up /\ pc = "loop" /\ mode \in {"terminal", "accepted"} /\ work = {}
  /\ mode' = IF mode = "terminal" THEN "accepted" ELSE "staged"
  /\ work' = IF mode = "terminal" THEN FirstOf(InJournal("accepted")) ELSE {}
  /\ quota' = IF mode = "terminal" THEN 0 ELSE CycleMax
  /\ UNCHANGED <<server, journal, stage, poller, up, pc, cur, history>>

\* The next record of the list read from the journal.
TakeRecord ==
  /\ up /\ pc = "loop"
  /\ \E a \in work :
       /\ Oldest(work, a)
       /\ cur' = a /\ work' = work \ {a}
       /\ pc' = IF mode = "terminal" THEN "report" ELSE "running"
  /\ UNCHANGED <<server, journal, stage, poller, up, mode, quota, history>>

\* The loop over Stage.Next, not yet through its quota.
MayTake == up /\ pc = "loop" /\ mode = "staged" /\ quota > 0 /\ order # <<>>

\* Stage.Next on an entry that is gone or has expired.
SkipStaged ==
  /\ MayTake
  /\ LET a == Head(order) IN
     /\ a \notin items \/ a \in expired
     /\ handled' = IF a \in items THEN Remember(handled, a) ELSE handled
     /\ items' = items \ {a}
  /\ order' = Tail(order)
  /\ Forgets(HandledSet)
  /\ UNCHANGED <<server, journal, poller, up, executor, execs, outdated, crashes>>

\* Stage.Next on an entry to be handled.
TakeStaged ==
  /\ MayTake
  /\ Head(order) \in items \ expired
  /\ cur' = Head(order) /\ pc' = "begin" /\ quota' = quota - 1
  /\ items' = items \ {Head(order)} /\ order' = Tail(order)
  /\ UNCHANGED <<server, journal, handled, poller, up, mode, work, history>>

\* Back to idle until the next tick.
Idle == pc' = "idle" /\ mode' = None /\ work' = {} /\ cur' = None /\ quota' = 0

\* Nothing staged, or CycleMax actions taken in this cycle.
EndCycle ==
  /\ up /\ pc = "loop" /\ mode = "staged" /\ (order = <<>> \/ quota = 0)
  /\ Idle
  /\ UNCHANGED <<server, journal, stage, poller, up, history>>

\* ensureCapacityLocked.
JournalFull == Cardinality(Records) >= MaxRecords

\* Journal.Begin.
BeginExists ==
  /\ up /\ pc = "begin" /\ phase[cur] # None
  /\ items' = items \ {cur} /\ handled' = Remember(handled, cur)
  /\ Forgets(HandledSet)
  /\ pc' = "loop" /\ cur' = None
  /\ UNCHANGED <<server, journal, order, poller, up, mode, work, quota, execs, outdated,
                 crashes>>

\* A full journal ends the cycle; the action is left to a later poll.
BeginFull ==
  /\ up /\ pc = "begin" /\ phase[cur] = None
  /\ JournalFull
  /\ Idle
  /\ UNCHANGED <<server, journal, stage, poller, up, history>>

Begin ==
  /\ up /\ pc = "begin" /\ phase[cur] = None
  /\ ~JournalFull
  /\ phase' = [phase EXCEPT ![cur] = "accepted"]
  /\ started' = [started EXCEPT ![cur] = begins + 1] /\ begins' = begins + 1
  /\ late' = IF cur \in expired THEN late \cup {cur} ELSE late
  /\ pc' = "handled"
  /\ UNCHANGED <<server, result, stage, poller, up, mode, work, cur, quota, history>>

MarkHandled ==
  /\ up /\ pc = "handled"
  /\ items' = items \ {cur} /\ handled' = Remember(handled, cur)
  /\ Forgets(HandledSet)
  /\ pc' = "running"
  /\ UNCHANGED <<server, journal, order, poller, up, mode, work, cur, quota, execs, outdated,
                 crashes>>

-----------------------------------------------------------------------------
(* Executor: one accepted action (executeAcceptedResponseAction). *)

\* The "running" report succeeds.
ReportRunning ==
  /\ up /\ pc = "running"
  /\ Delivered(cur, "running", None)
  /\ pc' = "mark"
  /\ UNCHANGED <<journal, stage, poller, up, mode, work, cur, quota, history>>

\* It fails for all the agent knows; the action stays accepted.
ReportRunningFails ==
  /\ up /\ pc = "running"
  /\ Delivered(cur, "running", None) \/ UNCHANGED server
  /\ pc' = "loop" /\ cur' = None
  /\ UNCHANGED <<journal, stage, poller, up, mode, work, quota, history>>

MarkExecuting ==
  /\ up /\ pc = "mark" /\ phase[cur] = "accepted"
  /\ phase' = [phase EXCEPT ![cur] = "executing"]
  /\ pc' = "execute"
  /\ UNCHANGED <<server, result, started, begins, late, stage, poller, up, mode, work,
                 cur, quota, history>>

\* Execute.  It judges expiry by the time the action was accepted, and refuses
\* one that had expired by then without running it.
ExecuteRefuses ==
  /\ up /\ pc = "execute" /\ cur \in late
  /\ pc' = "complete"
  /\ UNCHANGED <<server, journal, stage, poller, up, mode, work, cur, quota, history>>

Execute ==
  /\ up /\ pc = "execute" /\ cur \notin late
  /\ execs' = [execs EXCEPT ![cur] = @ + 1]
  /\ outdated' = IF cur \in expired THEN outdated \cup {cur} ELSE outdated
  /\ pc' = "complete"
  /\ UNCHANGED <<server, journal, stage, poller, up, mode, work, cur, quota, forgotten,
                 crashes>>

\* Journal.Complete with the outcome of Execute.
Complete ==
  /\ up /\ pc = "complete" /\ phase[cur] = "executing"
  /\ phase' = [phase EXCEPT ![cur] = "terminal"]
  /\ \E r \in {"success", "failed"} :
       (cur \in late => r = "failed") /\ result' = [result EXCEPT ![cur] = r]
  /\ pc' = "report"
  /\ UNCHANGED <<server, started, begins, late, stage, poller, up, mode, work, cur, quota, history>>

-----------------------------------------------------------------------------
(* Executor: the final report (reportTerminalResponseAction). *)

ReportTerminal ==
  /\ up /\ pc = "report"
  /\ Delivered(cur, "done", result[cur])
  /\ pc' = "delete"
  /\ UNCHANGED <<journal, stage, poller, up, mode, work, cur, quota, history>>

\* A result that cannot be reported ends a cycle that is still at the results
\* left over; after an execution the cycle goes on.
ReportTerminalFails ==
  /\ up /\ pc = "report"
  /\ Delivered(cur, "done", result[cur]) \/ UNCHANGED server
  /\ IF mode = "terminal" THEN Idle
                         ELSE pc' = "loop" /\ cur' = None /\ UNCHANGED <<mode, work, quota>>
  /\ UNCHANGED <<journal, stage, poller, up, history>>

Delete ==
  /\ up /\ pc = "delete"
  /\ phase' = [phase EXCEPT ![cur] = None]
  /\ result' = [result EXCEPT ![cur] = None]
  /\ started' = [started EXCEPT ![cur] = 0]
  /\ pc' = "loop" /\ cur' = None
  /\ UNCHANGED <<server, begins, late, stage, poller, up, mode, work, quota, history>>

-----------------------------------------------------------------------------
(* Crash and restart. *)

Crash ==
  /\ up /\ crashes < MaxCrashes
  /\ crashes' = crashes + 1
  /\ up' = FALSE
  /\ items' = {} /\ order' = <<>> /\ handled' = <<>>
  /\ fetched' = {} /\ polling' = FALSE
  /\ Idle
  /\ UNCHANGED <<server, journal, execs, outdated, forgotten>>

\* Mutant: an execution cut short is forgotten.
ForgottenPhase(p) == IF p = "executing" THEN None ELSE p

\* Mutant: an execution of unknown outcome is reported as an ordinary failure.
PlainFailure(p, r) == IF p = "executing" THEN "failed" ELSE r

\* recover: what becomes of a record found in phase p with result r.
RecoveredPhase(p)     == IF p = "executing" THEN "terminal" ELSE p
RecoveredResult(p, r) == IF p = "executing" THEN "indeterminate" ELSE r

\* NewJournal recovers executions of unknown outcome, and New marks every
\* journalled action as handled, oldest first.
Restart ==
  /\ ~up /\ up' = TRUE
  /\ phase' = [a \in Actions |-> RecoveredPhase(phase[a])]
  /\ result' = [a \in Actions |-> RecoveredResult(phase[a], result[a])]
  /\ \E h \in [1 .. Cardinality(Records) -> Records] :
       /\ \A i, j \in DOMAIN h : i < j => started[h[i]] < started[h[j]]
       /\ handled' = Latest(h)
  /\ Forgets(Records)
  /\ UNCHANGED <<server, started, begins, late, items, order, poller, executor, execs,
                 outdated, crashes>>

Poll ==
  \/ Fetch \/ EndPoll
  \/ \E a \in Actions : StageIgnore(a) \/ StageAdd(a) \/ StageReplace(a)

Cycle ==
  \/ StartCycle \/ NextMode \/ TakeRecord \/ SkipStaged \/ TakeStaged \/ EndCycle
  \/ BeginExists \/ BeginFull \/ Begin \/ MarkHandled
  \/ ReportRunning \/ ReportRunningFails \/ MarkExecuting \/ ExecuteRefuses \/ Execute \/ Complete
  \/ ReportTerminal \/ ReportTerminalFails \/ Delete

Next ==
  \/ \E a \in Actions : Issue(a) \/ Expire(a)
  \/ Poll \/ Cycle
  \/ Crash \/ Restart

Spec == Init /\ [][Next]_vars

(***************************************************************************)
(* Both goroutines run on tickers, every request has a timeout, and the    *)
(* service is restarted.  The server takes a report that is sent again and *)
(* again.                                                                  *)
(***************************************************************************)
Fairness ==
  /\ WF_vars(Poll) /\ WF_vars(Cycle) /\ WF_vars(Restart)
  /\ SF_vars(ReportRunning) /\ SF_vars(ReportTerminal)

FairSpec == Spec /\ Fairness

-----------------------------------------------------------------------------
(* Properties. *)

Pcs == {"idle", "loop", "begin", "handled", "running", "mark", "execute",
        "complete", "report", "delete"}

TypeOK ==
  /\ srv \in [Actions -> {"unissued", "pending", "running", "done"}]
  /\ srvResult \in [Actions -> Results \cup {None}] /\ expired \subseteq Actions
  /\ phase \in [Actions -> Phases] /\ result \in [Actions -> Results \cup {None}]
  /\ started \in [Actions -> Nat] /\ begins \in Nat /\ late \subseteq Actions
  /\ items \subseteq Actions /\ order \in Seq(Actions) /\ handled \in Seq(Actions)
  /\ fetched \subseteq Actions /\ polling \in BOOLEAN
  /\ up \in BOOLEAN /\ pc \in Pcs
  /\ mode \in {None, "terminal", "accepted", "staged"}
  /\ work \subseteq Actions /\ cur \in Actions \cup {None} /\ quota \in 0 .. CycleMax
  /\ execs \in [Actions -> Nat] /\ outdated \subseteq Actions
  /\ forgotten \subseteq Actions /\ crashes \in Nat

\* Idempotent execution: the side effects of an action are run at most once,
\* whatever the poller fetched before the action was handled, whichever answer
\* was lost, and wherever the agent crashed.  The exception is an action whose
\* id fell out of the stage's bounded memory: a list fetched before it was done
\* may bring it back.
AtMostOnce == \A a \in Actions \ forgotten : execs[a] <= 1

\* No execution is forgotten: once its side effects were run, an action stays
\* in the journal until the server holds a result for it.
ExecutionIsReported ==
  \A a \in Actions :
    execs[a] > 0 => phase[a] \in {"executing", "terminal"} \/ srvResult[a] # None

\* The server is told the truth: a definite result stands for an execution
\* that ran to its end or for the refusal of an action accepted too late, and
\* the journal, while it still has the record, never contradicts the server.
ReportedResultIsTrue ==
  \A a \in Actions \ forgotten :
    /\ srvResult[a] = "success" => execs[a] = 1
    /\ srvResult[a] = "failed" => execs[a] = (IF a \in late THEN 0 ELSE 1)
    /\ srvResult[a] # None /\ phase[a] # None => result[a] = srvResult[a]

\* An action the server sees running is one the agent still knows of, and can
\* bring to a result after a restart.
RunningIsJournalled ==
  \A a \in Actions : srv[a] = "running" => phase[a] # None

\* The executor never loses a record it works on: the journal has the phase
\* each step expects (MarkExecuting and Complete would stop the service).
StepFindsItsPhase ==
  /\ pc \in {"handled", "running", "mark"} => phase[cur] = "accepted"
  /\ pc \in {"execute", "complete"} => phase[cur] = "executing"
  /\ pc \in {"report", "delete"} => phase[cur] = "terminal"

\* An expired action is refused by Execute ("action expired"), so its side
\* effects are never run after its expires_at.
ExpiredIsNotExecuted == outdated = {}

\* Every action gets a final result, or expires before it is taken up, even if
\* it was dropped from a full stage, met a full journal or a crash.
EveryActionSettles ==
  \A a \in Actions :
    srv[a] = "pending" ~> srv[a] = "done" \/ (a \in expired /\ phase[a] = None)
=============================================================================

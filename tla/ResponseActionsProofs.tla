----------------------- MODULE ResponseActionsProofs -----------------------
(***************************************************************************)
(* Proofs about response actions, for any number of actions and crashes    *)
(* and any capacity of the stage and the journal.                          *)
(***************************************************************************)
EXTENDS ResponseActions, FiniteSetTheorems, TLAPS

\* A step on an action has an action to work on.
CurOK == pc \notin {"idle", "loop"} => cur \in Actions

\* A stopped agent has nothing in memory.
DownOK ==
  ~up => pc = "idle" /\ work = {} /\ items = {} /\ fetched = {} /\ handled = <<>>

\* The list a cycle works through: records still in the phase it was read for.
WorkOK ==
  /\ pc \notin {"idle", "loop"} => cur \notin work
  /\ mode = "terminal" => \A a \in work : phase[a] = "terminal"
  /\ mode = "accepted" => \A a \in work : phase[a] = "accepted"
  /\ mode \in {None, "staged"} => work = {}

\* Only the action at hand is executing.
ExecutingOK ==
  up => \A a \in Actions :
          phase[a] = "executing" => a = cur /\ pc \in {"execute", "complete"}

\* The control part of the invariant.
Control == CurOK /\ DownOK /\ WorkOK /\ StepFindsItsPhase /\ ExecutingOK
CInv    == TypeOK /\ Control

USE DEF None

LEMMA RememberIsSeq ==
  ASSUME NEW h \in Seq(Actions), NEW a \in Actions
  PROVE  Remember(h, a) \in Seq(Actions)
BY LimitsAssumption DEF Remember

LEMMA LatestIsSeq ==
  ASSUME NEW h \in Seq(Actions)
  PROVE  Latest(h) \in Seq(Actions)
BY LimitsAssumption DEF Latest

LEMMA RecordsFinite == IsFiniteSet(Records)
<1>1. Records \in SUBSET Actions
  BY DEF Records
<1> QED BY <1>1, ActionsAssumption, FS_Subset

\* The order in which New marks the journalled actions is a sequence of ids.
LEMMA OrderIsSeq ==
  ASSUME NEW n \in Nat, NEW h \in [1 .. n -> Records]
  PROVE  h \in Seq(Actions) /\ Len(h) = n
<1>1. Records \subseteq Actions
  BY DEF Records
<1>2. h \in [1 .. n -> Actions]
  BY <1>1
<1> QED BY <1>2

LEMMA CInvInit == Init => CInv
<1> SUFFICES ASSUME Init PROVE CInv
  OBVIOUS
<1>1. TypeOK
  <2>1. up \in BOOLEAN /\ polling \in BOOLEAN
    BY DEF Init
  <2>2. order \in Seq(Actions) /\ handled \in Seq(Actions)
    BY DEF Init
  <2>3. quota \in 0 .. CycleMax /\ begins \in Nat /\ crashes \in Nat
    BY LimitsAssumption DEF Init
  <2> QED BY <2>1, <2>2, <2>3 DEF Init, TypeOK, Phases, Results, Pcs
<1> QED BY <1>1 DEF CInv, Control, Init, CurOK, DownOK, WorkOK, StepFindsItsPhase, ExecutingOK

LEMMA TypeNext == CInv /\ [Next]_vars => TypeOK'
<1> SUFFICES ASSUME CInv, [Next]_vars PROVE TypeOK'
  OBVIOUS
<1>t. TypeOK /\ CurOK /\ DownOK
  BY DEF CInv, Control
<1> USE DEF server, journal, stage, poller, executor, history
<1>1. ASSUME NEW a \in Actions, Issue(a) \/ Expire(a) PROVE TypeOK'
  BY <1>1, <1>t DEF Issue, Expire, TypeOK
<1>2. CASE Fetch \/ EndPoll
  BY <1>2, <1>t DEF Fetch, EndPoll, TypeOK
<1>3. ASSUME NEW a \in Actions, StageIgnore(a) PROVE TypeOK'
  BY <1>3, <1>t DEF StageIgnore, TypeOK
<1>3a. ASSUME NEW a \in Actions, StageAdd(a) PROVE TypeOK'
  <2>1. order' \in Seq(Actions)
    BY <1>3a, <1>t DEF StageAdd, TypeOK
  <2> QED BY <1>3a, <1>t, <2>1 DEF StageAdd, TypeOK
<1>4. ASSUME NEW a \in Actions, StageReplace(a) PROVE TypeOK'
  <2>1. PICK k \in DOMAIN order :
          /\ items' = (items \ {order[k]}) \cup {a}
          /\ order' = Append(SubSeq(order, k + 1, Len(order)), a)
    BY <1>4 DEF StageReplace
  <2>2. k \in 1 .. Len(order) /\ Len(order) \in Nat
    BY <1>t DEF TypeOK
  <2>3. SubSeq(order, k + 1, Len(order)) \in Seq(Actions)
    BY <1>t, <2>2 DEF TypeOK
  <2>4. order' \in Seq(Actions)
    BY <1>4, <2>1, <2>3
  <2> QED BY <1>4, <1>t, <2>1, <2>4 DEF StageReplace, TypeOK
<1>5. CASE StartCycle
  BY <1>5, <1>t DEF StartCycle, TypeOK, FirstOf, InJournal, Pcs
<1>5a. CASE NextMode
  <2>1. quota' \in 0 .. CycleMax
    BY <1>5a, LimitsAssumption DEF NextMode
  <2>2. work' \subseteq Actions
    BY <1>5a DEF NextMode, FirstOf, InJournal
  <2> QED BY <1>5a, <1>t, <2>1, <2>2 DEF NextMode, TypeOK
<1>5b. CASE TakeRecord
  BY <1>5b, <1>t DEF TakeRecord, TypeOK, Pcs
<1>6. CASE SkipStaged \/ TakeStaged
  <2>1. Head(order) \in Actions /\ Tail(order) \in Seq(Actions)
    BY <1>6, <1>t DEF SkipStaged, TakeStaged, MayTake, TypeOK
  <2>2. Remember(handled, Head(order)) \in Seq(Actions)
    BY <1>t, <2>1, RememberIsSeq DEF TypeOK
  <2>3. CASE SkipStaged
    <3>1. handled' \in Seq(Actions) /\ items' \subseteq Actions
      BY <2>3, <1>t, <2>2 DEF SkipStaged, TypeOK
    <3>2. forgotten' \subseteq Actions
      BY <2>3, <1>t DEF SkipStaged, Forgets, HandledSet, TypeOK
    <3> QED BY <2>3, <1>t, <2>1, <3>1, <3>2 DEF SkipStaged, TypeOK
  <2>4. CASE TakeStaged
    <3>1. quota' \in 0 .. CycleMax
      BY <2>4, <1>t, LimitsAssumption DEF TakeStaged, MayTake, TypeOK
    <3> QED BY <2>4, <1>t, <2>1, <3>1 DEF TakeStaged, TypeOK, Pcs
  <2> QED BY <1>6, <2>3, <2>4
<1>7. CASE EndCycle \/ BeginFull
  BY <1>7, <1>t, LimitsAssumption DEF EndCycle, BeginFull, Idle, TypeOK, Pcs
<1>8. CASE BeginExists \/ MarkHandled
  <2>1. cur \in Actions
    BY <1>8, <1>t DEF BeginExists, MarkHandled, CurOK
  <2>2. Remember(handled, cur) \in Seq(Actions)
    BY <1>t, <2>1, RememberIsSeq DEF TypeOK
  <2>3. forgotten' \subseteq Actions
    BY <1>8, <1>t DEF BeginExists, MarkHandled, Forgets, HandledSet, TypeOK
  <2> QED BY <1>8, <1>t, <2>1, <2>2, <2>3 DEF BeginExists, MarkHandled, TypeOK, Pcs
<1>9. CASE Begin
  <2>1. cur \in Actions
    BY <1>9, <1>t DEF Begin, CurOK
  <2> QED BY <1>9, <1>t, <2>1 DEF Begin, TypeOK, Phases, Pcs
<1>10. CASE ReportRunning \/ ReportRunningFails
  <2>1. cur \in Actions
    BY <1>10, <1>t DEF ReportRunning, ReportRunningFails, CurOK
  <2>2. server' = server \/ Delivered(cur, "running", None)
    BY <1>10 DEF ReportRunning, ReportRunningFails
  <2>3. /\ srv' \in [Actions -> {"unissued", "pending", "running", "done"}]
        /\ srvResult' \in [Actions -> Results \cup {None}] /\ expired' = expired
    BY <1>t, <2>1, <2>2 DEF Delivered, TypeOK
  <2> QED BY <1>10, <1>t, <2>3 DEF ReportRunning, ReportRunningFails, TypeOK, Pcs
<1>11. CASE MarkExecuting \/ ExecuteRefuses \/ Execute \/ Complete
  <2>1. cur \in Actions
    BY <1>11, <1>t DEF MarkExecuting, ExecuteRefuses, Execute, Complete, CurOK
  <2>2. CASE MarkExecuting
    BY <2>2, <1>t, <2>1 DEF MarkExecuting, TypeOK, Phases, Pcs
  <2>3. CASE ExecuteRefuses
    BY <2>3, <1>t DEF ExecuteRefuses, TypeOK, Pcs
  <2>4. CASE Execute
    <3>1. execs' \in [Actions -> Nat]
      BY <2>4, <1>t, <2>1 DEF Execute, TypeOK
    <3> QED BY <2>4, <1>t, <2>1, <3>1 DEF Execute, TypeOK, Pcs
  <2>5. CASE Complete
    <3>1. phase' \in [Actions -> Phases]
      BY <2>5, <1>t, <2>1 DEF Complete, TypeOK, Phases
    <3>2. result' \in [Actions -> Results \cup {None}]
      BY <2>5, <1>t, <2>1 DEF Complete, TypeOK, Results
    <3> QED BY <2>5, <1>t, <3>1, <3>2 DEF Complete, TypeOK, Pcs
  <2> QED BY <1>11, <2>2, <2>3, <2>4, <2>5
<1>12. CASE ReportTerminal \/ ReportTerminalFails
  <2>1. cur \in Actions
    BY <1>12, <1>t DEF ReportTerminal, ReportTerminalFails, CurOK
  <2>2. server' = server \/ Delivered(cur, "done", result[cur])
    BY <1>12 DEF ReportTerminal, ReportTerminalFails
  <2>3. /\ srv' \in [Actions -> {"unissued", "pending", "running", "done"}]
        /\ srvResult' \in [Actions -> Results \cup {None}] /\ expired' = expired
    BY <1>t, <2>1, <2>2 DEF Delivered, TypeOK
  <2> QED BY <1>12, <1>t, <2>3, LimitsAssumption
          DEF ReportTerminal, ReportTerminalFails, Idle, TypeOK, Pcs
<1>13. CASE Delete
  <2>1. cur \in Actions
    BY <1>13, <1>t DEF Delete, CurOK
  <2>2. /\ phase' \in [Actions -> Phases] /\ result' \in [Actions -> Results \cup {None}]
        /\ started' \in [Actions -> Nat]
    BY <1>13, <1>t, <2>1 DEF Delete, TypeOK, Phases
  <2> QED BY <1>13, <1>t, <2>2 DEF Delete, TypeOK, Pcs
<1>14. CASE Crash
  <2>1. up' \in BOOLEAN /\ polling' \in BOOLEAN
    BY <1>14 DEF Crash
  <2>2. order' \in Seq(Actions) /\ handled' \in Seq(Actions)
    BY <1>14 DEF Crash
  <2>3. quota' \in 0 .. CycleMax /\ crashes' \in Nat
    BY <1>14, <1>t, LimitsAssumption DEF Crash, Idle, TypeOK
  <2> QED BY <1>14, <1>t, <2>1, <2>2, <2>3 DEF Crash, Idle, TypeOK, Pcs
<1>15. CASE Restart
  <2>1. handled' \in Seq(Actions)
    <3>1. Cardinality(Records) \in Nat
      BY RecordsFinite, FS_CardinalityType
    <3>2. PICK h \in [1 .. Cardinality(Records) -> Records] : handled' = Latest(h)
      BY <1>15 DEF Restart
    <3>3. h \in Seq(Actions)
      BY <3>1, <3>2, OrderIsSeq
    <3> QED BY <3>2, <3>3, LatestIsSeq
  <2>2. phase' \in [Actions -> Phases] /\ result' \in [Actions -> Results \cup {None}]
    BY <1>15, <1>t DEF Restart, RecoveredPhase, RecoveredResult, TypeOK, Phases, Results
  <2>3. up' \in BOOLEAN
    BY <1>15 DEF Restart
  <2>4. forgotten' \subseteq Actions
    BY <1>15, <1>t DEF Restart, Forgets, Records, TypeOK
  <2> QED BY <1>15, <1>t, <2>1, <2>2, <2>3, <2>4 DEF Restart, TypeOK
<1>16. CASE UNCHANGED vars
  BY <1>16, <1>t DEF vars, TypeOK
<1> QED
  BY <1>1, <1>2, <1>3, <1>3a, <1>4, <1>5, <1>5a, <1>5b, <1>6, <1>7, <1>8, <1>9, <1>10, <1>11, <1>12,
     <1>13, <1>14, <1>15, <1>16 DEF Next, Poll, Cycle

LEMMA ControlNext == CInv /\ [Next]_vars => Control'
<1> SUFFICES ASSUME CInv, [Next]_vars PROVE Control'
  OBVIOUS
<1>t. TypeOK /\ CurOK /\ DownOK /\ WorkOK /\ StepFindsItsPhase /\ ExecutingOK
  BY DEF CInv, Control
<1>w. work \subseteq Actions /\ phase \in [Actions -> Phases] /\ cur \in Actions \cup {None}
  BY <1>t DEF TypeOK
<1> USE DEF server, journal, stage, poller, executor, history
\* Steps that leave the executor and the journal as they are.
<1>a. ASSUME UNCHANGED <<phase, pc, mode, work, cur, up>>,
             up \/ UNCHANGED <<items, fetched, handled>>
      PROVE  Control'
  BY <1>a, <1>t DEF Control, CurOK, DownOK, WorkOK, StepFindsItsPhase, ExecutingOK
\* Steps that end the cycle.
<1>b. ASSUME up, UNCHANGED <<phase, up>>, Idle, pc \notin {"execute", "complete"}
      PROVE  Control'
  BY <1>b, <1>t DEF Idle, Control, CurOK, DownOK, WorkOK, StepFindsItsPhase, ExecutingOK
\* Steps that go on with the list, or with the action at hand.
<1>c. ASSUME up, UNCHANGED <<phase, up, mode, work>>, pc \notin {"execute", "complete"},
             \/ pc' = "loop"
             \/ pc' \in {"running", "mark", "begin"} /\ cur' = cur /\ pc \in {"handled", "running"}
             \/ pc' = "delete" /\ cur' = cur /\ pc = "report"
      PROVE  Control'
  BY <1>c, <1>t DEF Control, CurOK, DownOK, WorkOK, StepFindsItsPhase, ExecutingOK
<1>1. ASSUME NEW a \in Actions, Issue(a) \/ Expire(a) PROVE Control'
  BY <1>1, <1>a DEF Issue, Expire
<1>2. CASE Fetch \/ EndPoll
  BY <1>2, <1>a DEF Fetch, EndPoll
<1>3. ASSUME NEW a \in Actions, StageIgnore(a) \/ StageAdd(a) \/ StageReplace(a) PROVE Control'
  BY <1>3, <1>a DEF StageIgnore, StageAdd, StageReplace
<1>4. CASE StartCycle
  BY <1>4, <1>t DEF StartCycle, FirstOf, InJournal, Control, CurOK, DownOK, WorkOK,
                    StepFindsItsPhase, ExecutingOK
<1>5. CASE NextMode
  BY <1>5, <1>t DEF NextMode, FirstOf, InJournal, Control, CurOK, DownOK, WorkOK,
                    StepFindsItsPhase, ExecutingOK
<1>6. CASE TakeRecord
  <2>1. mode \in {"terminal", "accepted"}
    BY <1>6, <1>t DEF TakeRecord, WorkOK, TypeOK
  <2>2. /\ cur' \in work /\ work' = work \ {cur'} /\ UNCHANGED <<phase, mode, up>> /\ up
        /\ pc = "loop" /\ pc' = IF mode = "terminal" THEN "report" ELSE "running"
    BY <1>6 DEF TakeRecord
  <2>3. CurOK' /\ DownOK' /\ ExecutingOK'
    BY <2>2, <1>w, <1>t DEF CurOK, DownOK, ExecutingOK
  <2>4. WorkOK' /\ StepFindsItsPhase'
    BY <2>1, <2>2, <1>t DEF WorkOK, StepFindsItsPhase
  <2> QED BY <2>3, <2>4 DEF Control
<1>7. CASE SkipStaged
  BY <1>7, <1>a DEF SkipStaged, MayTake
<1>8. CASE TakeStaged
  <2>1. Head(order) \in Actions
    BY <1>8, <1>t DEF TakeStaged, MayTake, TypeOK
  <2>2. /\ up /\ pc' = "begin" /\ pc = "loop" /\ mode = "staged"
        /\ UNCHANGED <<phase, mode, work, up>> /\ cur' \in Actions
    BY <1>8, <2>1 DEF TakeStaged, MayTake
  <2> QED BY <2>2, <1>t DEF Control, CurOK, DownOK, WorkOK, StepFindsItsPhase, ExecutingOK
<1>9. CASE EndCycle \/ BeginFull
  BY <1>9, <1>b DEF EndCycle, BeginFull
<1>10. CASE BeginExists
  BY <1>10, <1>c DEF BeginExists
<1>11. CASE Begin
  <2>1. cur \in Actions /\ cur \notin work /\ up /\ pc = "begin"
    BY <1>11, <1>t DEF Begin, CurOK, WorkOK
  <2>2. /\ phase' = [phase EXCEPT ![cur] = "accepted"] /\ pc' = "handled"
        /\ UNCHANGED <<cur, work, mode, up>>
    BY <1>11 DEF Begin
  <2>3. CurOK' /\ DownOK' /\ ExecutingOK'
    BY <2>1, <2>2, <1>w, <1>t DEF CurOK, DownOK, ExecutingOK
  <2>4. WorkOK' /\ StepFindsItsPhase'
    BY <2>1, <2>2, <1>w, <1>t DEF WorkOK, StepFindsItsPhase
  <2> QED BY <2>3, <2>4 DEF Control
<1>12. CASE MarkHandled
  BY <1>12, <1>c DEF MarkHandled
<1>13. CASE ReportRunning
  BY <1>13, <1>c DEF ReportRunning
<1>14. CASE ReportRunningFails
  BY <1>14, <1>c DEF ReportRunningFails
<1>15. CASE MarkExecuting
  <2>1. cur \in Actions /\ cur \notin work /\ up /\ pc = "mark"
    BY <1>15, <1>t DEF MarkExecuting, CurOK, WorkOK
  <2>2. /\ phase' = [phase EXCEPT ![cur] = "executing"] /\ pc' = "execute"
        /\ UNCHANGED <<cur, work, mode, up>>
    BY <1>15 DEF MarkExecuting
  <2>3. CurOK' /\ DownOK' /\ ExecutingOK'
    BY <2>1, <2>2, <1>w, <1>t DEF CurOK, DownOK, ExecutingOK
  <2>4. WorkOK' /\ StepFindsItsPhase'
    BY <2>1, <2>2, <1>w, <1>t DEF WorkOK, StepFindsItsPhase
  <2> QED BY <2>3, <2>4 DEF Control
<1>16. CASE ExecuteRefuses \/ Execute
  <2>1. /\ up /\ pc = "execute" /\ pc' = "complete"
        /\ UNCHANGED <<phase, cur, work, mode, up>>
    BY <1>16 DEF ExecuteRefuses, Execute
  <2> QED BY <2>1, <1>t DEF Control, CurOK, DownOK, WorkOK, StepFindsItsPhase, ExecutingOK
<1>17. CASE Complete
  <2>1. cur \in Actions /\ cur \notin work /\ up /\ pc = "complete"
    BY <1>17, <1>t DEF Complete, CurOK, WorkOK
  <2>2. /\ phase' = [phase EXCEPT ![cur] = "terminal"] /\ pc' = "report"
        /\ UNCHANGED <<cur, work, mode, up>>
    BY <1>17 DEF Complete
  <2>3. CurOK' /\ DownOK' /\ ExecutingOK'
    BY <2>1, <2>2, <1>w, <1>t DEF CurOK, DownOK, ExecutingOK
  <2>4. WorkOK' /\ StepFindsItsPhase'
    BY <2>1, <2>2, <1>w, <1>t DEF WorkOK, StepFindsItsPhase
  <2> QED BY <2>3, <2>4 DEF Control
<1>18. CASE ReportTerminal
  BY <1>18, <1>c DEF ReportTerminal
<1>19. CASE ReportTerminalFails
  <2>1. CASE mode = "terminal"
    BY <1>19, <2>1, <1>b DEF ReportTerminalFails
  <2>2. CASE mode # "terminal"
    BY <1>19, <2>2, <1>c DEF ReportTerminalFails
  <2> QED BY <2>1, <2>2
<1>20. CASE Delete
  <2>1. cur \in Actions /\ cur \notin work /\ up /\ pc = "delete"
    BY <1>20, <1>t DEF Delete, CurOK, WorkOK
  <2>2. /\ phase' = [phase EXCEPT ![cur] = None] /\ pc' = "loop"
        /\ UNCHANGED <<work, mode, up>>
    BY <1>20 DEF Delete
  <2>3. CurOK' /\ DownOK' /\ StepFindsItsPhase'
    BY <2>1, <2>2 DEF CurOK, DownOK, StepFindsItsPhase
  <2>4. WorkOK' /\ ExecutingOK'
    BY <2>1, <2>2, <1>w, <1>t DEF WorkOK, ExecutingOK
  <2> QED BY <2>3, <2>4 DEF Control
<1>21. CASE Crash
  BY <1>21, <1>t DEF Crash, Idle, Control, CurOK, DownOK, WorkOK, StepFindsItsPhase, ExecutingOK
<1>22. CASE Restart
  <2>1. \A a \in Actions : phase'[a] # "executing"
    BY <1>22, <1>w DEF Restart, RecoveredPhase
  <2>2. ~up /\ up' /\ UNCHANGED <<pc, work, mode, cur>>
    BY <1>22 DEF Restart
  <2> QED BY <2>1, <2>2, <1>t DEF Control, CurOK, DownOK, WorkOK, StepFindsItsPhase, ExecutingOK
<1>23. CASE UNCHANGED vars
  BY <1>23, <1>a DEF vars
<1> QED
  BY <1>1, <1>2, <1>3, <1>4, <1>5, <1>6, <1>7, <1>8, <1>9, <1>10, <1>11, <1>12,
     <1>13, <1>14, <1>15, <1>16, <1>17, <1>18, <1>19, <1>20, <1>21, <1>22, <1>23
  DEF Next, Poll, Cycle

LEMMA CInvAlways == Spec => []CInv
<1>1. CInv /\ [Next]_vars => CInv'
  BY TypeNext, ControlNext DEF CInv
<1> QED BY <1>1, CInvInit, PTL DEF Spec

\* The executor always finds the record it works on, in the phase it expects,
\* so Journal.MarkExecuting and Journal.Complete never fail for want of one.
THEOREM StepPhases == Spec => []StepFindsItsPhase
<1>1. CInv => StepFindsItsPhase
  BY DEF CInv, Control
<1> QED BY <1>1, CInvAlways, PTL

-----------------------------------------------------------------------------
(* What the server is told. *)

\* A record to be reported has a result.
TerminalHasResult == \A a \in Actions : phase[a] = "terminal" => result[a] # None

\* A record is deleted once the server has its result.
DeleteIsReported == pc = "delete" => srv[cur] = "done" /\ srvResult[cur] # None

Told == TerminalHasResult /\ DeleteIsReported /\ RunningIsJournalled /\ ExecutionIsReported

LEMMA ToldNext == CInv /\ Told /\ [Next]_vars => Told'
<1> SUFFICES ASSUME CInv, Told, [Next]_vars PROVE Told'
  OBVIOUS
<1>t. /\ TypeOK /\ CurOK /\ StepFindsItsPhase
      /\ TerminalHasResult /\ DeleteIsReported /\ RunningIsJournalled /\ ExecutionIsReported
  BY DEF CInv, Control, Told
<1>w. /\ phase \in [Actions -> Phases] /\ result \in [Actions -> Results \cup {None}]
      /\ srv \in [Actions -> {"unissued", "pending", "running", "done"}]
      /\ srvResult \in [Actions -> Results \cup {None}] /\ execs \in [Actions -> Nat]
  BY <1>t DEF TypeOK
<1> USE DEF server, journal, stage, poller, executor, history
\* Steps of the stage and of the executor between two records.
<1>a. ASSUME UNCHANGED <<srv, srvResult, phase, result, execs>>,
             pc' # "delete" \/ UNCHANGED <<pc, cur>>
      PROVE  Told'
  BY <1>a, <1>t DEF Told, TerminalHasResult, DeleteIsReported, RunningIsJournalled,
                    ExecutionIsReported
\* Steps that write the record at hand, and keep it.
<1>b. ASSUME NEW p \in Phases \ {None}, cur \in Actions,
             phase' = [phase EXCEPT ![cur] = p],
             \A a \in Actions \ {cur} : result'[a] = result[a],
             p = "terminal" => result'[cur] # None,
             p = "accepted" => phase[cur] = None,
             UNCHANGED <<srv, srvResult, execs>>, pc' # "delete"
      PROVE  Told'
  <2>1. TerminalHasResult' /\ DeleteIsReported'
    BY <1>b, <1>w, <1>t DEF TerminalHasResult, DeleteIsReported
  <2>2. RunningIsJournalled' /\ ExecutionIsReported'
    BY <1>b, <1>w, <1>t DEF RunningIsJournalled, ExecutionIsReported, Phases
  <2> QED BY <2>1, <2>2 DEF Told
\* Reports.
<1>c. ASSUME NEW s \in {"running", "done"}, NEW r \in Results \cup {None}, cur \in Actions,
             Delivered(cur, s, r), phase[cur] # None, UNCHANGED <<phase, result, execs>>,
             pc' = "delete" => cur' = cur /\ s = "done" /\ r # None
      PROVE  Told'
  <2>1. /\ srv' = [srv EXCEPT ![cur] = IF @ = "done" THEN @ ELSE s]
        /\ srvResult' = [srvResult EXCEPT ![cur] = IF @ = None THEN r ELSE @]
    BY <1>c DEF Delivered
  <2>2. TerminalHasResult' /\ RunningIsJournalled'
    BY <2>1, <1>c, <1>w, <1>t DEF TerminalHasResult, RunningIsJournalled
  <2>3. DeleteIsReported'
    BY <2>1, <1>c, <1>w DEF DeleteIsReported
  <2>4. ExecutionIsReported'
    BY <2>1, <1>c, <1>w, <1>t DEF ExecutionIsReported
  <2> QED BY <2>2, <2>3, <2>4 DEF Told
<1>1. ASSUME NEW a \in Actions, Issue(a) PROVE Told'
  BY <1>1, <1>t, <1>w DEF Issue, Told, TerminalHasResult, DeleteIsReported, RunningIsJournalled,
                          ExecutionIsReported
<1>2. ASSUME NEW a \in Actions, Expire(a) PROVE Told'
  BY <1>2, <1>a DEF Expire
<1>3. CASE Fetch \/ EndPoll
  BY <1>3, <1>a DEF Fetch, EndPoll
<1>4. ASSUME NEW a \in Actions, StageIgnore(a) \/ StageAdd(a) \/ StageReplace(a) PROVE Told'
  BY <1>4, <1>a DEF StageIgnore, StageAdd, StageReplace
<1>5. CASE StartCycle \/ NextMode \/ SkipStaged \/ TakeStaged
  BY <1>5, <1>a DEF StartCycle, NextMode, SkipStaged, TakeStaged
<1>6. CASE TakeRecord
  <2>1. pc' # "delete" /\ UNCHANGED <<srv, srvResult, phase, result, execs>>
    BY <1>6 DEF TakeRecord
  <2> QED BY <2>1, <1>a
<1>7. CASE EndCycle \/ BeginFull \/ BeginExists \/ MarkHandled \/ ExecuteRefuses
  BY <1>7, <1>a DEF EndCycle, BeginFull, BeginExists, MarkHandled, ExecuteRefuses, Idle
<1>8. CASE Begin
  BY <1>8, <1>b, <1>t DEF Begin, CurOK, Phases
<1>9. CASE MarkExecuting
  BY <1>9, <1>b, <1>t DEF MarkExecuting, CurOK, Phases
<1>10. CASE Complete
  <2>1. cur \in Actions
    BY <1>10, <1>t DEF Complete, CurOK
  <2>2. PICK r \in {"success", "failed"} : result' = [result EXCEPT ![cur] = r]
    BY <1>10 DEF Complete
  <2>3. result'[cur] # None /\ \A a \in Actions \ {cur} : result'[a] = result[a]
    BY <2>1, <2>2, <1>w
  <2> QED BY <1>10, <2>1, <2>3, <1>b DEF Complete, Phases
<1>11. CASE ReportRunning \/ ReportRunningFails
  <2>1. cur \in Actions /\ phase[cur] # None
    BY <1>11, <1>t DEF ReportRunning, ReportRunningFails, CurOK, StepFindsItsPhase
  <2>2. /\ Delivered(cur, "running", None) \/ UNCHANGED <<srv, srvResult>>
        /\ UNCHANGED <<phase, result, execs>> /\ pc' # "delete"
    BY <1>11 DEF ReportRunning, ReportRunningFails
  <2> QED BY <2>1, <2>2, <1>a, <1>c
<1>12. CASE Execute
  <2>1. cur \in Actions /\ phase[cur] = "executing"
    BY <1>12, <1>t DEF Execute, CurOK, StepFindsItsPhase
  <2>2. /\ execs' = [execs EXCEPT ![cur] = @ + 1] /\ pc' # "delete"
        /\ UNCHANGED <<srv, srvResult, phase, result>>
    BY <1>12 DEF Execute
  <2>3. ExecutionIsReported'
    BY <2>1, <2>2, <1>w, <1>t DEF ExecutionIsReported
  <2> QED BY <2>2, <2>3, <1>t DEF Told, TerminalHasResult, DeleteIsReported, RunningIsJournalled
<1>13. CASE ReportTerminal \/ ReportTerminalFails
  <2>1. cur \in Actions /\ phase[cur] = "terminal"
    BY <1>13, <1>t DEF ReportTerminal, ReportTerminalFails, CurOK, StepFindsItsPhase
  <2>2. result[cur] \in Results \cup {None} /\ result[cur] # None
    BY <2>1, <1>t, <1>w DEF TerminalHasResult
  <2>3. /\ Delivered(cur, "done", result[cur]) \/ (UNCHANGED <<srv, srvResult>> /\ pc' # "delete")
        /\ UNCHANGED <<phase, result, execs>>
        /\ pc' = "delete" => cur' = cur
    <3>1. CASE ReportTerminal
      BY <3>1 DEF ReportTerminal
    <3>2. CASE ReportTerminalFails
      <4>1. pc' # "delete"
        BY <3>2 DEF ReportTerminalFails, Idle
      <4> QED BY <3>2, <4>1 DEF ReportTerminalFails
    <3> QED BY <1>13, <3>1, <3>2
  <2> QED BY <2>1, <2>2, <2>3, <1>a, <1>c
<1>14. CASE Delete
  <2>1. cur \in Actions /\ srv[cur] = "done" /\ srvResult[cur] # None
    BY <1>14, <1>t DEF Delete, CurOK, DeleteIsReported
  <2>2. /\ phase' = [phase EXCEPT ![cur] = None] /\ result' = [result EXCEPT ![cur] = None]
        /\ pc' # "delete" /\ UNCHANGED <<srv, srvResult, execs>>
    BY <1>14 DEF Delete
  <2>3. TerminalHasResult' /\ DeleteIsReported'
    BY <2>1, <2>2, <1>w, <1>t DEF TerminalHasResult, DeleteIsReported
  <2>4. RunningIsJournalled' /\ ExecutionIsReported'
    BY <2>1, <2>2, <1>w, <1>t DEF RunningIsJournalled, ExecutionIsReported
  <2> QED BY <2>3, <2>4 DEF Told
<1>15. CASE Crash
  BY <1>15, <1>a DEF Crash, Idle
<1>16. CASE Restart
  <2>1. \A a \in Actions : /\ phase'[a] = RecoveredPhase(phase[a])
                            /\ result'[a] = RecoveredResult(phase[a], result[a])
    BY <1>16 DEF Restart
  <2>2. UNCHANGED <<srv, srvResult, execs, pc, cur>>
    BY <1>16 DEF Restart
  <2>3. TerminalHasResult' /\ DeleteIsReported'
    BY <2>1, <2>2, <1>t DEF TerminalHasResult, DeleteIsReported, RecoveredPhase, RecoveredResult
  <2>4. RunningIsJournalled' /\ ExecutionIsReported'
    BY <2>1, <2>2, <1>t DEF RunningIsJournalled, ExecutionIsReported, RecoveredPhase
  <2> QED BY <2>3, <2>4 DEF Told
<1>17. CASE UNCHANGED vars
  BY <1>17, <1>a DEF vars
<1> QED
  BY <1>1, <1>2, <1>3, <1>4, <1>5, <1>6, <1>7, <1>8, <1>9, <1>10, <1>11, <1>12,
     <1>13, <1>14, <1>15, <1>16, <1>17 DEF Next, Poll, Cycle

LEMMA ToldAlways == Spec => []Told
<1>1. Init => Told
  BY DEF Init, Told, TerminalHasResult, DeleteIsReported, RunningIsJournalled, ExecutionIsReported
<1> QED BY <1>1, ToldNext, CInvAlways, PTL DEF Spec

\* No execution is forgotten: an action whose side effects were run stays in
\* the journal until the server holds a result for it, over any number of
\* crashes and lost answers.
THEOREM NoExecutionForgotten == Spec => []ExecutionIsReported
<1>1. Told => ExecutionIsReported
  BY DEF Told
<1> QED BY <1>1, ToldAlways, PTL

\* An action the server sees running is never missing from the journal.
THEOREM RunningIsKnown == Spec => []RunningIsJournalled
<1>1. Told => RunningIsJournalled
  BY DEF Told
<1> QED BY <1>1, ToldAlways, PTL

-----------------------------------------------------------------------------
(* At most one execution of an action the stage has not forgotten. *)

\* Every journalled action is remembered or forgotten, but for the moment after
\* Begin.
JournalRemembered ==
  up => \A a \in Actions :
          phase[a] # None => a \in HandledSet \cup forgotten \/ (pc = "handled" /\ cur = a)

\* A remembered action is neither staged nor about to be accepted.
HandledIsOver == \A a \in HandledSet : a \notin items /\ ~(pc = "begin" /\ cur = a)

\* An action that was executed, reported and deleted cannot come back: the
\* server no longer lists it, and a list fetched earlier is refused.
ExecutedIsOver ==
  \A a \in Actions \ forgotten :
    execs[a] > 0 /\ phase[a] = None =>
      /\ srv[a] = "done" /\ a \notin items /\ ~(pc = "begin" /\ cur = a)
      /\ a \in fetched => a \in HandledSet

\* No action is accepted again, or executed again.
FirstExecution ==
  /\ \A a \in Actions \ forgotten : execs[a] > 0 => phase[a] # "accepted"
  /\ pc = "execute" => cur \in forgotten \/ execs[cur] = 0

MInv == JournalRemembered /\ HandledIsOver

\* Remembering an id adds no other.
LEMMA RememberAddsOne ==
  ASSUME TypeOK, NEW a \in Actions, handled' = Remember(handled, a)
  PROVE  a \in HandledSet' /\ HandledSet' \subseteq HandledSet \cup {a}
<1>0. handled \in Seq(Actions) /\ Len(handled) \in Nat /\ DOMAIN handled = 1 .. Len(handled)
  BY DEF TypeOK
<1>1. CASE a \in HandledSet
  BY <1>1 DEF Remember, HandledSet
<1>2. CASE a \notin HandledSet
  <2> DEFINE h == Append(handled, a)
  <2>1. /\ h \in Seq(Actions) /\ Len(h) = Len(handled) + 1 /\ h[Len(handled) + 1] = a
        /\ \A i \in 1 .. Len(handled) : h[i] = handled[i]
    BY <1>0
  <2>2. \A i \in 1 .. Len(h) : h[i] \in HandledSet \cup {a}
    BY <1>0, <2>1 DEF HandledSet
  <2>3. CASE Len(handled) < HandledMax
    <3>1. handled' = h
      BY <1>2, <2>3 DEF Remember, HandledSet
    <3>2. HandledSet' = {h[i] : i \in 1 .. Len(h)}
      BY <2>1, <3>1 DEF HandledSet
    <3>3. Len(handled) + 1 \in 1 .. Len(h)
      BY <1>0, <2>1
    <3> QED BY <2>1, <2>2, <3>2, <3>3
  <2>4. CASE ~(Len(handled) < HandledMax)
    <3>1. handled' = Tail(h) /\ Len(handled) >= 1
      BY <1>0, <1>2, <2>4, LimitsAssumption DEF Remember, HandledSet
    <3>2. Len(Tail(h)) = Len(handled) /\ \A i \in 1 .. Len(handled) : Tail(h)[i] = h[i + 1]
      BY <1>0, <2>1, <3>1
    <3>3. Tail(h) \in Seq(Actions) /\ DOMAIN Tail(h) = 1 .. Len(handled)
      BY <1>0, <2>1, <3>1, <3>2
    <3>4. HandledSet' = {Tail(h)[i] : i \in 1 .. Len(handled)}
      BY <3>1, <3>3 DEF HandledSet
    <3>5. Len(handled) \in 1 .. Len(handled) /\ Tail(h)[Len(handled)] = a
      BY <1>0, <2>1, <3>1, <3>2
    <3>6. \A i \in 1 .. Len(handled) : Tail(h)[i] \in HandledSet \cup {a}
      BY <1>0, <2>1, <2>2, <3>2
    <3> QED BY <3>4, <3>5, <3>6
  <2> QED BY <2>3, <2>4
<1> QED BY <1>1, <1>2

LEMMA MInvNext == CInv /\ MInv /\ [Next]_vars => MInv'
<1> SUFFICES ASSUME CInv, MInv, [Next]_vars PROVE MInv'
  OBVIOUS
<1>t. TypeOK /\ CurOK /\ DownOK /\ StepFindsItsPhase /\ JournalRemembered /\ HandledIsOver
  BY DEF CInv, Control, MInv
<1>w. phase \in [Actions -> Phases] /\ items \subseteq Actions
  BY <1>t DEF TypeOK
<1> USE DEF server, journal, stage, poller, executor, history
\* Steps that remember no new action.
<1>a. ASSUME UNCHANGED <<handled, up>>, forgotten \subseteq forgotten',
             \A b \in Actions : phase'[b] # None => phase[b] # None,
             \A b \in items' : b \in items \/ b \notin HandledSet,
             pc' = "begin" => cur' \notin HandledSet \/ UNCHANGED <<pc, cur>>,
             pc = "handled" => UNCHANGED <<pc, cur>>
      PROVE  MInv'
  <2>1. HandledSet' = HandledSet
    BY <1>a DEF HandledSet
  <2>2. JournalRemembered'
    BY <1>a, <1>t, <2>1 DEF JournalRemembered
  <2>3. HandledIsOver'
    BY <1>a, <1>t, <2>1 DEF HandledIsOver
  <2> QED BY <2>2, <2>3 DEF MInv
\* Steps that remember one.
<1>b. ASSUME NEW x \in Actions, handled' = Remember(handled, x), items' = items \ {x},
             Forgets(HandledSet), UNCHANGED <<phase, up>>, pc' # "begin",
             pc = "handled" => cur = x
      PROVE  MInv'
  <2>1. /\ x \in HandledSet' /\ HandledSet' \subseteq HandledSet \cup {x}
        /\ forgotten \subseteq forgotten' /\ HandledSet \subseteq HandledSet' \cup forgotten'
    BY <1>b, <1>t, RememberAddsOne DEF Forgets
  <2>2. JournalRemembered'
    BY <1>b, <1>t, <2>1 DEF JournalRemembered
  <2>3. HandledIsOver'
    BY <1>b, <1>t, <2>1 DEF HandledIsOver
  <2> QED BY <2>2, <2>3 DEF MInv
<1>1. ASSUME NEW a \in Actions, Issue(a) \/ Expire(a) PROVE MInv'
  BY <1>1, <1>a DEF Issue, Expire
<1>2. CASE Fetch \/ EndPoll
  BY <1>2, <1>a DEF Fetch, EndPoll
<1>3. ASSUME NEW a \in Actions, StageIgnore(a) PROVE MInv'
  BY <1>3, <1>a DEF StageIgnore
<1>4. ASSUME NEW a \in Actions, StageAdd(a) \/ StageReplace(a) PROVE MInv'
  <2>1. items' \subseteq items \cup {a} /\ a \notin HandledSet
    BY <1>4 DEF StageAdd, StageReplace, Admissible
  <2> QED BY <1>4, <2>1, <1>a DEF StageAdd, StageReplace
<1>5. CASE StartCycle \/ NextMode \/ EndCycle \/ BeginFull
  BY <1>5, <1>a DEF StartCycle, NextMode, EndCycle, BeginFull, Idle
<1>6. CASE TakeRecord
  <2>1. pc = "loop" /\ pc' # "begin" /\ UNCHANGED <<handled, up, phase, items, forgotten>>
    BY <1>6 DEF TakeRecord
  <2> QED BY <2>1, <1>a
<1>7. CASE SkipStaged
  <2>1. Head(order) \in Actions
    BY <1>7, <1>t DEF SkipStaged, MayTake, TypeOK
  <2>2. CASE Head(order) \in items
    BY <1>7, <2>1, <2>2, <1>b DEF SkipStaged, MayTake
  <2>3. CASE Head(order) \notin items
    BY <1>7, <2>3, <1>a DEF SkipStaged, Forgets
  <2> QED BY <2>2, <2>3
<1>8. CASE TakeStaged
  <2>1. cur' \in items /\ cur' \notin HandledSet
    BY <1>8, <1>t DEF TakeStaged, HandledIsOver
  <2> QED BY <1>8, <2>1, <1>a DEF TakeStaged, MayTake
<1>9. CASE BeginExists \/ MarkHandled
  <2>1. cur \in Actions
    BY <1>9, <1>t DEF BeginExists, MarkHandled, CurOK
  <2> QED BY <1>9, <2>1, <1>b DEF BeginExists, MarkHandled
<1>10. CASE Begin
  <2>1. /\ cur \in Actions /\ phase' = [phase EXCEPT ![cur] = "accepted"] /\ pc' = "handled"
        /\ UNCHANGED <<cur, up, handled, items, forgotten>> /\ pc = "begin"
    BY <1>10, <1>t DEF Begin, CurOK
  <2>2. HandledSet' = HandledSet
    BY <2>1 DEF HandledSet
  <2>3. JournalRemembered'
    BY <2>1, <2>2, <1>w, <1>t DEF JournalRemembered
  <2>4. HandledIsOver'
    BY <2>1, <2>2, <1>t DEF HandledIsOver
  <2> QED BY <2>3, <2>4 DEF MInv
<1>11. CASE ReportRunning \/ ReportRunningFails \/ ExecuteRefuses \/ Execute \/ ReportTerminal
  BY <1>11, <1>a DEF ReportRunning, ReportRunningFails, ExecuteRefuses, Execute, ReportTerminal
<1>12. CASE ReportTerminalFails
  <2>1. pc' # "begin"
    BY <1>12 DEF ReportTerminalFails, Idle
  <2> QED BY <1>12, <2>1, <1>a DEF ReportTerminalFails
<1>13. CASE MarkExecuting \/ Complete \/ Delete
  <2>1. cur \in Actions /\ phase[cur] # None
    BY <1>13, <1>t DEF MarkExecuting, Complete, Delete, CurOK, StepFindsItsPhase
  <2>2. \A b \in Actions : phase'[b] # None => phase[b] # None
    BY <1>13, <2>1, <1>w DEF MarkExecuting, Complete, Delete
  <2> QED BY <1>13, <2>2, <1>a DEF MarkExecuting, Complete, Delete
<1>14. CASE Crash
  <2>1. handled' = <<>> /\ ~up' /\ HandledSet' = {}
    BY <1>14 DEF Crash, HandledSet
  <2> QED BY <2>1 DEF MInv, JournalRemembered, HandledIsOver
<1>15. CASE Restart
  <2>1. Records \subseteq HandledSet' \cup forgotten'
    BY <1>15 DEF Restart, Forgets
  <2>2. \A b \in Actions : phase'[b] # None => b \in Records
    BY <1>15, <1>w DEF Restart, RecoveredPhase, Records
  <2>3. items' = {} /\ pc' = "idle"
    BY <1>15, <1>t DEF Restart, DownOK
  <2> QED BY <2>1, <2>2, <2>3 DEF MInv, JournalRemembered, HandledIsOver
<1>16. CASE UNCHANGED vars
  BY <1>16, <1>a DEF vars
<1> QED
  BY <1>1, <1>2, <1>3, <1>4, <1>5, <1>6, <1>7, <1>8, <1>9, <1>10, <1>11, <1>12,
     <1>13, <1>14, <1>15, <1>16 DEF Next, Poll, Cycle

EInv == ExecutedIsOver /\ FirstExecution /\ AtMostOnce

LEMMA EInvNext == CInv /\ Told /\ MInv /\ EInv /\ [Next]_vars => EInv'
<1> SUFFICES ASSUME CInv, Told, MInv, EInv, [Next]_vars PROVE EInv'
  OBVIOUS
<1>t. /\ TypeOK /\ CurOK /\ DownOK /\ StepFindsItsPhase /\ DeleteIsReported
      /\ JournalRemembered /\ HandledIsOver
      /\ ExecutedIsOver /\ FirstExecution /\ AtMostOnce
  BY DEF CInv, Control, Told, MInv, EInv
<1>w. /\ phase \in [Actions -> Phases] /\ execs \in [Actions -> Nat] /\ items \subseteq Actions
      /\ srv \in [Actions -> {"unissued", "pending", "running", "done"}]
  BY <1>t DEF TypeOK
<1> USE DEF server, journal, stage, poller, executor, history
\* Steps that neither execute an action nor write the journal.
<1>a. ASSUME UNCHANGED <<phase, execs>>, forgotten \subseteq forgotten',
             \A b \in Actions : srv[b] = "done" => srv'[b] = "done",
             \A b \in items' : b \in items \/ (b \in fetched /\ b \notin HandledSet),
             pc' = "begin" => cur' \in items \/ UNCHANGED <<pc, cur>>,
             pc' = "execute" => UNCHANGED <<pc, cur>>,
             \A b \in fetched' : b \in fetched \/ srv[b] # "done",
             fetched' = {} \/ HandledSet \subseteq HandledSet' \cup forgotten'
      PROVE  EInv'
  <2>1. ExecutedIsOver'
    BY <1>a, <1>t DEF ExecutedIsOver
  <2>2. FirstExecution' /\ AtMostOnce'
    BY <1>a, <1>t DEF FirstExecution, AtMostOnce
  <2> QED BY <2>1, <2>2 DEF EInv
\* Among them, those that leave the stage, the poller and the server alone.
<1>b. ASSUME UNCHANGED <<phase, execs, srv, items, handled, fetched>>, forgotten \subseteq forgotten',
             pc' \notin {"begin", "execute"} \/ UNCHANGED <<pc, cur>>
      PROVE  EInv'
  <2>1. HandledSet' = HandledSet
    BY <1>b DEF HandledSet
  <2> QED BY <2>1, <1>a, <1>b
\* Steps that remember an action.
<1>c. ASSUME NEW x \in Actions, handled' = Remember(handled, x), items' = items \ {x},
             Forgets(HandledSet),
             UNCHANGED <<phase, execs, srv, fetched>>, pc' \notin {"begin", "execute"}
      PROVE  EInv'
  <2>1. forgotten \subseteq forgotten' /\ HandledSet \subseteq HandledSet' \cup forgotten'
    BY <1>c DEF Forgets
  <2> QED BY <2>1, <1>a, <1>c
\* Reports.
<1>d. ASSUME NEW s \in {"running", "done"}, NEW r, cur \in Actions, Delivered(cur, s, r),
             UNCHANGED <<phase, execs, items, handled, fetched, forgotten>>,
             pc' \notin {"begin", "execute"}
      PROVE  EInv'
  <2>1. \A b \in Actions : srv[b] = "done" => srv'[b] = "done"
    BY <1>d, <1>w DEF Delivered
  <2>2. HandledSet' = HandledSet
    BY <1>d DEF HandledSet
  <2> QED BY <2>1, <2>2, <1>a, <1>d
<1>1. ASSUME NEW a \in Actions, Issue(a) PROVE EInv'
  <2>1. \A b \in Actions : srv[b] = "done" => srv'[b] = "done"
    BY <1>1, <1>w DEF Issue
  <2>2. HandledSet' = HandledSet
    BY <1>1 DEF Issue, HandledSet
  <2> QED BY <1>1, <2>1, <2>2, <1>a DEF Issue
<1>2. ASSUME NEW a \in Actions, Expire(a) PROVE EInv'
  BY <1>2, <1>b DEF Expire
<1>3. CASE Fetch
  <2>1. \A b \in fetched' : srv[b] # "done"
    BY <1>3 DEF Fetch
  <2>2. HandledSet' = HandledSet
    BY <1>3 DEF Fetch, HandledSet
  <2> QED BY <1>3, <2>1, <2>2, <1>a DEF Fetch
<1>4. CASE EndPoll
  BY <1>4, <1>b DEF EndPoll
<1>5. ASSUME NEW a \in Actions, StageIgnore(a) PROVE EInv'
  <2>1. HandledSet' = HandledSet
    BY <1>5 DEF StageIgnore, HandledSet
  <2> QED BY <1>5, <2>1, <1>a DEF StageIgnore
<1>6. ASSUME NEW a \in Actions, StageAdd(a) \/ StageReplace(a) PROVE EInv'
  <2>1. items' \subseteq items \cup {a} /\ a \in fetched /\ a \notin HandledSet
    BY <1>6 DEF StageAdd, StageReplace, Admissible
  <2>2. HandledSet' = HandledSet
    BY <1>6 DEF StageAdd, StageReplace, HandledSet
  <2> QED BY <1>6, <2>1, <2>2, <1>a DEF StageAdd, StageReplace
<1>7. CASE StartCycle \/ NextMode \/ EndCycle \/ BeginFull \/ ExecuteRefuses
  BY <1>7, <1>b DEF StartCycle, NextMode, EndCycle, BeginFull, ExecuteRefuses, Idle
<1>8. CASE TakeRecord
  <2>1. /\ pc' \notin {"begin", "execute"}
        /\ UNCHANGED <<phase, execs, srv, items, handled, fetched, forgotten>>
    BY <1>8 DEF TakeRecord
  <2> QED BY <2>1, <1>b
<1>9. CASE SkipStaged
  <2>1. Head(order) \in Actions
    BY <1>9, <1>t DEF SkipStaged, MayTake, TypeOK
  <2>2. CASE Head(order) \in items
    BY <1>9, <2>1, <2>2, <1>c DEF SkipStaged, MayTake
  <2>3. CASE Head(order) \notin items
    BY <1>9, <2>3, <1>b DEF SkipStaged, Forgets
  <2> QED BY <2>2, <2>3
<1>10. CASE TakeStaged
  <2>1. HandledSet' = HandledSet
    BY <1>10 DEF TakeStaged, HandledSet
  <2> QED BY <1>10, <2>1, <1>a DEF TakeStaged
<1>11. CASE BeginExists \/ MarkHandled
  <2>1. cur \in Actions
    BY <1>11, <1>t DEF BeginExists, MarkHandled, CurOK
  <2> QED BY <1>11, <2>1, <1>c DEF BeginExists, MarkHandled
<1>12. CASE Begin
  <2>1. /\ cur \in Actions /\ phase[cur] = None /\ phase' = [phase EXCEPT ![cur] = "accepted"]
        /\ pc = "begin" /\ pc' = "handled"
        /\ UNCHANGED <<cur, handled, items, fetched, srv, execs, forgotten>>
    BY <1>12, <1>t DEF Begin, CurOK
  <2>2. cur \in forgotten \/ execs[cur] = 0
    BY <2>1, <1>w, <1>t DEF ExecutedIsOver
  <2>3. ExecutedIsOver'
    BY <2>1, <1>w, <1>t DEF ExecutedIsOver, HandledSet
  <2>4. FirstExecution' /\ AtMostOnce'
    BY <2>1, <2>2, <1>w, <1>t DEF FirstExecution, AtMostOnce
  <2> QED BY <2>3, <2>4 DEF EInv
<1>13. CASE ReportRunning \/ ReportRunningFails
  <2>1. cur \in Actions
    BY <1>13, <1>t DEF ReportRunning, ReportRunningFails, CurOK
  <2>2. /\ Delivered(cur, "running", None) \/ UNCHANGED srv
        /\ UNCHANGED <<phase, execs, items, handled, fetched, forgotten>> /\ pc' \notin {"begin", "execute"}
    BY <1>13 DEF ReportRunning, ReportRunningFails
  <2> QED BY <2>1, <2>2, <1>b, <1>d
<1>14. CASE MarkExecuting
  <2>1. /\ cur \in Actions /\ phase[cur] = "accepted" /\ phase' = [phase EXCEPT ![cur] = "executing"]
        /\ pc' = "execute" /\ UNCHANGED <<cur, handled, items, fetched, srv, execs, forgotten>>
    BY <1>14, <1>t DEF MarkExecuting, CurOK
  <2>2. cur \in forgotten \/ execs[cur] = 0
    BY <2>1, <1>w, <1>t DEF FirstExecution
  <2>3. ExecutedIsOver'
    BY <2>1, <1>w, <1>t DEF ExecutedIsOver, HandledSet
  <2>4. FirstExecution' /\ AtMostOnce'
    BY <2>1, <2>2, <1>w, <1>t DEF FirstExecution, AtMostOnce
  <2> QED BY <2>3, <2>4 DEF EInv
<1>15. CASE Execute
  <2>1. /\ cur \in Actions /\ phase[cur] = "executing"
        /\ cur \in forgotten \/ execs[cur] = 0
        /\ execs' = [execs EXCEPT ![cur] = @ + 1] /\ pc' = "complete" /\ pc = "execute"
        /\ UNCHANGED <<cur, handled, items, fetched, srv, phase, forgotten>>
    BY <1>15, <1>t DEF Execute, CurOK, StepFindsItsPhase, FirstExecution
  <2>3. ExecutedIsOver'
    BY <2>1, <1>w, <1>t DEF ExecutedIsOver, HandledSet
  <2>4. FirstExecution' /\ AtMostOnce'
    BY <2>1, <1>w, <1>t DEF FirstExecution, AtMostOnce
  <2> QED BY <2>3, <2>4 DEF EInv
<1>16. CASE Complete
  <2>1. /\ cur \in Actions /\ phase' = [phase EXCEPT ![cur] = "terminal"] /\ pc = "complete"
        /\ pc' = "report" /\ UNCHANGED <<cur, handled, items, fetched, srv, execs, forgotten>>
    BY <1>16, <1>t DEF Complete, CurOK
  <2>3. ExecutedIsOver'
    BY <2>1, <1>w, <1>t DEF ExecutedIsOver, HandledSet
  <2>4. FirstExecution' /\ AtMostOnce'
    BY <2>1, <1>w, <1>t DEF FirstExecution, AtMostOnce
  <2> QED BY <2>3, <2>4 DEF EInv
<1>17. CASE ReportTerminal \/ ReportTerminalFails
  <2>1. cur \in Actions
    BY <1>17, <1>t DEF ReportTerminal, ReportTerminalFails, CurOK
  <2>2. pc' \notin {"begin", "execute"}
    BY <1>17 DEF ReportTerminal, ReportTerminalFails, Idle
  <2>3. /\ Delivered(cur, "done", result[cur]) \/ UNCHANGED srv
        /\ UNCHANGED <<phase, execs, items, handled, fetched, forgotten>>
    BY <1>17 DEF ReportTerminal, ReportTerminalFails
  <2> QED BY <2>1, <2>2, <2>3, <1>b, <1>d
<1>18. CASE Delete
  <2>1. /\ cur \in Actions /\ phase[cur] = "terminal" /\ srv[cur] = "done" /\ up
        /\ phase' = [phase EXCEPT ![cur] = None] /\ pc = "delete" /\ pc' = "loop"
        /\ UNCHANGED <<handled, items, fetched, srv, execs, forgotten>>
    BY <1>18, <1>t DEF Delete, CurOK, StepFindsItsPhase, DeleteIsReported
  <2>2. cur \in forgotten \/ (cur \in HandledSet /\ cur \notin items)
    BY <2>1, <1>t DEF JournalRemembered, HandledIsOver
  <2>3. HandledSet' = HandledSet
    BY <2>1 DEF HandledSet
  <2>4. ExecutedIsOver'
    BY <2>1, <2>2, <2>3, <1>w, <1>t DEF ExecutedIsOver
  <2>5. FirstExecution' /\ AtMostOnce'
    BY <2>1, <1>w, <1>t DEF FirstExecution, AtMostOnce
  <2> QED BY <2>4, <2>5 DEF EInv
<1>19. CASE Crash
  <2>1. /\ fetched' = {} /\ items' = {} /\ pc' = "idle"
        /\ UNCHANGED <<phase, execs, srv, forgotten>>
    BY <1>19 DEF Crash, Idle
  <2> QED BY <2>1, <1>a
<1>20. CASE Restart
  <2>1. /\ fetched' = {} /\ items' = {} /\ pc' = "idle" /\ UNCHANGED <<execs, srv>>
        /\ forgotten \subseteq forgotten'
    BY <1>20, <1>t DEF Restart, DownOK, Forgets
  <2>2. \A b \in Actions : phase'[b] = RecoveredPhase(phase[b])
    BY <1>20 DEF Restart
  <2>3. ExecutedIsOver'
    BY <2>1, <2>2, <1>t DEF ExecutedIsOver, RecoveredPhase
  <2>4. FirstExecution' /\ AtMostOnce'
    BY <2>1, <2>2, <1>t DEF FirstExecution, AtMostOnce, RecoveredPhase
  <2> QED BY <2>3, <2>4 DEF EInv
<1>21. CASE UNCHANGED vars
  BY <1>21, <1>b DEF vars
<1> QED
  BY <1>1, <1>2, <1>3, <1>4, <1>5, <1>6, <1>7, <1>8, <1>9, <1>10, <1>11, <1>12, <1>13,
     <1>14, <1>15, <1>16, <1>17, <1>18, <1>19, <1>20, <1>21 DEF Next, Poll, Cycle

LEMMA MemoryInit == Init => MInv /\ EInv
<1>1. ASSUME Init PROVE MInv
  <2>1. handled = <<>> /\ HandledSet = {}
    BY <1>1 DEF Init, HandledSet
  <2> QED BY <1>1, <2>1 DEF Init, MInv, JournalRemembered, HandledIsOver
<1>2. ASSUME Init PROVE EInv
  BY <1>2 DEF Init, EInv, ExecutedIsOver, FirstExecution, AtMostOnce
<1> QED BY <1>1, <1>2

\* Idempotent execution: however polls, cycles, lost answers, crashes and
\* restarts interleave, no action's side effects are run twice unless its id
\* fell out of the stage's memory of handled actions.
THEOREM ExecutedAtMostOnce == Spec => []AtMostOnce
<1>1. CInv /\ Told /\ MInv /\ EInv /\ [Next]_vars => (MInv /\ EInv)'
  BY MInvNext, EInvNext
<1>2. EInv => AtMostOnce
  BY DEF EInv
<1> QED BY <1>1, <1>2, MemoryInit, CInvAlways, ToldAlways, PTL DEF Spec

-----------------------------------------------------------------------------
(* What the server holds is true. *)

\* Executions that a definite result stands for: none if the action had
\* expired when it was accepted, one otherwise.
Expected(a) == IF a \in late THEN 0 ELSE 1

\* An action with a result that left the journal cannot be accepted again.
ReportedIsOver ==
  \A a \in Actions \ forgotten :
    srvResult[a] # None /\ phase[a] = None =>
      /\ srv[a] = "done" /\ a \notin items /\ ~(pc = "begin" /\ cur = a)
      /\ a \in fetched => a \in HandledSet

\* While the record is there, it is the one that was reported.
ReportedIsJournalled ==
  \A a \in Actions \ forgotten :
    srvResult[a] # None /\ phase[a] # None => phase[a] = "terminal" /\ result[a] = srvResult[a]

\* A definite result in r stands for what was executed.
Honest(a, r) ==
  /\ r = "success" => execs[a] = 1
  /\ r = "failed" => execs[a] = Expected(a)

HonestJournal == \A a \in Actions \ forgotten : phase[a] = "terminal" => Honest(a, result[a])
HonestServer  == \A a \in Actions \ forgotten : Honest(a, srvResult[a])

\* The execution whose result is about to be written has just been made.
CompleteIsHonest == pc = "complete" => cur \in forgotten \/ execs[cur] = Expected(cur)

RInv == ReportedIsOver /\ ReportedIsJournalled /\ HonestJournal /\ HonestServer /\ CompleteIsHonest

LEMMA RInvNext == CInv /\ Told /\ MInv /\ EInv /\ RInv /\ [Next]_vars => RInv'
<1> SUFFICES ASSUME CInv, Told, MInv, EInv, RInv, [Next]_vars PROVE RInv'
  OBVIOUS
<1>t. /\ TypeOK /\ CurOK /\ DownOK /\ StepFindsItsPhase /\ TerminalHasResult /\ DeleteIsReported
      /\ JournalRemembered /\ HandledIsOver /\ FirstExecution
      /\ ReportedIsOver /\ ReportedIsJournalled /\ HonestJournal /\ HonestServer
      /\ CompleteIsHonest
  BY DEF CInv, Control, Told, MInv, EInv, RInv
<1>w. /\ phase \in [Actions -> Phases] /\ execs \in [Actions -> Nat] /\ items \subseteq Actions
      /\ srv \in [Actions -> {"unissued", "pending", "running", "done"}]
      /\ srvResult \in [Actions -> Results \cup {None}]
      /\ result \in [Actions -> Results \cup {None}] /\ late \subseteq Actions
  BY <1>t DEF TypeOK
<1> USE DEF server, journal, stage, poller, executor, history
\* Steps that neither execute an action, nor write the journal, nor report.
<1>a. ASSUME UNCHANGED <<phase, result, late, execs, srvResult>>, forgotten \subseteq forgotten',
             \A b \in Actions : srv[b] = "done" => srv'[b] = "done",
             \A b \in items' : b \in items \/ (b \in fetched /\ b \notin HandledSet),
             pc' = "begin" => cur' \in items \/ UNCHANGED <<pc, cur>>,
             pc' = "complete" => UNCHANGED <<pc, cur>>,
             \A b \in fetched' : b \in fetched \/ srv[b] # "done",
             fetched' = {} \/ HandledSet \subseteq HandledSet' \cup forgotten'
      PROVE  RInv'
  <2>1. ReportedIsOver'
    BY <1>a, <1>t DEF ReportedIsOver
  <2>2. ReportedIsJournalled'
    BY <1>a, <1>t DEF ReportedIsJournalled
  <2>3. HonestJournal' /\ HonestServer' /\ CompleteIsHonest'
    BY <1>a, <1>t DEF HonestJournal, HonestServer, CompleteIsHonest, Honest, Expected
  <2> QED BY <2>1, <2>2, <2>3 DEF RInv
\* Among them, those that leave the stage, the poller and the server alone.
<1>b. ASSUME UNCHANGED <<phase, result, late, execs, srv, srvResult, items, handled, fetched>>,
             forgotten \subseteq forgotten',
             pc' \notin {"begin", "complete"} \/ UNCHANGED <<pc, cur>>
      PROVE  RInv'
  <2>1. HandledSet' = HandledSet
    BY <1>b DEF HandledSet
  <2> QED BY <2>1, <1>a, <1>b
\* Steps that remember an action.
<1>c. ASSUME NEW x \in Actions, handled' = Remember(handled, x), items' = items \ {x},
             Forgets(HandledSet),
             UNCHANGED <<phase, result, late, execs, srv, srvResult, fetched>>,
             pc' \notin {"begin", "complete"}
      PROVE  RInv'
  <2>1. forgotten \subseteq forgotten' /\ HandledSet \subseteq HandledSet' \cup forgotten'
    BY <1>c DEF Forgets
  <2> QED BY <2>1, <1>a, <1>c
\* Steps that write the record at hand before it is reported.
<1>d. ASSUME cur \in Actions, cur \in forgotten \/ srvResult[cur] = None,
             \A b \in Actions \ {cur} :
               phase'[b] = phase[b] /\ result'[b] = result[b] /\ execs'[b] = execs[b]
                 /\ (b \in late' <=> b \in late),
             UNCHANGED <<cur, srv, srvResult, items, handled, fetched, forgotten>>,
             cur \in forgotten \/ (phase'[cur] = "terminal" => Honest(cur, result[cur])'),
             pc' # "begin", pc' = "complete" => CompleteIsHonest'
      PROVE  RInv'
  <2>0. HandledSet' = HandledSet
    BY <1>d DEF HandledSet
  <2>1. ReportedIsOver'
    BY <1>d, <2>0, <1>t DEF ReportedIsOver
  <2>2. ReportedIsJournalled'
    BY <1>d, <1>t DEF ReportedIsJournalled
  <2>3. HonestJournal'
    BY <1>d, <1>t DEF HonestJournal, Honest, Expected
  <2>4. HonestServer'
    BY <1>d, <1>t DEF HonestServer, Honest, Expected
  <2>5. CompleteIsHonest'
    BY <1>d DEF CompleteIsHonest
  <2> QED BY <2>1, <2>2, <2>3, <2>4, <2>5 DEF RInv
\* A record that is not final has no result at the server.
<1>e. ASSUME cur \in Actions, phase[cur] \in {"accepted", "executing"}
      PROVE  cur \in forgotten \/ srvResult[cur] = None
  BY <1>e, <1>t DEF ReportedIsJournalled
<1>1. ASSUME NEW a \in Actions, Issue(a) PROVE RInv'
  <2>1. \A b \in Actions : srv[b] = "done" => srv'[b] = "done"
    BY <1>1, <1>w DEF Issue
  <2>2. HandledSet' = HandledSet
    BY <1>1 DEF Issue, HandledSet
  <2> QED BY <1>1, <2>1, <2>2, <1>a DEF Issue
<1>2. ASSUME NEW a \in Actions, Expire(a) PROVE RInv'
  BY <1>2, <1>b DEF Expire
<1>3. CASE Fetch
  <2>1. \A b \in fetched' : srv[b] # "done"
    BY <1>3 DEF Fetch
  <2>2. HandledSet' = HandledSet
    BY <1>3 DEF Fetch, HandledSet
  <2> QED BY <1>3, <2>1, <2>2, <1>a DEF Fetch
<1>4. CASE EndPoll
  BY <1>4, <1>b DEF EndPoll
<1>5. ASSUME NEW a \in Actions, StageIgnore(a) PROVE RInv'
  <2>1. HandledSet' = HandledSet
    BY <1>5 DEF StageIgnore, HandledSet
  <2> QED BY <1>5, <2>1, <1>a DEF StageIgnore
<1>6. ASSUME NEW a \in Actions, StageAdd(a) \/ StageReplace(a) PROVE RInv'
  <2>1. items' \subseteq items \cup {a} /\ a \in fetched /\ a \notin HandledSet
    BY <1>6 DEF StageAdd, StageReplace, Admissible
  <2>2. HandledSet' = HandledSet
    BY <1>6 DEF StageAdd, StageReplace, HandledSet
  <2> QED BY <1>6, <2>1, <2>2, <1>a DEF StageAdd, StageReplace
<1>7. CASE StartCycle \/ NextMode \/ EndCycle \/ BeginFull
  BY <1>7, <1>b DEF StartCycle, NextMode, EndCycle, BeginFull, Idle
<1>8. CASE TakeRecord
  <2>1. /\ pc' \notin {"begin", "complete"}
        /\ UNCHANGED <<phase, result, late, execs, srv, srvResult, items, handled, fetched,
                       forgotten>>
    BY <1>8 DEF TakeRecord
  <2> QED BY <2>1, <1>b
<1>9. CASE SkipStaged
  <2>1. Head(order) \in Actions
    BY <1>9, <1>t DEF SkipStaged, MayTake, TypeOK
  <2>2. CASE Head(order) \in items
    BY <1>9, <2>1, <2>2, <1>c DEF SkipStaged, MayTake
  <2>3. CASE Head(order) \notin items
    BY <1>9, <2>3, <1>b DEF SkipStaged, Forgets
  <2> QED BY <2>2, <2>3
<1>10. CASE TakeStaged
  <2>1. HandledSet' = HandledSet
    BY <1>10 DEF TakeStaged, HandledSet
  <2> QED BY <1>10, <2>1, <1>a DEF TakeStaged
<1>11. CASE BeginExists \/ MarkHandled
  <2>1. cur \in Actions
    BY <1>11, <1>t DEF BeginExists, MarkHandled, CurOK
  <2> QED BY <1>11, <2>1, <1>c DEF BeginExists, MarkHandled
<1>12. CASE Begin
  <2>1. /\ cur \in Actions /\ phase[cur] = None /\ phase' = [phase EXCEPT ![cur] = "accepted"]
        /\ pc = "begin" /\ pc' = "handled" /\ late' \subseteq late \cup {cur} /\ late \subseteq late'
        /\ UNCHANGED <<cur, handled, items, fetched, srv, srvResult, result, execs, forgotten>>
    BY <1>12, <1>t DEF Begin, CurOK
  <2>2. cur \in forgotten \/ srvResult[cur] = None
    BY <2>1, <1>t DEF ReportedIsOver
  <2> QED BY <2>1, <2>2, <1>w, <1>d
<1>13. CASE ReportRunning \/ ReportRunningFails
  <2>1. cur \in Actions /\ phase[cur] = "accepted"
    BY <1>13, <1>t DEF ReportRunning, ReportRunningFails, CurOK, StepFindsItsPhase
  <2>2. /\ Delivered(cur, "running", None) \/ UNCHANGED server
        /\ UNCHANGED <<phase, result, late, execs, items, handled, fetched, forgotten>>
        /\ pc' \notin {"begin", "complete"}
    BY <1>13 DEF ReportRunning, ReportRunningFails
  <2>3. srvResult' = srvResult
    BY <2>2, <1>w DEF Delivered
  <2>4. \A b \in Actions : srv[b] = "done" => srv'[b] = "done"
    BY <2>1, <2>2, <1>w DEF Delivered
  <2>5. HandledSet' = HandledSet
    BY <2>2 DEF HandledSet
  <2> QED BY <2>2, <2>3, <2>4, <2>5, <1>a
<1>14. CASE MarkExecuting
  <2>1. /\ cur \in Actions /\ phase[cur] = "accepted" /\ phase' = [phase EXCEPT ![cur] = "executing"]
        /\ pc' = "execute"
        /\ UNCHANGED <<cur, handled, items, fetched, srv, srvResult, result, late, execs, forgotten>>
    BY <1>14, <1>t DEF MarkExecuting, CurOK
  <2> QED BY <2>1, <1>w, <1>d, <1>e
<1>15. CASE ExecuteRefuses
  <2>1. /\ cur \in Actions /\ phase[cur] = "executing" /\ cur \in late /\ pc = "execute"
        /\ UNCHANGED <<cur, handled, items, fetched, server, phase, result, late, execs, forgotten>>
        /\ pc' = "complete"
    BY <1>15, <1>t DEF ExecuteRefuses, CurOK, StepFindsItsPhase
  <2>2. CompleteIsHonest'
    BY <2>1, <1>t DEF CompleteIsHonest, FirstExecution, Expected
  <2> QED BY <2>1, <2>2, <1>d, <1>e
<1>16. CASE Execute
  <2>1. /\ cur \in Actions /\ phase[cur] = "executing" /\ cur \notin late /\ pc = "execute"
        /\ execs' = [execs EXCEPT ![cur] = @ + 1] /\ pc' = "complete"
        /\ UNCHANGED <<cur, handled, items, fetched, server, phase, result, late, forgotten>>
    BY <1>16, <1>t DEF Execute, CurOK, StepFindsItsPhase
  <2>2. CompleteIsHonest'
    BY <2>1, <1>t, <1>w DEF CompleteIsHonest, FirstExecution, Expected
  <2> QED BY <2>1, <2>2, <1>w, <1>d, <1>e
<1>17. CASE Complete
  <2>1. PICK r \in {"success", "failed"} :
          (cur \in late => r = "failed") /\ result' = [result EXCEPT ![cur] = r]
    BY <1>17 DEF Complete
  <2>2. /\ cur \in Actions /\ phase[cur] = "executing" /\ pc = "complete" /\ pc' = "report"
        /\ phase' = [phase EXCEPT ![cur] = "terminal"]
        /\ UNCHANGED <<cur, handled, items, fetched, server, late, execs, forgotten>>
    BY <1>17, <1>t DEF Complete, CurOK
  <2>3. cur \in forgotten \/ Honest(cur, result[cur])'
    BY <2>1, <2>2, <1>t, <1>w DEF CompleteIsHonest, Honest, Expected
  <2> QED BY <2>1, <2>2, <2>3, <1>w, <1>d, <1>e
<1>18. CASE ReportTerminal \/ ReportTerminalFails
  <2>1. cur \in Actions /\ phase[cur] = "terminal" /\ result[cur] # None
    BY <1>18, <1>t DEF ReportTerminal, ReportTerminalFails, CurOK, StepFindsItsPhase,
                       TerminalHasResult
  <2>2. pc' \notin {"begin", "complete"}
    BY <1>18 DEF ReportTerminal, ReportTerminalFails, Idle
  <2>3. /\ Delivered(cur, "done", result[cur]) \/ UNCHANGED server
        /\ UNCHANGED <<phase, result, late, execs, items, handled, fetched, forgotten>>
    BY <1>18 DEF ReportTerminal, ReportTerminalFails
  <2>4. CASE UNCHANGED server
    BY <2>2, <2>3, <2>4, <1>b
  <2>5. CASE Delivered(cur, "done", result[cur])
    <3>1. /\ srv' = [srv EXCEPT ![cur] = IF @ = "done" THEN @ ELSE "done"]
          /\ srvResult' = [srvResult EXCEPT ![cur] = IF @ = None THEN result[cur] ELSE @]
      BY <2>5 DEF Delivered
    <3>2. HandledSet' = HandledSet
      BY <2>3 DEF HandledSet
    <3>3. ReportedIsOver'
      BY <2>1, <2>2, <2>3, <3>1, <3>2, <1>w, <1>t DEF ReportedIsOver
    <3>4. ReportedIsJournalled'
      BY <2>1, <2>3, <3>1, <1>w, <1>t DEF ReportedIsJournalled
    <3>5. HonestServer'
      BY <2>1, <2>3, <3>1, <1>w, <1>t DEF HonestServer, HonestJournal, Honest, Expected
    <3>6. HonestJournal' /\ CompleteIsHonest'
      BY <2>2, <2>3, <1>t DEF HonestJournal, CompleteIsHonest, Honest, Expected
    <3> QED BY <3>3, <3>4, <3>5, <3>6 DEF RInv
  <2> QED BY <2>3, <2>4, <2>5
<1>19. CASE Delete
  <2>1. /\ cur \in Actions /\ phase[cur] = "terminal" /\ srv[cur] = "done" /\ up
        /\ phase' = [phase EXCEPT ![cur] = None] /\ result' = [result EXCEPT ![cur] = None]
        /\ pc = "delete" /\ pc' = "loop"
        /\ UNCHANGED <<handled, items, fetched, server, late, execs, forgotten>>
    BY <1>19, <1>t DEF Delete, CurOK, StepFindsItsPhase, DeleteIsReported
  <2>2. cur \in forgotten \/ (cur \in HandledSet /\ cur \notin items)
    BY <2>1, <1>t DEF JournalRemembered, HandledIsOver
  <2>3. HandledSet' = HandledSet
    BY <2>1 DEF HandledSet
  <2>4. ReportedIsOver'
    BY <2>1, <2>2, <2>3, <1>w, <1>t DEF ReportedIsOver
  <2>5. ReportedIsJournalled'
    BY <2>1, <1>w, <1>t DEF ReportedIsJournalled
  <2>6. HonestJournal' /\ HonestServer' /\ CompleteIsHonest'
    BY <2>1, <1>w, <1>t DEF HonestJournal, HonestServer, CompleteIsHonest, Honest, Expected
  <2> QED BY <2>4, <2>5, <2>6 DEF RInv
<1>20. CASE Crash
  <2>1. /\ fetched' = {} /\ items' = {} /\ pc' = "idle"
        /\ UNCHANGED <<phase, result, late, execs, srv, srvResult, forgotten>>
    BY <1>20 DEF Crash, Idle
  <2> QED BY <2>1, <1>a
<1>21. CASE Restart
  <2>1. /\ fetched' = {} /\ items' = {} /\ pc' = "idle"
        /\ UNCHANGED <<execs, late, srv, srvResult>> /\ forgotten \subseteq forgotten'
    BY <1>21, <1>t DEF Restart, DownOK, Forgets
  <2>2. \A b \in Actions : /\ phase'[b] = RecoveredPhase(phase[b])
                           /\ result'[b] = RecoveredResult(phase[b], result[b])
    BY <1>21 DEF Restart
  <2>3. ReportedIsOver'
    BY <2>1, <2>2, <1>t DEF ReportedIsOver, RecoveredPhase
  <2>4. ReportedIsJournalled'
    BY <2>1, <2>2, <1>t DEF ReportedIsJournalled, RecoveredPhase, RecoveredResult
  <2>5. HonestJournal'
    BY <2>1, <2>2, <1>t DEF HonestJournal, Honest, Expected, RecoveredPhase, RecoveredResult
  <2>6. HonestServer' /\ CompleteIsHonest'
    BY <2>1, <1>t DEF HonestServer, CompleteIsHonest, Honest, Expected
  <2> QED BY <2>3, <2>4, <2>5, <2>6 DEF RInv
<1>22. CASE UNCHANGED vars
  BY <1>22, <1>b DEF vars
<1> QED
  BY <1>1, <1>2, <1>3, <1>4, <1>5, <1>6, <1>7, <1>8, <1>9, <1>10, <1>11, <1>12, <1>13,
     <1>14, <1>15, <1>16, <1>17, <1>18, <1>19, <1>20, <1>21, <1>22 DEF Next, Poll, Cycle

\* The server is told the truth, however reports are lost or repeated and
\* wherever the agent crashes: a success is one execution, a failure one
\* execution or the refusal of an action accepted too late, and the journal
\* agrees with the server for as long as it has the record.
THEOREM ServerIsToldTheTruth == Spec => []ReportedResultIsTrue
<1>1. Init => MInv /\ EInv
  BY MemoryInit
<1>2. Init => RInv
  BY DEF Init, RInv, ReportedIsOver, ReportedIsJournalled, HonestJournal, HonestServer,
         CompleteIsHonest, Honest
<1>3. CInv /\ Told /\ MInv /\ EInv /\ RInv /\ [Next]_vars => (MInv /\ EInv /\ RInv)'
  BY MInvNext, EInvNext, RInvNext
<1>4. RInv => ReportedResultIsTrue
  BY DEF RInv, ReportedIsJournalled, HonestServer, Honest, Expected, ReportedResultIsTrue
<1> QED BY <1>1, <1>2, <1>3, <1>4, CInvAlways, ToldAlways, PTL DEF Spec

-----------------------------------------------------------------------------
(* A memory as long as the number of actions forgets none of them. *)

\* A sequence without repetitions is no longer than the set it draws from.
LEMMA NoRepeats ==
  ASSUME NEW S, IsFiniteSet(S), NEW n \in Nat, NEW f \in [1 .. n -> S],
         \A i, j \in 1 .. n : f[i] = f[j] => i = j
  PROVE  n <= Cardinality(S)
<1>1. IsFiniteSet(1 .. n) /\ Cardinality(1 .. n) = n
  BY FS_Interval
<1>2. Cardinality(S) \in Nat
  BY FS_CardinalityType
<1>3. ~(Cardinality(S) < n)
  BY <1>1, FS_PigeonHole
<1> QED BY <1>2, <1>3

\* It reaches the whole set when it is as long as that.
LEMMA AllReached ==
  ASSUME NEW S, IsFiniteSet(S), NEW f \in [1 .. Cardinality(S) -> S],
         \A i, j \in 1 .. Cardinality(S) : f[i] = f[j] => i = j
  PROVE  \A a \in S : \E i \in 1 .. Cardinality(S) : f[i] = a
<1> SUFFICES ASSUME NEW a \in S, \A i \in 1 .. Cardinality(S) : f[i] # a
             PROVE  FALSE
  OBVIOUS
<1>1. Cardinality(S) \in Nat
  BY FS_CardinalityType
<1>2. IsFiniteSet(S \ {a}) /\ Cardinality(S \ {a}) = Cardinality(S) - 1
  BY FS_RemoveElement
<1>3. f \in [1 .. Cardinality(S) -> S \ {a}]
  OBVIOUS
<1>4. Cardinality(S) <= Cardinality(S \ {a})
  BY <1>1, <1>2, <1>3, NoRepeats
<1> QED BY <1>1, <1>2, <1>4

\* The stage remembers an id once.
HandledOnce == \A i, j \in DOMAIN handled : handled[i] = handled[j] => i = j

LEMMA RememberAdds ==
  ASSUME Cardinality(Actions) <= HandledMax,
         TypeOK, HandledOnce, NEW a \in Actions,
         handled' = Remember(handled, a)
  PROVE  HandledSet' = HandledSet \cup {a} /\ HandledOnce'
<1>0. handled \in Seq(Actions)
  BY DEF TypeOK
<1>1. CASE a \in HandledSet
  <2>1. handled' = handled
    BY <1>1 DEF Remember, HandledSet
  <2> QED BY <1>1, <2>1 DEF HandledSet, HandledOnce
<1>2. CASE a \notin HandledSet
  <2>1. IsFiniteSet(Actions \ {a}) /\ Cardinality(Actions \ {a}) = Cardinality(Actions) - 1
    BY ActionsAssumption, FS_RemoveElement
  <2>2. Len(handled) \in Nat /\ DOMAIN handled = 1 .. Len(handled)
    BY <1>0
  <2>3. handled \in [1 .. Len(handled) -> Actions \ {a}]
    BY <1>0, <1>2, <2>2 DEF HandledSet
  <2>4. Len(handled) <= Cardinality(Actions \ {a})
    BY <2>1, <2>2, <2>3, NoRepeats DEF HandledOnce
  <2>5. Len(handled) < HandledMax
    BY <2>1, <2>2, <2>4, ActionsAssumption, FS_CardinalityType, LimitsAssumption
  <2>6. handled' = Append(handled, a)
    BY <1>2, <2>5 DEF Remember, HandledSet
  <2>7. /\ DOMAIN handled' = 1 .. (Len(handled) + 1)
        /\ \A i \in 1 .. Len(handled) : handled'[i] = handled[i]
        /\ handled'[Len(handled) + 1] = a
    BY <1>0, <2>6
  <2>8. HandledOnce'
    BY <1>2, <2>2, <2>7 DEF HandledOnce, HandledSet
  <2>9. HandledSet' = HandledSet \cup {a}
    <3>1. ASSUME NEW b \in HandledSet' PROVE b \in HandledSet \cup {a}
      BY <2>2, <2>7 DEF HandledSet
    <3>2. ASSUME NEW b \in HandledSet \cup {a} PROVE b \in HandledSet'
      BY <2>2, <2>7 DEF HandledSet
    <3> QED BY <3>1, <3>2
  <2> QED BY <2>8, <2>9
<1> QED BY <1>1, <1>2

\* After a restart the stage remembers exactly the journalled actions.
LEMMA RestartRemembers ==
  ASSUME Cardinality(Actions) <= HandledMax, TypeOK, Restart
  PROVE  HandledSet' = Records /\ HandledOnce'
<1>1. Cardinality(Records) \in Nat /\ Cardinality(Records) <= Cardinality(Actions)
  <2>1. Records \in SUBSET Actions
    BY DEF Records
  <2> QED BY <2>1, ActionsAssumption, RecordsFinite, FS_Subset, FS_CardinalityType
<1>2. PICK h \in [1 .. Cardinality(Records) -> Records] :
        /\ \A i, j \in DOMAIN h : i < j => started[h[i]] < started[h[j]]
        /\ handled' = Latest(h)
  BY DEF Restart
<1>3. h \in Seq(Actions) /\ Len(h) = Cardinality(Records) /\ DOMAIN h = 1 .. Cardinality(Records)
  BY <1>1, OrderIsSeq
<1>4. handled' = h
  BY <1>1, <1>2, <1>3, ActionsAssumption, FS_CardinalityType, LimitsAssumption DEF Latest
<1>5. \A i \in 1 .. Cardinality(Records) : h[i] \in Actions /\ started[h[i]] \in Nat
  BY <1>3 DEF TypeOK, Records
<1>6. ASSUME NEW i \in 1 .. Cardinality(Records), NEW j \in 1 .. Cardinality(Records),
             h[i] = h[j]
      PROVE  i = j
  <2>1. ~(i < j) /\ ~(j < i)
    BY <1>2, <1>3, <1>5, <1>6
  <2> QED BY <1>1, <2>1
<1>7. HandledOnce'
  BY <1>3, <1>4, <1>6 DEF HandledOnce
<1>8. \A a \in Records : \E i \in 1 .. Cardinality(Records) : h[i] = a
  BY <1>6, RecordsFinite, AllReached
<1>9. HandledSet' = Records
  <2>1. ASSUME NEW b \in HandledSet' PROVE b \in Records
    BY <1>3, <1>4 DEF HandledSet
  <2>2. ASSUME NEW b \in Records PROVE b \in HandledSet'
    BY <1>3, <1>4, <1>8 DEF HandledSet
  <2> QED BY <2>1, <2>2
<1> QED BY <1>7, <1>9

\* Nothing is forgotten.
Retained == HandledOnce /\ forgotten = {}

LEMMA RetainedNext ==
  ASSUME Cardinality(Actions) <= HandledMax
  PROVE  CInv /\ Retained /\ [Next]_vars => Retained'
<1> SUFFICES ASSUME CInv, Retained, [Next]_vars PROVE Retained'
  OBVIOUS
<1>t. TypeOK /\ CurOK /\ HandledOnce /\ forgotten = {}
  BY DEF CInv, Control, Retained
<1> USE DEF server, journal, stage, poller, executor, history
<1>a. ASSUME UNCHANGED <<handled, forgotten>> PROVE Retained'
  BY <1>a, <1>t DEF Retained, HandledOnce
<1>b. ASSUME NEW x \in Actions, handled' = Remember(handled, x), Forgets(HandledSet)
      PROVE  Retained'
  <2>1. HandledSet' = HandledSet \cup {x} /\ HandledOnce'
    BY <1>b, <1>t, RememberAdds
  <2> QED BY <2>1, <1>b, <1>t DEF Forgets, Retained
<1>1. ASSUME NEW a \in Actions, Issue(a) \/ Expire(a) PROVE Retained'
  BY <1>1, <1>a DEF Issue, Expire
<1>2. CASE Fetch \/ EndPoll
  BY <1>2, <1>a DEF Fetch, EndPoll
<1>3. ASSUME NEW a \in Actions, StageIgnore(a) \/ StageAdd(a) \/ StageReplace(a) PROVE Retained'
  BY <1>3, <1>a DEF StageIgnore, StageAdd, StageReplace
<1>4. CASE \/ StartCycle \/ NextMode \/ TakeRecord \/ TakeStaged \/ EndCycle \/ BeginFull
           \/ Begin
  BY <1>4, <1>a DEF StartCycle, NextMode, TakeRecord, TakeStaged, EndCycle, BeginFull, Begin
<1>5. CASE SkipStaged
  <2>1. Head(order) \in Actions
    BY <1>5, <1>t DEF SkipStaged, MayTake, TypeOK
  <2>2. CASE Head(order) \in items
    BY <1>5, <2>1, <2>2, <1>b DEF SkipStaged
  <2>3. CASE Head(order) \notin items
    <3>1. handled' = handled /\ HandledSet' = HandledSet
      BY <1>5, <2>3 DEF SkipStaged, HandledSet
    <3>2. forgotten' = {}
      BY <1>5, <1>t, <3>1 DEF SkipStaged, Forgets
    <3> QED BY <3>1, <3>2, <1>t, <1>a
  <2> QED BY <2>2, <2>3
<1>6. CASE BeginExists \/ MarkHandled
  <2>1. cur \in Actions
    BY <1>6, <1>t DEF BeginExists, MarkHandled, CurOK
  <2> QED BY <1>6, <2>1, <1>b DEF BeginExists, MarkHandled
<1>7. CASE ReportRunning \/ ReportRunningFails \/ ReportTerminal \/ ReportTerminalFails
  BY <1>7, <1>a DEF ReportRunning, ReportRunningFails, ReportTerminal, ReportTerminalFails
<1>8. CASE MarkExecuting \/ ExecuteRefuses \/ Execute \/ Complete \/ Delete
  BY <1>8, <1>a DEF MarkExecuting, ExecuteRefuses, Execute, Complete, Delete
<1>9. CASE Crash
  BY <1>9, <1>t DEF Crash, Retained, HandledOnce
<1>10. CASE Restart
  <2>1. HandledSet' = Records /\ HandledOnce'
    BY <1>10, <1>t, RestartRemembers
  <2> QED BY <1>10, <2>1, <1>t DEF Restart, Forgets, Retained
<1>11. CASE UNCHANGED vars
  BY <1>11, <1>a DEF vars
<1> QED
  BY <1>1, <1>2, <1>3, <1>4, <1>5, <1>6, <1>7, <1>8, <1>9, <1>10, <1>11 DEF Next, Poll, Cycle

\* The exception of AtMostOnce does not arise while the agent's actions fit the
\* stage's memory: then no action's side effects are ever run twice.
THEOREM NeverTwiceInMemory ==
  ASSUME Cardinality(Actions) <= HandledMax
  PROVE  Spec => [](\A a \in Actions : execs[a] <= 1)
<1>1. Init => Retained
  BY DEF Init, Retained, HandledOnce
<1>2. CInv /\ Retained /\ [Next]_vars => Retained'
  BY RetainedNext
<1>3. Retained /\ AtMostOnce => \A a \in Actions : execs[a] <= 1
  BY DEF Retained, AtMostOnce
<1> QED BY <1>1, <1>2, <1>3, CInvAlways, ExecutedAtMostOnce, PTL DEF Spec
=============================================================================

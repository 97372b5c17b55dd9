----------------------- MODULE StrategyEngineProofs -----------------------
(***************************************************************************)
(* What every step of the strategy engine preserves, for every value of    *)
(* the constants. The lemmas speak of EngineInit and EngineNext, so that   *)
(* the theorems about each composition of the engine with an executor      *)
(* only have to add that the executor leaves the engine's state alone.     *)
(***************************************************************************)
EXTENDS StrategyEngine, FiniteSetTheorems, SequenceTheorems, TLAPS

\* Where a task stands determines what it holds: a detector that is not waiting
\* has an opportunity in hand; a plan being registered is new and was admitted
\* below the limit, which only the detector could have used up since; a report
\* being persisted names a leg of a plan.
Control ==
  /\ dpc \in {"op", "register", "send", "count"} => ops \in 1..2
  /\ dpc \in {"register", "send", "count"} => issued \in Plans
  /\ dpc = "register" => issued \notin inflight /\ Cardinality(inflight) < MaxConcurrent
  /\ mpc = "persist" => report.plan \in Plans /\ report.leg \in Legs

IInv == TypeOK /\ Control /\ ConcurrencyCap /\ Accounting

-----------------------------------------------------------------------------
\* The table is finite, so that its size is a number.
LEMMA TableFinite == TypeOK => IsFiniteSet(inflight) /\ Cardinality(inflight) \in Nat
<1> SUFFICES ASSUME TypeOK PROVE IsFiniteSet(inflight) /\ Cardinality(inflight) \in Nat
  OBVIOUS
<1>1. issued \in Int /\ inflight \subseteq 1..issued
  BY EngineAssumption DEF TypeOK
<1>2. IsFiniteSet(1..issued)
  BY <1>1, FS_Interval
<1>3. IsFiniteSet(inflight)
  BY <1>1, <1>2, FS_Subset
<1> QED
  BY <1>3, FS_CardinalityType

\* Removing a plan from the table takes one off its size if the plan was there.
LEMMA DropSize ==
  ASSUME TypeOK, NEW p
  PROVE  /\ Cardinality(inflight \ {p}) \in Nat
         /\ p \in inflight => Cardinality(inflight \ {p}) = Cardinality(inflight) - 1
         /\ p \notin inflight => inflight \ {p} = inflight
         /\ Cardinality(inflight \ {p}) <= Cardinality(inflight)
<1>1. IsFiniteSet(inflight) /\ Cardinality(inflight) \in Nat
  BY TableFinite
<1>2. Cardinality(inflight \ {p}) =
        IF p \in inflight THEN Cardinality(inflight) - 1 ELSE Cardinality(inflight)
  BY <1>1, FS_RemoveElement
<1>3. Cardinality(inflight \ {p}) \in Nat
  BY <1>1, FS_RemoveElement, FS_CardinalityType
<1> QED
  BY <1>1, <1>2, <1>3

\* Adding a plan that is not in the table adds one to its size.
LEMMA AddSize ==
  ASSUME TypeOK, NEW p, p \notin inflight
  PROVE  Cardinality(inflight \cup {p}) = Cardinality(inflight) + 1
BY TableFinite, FS_AddElement

-----------------------------------------------------------------------------
\* The engine starts in a state of the invariant.
LEMMA EngineInitial == EngineInit => IInv
<1> SUFFICES ASSUME EngineInit PROVE IInv
  OBVIOUS
<1>1. Cardinality(inflight) = 0
  BY FS_EmptySet DEF EngineInit
<1>2. TypeOK
  <2>1. <<>> \in Seq(Plans) /\ <<>> \in Seq(Reports)
    OBVIOUS
  <2>2. NoFill \in [Legs -> Nat] /\ NoReport \in Reports /\ metrics \in Metrics
    BY DEF NoFill, NoReport, Reports, Statuses, Metrics, EngineInit
  <2> QED
    BY <2>1, <2>2, EngineAssumption DEF EngineInit, TypeOK
<1>3. Control
  BY DEF EngineInit, Control
<1> QED
  BY <1>1, <1>2, <1>3, EngineAssumption
  DEF IInv, ConcurrencyCap, Accounting, Building, Counting, EngineInit
-----------------------------------------------------------------------------
\* What is in the table is a plan.
LEMMA InflightPlans == TypeOK => inflight \subseteq Plans
<1> SUFFICES ASSUME TypeOK PROVE inflight \subseteq Plans
  OBVIOUS
<1>1. issued \in 0..MaxPlans /\ inflight \subseteq 1..issued /\ MaxPlans \in Nat
  BY EngineAssumption DEF TypeOK
<1> QED
  BY <1>1 DEF Plans

\* Each counter can be incremented.
LEMMA CountTypes ==
  ASSUME metrics \in Metrics
  PROVE  /\ metrics.seen \in Nat /\ metrics.submitted \in Nat /\ metrics.executed \in Nat
         /\ metrics.cancelled \in Nat /\ metrics.rejected \in Nat
         /\ [metrics EXCEPT !.seen = @ + 1] \in Metrics
         /\ [metrics EXCEPT !.submitted = @ + 1] \in Metrics
         /\ [metrics EXCEPT !.executed = @ + 1] \in Metrics
         /\ [metrics EXCEPT !.cancelled = @ + 1] \in Metrics
         /\ [metrics EXCEPT !.rejected = @ + 1] \in Metrics
BY DEF Metrics

\* A plan is removed from the table with its fills and its deadline.
LEMMA DropTypes ==
  ASSUME TypeOK, NEW p, Drop(p)
  PROVE  /\ inflight' \subseteq 1..issued /\ timed_out' \subseteq inflight'
         /\ filled' \in [Plans -> [Legs -> Nat]]
<1>1. NoFill \in [Legs -> Nat]
  BY DEF NoFill
<1> QED
  BY <1>1 DEF TypeOK, Drop

\* Adding a report to the fills of its plan.
LEMMA FilledNowType == TypeOK => FilledNow \in [Plans -> [Legs -> Nat]]
<1> SUFFICES ASSUME TypeOK PROVE FilledNow \in [Plans -> [Legs -> Nat]]
  OBVIOUS
<1>1. report.qty \in Nat /\ filled \in [Plans -> [Legs -> Nat]]
  BY DEF TypeOK, Reports
<1>2. CASE report.leg \in Legs /\ report.plan \in Plans
  <2>1. filled[report.plan][report.leg] + report.qty \in Nat
    BY <1>1, <1>2
  <2> QED
    BY <1>1, <1>2, <2>1 DEF FilledNow
<1>3. CASE report.leg \notin Legs \/ report.plan \notin Plans
  BY <1>1, <1>3 DEF FilledNow
<1> QED
  BY <1>2, <1>3

\* Going on to the next opportunity.
LEMMA NextOpTypes ==
  ASSUME Control, dpc \in {"op", "count", "send"}, NextOp
  PROVE  ops' \in 0..2 /\ dpc' \in {"recv", "op"}
BY DEF Control, NextOp

\* Every step of the detector keeps the types.
LEMMA DetectorTypes == TypeOK /\ Control /\ Detector => TypeOK'
<1> SUFFICES ASSUME TypeOK, Control, Detector PROVE TypeOK'
  OBVIOUS
<1> USE DEF detector, monitor, table, disk, channels
<1>1. CASE RecvView
  <2>1. metrics' \in Metrics
    BY <1>1, CountTypes DEF RecvView, TypeOK
  <2>2. ops' \in 0..2 /\ found' \in Nat /\ dpc' \in {"recv", "op"}
    BY <1>1 DEF RecvView, TypeOK
  <2> QED
    BY <1>1, <2>1, <2>2 DEF RecvView, TypeOK
<1>2. CASE DetectorExit
  BY <1>2 DEF DetectorExit, TypeOK
<1>3. CASE RejectBusy
  <2>1. metrics' \in Metrics
    BY <1>3, CountTypes DEF RejectBusy, Reject, TypeOK
  <2>2. ops' \in 0..2 /\ dpc' \in {"recv", "op"}
    BY <1>3, NextOpTypes DEF RejectBusy
  <2> QED
    BY <1>3, <2>1, <2>2 DEF RejectBusy, TypeOK
<1>4. CASE RejectOp
  <2>1. metrics' \in Metrics
    BY <1>4, CountTypes DEF RejectOp, Reject, TypeOK
  <2>2. ops' \in 0..2 /\ dpc' \in {"recv", "op"}
    BY <1>4, NextOpTypes DEF RejectOp
  <2> QED
    BY <1>4, <2>1, <2>2 DEF RejectOp, TypeOK
<1>5. CASE BuildPlan
  <2>1. issued' \in 0..MaxPlans /\ inflight \subseteq 1..issued'
    BY <1>5, EngineAssumption DEF BuildPlan, TypeOK
  <2> QED
    BY <1>5, <2>1 DEF BuildPlan, TypeOK
<1>6. CASE Register
  <2>1. NoFill \in [Legs -> Nat] /\ issued \in 1..issued
    BY <1>6 DEF NoFill, Register, Control, Plans
  <2> QED
    BY <1>6, <2>1 DEF Register, TypeOK
<1>7. CASE Submit
  <2>1. plan_q' \in Seq(Plans)
    BY <1>7, AppendProperties DEF Submit, TypeOK, Control
  <2> QED
    BY <1>7, <2>1 DEF Submit, TypeOK
<1>8. CASE CountSubmitted
  <2>1. metrics' \in Metrics
    BY <1>8, CountTypes DEF CountSubmitted, TypeOK
  <2>2. ops' \in 0..2 /\ dpc' \in {"recv", "op"}
    BY <1>8, NextOpTypes DEF CountSubmitted
  <2> QED
    BY <1>8, <2>1, <2>2 DEF CountSubmitted, TypeOK
<1>9. CASE SubmitFailed
  <2>1. Drop(issued)
    BY <1>9 DEF SubmitFailed, Drop
  <2>2. /\ inflight' \subseteq 1..issued /\ timed_out' \subseteq inflight'
        /\ filled' \in [Plans -> [Legs -> Nat]]
    BY <2>1, DropTypes
  <2>3. metrics' \in Metrics
    BY <1>9, CountTypes DEF SubmitFailed, Reject, TypeOK
  <2>4. ops' \in 0..2 /\ dpc' \in {"recv", "op"}
    BY <1>9, NextOpTypes DEF SubmitFailed
  <2>5. aborted' \in Nat
    BY <1>9 DEF SubmitFailed, TypeOK
  <2> QED
    BY <1>9, <2>2, <2>3, <2>4, <2>5 DEF SubmitFailed, TypeOK
<1> QED
  BY <1>1, <1>2, <1>3, <1>4, <1>5, <1>6, <1>7, <1>8, <1>9 DEF Detector

\* Every step of the monitor keeps the types.
LEMMA MonitorTypes == TypeOK /\ Control /\ Monitor => TypeOK'
<1> SUFFICES ASSUME TypeOK, Control, Monitor PROVE TypeOK'
  OBVIOUS
<1> USE DEF detector, monitor, table, disk, channels
<1>0. NoReport \in Reports
  BY DEF NoReport, Reports, Statuses
<1>1. CASE RecvReport
  <2>1. report' \in Reports /\ report_q' \in Seq(Reports)
    BY <1>1, HeadTailProperties DEF RecvReport, TypeOK
  <2> QED
    BY <1>1, <2>1 DEF RecvReport, TypeOK
<1>2. CASE Persist
  <2>1. report.qty \in Nat /\ report.plan \in Plans /\ report.leg \in Legs
    BY <1>2 DEF Persist, TypeOK, Control, Reports
  <2>2. db \in [Plans -> [Legs -> Nat]] /\ lost \in [Plans -> [Legs -> Nat]]
    BY DEF TypeOK
  <2>3. /\ [db EXCEPT ![report.plan][report.leg] = @ + report.qty] \in [Plans -> [Legs -> Nat]]
        /\ [lost EXCEPT ![report.plan][report.leg] = @ + report.qty] \in [Plans -> [Legs -> Nat]]
    BY <2>1, <2>2
  <2> QED
    BY <1>2, <2>2, <2>3 DEF Persist, PersistedQty, TypeOK
<1>3. CASE ApplyUnknown
  BY <1>0, <1>3 DEF ApplyUnknown, TypeOK
<1>4. CASE ApplyFill
  BY <1>0, <1>4, FilledNowType DEF ApplyFill, TypeOK
<1>5. CASE ApplyClose
  <2>1. report.plan \in Plans
    BY <1>5, InflightPlans DEF ApplyClose
  <2>2. cancel_q' \in Seq(Plans)
    BY <1>5, <2>1, AppendProperties DEF ApplyClose, TypeOK
  <2>3. /\ inflight' \subseteq 1..issued /\ timed_out' \subseteq inflight'
        /\ filled' \in [Plans -> [Legs -> Nat]]
    BY <1>5, DropTypes DEF ApplyClose
  <2> QED
    BY <1>0, <1>5, <2>2, <2>3 DEF ApplyClose, TypeOK
<1>6. CASE CountExecuted
  BY <1>6, CountTypes DEF CountExecuted, TypeOK
<1>7. CASE ScanTimeouts
  <2>1. to_cancel' \subseteq Plans
    BY <1>7, InflightPlans DEF ScanTimeouts, Overdue, TypeOK
  <2> QED
    BY <1>7, <2>1 DEF ScanTimeouts, Overdue, TypeOK
<1>8. ASSUME NEW p \in Plans, CancelOverdue(p) PROVE TypeOK'
  <2>1. cancel_q' \in Seq(Plans)
    BY <1>8, AppendProperties DEF CancelOverdue, TypeOK
  <2>2. /\ inflight' \subseteq 1..issued /\ timed_out' \subseteq inflight'
        /\ filled' \in [Plans -> [Legs -> Nat]]
    BY <1>8, DropTypes DEF CancelOverdue
  <2>3. metrics' \in Metrics
    BY <1>8, CountTypes DEF CancelOverdue, CountCancelled, TypeOK
  <2> QED
    BY <1>8, <2>1, <2>2, <2>3 DEF CancelOverdue, TypeOK
<1>9. CASE MonitorExit
  BY <1>9 DEF MonitorExit, TypeOK
<1> QED
  BY <1>1, <1>2, <1>3, <1>4, <1>5, <1>6, <1>7, <1>8, <1>9 DEF Monitor

\* So does every step of the engine.
LEMMA EngineTypes == TypeOK /\ Control /\ EngineNext => TypeOK'
<1> SUFFICES ASSUME TypeOK, Control, EngineNext PROVE TypeOK'
  OBVIOUS
<1>1. ASSUME NEW p \in Plans, TimeOut(p) PROVE TypeOK'
  BY <1>1 DEF TimeOut, TypeOK, detector, monitor, disk, channels
<1> QED
  BY <1>1, DetectorTypes, MonitorTypes DEF EngineNext
-----------------------------------------------------------------------------
\* Only the detector makes the table grow, and the monitor leaves its program
\* counter alone: so what the detector read stays true until it inserts.
LEMMA TableShrinks ==
  ASSUME TypeOK, Monitor \/ \E p \in Plans : TimeOut(p)
  PROVE  /\ UNCHANGED <<dpc, ops, issued, found, aborted>>
         /\ inflight' \subseteq inflight
         /\ Cardinality(inflight') <= Cardinality(inflight)
         /\ Cardinality(inflight') \in Nat
<1> USE DEF detector, monitor, table, disk, channels
<1>1. UNCHANGED <<dpc, ops, issued, found, aborted>>
  BY DEF Monitor, RecvReport, Persist, ApplyUnknown, ApplyFill, ApplyClose, CountExecuted,
         ScanTimeouts, Overdue, CancelOverdue, MonitorExit, TimeOut
<1>2. inflight' = inflight \/ \E p : inflight' = inflight \ {p}
  BY DEF Monitor, RecvReport, Persist, ApplyUnknown, ApplyFill, ApplyClose, CountExecuted,
         ScanTimeouts, Overdue, CancelOverdue, MonitorExit, TimeOut, Drop
<1>3. CASE inflight' = inflight
  BY <1>1, <1>3, TableFinite
<1>4. ASSUME NEW p, inflight' = inflight \ {p}
      PROVE  /\ inflight' \subseteq inflight
             /\ Cardinality(inflight') <= Cardinality(inflight)
             /\ Cardinality(inflight') \in Nat
  BY <1>4, DropSize
<1> QED
  BY <1>1, <1>2, <1>3, <1>4

\* The detector goes from one place to the next with what it needs there.
LEMMA DetectorControl == IInv /\ Detector => Control'
<1> SUFFICES ASSUME IInv, Detector PROVE Control'
  OBVIOUS
<1> USE EngineAssumption DEF detector, monitor, table, disk, channels, Control, IInv
<1>1. CASE RecvView
  BY <1>1 DEF RecvView
<1>2. CASE DetectorExit
  BY <1>2 DEF DetectorExit
<1>3. CASE RejectBusy \/ RejectOp
  BY <1>3 DEF RejectBusy, RejectOp, NextOp
<1>4. CASE BuildPlan
  <2>1. issued' \in Plans /\ issued' \notin inflight
    BY <1>4 DEF BuildPlan, TypeOK, Plans
  <2> QED
    BY <1>4, <2>1 DEF BuildPlan, HasRoom
<1>5. CASE Register
  BY <1>5 DEF Register
<1>6. CASE Submit
  BY <1>6 DEF Submit
<1>7. CASE CountSubmitted
  BY <1>7 DEF CountSubmitted, NextOp
<1>8. CASE SubmitFailed
  BY <1>8 DEF SubmitFailed, NextOp
<1> QED
  BY <1>1, <1>2, <1>3, <1>4, <1>5, <1>6, <1>7, <1>8 DEF Detector

\* A report is persisted only when it was found to name a leg of a plan.
LEMMA MonitorControl == IInv /\ (Monitor \/ \E p \in Plans : TimeOut(p)) => Control'
<1> SUFFICES ASSUME IInv, Monitor \/ \E p \in Plans : TimeOut(p) PROVE Control'
  OBVIOUS
<1>1. /\ UNCHANGED <<dpc, ops, issued>> /\ inflight' \subseteq inflight
      /\ Cardinality(inflight') <= Cardinality(inflight) /\ Cardinality(inflight') \in Nat
  BY TableShrinks DEF IInv
<1>2. Cardinality(inflight) \in Nat /\ MaxConcurrent \in Nat
  BY TableFinite, EngineAssumption DEF IInv
<1>3. dpc' = "register" => issued' \notin inflight' /\ Cardinality(inflight') < MaxConcurrent
  BY <1>1, <1>2 DEF IInv, Control
<1>4. mpc' = "persist" => report'.plan \in Plans /\ report'.leg \in Legs
  BY InflightPlans
  DEF IInv, Control, Monitor, RecvReport, Persist, ApplyUnknown, ApplyFill, ApplyClose,
      CountExecuted, ScanTimeouts, Overdue, CancelOverdue, MonitorExit, TimeOut, monitor
<1> QED
  BY <1>1, <1>3, <1>4 DEF IInv, Control

-----------------------------------------------------------------------------
\* The limit is kept: Register inserts one plan into a table that was below the
\* limit when it was counted and has not grown since.
LEMMA EngineCap == IInv /\ EngineNext => ConcurrencyCap'
<1> SUFFICES ASSUME IInv, EngineNext PROVE Cardinality(inflight') <= MaxConcurrent
  BY DEF ConcurrencyCap
<1>0. /\ Cardinality(inflight) \in Nat /\ MaxConcurrent \in Nat
      /\ Cardinality(inflight) <= MaxConcurrent
  BY TableFinite, EngineAssumption DEF IInv, ConcurrencyCap
<1>1. CASE Register
  <2>1. inflight' = inflight \cup {issued} /\ issued \notin inflight
        /\ Cardinality(inflight) < MaxConcurrent
    BY <1>1 DEF Register, IInv, Control
  <2>2. Cardinality(inflight') = Cardinality(inflight) + 1
    BY <2>1, AddSize DEF IInv
  <2> QED
    BY <1>0, <2>1, <2>2
<1>2. CASE SubmitFailed
  <2>1. inflight' = inflight \ {issued}
    BY <1>2 DEF SubmitFailed
  <2> QED
    BY <1>0, <2>1, DropSize DEF IInv
<1>3. CASE Monitor \/ \E p \in Plans : TimeOut(p)
  BY <1>0, <1>3, TableShrinks DEF IInv
<1>4. CASE RecvView \/ DetectorExit \/ RejectBusy \/ RejectOp \/ BuildPlan \/ Submit
           \/ CountSubmitted
  BY <1>0, <1>4 DEF RecvView, DetectorExit, RejectBusy, RejectOp, BuildPlan, Submit,
                    CountSubmitted, table
<1> QED
  BY <1>1, <1>2, <1>3, <1>4 DEF EngineNext, Detector
-----------------------------------------------------------------------------
\* A counter that is incremented goes up by one and leaves the others alone.
LEMMA CountValues ==
  ASSUME metrics \in Metrics
  PROVE  /\ [metrics EXCEPT !.seen = @ + 1].executed = metrics.executed
         /\ [metrics EXCEPT !.seen = @ + 1].cancelled = metrics.cancelled
         /\ [metrics EXCEPT !.submitted = @ + 1].executed = metrics.executed
         /\ [metrics EXCEPT !.submitted = @ + 1].cancelled = metrics.cancelled
         /\ [metrics EXCEPT !.rejected = @ + 1].executed = metrics.executed
         /\ [metrics EXCEPT !.rejected = @ + 1].cancelled = metrics.cancelled
         /\ [metrics EXCEPT !.executed = @ + 1].executed = metrics.executed + 1
         /\ [metrics EXCEPT !.executed = @ + 1].cancelled = metrics.cancelled
         /\ [metrics EXCEPT !.cancelled = @ + 1].executed = metrics.executed
         /\ [metrics EXCEPT !.cancelled = @ + 1].cancelled = metrics.cancelled + 1
BY DEF Metrics

\* Every step of the engine is a step of PlanLifecycle or changes none of its
\* variables.
LEMMA EngineRefines == IInv /\ EngineNext => Lifecycle!Next \/ UNCHANGED Lifecycle!vars
<1> SUFFICES ASSUME IInv, EngineNext PROVE Lifecycle!Next \/ UNCHANGED Lifecycle!vars
  OBVIOUS
<1> DEFINE Stutter == UNCHANGED <<inflight, issued - Building, metrics.executed + Counting,
                                  metrics.cancelled, aborted>>
<1>a. Stutter => UNCHANGED Lifecycle!vars
  BY DEF Lifecycle!vars
<1>b. /\ metrics \in Metrics /\ issued \in Nat /\ aborted \in Nat
      /\ MaxPlans \in Nat /\ Plans = 1..MaxPlans
  BY EngineAssumption DEF IInv, TypeOK, Plans
<1>c. metrics.executed \in Nat /\ metrics.cancelled \in Nat
  BY <1>b, CountTypes
<1> USE DEF detector, monitor, table, disk, channels
<1>1. CASE RecvView
  BY <1>a, <1>b, <1>1, CountValues DEF RecvView, Building, Counting
<1>2. CASE DetectorExit
  BY <1>a, <1>2 DEF DetectorExit, Building, Counting
<1>3. CASE RejectBusy \/ RejectOp
  BY <1>a, <1>b, <1>3, CountValues DEF RejectBusy, RejectOp, Reject, NextOp, Building, Counting
<1>4. CASE BuildPlan
  BY <1>a, <1>b, <1>4 DEF BuildPlan, Building, Counting
<1>5. CASE Register
  <2>1. /\ issued \in 1..MaxPlans /\ Cardinality(inflight) < MaxConcurrent
        /\ dpc = "register" /\ dpc' = "send" /\ issued' = issued
    BY <1>b, <1>5 DEF Register, IInv, Control
  <2>2. issued - Building = issued - 1 /\ (issued - Building)' = issued
    BY <1>b, <2>1 DEF Building
  <2>3. /\ inflight' = inflight \cup {issued - Building + 1}
        /\ (issued - Building)' = issued - Building + 1 /\ issued - Building < MaxPlans
    BY <1>b, <1>5, <2>1, <2>2 DEF Register
  <2>4. UNCHANGED <<metrics.executed + Counting, metrics.cancelled, aborted>>
    BY <1>5 DEF Register, Counting
  <2>5. Lifecycle!Cardinality(inflight) = Cardinality(inflight)
    BY DEF Lifecycle!Cardinality, Cardinality
  <2>6. Lifecycle!Admit
    BY <2>1, <2>3, <2>4, <2>5 DEF Lifecycle!Admit
  <2> QED
    BY <2>6 DEF Lifecycle!Next
<1>6. CASE Submit
  BY <1>a, <1>6 DEF Submit, Building, Counting
<1>7. CASE CountSubmitted
  BY <1>a, <1>b, <1>7, CountValues DEF CountSubmitted, NextOp, Building, Counting
<1>8. CASE SubmitFailed
  <2>1. /\ UNCHANGED <<issued - Building, metrics.executed + Counting, metrics.cancelled>>
        /\ inflight' = inflight \ {issued}
        /\ aborted' = IF issued \in inflight THEN aborted + 1 ELSE aborted
    BY <1>b, <1>8, CountValues DEF SubmitFailed, Reject, NextOp, Building, Counting
  <2>2. CASE issued \in inflight
    <3>1. Lifecycle!Abort(issued)
      BY <2>1, <2>2 DEF Lifecycle!Abort
    <3>2. issued \in 1..MaxPlans
      BY <1>b, <2>2, InflightPlans DEF IInv
    <3> QED
      BY <3>1, <3>2 DEF Lifecycle!Next, Lifecycle!Close
  <2>3. CASE issued \notin inflight
    BY <1>a, <2>1, <2>3
  <2> QED
    BY <2>2, <2>3
<1>9. CASE RecvReport \/ Persist \/ ApplyUnknown \/ ApplyFill \/ ScanTimeouts \/ MonitorExit
  BY <1>a, <1>9 DEF RecvReport, Persist, ApplyUnknown, ApplyFill, ScanTimeouts, Overdue, MonitorExit,
                    Building, Counting
<1>10. CASE ApplyClose
  <2>1. /\ report.plan \in inflight /\ inflight' = inflight \ {report.plan}
        /\ UNCHANGED <<dpc, issued, aborted, metrics>> /\ mpc = "apply" /\ mpc' = "count"
    BY <1>10 DEF ApplyClose, Drop
  <2>2. (metrics.executed + Counting)' = metrics.executed + Counting + 1
    BY <1>c, <2>1 DEF Counting
  <2>3. Lifecycle!Execute(report.plan)
    BY <2>1, <2>2 DEF Lifecycle!Execute, Building
  <2>4. report.plan \in 1..MaxPlans
    BY <1>b, <2>1, InflightPlans DEF IInv
  <2> QED
    BY <2>3, <2>4 DEF Lifecycle!Next, Lifecycle!Close
<1>11. CASE CountExecuted
  <2>1. /\ UNCHANGED <<inflight, issued, dpc, aborted>> /\ mpc = "count" /\ mpc' = "select"
        /\ metrics'.executed = metrics.executed + 1 /\ metrics'.cancelled = metrics.cancelled
    BY <1>b, <1>11, CountValues DEF CountExecuted
  <2> QED
    BY <1>a, <1>c, <2>1 DEF Building, Counting
<1>12. ASSUME NEW p \in Plans, CancelOverdue(p)
       PROVE  Lifecycle!Next \/ UNCHANGED Lifecycle!vars
  <2>1. /\ UNCHANGED <<issued, dpc, aborted>> /\ inflight' = inflight \ {p}
        /\ metrics' = IF p \in inflight THEN [metrics EXCEPT !.cancelled = @ + 1] ELSE metrics
        /\ mpc # "count" /\ mpc' # "count"
    BY <1>12 DEF CancelOverdue, CountCancelled, Drop
  <2>2. UNCHANGED <<issued - Building, Counting>>
    BY <2>1 DEF Building, Counting
  <2>3. CASE p \in inflight
    <3>1. metrics'.executed = metrics.executed /\ metrics'.cancelled = metrics.cancelled + 1
      BY <1>b, <2>1, <2>3, CountValues
    <3>2. Lifecycle!Cancel(p)
      BY <2>1, <2>2, <2>3, <3>1 DEF Lifecycle!Cancel
    <3> QED
      BY <1>b, <3>2 DEF Lifecycle!Next, Lifecycle!Close
  <2>4. CASE p \notin inflight
    BY <1>a, <2>1, <2>2, <2>4
  <2> QED
    BY <2>3, <2>4
<1>13. ASSUME NEW p \in Plans, TimeOut(p) PROVE UNCHANGED Lifecycle!vars
  BY <1>a, <1>13 DEF TimeOut, Building, Counting
<1> QED
  BY <1>1, <1>2, <1>3, <1>4, <1>5, <1>6, <1>7, <1>8, <1>9, <1>10, <1>11, <1>12, <1>13
  DEF EngineNext, Detector, Monitor

\* Every step of PlanLifecycle keeps the accounts, so every step of the engine does.
LEMMA EngineAccounting == IInv /\ EngineNext => Accounting'
<1> SUFFICES ASSUME IInv, EngineNext PROVE Accounting'
  OBVIOUS
<1> DEFINE Admitted == issued - Building
           Executed == metrics.executed + Counting
<1>1. TypeOK /\ Cardinality(inflight) \in Nat
  BY TableFinite DEF IInv
<1>2. /\ Admitted \in Int /\ Executed \in Nat /\ metrics.cancelled \in Nat /\ aborted \in Nat
      /\ Admitted = Cardinality(inflight) + Executed + metrics.cancelled + aborted
  <2>1. metrics.executed \in Nat /\ metrics.cancelled \in Nat
    BY CountTypes DEF IInv, TypeOK
  <2>2. Counting \in 0..1 /\ Building \in 0..1 /\ issued \in Nat /\ aborted \in Nat
    BY DEF Counting, Building, IInv, TypeOK
  <2> QED
    BY <1>1, <2>1, <2>2 DEF IInv, Accounting
<1>3. SUFFICES Admitted' = Cardinality(inflight') + Executed' + metrics'.cancelled + aborted'
  <2>1. metrics'.executed \in Nat /\ metrics'.cancelled \in Nat /\ aborted' \in Nat
    <3>1. TypeOK'
      BY EngineTypes DEF IInv
    <3> QED
      BY <3>1 DEF TypeOK, Metrics
  <2>2. Cardinality(inflight') \in Nat
    <3>1. IsFiniteSet(inflight')
      <4>1. TypeOK'
        BY EngineTypes DEF IInv
      <4>2. issued' \in Int /\ inflight' \subseteq 1..issued'
        BY <4>1, EngineAssumption DEF TypeOK
      <4>3. IsFiniteSet(1..issued')
        BY <4>2, FS_Interval
      <4> QED
        BY <4>2, <4>3, FS_Subset
    <3> QED
      BY <3>1, FS_CardinalityType
  <2>3. Counting' \in 0..1
    BY DEF Counting
  <2> QED
    BY <2>1, <2>2, <2>3 DEF Accounting
<1>4. CASE Lifecycle!Admit
  <2>1. /\ Admitted' = Admitted + 1 /\ inflight' = inflight \cup {Admitted + 1}
        /\ UNCHANGED <<Executed, metrics.cancelled, aborted>>
    BY <1>4 DEF Lifecycle!Admit
  <2>2. Admitted + 1 \notin inflight
    <3>1. issued \in Nat /\ inflight \subseteq 1..issued
      BY DEF IInv, TypeOK
    <3>2. CASE dpc = "register"
      BY <3>1, <3>2 DEF IInv, Control, Building
    <3>3. CASE dpc # "register"
      BY <3>1, <3>3 DEF Building
    <3> QED
      BY <3>2, <3>3
  <2>3. Cardinality(inflight') = Cardinality(inflight) + 1
    BY <1>1, <2>1, <2>2, AddSize
  <2> QED
    BY <1>1, <1>2, <2>1, <2>3
<1>5. ASSUME NEW p \in 1..MaxPlans, Lifecycle!Close(p)
      PROVE Admitted' = Cardinality(inflight') + Executed' + metrics'.cancelled + aborted'
  <2>1. p \in inflight /\ inflight' = inflight \ {p} /\ Admitted' = Admitted
    BY <1>5 DEF Lifecycle!Close, Lifecycle!Execute, Lifecycle!Cancel, Lifecycle!Abort
  <2>2. Cardinality(inflight') = Cardinality(inflight) - 1
    BY <1>1, <2>1, DropSize
  <2>3. \/ Executed' = Executed + 1 /\ UNCHANGED <<metrics.cancelled, aborted>>
        \/ metrics'.cancelled = metrics.cancelled + 1 /\ UNCHANGED <<Executed, aborted>>
        \/ aborted' = aborted + 1 /\ UNCHANGED <<Executed, metrics.cancelled>>
    BY <1>5 DEF Lifecycle!Close, Lifecycle!Execute, Lifecycle!Cancel, Lifecycle!Abort
  <2> QED
    BY <1>1, <1>2, <2>1, <2>2, <2>3
<1>6. CASE UNCHANGED Lifecycle!vars
  BY <1>2, <1>6 DEF Lifecycle!vars
<1> QED
  BY <1>3, <1>4, <1>5, <1>6, EngineRefines DEF Lifecycle!Next
-----------------------------------------------------------------------------
\* The invariant is inductive for the engine.
LEMMA EngineStep == IInv /\ EngineNext => IInv'
<1> SUFFICES ASSUME IInv, EngineNext PROVE IInv'
  OBVIOUS
<1>1. TypeOK'
  BY EngineTypes DEF IInv
<1>2. Control'
  BY DetectorControl, MonitorControl DEF EngineNext
<1> QED
  BY <1>1, <1>2, EngineCap, EngineAccounting DEF IInv

\* It survives whatever an executor does to the channels.
LEMMA ExecutorStep ==
  ASSUME IInv, UNCHANGED core,
         plan_q' \in Seq(Plans), cancel_q' \in Seq(Plans), report_q' \in Seq(Reports),
         exec_open' \in BOOLEAN, reports_open' \in BOOLEAN
  PROVE  IInv'
<1>1. UNCHANGED <<dpc, ops, issued, found, aborted, mpc, report, to_cancel,
                  inflight, filled, timed_out, db, lost, metrics>>
  BY DEF core, detector, monitor, table, disk
<1>2. TypeOK'
  BY <1>1 DEF IInv, TypeOK
<1>3. Control'
  BY <1>1 DEF IInv, Control
<1>4. ConcurrencyCap' /\ Accounting'
  BY <1>1 DEF IInv, ConcurrencyCap, Accounting, Building, Counting
<1> QED
  BY <1>2, <1>3, <1>4 DEF IInv

\* The engine starts where PlanLifecycle starts.
LEMMA EngineInitRefines == EngineInit => Lifecycle!Init
BY DEF EngineInit, Lifecycle!Init, Building, Counting

\* What an executor does to the channels is a stutter of PlanLifecycle.
LEMMA ExecutorRefines == UNCHANGED core => UNCHANGED Lifecycle!vars
BY DEF core, detector, monitor, table, disk, Lifecycle!vars, Building, Counting
-----------------------------------------------------------------------------
\* A plan leaves the table in three places, each with its excuse.
LEMMA EngineUntracks ==
  ASSUME EngineNext, NEW p \in inflight \ inflight'
  PROVE  \/ cancel_q' = Append(cancel_q, p)
         \/ dpc = "send" /\ p = issued /\ ~exec_open
         \/ report.plan = p /\ report.status = "Cancelled"
         \/ /\ report.plan = p /\ report.status = "Filled"
            /\ \A l \in Legs : FilledNow[p][l] >= LegQty
<1>1. CASE SubmitFailed
  BY <1>1 DEF SubmitFailed
<1>2. CASE ApplyClose
  <2>1. report.plan = p /\ RemovePlan
    BY <1>2 DEF ApplyClose, Drop
  <2>2. CASE NeedsCancel
    BY <1>2, <2>1, <2>2 DEF ApplyClose
  <2>3. CASE ~NeedsCancel
    BY <2>1, <2>3 DEF RemovePlan, NeedsCancel, AllLegged
  <2> QED
    BY <2>2, <2>3
<1>3. ASSUME NEW q \in Plans, CancelOverdue(q) PROVE cancel_q' = Append(cancel_q, p)
  BY <1>3 DEF CancelOverdue, Drop
<1>4. SUFFICES ASSUME ~SubmitFailed, ~ApplyClose, ~\E q \in Plans : CancelOverdue(q)
               PROVE  inflight \subseteq inflight'
  BY <1>1, <1>2, <1>3
<1> QED
  BY <1>4
  DEF EngineNext, Detector, Monitor, RecvView, DetectorExit, RejectBusy, RejectOp, BuildPlan,
      Register, Submit, CountSubmitted, RecvReport, Persist, ApplyUnknown, ApplyFill,
      CountExecuted, ScanTimeouts, MonitorExit, TimeOut, table

-----------------------------------------------------------------------------
\* The opportunities of a view are used up when the next view is received.
Ledger ==
  /\ OpportunitiesAccounted
  /\ dpc \in {"recv", "exited"} => ops = 0

\* The three counters of the detector, when one of them is incremented.
LEMMA LedgerValues ==
  ASSUME metrics \in Metrics
  PROVE  /\ [metrics EXCEPT !.seen = @ + 1].submitted = metrics.submitted
         /\ [metrics EXCEPT !.seen = @ + 1].rejected = metrics.rejected
         /\ [metrics EXCEPT !.submitted = @ + 1].submitted = metrics.submitted + 1
         /\ [metrics EXCEPT !.submitted = @ + 1].rejected = metrics.rejected
         /\ [metrics EXCEPT !.rejected = @ + 1].submitted = metrics.submitted
         /\ [metrics EXCEPT !.rejected = @ + 1].rejected = metrics.rejected + 1
         /\ [metrics EXCEPT !.executed = @ + 1].submitted = metrics.submitted
         /\ [metrics EXCEPT !.executed = @ + 1].rejected = metrics.rejected
         /\ [metrics EXCEPT !.cancelled = @ + 1].submitted = metrics.submitted
         /\ [metrics EXCEPT !.cancelled = @ + 1].rejected = metrics.rejected
BY DEF Metrics

\* The engine starts with nothing to account for.
LEMMA LedgerInitial == EngineInit => Ledger
BY DEF EngineInit, Ledger, OpportunitiesAccounted

\* Every path through the body of the detector's loop counts its opportunity once;
\* the monitor leaves these counters alone.
LEMMA LedgerStep == IInv /\ Ledger /\ EngineNext => Ledger'
<1> SUFFICES ASSUME IInv, Ledger, EngineNext PROVE Ledger'
  OBVIOUS
<1>a. /\ metrics \in Metrics /\ found \in Nat /\ ops \in 0..2
      /\ metrics.submitted \in Nat /\ metrics.rejected \in Nat
      /\ found = metrics.submitted + metrics.rejected + ops
  BY CountTypes DEF IInv, TypeOK, Ledger, OpportunitiesAccounted
<1>b. dpc \in {"op", "send", "count", "register"} => ops \in 1..2
  BY DEF IInv, Control
<1> USE DEF Ledger, OpportunitiesAccounted
<1>1. CASE RecvView
  <2>1. PICK n \in 0..2 : /\ ops' = n /\ found' = found + n
                          /\ dpc' = IF n = 0 THEN "recv" ELSE "op"
    BY <1>1 DEF RecvView
  <2>2. ops = 0 /\ UNCHANGED <<metrics.submitted, metrics.rejected>>
    BY <1>a, <1>1, LedgerValues DEF RecvView
  <2> QED
    BY <1>a, <2>1, <2>2
<1>2. CASE RejectBusy \/ RejectOp \/ SubmitFailed
  <2>1. /\ metrics'.submitted = metrics.submitted /\ metrics'.rejected = metrics.rejected + 1
        /\ NextOp /\ UNCHANGED found /\ ops \in 1..2
    BY <1>a, <1>b, <1>2, LedgerValues DEF RejectBusy, RejectOp, SubmitFailed, Reject
  <2> QED
    BY <1>a, <2>1 DEF NextOp
<1>3. CASE CountSubmitted
  <2>1. /\ metrics'.submitted = metrics.submitted + 1 /\ metrics'.rejected = metrics.rejected
        /\ NextOp /\ UNCHANGED found /\ ops \in 1..2
    BY <1>a, <1>b, <1>3, LedgerValues DEF CountSubmitted
  <2> QED
    BY <1>a, <2>1 DEF NextOp
<1>4. CASE DetectorExit \/ BuildPlan \/ Register \/ Submit
  BY <1>4 DEF DetectorExit, BuildPlan, Register, Submit
<1>5. CASE Monitor \/ \E p \in Plans : TimeOut(p)
  <2>1. UNCHANGED <<dpc, ops, found>>
    BY <1>5, TableShrinks DEF IInv
  <2>2. \/ metrics' = metrics
        \/ metrics' = [metrics EXCEPT !.executed = @ + 1]
        \/ metrics' = [metrics EXCEPT !.cancelled = @ + 1]
    BY <1>5
    DEF Monitor, RecvReport, Persist, ApplyUnknown, ApplyFill, ApplyClose, CountExecuted,
        ScanTimeouts, CancelOverdue, CountCancelled, MonitorExit, TimeOut
  <2> QED
    BY <1>a, <2>1, <2>2, LedgerValues
<1> QED
  BY <1>1, <1>2, <1>3, <1>4, <1>5 DEF EngineNext, Detector

\* The channels have no part in it.
LEMMA LedgerExecutor == Ledger /\ UNCHANGED core => Ledger'
BY DEF Ledger, OpportunitiesAccounted, core, detector
=============================================================================

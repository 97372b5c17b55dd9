--------------------------- MODULE StrategyEngine ---------------------------
(***************************************************************************)
(* The strategy engine of crates/strategy/src/engine.rs: two tasks that    *)
(* share a table of in-flight plans under a mutex.                         *)
(*                                                                         *)
(*   detector_loop           takes a TriView, finds up to two              *)
(*                           opportunities, and for each one checks the    *)
(*                           concurrency limit, builds a plan, registers   *)
(*                           it in `inflight` and sends it for execution;  *)
(*   execution_monitor_loop  selects between an execution report, which it *)
(*                           persists and then applies to `inflight`, and  *)
(*                           a 50 ms tick, which cancels overdue plans.    *)
(*                                                                         *)
(* A step of the model is what a task does between two points where the    *)
(* other task or the execution subsystem can observe or disturb it: the    *)
(* release of the mutex, an await, a channel operation.                    *)
(*                                                                         *)
(* This module holds the engine only. The execution subsystem at the other *)
(* end of plan_q, cancel_q and report_q is AnyExecutor (whatever a caller  *)
(* may plug in) or MockExecution (the one in the repository).              *)
(***************************************************************************)
EXTENDS Integers, Sequences, FiniteSets

CONSTANTS
  MaxConcurrent,   \* cfg.max_concurrent_plans
  NumLegs,         \* legs of a plan (3 in the code)
  LegQty,          \* quantity of every leg, in lots
  Storage,         \* TRUE when a storage backend is configured
  StorageFails,    \* TRUE when insert_fill may return an error
  MaxViews,        \* bound: TriViews received
  MaxPlans         \* bound: plans built

ASSUME EngineAssumption ==
  /\ MaxConcurrent \in Nat
  /\ NumLegs \in Nat
  /\ LegQty \in Nat
  /\ MaxViews \in Nat
  /\ MaxPlans \in Nat
  /\ Storage \in BOOLEAN
  /\ StorageFails \in BOOLEAN

Legs  == 1..NumLegs
Plans == 1..MaxPlans     \* the k-th plan built; its UUID in the code

Statuses == {"New", "PartiallyFilled", "Filled", "Cancelled", "Rejected", "Error"}

\* An ExecutionReport. Neither its plan nor its leg index is trusted: the
\* handler looks both up.
Reports  == [plan : Nat, leg : Nat, qty : Nat, status : Statuses]
NoReport == [plan |-> 0, leg |-> 0, qty |-> 0, status |-> "New"]

NoFill == [l \in Legs |-> 0]

Metrics == [seen : Nat, submitted : Nat, executed : Nat,
            cancelled : Nat, rejected : Nat]

VARIABLES
  dpc,          \* where the detector task is
  ops,          \* opportunities of the current view still to handle
  issued,       \* plans built so far; the last one is the detector's `plan`
  mpc,          \* where the monitor task is
  report,       \* the report the monitor is handling, NoReport if none
  to_cancel,    \* the monitor's list of overdue plans
  inflight,     \* ids of the plans in the in-flight table
  filled,       \* InFlightPlan.filled, zero for a plan that is not in the table
  timed_out,    \* in-flight plans submitted more than timeout_ms ago
  metrics,      \* StrategyMetrics
  db,           \* quantity persisted in trade_fills, per plan and leg
  plan_q,       \* exec_tx and the channel behind it
  cancel_q,     \* exec_cancel_tx: plans asked to be cancelled (leg_idx = None)
  report_q,     \* exec_resp_rx
  exec_open,    \* FALSE once the receiver of exec_tx is gone
  reports_open, \* FALSE once every sender of exec_resp_rx is gone
  \* History variables: no step of the engine reads them.
  found,        \* opportunities detected so far
  aborted,      \* plans taken back by the detector after a failed send
  lost          \* quantity whose insert_fill failed, per plan and leg

detector == <<dpc, ops, issued, found, aborted>>
monitor  == <<mpc, report, to_cancel>>
table    == <<inflight, filled, timed_out>>
disk     == <<db, lost>>
channels == <<plan_q, cancel_q, report_q, exec_open, reports_open>>

\* Everything but the channels: what no other component can change.
core == <<detector, monitor, table, disk, metrics>>

engineVars == <<core, channels>>

-----------------------------------------------------------------------------
EngineInit ==
  /\ dpc = "recv" /\ ops = 0 /\ issued = 0
  /\ mpc = "select" /\ report = NoReport /\ to_cancel = {}
  /\ inflight = {} /\ filled = [p \in Plans |-> NoFill] /\ timed_out = {}
  /\ metrics = [seen |-> 0, submitted |-> 0, executed |-> 0,
                cancelled |-> 0, rejected |-> 0]
  /\ db = [p \in Plans |-> NoFill]
  /\ plan_q = <<>> /\ cancel_q = <<>> /\ report_q = <<>>
  /\ exec_open = TRUE /\ reports_open = TRUE
  /\ found = 0 /\ aborted = 0 /\ lost = [p \in Plans |-> NoFill]

-----------------------------------------------------------------------------
(* The detector task.                                                      *)
(*                                                                         *)
(* A definition named X_Y, here and in the other modules, is a mistake one *)
(* could have made in X. Nothing uses it: it is put in the place of X to   *)
(* show that a property would notice.                                      *)

\* A TriView arrives; detect_triangular_opportunities returns none, one or both
\* of the two cycles.
RecvView ==
  /\ dpc = "recv" /\ metrics.seen < MaxViews
  /\ metrics' = [metrics EXCEPT !.seen = @ + 1]
  /\ \E n \in 0..2 :
       /\ ops' = n
       /\ found' = found + n
       /\ dpc' = IF n = 0 THEN "recv" ELSE "op"
  /\ UNCHANGED <<issued, aborted, monitor, table, disk, channels>>

\* The TriView channel is closed and drained.
DetectorExit ==
  /\ dpc = "recv"
  /\ dpc' = "exited"
  /\ UNCHANGED <<ops, issued, found, aborted, monitor, table, disk, metrics, channels>>

\* `continue`, or the end of the loop body.
NextOp_OneMore == ops' = ops - 1 /\ dpc' = "op"
NextOp ==
  /\ ops' = ops - 1
  /\ dpc' = IF ops = 1 THEN "recv" ELSE "op"

Reject_Uncounted == UNCHANGED metrics
Reject == metrics' = [metrics EXCEPT !.rejected = @ + 1]

\* The concurrency check, against the length of the table read under its lock.
HasRoom_OneMore == Cardinality(inflight) <= MaxConcurrent
HasRoom == Cardinality(inflight) < MaxConcurrent

\* The in-flight table is full.
RejectBusy ==
  /\ dpc = "op" /\ ~HasRoom
  /\ Reject /\ NextOp
  /\ UNCHANGED <<issued, found, aborted, monitor, table, disk, channels>>

\* pre_trade_checks or build_trade_plan turns the opportunity down.
RejectOp ==
  /\ dpc = "op" /\ HasRoom
  /\ Reject /\ NextOp
  /\ UNCHANGED <<issued, found, aborted, monitor, table, disk, channels>>

\* The limit was read and the lock released; the plan is built with a fresh id.
BuildPlan ==
  /\ dpc = "op" /\ HasRoom /\ issued < MaxPlans
  /\ issued' = issued + 1
  /\ dpc' = "register"
  /\ UNCHANGED <<ops, found, aborted, monitor, table, disk, metrics, channels>>

\* infl.insert, under the lock taken again.
Register ==
  /\ dpc = "register"
  /\ inflight' = inflight \cup {issued}
  /\ filled' = [filled EXCEPT ![issued] = NoFill]
  /\ dpc' = "send"
  /\ UNCHANGED <<ops, issued, found, aborted, monitor, timed_out, disk, metrics, channels>>

\* exec_tx.send returns Ok.
Submit ==
  /\ dpc = "send" /\ exec_open
  /\ plan_q' = Append(plan_q, issued)
  /\ dpc' = "count"
  /\ UNCHANGED <<ops, issued, found, aborted, monitor, table, disk, metrics,
                 cancel_q, report_q, exec_open, reports_open>>

CountSubmitted ==
  /\ dpc = "count"
  /\ metrics' = [metrics EXCEPT !.submitted = @ + 1]
  /\ NextOp
  /\ UNCHANGED <<issued, found, aborted, monitor, table, disk, channels>>

\* exec_tx.send returns Err: the plan goes back, unless the monitor already
\* dropped it as overdue.
SubmitFailed ==
  /\ dpc = "send" /\ ~exec_open
  /\ aborted' = IF issued \in inflight THEN aborted + 1 ELSE aborted
  /\ inflight' = inflight \ {issued}
  /\ filled' = [filled EXCEPT ![issued] = NoFill]
  /\ timed_out' = timed_out \ {issued}
  /\ Reject /\ NextOp
  /\ UNCHANGED <<issued, found, monitor, disk, channels>>

Detector ==
  \/ RecvView \/ DetectorExit
  \/ RejectBusy \/ RejectOp \/ BuildPlan
  \/ Register \/ Submit \/ CountSubmitted \/ SubmitFailed

-----------------------------------------------------------------------------
(* The monitor task.                                                       *)

\* handle_exec_report takes a report and, under the lock, looks up the leg to
\* persist; only a report about a known leg of an in-flight plan is persisted.
RecvReport ==
  /\ mpc = "select" /\ report_q # <<>>
  /\ report' = Head(report_q)
  /\ report_q' = Tail(report_q)
  /\ mpc' = IF Storage /\ report'.plan \in inflight /\ report'.leg \in Legs
            THEN "persist" ELSE "apply"
  /\ UNCHANGED <<to_cancel, detector, table, disk, metrics,
                 plan_q, cancel_q, exec_open, reports_open>>

\* What a fill is recorded with.
PersistedQty_Planned == LegQty
PersistedQty == report.qty

\* The awaited insert_fill; an error is logged and otherwise ignored.
Persist ==
  /\ mpc = "persist"
  /\ \/ /\ db' = [db EXCEPT ![report.plan][report.leg] = @ + PersistedQty]
        /\ UNCHANGED lost
     \/ /\ StorageFails
        /\ lost' = [lost EXCEPT ![report.plan][report.leg] = @ + PersistedQty]
        /\ UNCHANGED db
  /\ mpc' = "apply"
  /\ UNCHANGED <<report, to_cancel, detector, table, metrics, channels>>

\* p.filled with the report's quantity added to the leg it names, if any.
FilledNow_Overwrites ==
  IF report.leg \in Legs
  THEN [filled EXCEPT ![report.plan][report.leg] = report.qty]
  ELSE filled
FilledNow_NotLast ==
  IF report.leg \in Legs \ {NumLegs}
  THEN [filled EXCEPT ![report.plan][report.leg] = @ + report.qty]
  ELSE filled
FilledNow ==
  IF report.leg \in Legs
  THEN [filled EXCEPT ![report.plan][report.leg] = @ + report.qty]
  ELSE filled

\* Every leg of the report's plan is filled, once the report is counted.
AllLegged == \A l \in Legs : FilledNow[report.plan][l] >= LegQty

\* remove_plan: what the report's status does to an in-flight plan.
RemovePlan ==
  \/ report.status \in {"Cancelled", "Rejected", "PartiallyFilled"}
  \/ report.status = "Filled" /\ AllLegged

\* The arms of the match that ask for the remaining legs to be cancelled.
NeedsCancel_NotPartial == report.status = "Rejected"
NeedsCancel == report.status \in {"Rejected", "PartiallyFilled"}

\* infl.remove(plan).
Drop_Forgotten(p) == UNCHANGED <<inflight, filled, timed_out>>
Drop(p) ==
  /\ inflight' = inflight \ {p}
  /\ filled' = [filled EXCEPT ![p] = NoFill]
  /\ timed_out' = timed_out \ {p}

\* The table is locked again and the plan is no longer there.
ApplyUnknown ==
  /\ mpc = "apply" /\ report.plan \notin inflight
  /\ mpc' = "select" /\ report' = NoReport
  /\ UNCHANGED <<to_cancel, detector, table, disk, metrics, channels>>

\* The fill is counted and the plan stays in flight.
ApplyFill ==
  /\ mpc = "apply" /\ report.plan \in inflight /\ ~RemovePlan
  /\ filled' = FilledNow
  /\ mpc' = "select" /\ report' = NoReport
  /\ UNCHANGED <<to_cancel, detector, inflight, timed_out, disk, metrics, channels>>

\* The plan is finished; a rejection or a partial fill also asks for its
\* remaining legs to be cancelled.
ApplyClose ==
  /\ mpc = "apply" /\ report.plan \in inflight /\ RemovePlan
  /\ cancel_q' = IF NeedsCancel THEN Append(cancel_q, report.plan) ELSE cancel_q
  /\ Drop(report.plan)
  /\ mpc' = "count" /\ report' = NoReport
  /\ UNCHANGED <<to_cancel, detector, disk, metrics,
                 plan_q, report_q, exec_open, reports_open>>

\* plans_executed is incremented after the lock is released.
CountExecuted ==
  /\ mpc = "count"
  /\ metrics' = [metrics EXCEPT !.executed = @ + 1]
  /\ mpc' = "select"
  /\ UNCHANGED <<report, to_cancel, detector, table, disk, channels>>

\* The plans scan_timeouts collects: those submitted longer ago than timeout_ms.
Overdue_Reported == {p \in timed_out : filled[p] # NoFill}
Overdue == timed_out

\* A tick of the 50 ms timer: scan_timeouts collects the overdue plans.
ScanTimeouts ==
  /\ mpc = "select"
  /\ to_cancel' = Overdue
  /\ mpc' = IF Overdue = {} THEN "select" ELSE "cancel"
  /\ UNCHANGED <<report, detector, table, disk, metrics, channels>>

\* plans_cancelled counts the plan if its removal found it.
CountCancelled_Always(p) == metrics' = [metrics EXCEPT !.cancelled = @ + 1]
CountCancelled(p) ==
  metrics' = IF p \in inflight THEN [metrics EXCEPT !.cancelled = @ + 1] ELSE metrics

\* One turn of the loop over to_cancel, in any order (a HashMap was iterated):
\* a cancel request, then the removal, counted if the plan was still there.
CancelOverdue(p) ==
  /\ mpc = "cancel" /\ p \in to_cancel
  /\ cancel_q' = Append(cancel_q, p)
  /\ Drop(p)
  /\ CountCancelled(p)
  /\ to_cancel' = to_cancel \ {p}
  /\ mpc' = IF to_cancel = {p} THEN "select" ELSE "cancel"
  /\ UNCHANGED <<report, detector, disk, plan_q, report_q, exec_open, reports_open>>

\* The report channel is closed and drained: the loop breaks.
MonitorExit ==
  /\ mpc = "select" /\ report_q = <<>> /\ ~reports_open
  /\ mpc' = "exited"
  /\ UNCHANGED <<report, to_cancel, detector, table, disk, metrics, channels>>

Monitor ==
  \/ RecvReport \/ Persist
  \/ ApplyUnknown \/ ApplyFill \/ ApplyClose \/ CountExecuted
  \/ ScanTimeouts \/ (\E p \in Plans : CancelOverdue(p)) \/ MonitorExit

-----------------------------------------------------------------------------
\* Time passes: an in-flight plan becomes overdue. Every plan has the same
\* timeout, so an older plan is never overdue later than a younger one.
TimeOut(p) ==
  /\ p \in inflight \ timed_out
  /\ \A q \in inflight : q < p => q \in timed_out
  /\ timed_out' = timed_out \cup {p}
  /\ UNCHANGED <<inflight, filled, detector, monitor, disk, metrics, channels>>

EngineNext == Detector \/ Monitor \/ \E p \in Plans : TimeOut(p)

\* The runtime keeps polling both tasks, the clock runs, and the select of the
\* monitor, which picks a ready branch at random, does not starve the timer.
EngineFairness ==
  /\ WF_engineVars(Detector)
  /\ WF_engineVars(RecvReport)
  /\ WF_engineVars(Persist \/ ApplyUnknown \/ ApplyFill \/ ApplyClose \/ CountExecuted)
  /\ SF_engineVars(ScanTimeouts)
  /\ WF_engineVars(\E p \in Plans : CancelOverdue(p))
  /\ \A p \in Plans : WF_engineVars(TimeOut(p))
-----------------------------------------------------------------------------
(* What the engine promises, whatever executor it is composed with.        *)

\* Every variable has its type, an in-flight plan has been built, and only
\* in-flight plans are overdue.
TypeOK ==
  /\ dpc \in {"recv", "op", "register", "send", "count", "exited"}
  /\ mpc \in {"select", "persist", "apply", "count", "cancel", "exited"}
  /\ ops \in 0..2 /\ issued \in 0..MaxPlans
  /\ found \in Nat /\ aborted \in Nat
  /\ report \in Reports /\ to_cancel \subseteq Plans
  /\ inflight \subseteq 1..issued /\ timed_out \subseteq inflight
  /\ filled \in [Plans -> [Legs -> Nat]]
  /\ db \in [Plans -> [Legs -> Nat]] /\ lost \in [Plans -> [Legs -> Nat]]
  /\ metrics \in Metrics
  /\ plan_q \in Seq(Plans) /\ cancel_q \in Seq(Plans) /\ report_q \in Seq(Reports)
  /\ exec_open \in BOOLEAN /\ reports_open \in BOOLEAN

\* The limit of engine.rs:203-212 holds at every moment, although the table is
\* counted under one lock and the plan inserted under another.
ConcurrencyCap == Cardinality(inflight) <= MaxConcurrent

\* 1 while a plan is built but not yet in the table, 0 otherwise.
Building == IF dpc = "register" THEN 1 ELSE 0
\* 1 while an executed plan is out of the table but not yet counted.
Counting == IF mpc = "count" THEN 1 ELSE 0

\* No plan is lost and none is closed twice: every plan ever registered is in
\* flight or was counted once, by the report handler, by the timeout scan or
\* by the detector whose send failed, in whatever order these three race.
Accounting ==
  issued - Building =
    Cardinality(inflight) + metrics.executed + Counting + metrics.cancelled + aborted

\* Every opportunity found is submitted or rejected, once: no path through the
\* detector's loop body forgets its counter or counts twice.
OpportunitiesAccounted == found = metrics.submitted + metrics.rejected + ops

\* Between two reports, the fills in the table and the fills on disk agree for
\* every plan in flight, up to the insertions that failed: the plan looked up
\* before the awaited insert is the one the report is then applied to.
StorageMatchesMemory ==
  Storage /\ mpc \in {"select", "cancel"} =>
    \A p \in inflight : \A l \in Legs : db[p][l] + lost[p][l] = filled[p][l]

\* The engine implements PlanLifecycle: a plan is admitted by Register and
\* closed by ApplyClose, CancelOverdue or SubmitFailed; every other step
\* stutters.
Lifecycle == INSTANCE PlanLifecycle WITH
  live      <- inflight,
  admitted  <- issued - Building,
  executed  <- metrics.executed + Counting,
  cancelled <- metrics.cancelled,
  aborted   <- aborted

\* Every step of the engine is one of its promise.
ImplementsLifecycle == Lifecycle!Safety

\* While the monitor runs, no plan is in flight for ever, whatever the executor
\* reports or fails to report.
PlansClose ==
  \A p \in Plans : p \in inflight ~> (p \notin inflight \/ mpc = "exited")
=============================================================================

---------------------------- MODULE AnyExecutor ----------------------------
(***************************************************************************)
(* The strategy engine with the most general execution subsystem a caller  *)
(* of StrategyEngine::start may plug in: it takes the plans it is sent,    *)
(* reports on them in any order, any number of times or never, ignores the *)
(* cancel requests if it likes, and may close its channels.                *)
(***************************************************************************)
EXTENDS StrategyEngine

CONSTANTS
  MaxReports,        \* bound: reports sent
  MaxWaiting,        \* bound: reports that wait in the channel
  ChannelsMayClose   \* TRUE when the executor may stop

ASSUME ExecutorAssumption ==
  MaxReports \in Nat /\ MaxWaiting \in Nat /\ ChannelsMayClose \in BOOLEAN

VARIABLES
  accepted,  \* plans taken from plan_q
  reported   \* number of reports sent

vars == <<engineVars, accepted, reported>>

Init ==
  /\ EngineInit
  /\ accepted = {} /\ reported = 0

\* plan_rx.recv() returns a plan.
Accept ==
  /\ exec_open /\ plan_q # <<>>
  /\ accepted' = accepted \cup {Head(plan_q)}
  /\ plan_q' = Tail(plan_q)
  /\ UNCHANGED <<core, cancel_q, report_q, exec_open, reports_open, reported>>

\* A report that makes sense by itself: a filled leg is filled in full, and a new,
\* rejected or failed order has no fill. Its leg may be one the plan does not have
\* (a plan-level report), and it may repeat an earlier report.
WellFormed(r) ==
  /\ r.plan \in accepted
  /\ r.status = "Filled" => r.qty = LegQty
  /\ r.status \in {"New", "Rejected", "Error"} => r.qty = 0

SendReport ==
  /\ reports_open /\ reported < MaxReports /\ Len(report_q) < MaxWaiting
  /\ \E p \in Plans, l \in 1..NumLegs + 1, q \in 0..LegQty, s \in Statuses :
       LET r == [plan |-> p, leg |-> l, qty |-> q, status |-> s] IN
       /\ WellFormed(r)
       /\ report_q' = Append(report_q, r)
  /\ reported' = reported + 1
  /\ UNCHANGED <<core, plan_q, cancel_q, exec_open, reports_open, accepted>>

\* The receiver of plans is dropped, with the plans still queued.
StopAccepting ==
  /\ ChannelsMayClose /\ exec_open
  /\ exec_open' = FALSE
  /\ plan_q' = <<>>
  /\ UNCHANGED <<core, cancel_q, report_q, reports_open, accepted, reported>>

\* The last sender of reports is dropped.
StopReporting ==
  /\ ChannelsMayClose /\ reports_open
  /\ reports_open' = FALSE
  /\ UNCHANGED <<core, plan_q, cancel_q, report_q, exec_open, accepted, reported>>

Executor == Accept \/ SendReport \/ StopAccepting \/ StopReporting

\* Both tasks have returned and the executor is gone.
Finished ==
  /\ dpc = "exited" /\ mpc = "exited" /\ ~exec_open
  /\ UNCHANGED vars

Next ==
  \/ EngineNext /\ UNCHANGED <<accepted, reported>>
  \/ Executor
  \/ Finished

\* Nothing is assumed of the executor: it may stay silent for ever.
Spec == Init /\ [][Next]_vars /\ EngineFairness
=============================================================================

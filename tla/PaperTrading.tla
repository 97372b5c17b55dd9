---------------------------- MODULE PaperTrading ----------------------------
(***************************************************************************)
(* The strategy engine wired to the mock execution subsystem, as in        *)
(* crates/demo/src/mock_execution_demo.rs. The engine and the workers run  *)
(* as separate tasks; they share nothing but the three channels.           *)
(***************************************************************************)
EXTENDS StrategyEngine

VARIABLES aggressive, wpc, leg, signal, cancel_map, outcome, heard

Mock == INSTANCE MockExecution

worker == <<aggressive, wpc, leg, signal, cancel_map, outcome, heard>>
vars == <<engineVars, worker>>

Init == EngineInit /\ Mock!Init

Next ==
  \/ EngineNext /\ UNCHANGED worker
  \/ Mock!Next /\ UNCHANGED <<core, exec_open, reports_open>>

\* Every task is polled, and the timers of the workers run.
Fairness ==
  /\ EngineFairness
  /\ WF_vars(Mock!Accept /\ UNCHANGED <<core, exec_open, reports_open>>)
  /\ WF_vars(Mock!Canceller /\ UNCHANGED <<core, exec_open, reports_open>>)
  /\ \A p \in Plans :
       WF_vars(Mock!Worker(p) /\ UNCHANGED <<core, exec_open, reports_open>>)

Spec == Init /\ [][Next]_vars /\ Fairness

-----------------------------------------------------------------------------
\* What the executor traded on leg l of plan p.
Traded(p, l) == IF outcome[p][l] = "Filled" THEN LegQty ELSE 0

\* The reports the monitor has not applied yet: the one in hand, then the queue.
Unapplied(i) == IF i = 0 THEN report ELSE report_q[i]

\* The places of those that are about leg l of plan p.
Pending(p, l) ==
  {i \in 0..Len(report_q) : Unapplied(i).plan = p /\ Unapplied(i).leg = l}

\* For a plan in flight, what was traded is in the table or in one report on its
\* way: a fill is neither lost nor counted twice between the two subsystems.
FillsConserved ==
  \A p \in inflight : \A l \in Legs :
    \/ Pending(p, l) = {} /\ filled[p][l] = Traded(p, l)
    \/ \E i \in 0..Len(report_q) :
         /\ Pending(p, l) = {i} /\ Unapplied(i).qty = Traded(p, l)
         /\ filled[p][l] = 0

\* The disk never shows more than what was traded, also for plans that are no
\* longer in flight.
DiskIsReal == \A p \in Plans : \A l \in Legs : db[p][l] <= Traded(p, l)

\* A plan that the engine no longer tracks, while its executor still has legs of
\* it to work on, was asked to be cancelled: the request is on its way or was
\* received (mock.rs may then ignore it).
ForgottenPlansAreCancelled ==
  \A p \in 1..issued \ inflight :
    \/ dpc = "register" /\ p = issued
    \/ wpc[p] \in {"done", "panicked"} \/ leg[p] \notin Legs
    \/ p \in heard \/ \E i \in 1..Len(cancel_q) : cancel_q[i] = p

\* engine.rs:352, "persist to database if storage is configured": once every
\* report has been handled, what was traded is on disk.
TradesPersisted ==
  Storage /\ ~StorageFails /\ report_q = <<>> /\ mpc = "select" =>
    \A p \in Plans : \A l \in Legs : db[p][l] = Traded(p, l)

\* A worker is between its registration and its end.
Running(p) == wpc[p] \in {"check", "taker", "passive"}

\* cancel_map neither keeps the sender of a worker that ended, however it ended,
\* nor loses the sender of a running worker that was not cancelled.
CancelMapExact ==
  \A p \in Plans : p \in cancel_map <=> Running(p) /\ signal[p] = "empty"

\* mock.rs:24, "when a cancel is received, send Cancelled reports for remaining
\* legs and stop that plan": no leg trades after a leg that was cancelled.
CancelStopsPlan ==
  \A p \in Plans : \A l, m \in Legs :
    l < m /\ outcome[p][l] = "Cancelled" => outcome[p][m] # "Filled"

\* mock.rs:24 again: a worker ends only when each of its legs has been reported.
RemainingLegsReported ==
  \A p \in Plans :
    wpc[p] \in {"done", "panicked"} => \A l \in Legs : outcome[p][l] # "none"

\* Every worker ends, also the one whose cancel request came too early and was
\* dropped: none waits for a cancel that will not come again.
WorkersEnd ==
  \A p \in Plans : wpc[p] = "start" ~> wpc[p] \in {"done", "panicked"}

\* With this executor the engine also keeps the liveness half of its promise.
KeepsPromise == Lifecycle!Spec
=============================================================================

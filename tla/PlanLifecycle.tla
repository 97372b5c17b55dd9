--------------------------- MODULE PlanLifecycle ---------------------------
(***************************************************************************)
(* What the strategy engine promises about trade plans, with the threads,  *)
(* channels, reports and timeouts left out: a plan is admitted at most     *)
(* once, at most MaxConcurrent plans are live, and a live plan is closed   *)
(* in exactly one of three ways, each counted once.                        *)
(*                                                                         *)
(* Plans are numbered in the order they are admitted (the code gives each  *)
(* a fresh UUID), so a plan that was closed never becomes live again.      *)
(***************************************************************************)
EXTENDS Naturals, FiniteSets

CONSTANTS
  MaxConcurrent,  \* cfg.max_concurrent_plans
  MaxPlans        \* bound on the plans of a behaviour

VARIABLES
  live,       \* the plans admitted and not yet closed
  admitted,   \* how many plans were ever admitted
  executed,   \* closed by an execution report
  cancelled,  \* closed because they timed out
  aborted     \* closed because they could not be submitted

vars == <<live, admitted, executed, cancelled, aborted>>

Init ==
  /\ live = {}
  /\ admitted = 0
  /\ executed = 0
  /\ cancelled = 0
  /\ aborted = 0

\* A new plan becomes live, below the concurrency limit.
Admit ==
  /\ Cardinality(live) < MaxConcurrent
  /\ admitted < MaxPlans
  /\ admitted' = admitted + 1
  /\ live' = live \cup {admitted + 1}
  /\ UNCHANGED <<executed, cancelled, aborted>>

\* A live plan is closed, and exactly one counter says how.
Execute(p) ==
  /\ p \in live
  /\ live' = live \ {p}
  /\ executed' = executed + 1
  /\ UNCHANGED <<admitted, cancelled, aborted>>

Cancel(p) ==
  /\ p \in live
  /\ live' = live \ {p}
  /\ cancelled' = cancelled + 1
  /\ UNCHANGED <<admitted, executed, aborted>>

Abort(p) ==
  /\ p \in live
  /\ live' = live \ {p}
  /\ aborted' = aborted + 1
  /\ UNCHANGED <<admitted, executed, cancelled>>

Close(p) == Execute(p) \/ Cancel(p) \/ Abort(p)

Next == Admit \/ \E p \in 1..MaxPlans : Close(p)

\* The safety half of the promise.
Safety == Init /\ [][Next]_vars

\* With the liveness half: no plan stays live for ever.
Spec == Safety /\ \A p \in 1..MaxPlans : WF_vars(Close(p))
=============================================================================

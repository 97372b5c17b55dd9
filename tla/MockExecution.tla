--------------------------- MODULE MockExecution ---------------------------
(***************************************************************************)
(* The mock execution subsystem of crates/execution/src/mock.rs.           *)
(*                                                                         *)
(*   main loop   takes a plan and spawns a worker for it;                  *)
(*   worker      one per plan: registers a one-shot cancel sender in       *)
(*               cancel_map, then handles the legs in order;               *)
(*   canceller   takes a cancel request and fires the sender of its plan,  *)
(*               if cancel_map has one.                                    *)
(*                                                                         *)
(* The demo links the engine's unbounded channels to the bounded ones here *)
(* with three forwarder tasks; the one for reports never blocks, so each   *)
(* pair of channels behaves as a single unbounded FIFO.                    *)
(***************************************************************************)
EXTENDS Naturals, Sequences, FiniteSets

CONSTANTS
  NumLegs,   \* legs of a plan
  LegQty,    \* quantity of every leg, in lots
  MaxPlans   \* bound: plans built

Legs  == 1..NumLegs
Plans == 1..MaxPlans

VARIABLES
  plan_q,      \* plan_rx
  cancel_q,    \* exec_cancel_rx
  report_q,    \* exec_resp_tx
  aggressive,  \* cfg.aggression: every leg of every plan is a taker leg
  wpc,         \* where the worker of each plan is
  leg,         \* the leg it is at
  signal,      \* its one-shot cancel channel
  cancel_map,  \* plans with a sender in cancel_map
  \* History variables: no step of the workers reads them.
  outcome,     \* the status reported for each leg, "none" before
  heard        \* plans whose cancel request was received

execQueues == <<plan_q, cancel_q, report_q>>

Init ==
  /\ aggressive \in BOOLEAN
  /\ wpc = [p \in Plans |-> "none"]
  /\ leg = [p \in Plans |-> 1]
  /\ signal = [p \in Plans |-> "empty"]
  /\ cancel_map = {}
  /\ outcome = [p \in Plans |-> [l \in Legs |-> "none"]]
  /\ heard = {}

Goto(p, where) == wpc' = [wpc EXCEPT ![p] = where]

\* The main loop receives a plan and spawns its worker.
Accept ==
  /\ plan_q # <<>>
  /\ plan_q' = Tail(plan_q)
  /\ Goto(Head(plan_q), "start")
  /\ UNCHANGED <<cancel_q, report_q, aggressive, leg, signal, cancel_map, outcome, heard>>

\* The worker creates its one-shot channel and registers the sender.
RegisterCancel(p) ==
  /\ wpc[p] = "start"
  /\ cancel_map' = cancel_map \cup {p}
  /\ Goto(p, "check")
  /\ UNCHANGED <<execQueues, aggressive, leg, signal, outcome, heard>>

\* Reports the current leg of p and goes on to the next one.
ReportLeg(p, qty, status) ==
  /\ report_q' = Append(report_q, [plan |-> p, leg |-> leg[p], qty |-> qty, status |-> status])
  /\ outcome' = [outcome EXCEPT ![p][leg[p]] = status]
  /\ leg' = [leg EXCEPT ![p] = @ + 1]
  /\ Goto(p, "check")
  /\ UNCHANGED <<plan_q, cancel_q, aggressive, cancel_map, heard>>

\* try_recv before a leg returns Ok: the leg is reported Cancelled and the loop
\* continues. The one-shot channel is used up.
CheckCancelled(p) ==
  /\ wpc[p] = "check" /\ leg[p] \in Legs /\ signal[p] = "sent"
  /\ signal' = [signal EXCEPT ![p] = "taken"]
  /\ ReportLeg(p, 0, "Cancelled")

\* try_recv returns Err, because no cancel has come (Empty) or because it was
\* taken before (Closed). A passive leg then polls the receiver, which panics
\* when it was already used up.
CheckClear(p) ==
  /\ wpc[p] = "check" /\ leg[p] \in Legs /\ signal[p] # "sent"
  /\ Goto(p, IF aggressive THEN "taker"
             ELSE IF signal[p] = "taken" THEN "panicked" ELSE "passive")
  /\ UNCHANGED <<execQueues, aggressive, leg, signal, cancel_map, outcome, heard>>

\* The 20 ms of a taker leg are over.
FillTaker(p) ==
  /\ wpc[p] = "taker"
  /\ ReportLeg(p, LegQty, "Filled")
  /\ UNCHANGED signal

\* The 200 ms of a passive leg are over.
ExpirePassive_NoTimer(p) == FALSE
ExpirePassive(p) ==
  /\ wpc[p] = "passive"
  /\ ReportLeg(p, 0, "PartiallyFilled")
  /\ UNCHANGED signal

\* A cancel wakes a passive leg; when both branches of the select are ready,
\* either is taken.
CancelPassive(p) ==
  /\ wpc[p] = "passive" /\ signal[p] = "sent"
  /\ signal' = [signal EXCEPT ![p] = "taken"]
  /\ ReportLeg(p, 0, "Cancelled")

\* map.remove(plan).
RemoveSender_Keeps(p) == UNCHANGED cancel_map
RemoveSender(p) == cancel_map' = cancel_map \ {p}

\* Past the last leg the worker takes its sender back and ends.
Cleanup(p) ==
  /\ wpc[p] = "check" /\ leg[p] \notin Legs
  /\ RemoveSender(p)
  /\ Goto(p, "done")
  /\ UNCHANGED <<execQueues, aggressive, leg, signal, outcome, heard>>

Worker(p) ==
  \/ RegisterCancel(p) \/ CheckCancelled(p) \/ CheckClear(p)
  \/ FillTaker(p) \/ ExpirePassive(p) \/ CancelPassive(p) \/ Cleanup(p)

\* The canceller fires and forgets the sender of the plan; a request for a plan
\* without one is dropped.
Canceller ==
  /\ cancel_q # <<>>
  /\ cancel_q' = Tail(cancel_q)
  /\ LET p == Head(cancel_q) IN
       /\ signal' = IF p \in cancel_map THEN [signal EXCEPT ![p] = "sent"] ELSE signal
       /\ RemoveSender(p)
       /\ heard' = heard \cup {p}
  /\ UNCHANGED <<plan_q, report_q, aggressive, wpc, leg, outcome>>

Next == Accept \/ Canceller \/ \E p \in Plans : Worker(p)

=============================================================================

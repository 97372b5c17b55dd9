------------------------- MODULE AnyExecutorProofs -------------------------
(***************************************************************************)
(* The strategy engine is correct with every executor: the theorems of     *)
(* AnyExecutor!Spec, for every value of the constants.                     *)
(***************************************************************************)
EXTENDS AnyExecutor, StrategyEngineProofs

\* No step of the system leaves the inductive invariant.
LEMMA Step == IInv /\ [Next]_vars => IInv'
<1> SUFFICES ASSUME IInv, [Next]_vars PROVE IInv'
  OBVIOUS
<1>1. /\ plan_q \in Seq(Plans) /\ cancel_q \in Seq(Plans) /\ report_q \in Seq(Reports)
      /\ exec_open \in BOOLEAN /\ reports_open \in BOOLEAN
  BY DEF IInv, TypeOK
<1>2. CASE EngineNext
  BY <1>2, EngineStep
<1>3. CASE Accept
  <2>1. plan_q' \in Seq(Plans)
    BY <1>1, <1>3, HeadTailProperties DEF Accept
  <2> QED
    BY <1>1, <1>3, <2>1, ExecutorStep DEF Accept
<1>4. CASE SendReport
  <2>1. report_q' \in Seq(Reports)
    <3>1. PICK p \in Plans, l \in 1..NumLegs + 1, q \in 0..LegQty, s \in Statuses :
            report_q' = Append(report_q, [plan |-> p, leg |-> l, qty |-> q, status |-> s])
      BY <1>4 DEF SendReport
    <3>2. [plan |-> p, leg |-> l, qty |-> q, status |-> s] \in Reports
      BY EngineAssumption DEF Reports, Plans
    <3> QED
      BY <1>1, <3>1, <3>2, AppendProperties
  <2> QED
    BY <1>1, <1>4, <2>1, ExecutorStep DEF SendReport
<1>5. CASE StopAccepting
  <2>1. plan_q' \in Seq(Plans)
    BY <1>5 DEF StopAccepting
  <2> QED
    BY <1>1, <1>5, <2>1, ExecutorStep DEF StopAccepting
<1>6. CASE StopReporting
  BY <1>1, <1>6, ExecutorStep DEF StopReporting
<1>7. CASE UNCHANGED vars
  BY <1>1, <1>7, ExecutorStep DEF vars, engineVars, channels
<1> QED
  BY <1>2, <1>3, <1>4, <1>5, <1>6, <1>7 DEF Next, Executor, Finished

\* The invariant holds in every reachable state.
THEOREM Invariance == Spec => []IInv
<1>1. Init => IInv
  BY EngineInitial DEF Init
<1> QED
  BY <1>1, Step, PTL DEF Spec

\* Every variable keeps its type, whatever the executor reports.
THEOREM TypeCorrect == Spec => []TypeOK
<1>1. IInv => TypeOK
  BY DEF IInv
<1> QED
  BY <1>1, Invariance, PTL

\* The concurrency limit of engine.rs:203-212 holds at every moment although it
\* is checked and used under separate locks: the detector is the only task that
\* inserts.
THEOREM CapHolds == Spec => []ConcurrencyCap
<1>1. IInv => ConcurrencyCap
  BY DEF IInv
<1> QED
  BY <1>1, Invariance, PTL

\* Every plan ever registered is in flight or was closed and counted exactly
\* once, however reports, timeouts and failed sends race.
THEOREM AccountsBalance == Spec => []Accounting
<1>1. IInv => Accounting
  BY DEF IInv
<1> QED
  BY <1>1, Invariance, PTL

\* The engine, with any executor, implements the lifecycle it promises.
THEOREM Refinement == Spec => ImplementsLifecycle
<1>1. Init => Lifecycle!Init
  BY EngineInitRefines DEF Init
<1>2. IInv /\ [Next]_vars => [Lifecycle!Next]_Lifecycle!vars
  <2> SUFFICES ASSUME IInv, [Next]_vars PROVE Lifecycle!Next \/ UNCHANGED Lifecycle!vars
    OBVIOUS
  <2>1. CASE EngineNext
    BY <2>1, EngineRefines
  <2>2. CASE Executor \/ Finished \/ UNCHANGED vars
    <3>1. UNCHANGED core
      BY <2>2 DEF Executor, Accept, SendReport, StopAccepting, StopReporting, Finished,
                  vars, engineVars
    <3> QED
      BY <3>1, ExecutorRefines
  <2> QED
    BY <2>1, <2>2 DEF Next
<1> QED
  BY <1>1, <1>2, Invariance, PTL DEF Spec, ImplementsLifecycle, Lifecycle!Safety

\* Every step that is not the engine's own leaves the engine's state alone.
LEMMA OtherSteps == [Next]_vars => EngineNext \/ UNCHANGED core
BY DEF Next, Executor, Accept, SendReport, StopAccepting, StopReporting, Finished, vars,
       engineVars

\* Every opportunity found is submitted or rejected, once.
THEOREM OpportunitiesBalance == Spec => []OpportunitiesAccounted
<1>1. Init => Ledger
  BY LedgerInitial DEF Init
<1>2. IInv /\ Ledger /\ [Next]_vars => Ledger'
  BY OtherSteps, LedgerStep, LedgerExecutor
<1>3. Ledger => OpportunitiesAccounted
  BY DEF Ledger
<1> QED
  BY <1>1, <1>2, <1>3, Invariance, PTL DEF Spec
=============================================================================

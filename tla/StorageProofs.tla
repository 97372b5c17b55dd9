--------------------------- MODULE StorageProofs ---------------------------
(***************************************************************************)
(* Memory and disk agree, with every executor: StorageMatchesMemory holds  *)
(* in every behaviour of AnyExecutor, for every value of the constants.    *)
(*                                                                         *)
(* Two locks separate the lookup of a report's plan from its application.  *)
(* A plan that was in flight at the lookup may be gone at the application, *)
(* which does no harm. The opposite, a plan that was not in flight at the  *)
(* lookup and is at the application, would apply a report that was never   *)
(* persisted. It cannot happen because reports are about plans that were   *)
(* registered before, and no plan is registered twice: this is Provenance. *)
(***************************************************************************)
EXTENDS AnyExecutorProofs

\* The plans registered so far.
Known == 1..(issued - Building)

\* Plans go from the table to the executor, and reports are about plans it has.
Provenance ==
  /\ \A i \in 1..Len(plan_q) : plan_q[i] \in Known
  /\ accepted \subseteq Known
  /\ \A i \in 1..Len(report_q) : report_q[i].plan \in accepted
  /\ mpc \in {"persist", "apply"} => report.plan \in accepted

\* Nothing was persisted for a plan that is not registered.
Untouched == \A p \in Plans \ Known : \A l \in Legs : db[p][l] = 0 /\ lost[p][l] = 0

\* The quantity that is on disk but not yet in the table.
InHand(p, l) == IF mpc = "apply" /\ report.plan = p /\ report.leg = l THEN report.qty ELSE 0

Agree ==
  \A p \in inflight : \A l \in Legs : db[p][l] + lost[p][l] = filled[p][l] + InHand(p, l)

SInv == Provenance /\ (Storage => Untouched /\ Agree)

-----------------------------------------------------------------------------
\* Only Register makes a plan known, and it was not known before.
LEMMA KnownStep ==
  ASSUME IInv, EngineNext
  PROVE  /\ Register => Known' = Known \cup {issued} /\ issued \in Plans \ Known
         /\ ~Register => Known' = Known
<1>a. issued \in Nat
  BY DEF IInv, TypeOK
<1>1. CASE Register
  <2>1. dpc = "register" /\ issued' = issued /\ dpc' = "send" /\ issued \in Plans
    BY <1>1 DEF Register, IInv, Control
  <2>2. Building = 1 /\ Building' = 0 /\ issued \in Nat \ {0}
    BY <1>a, <2>1 DEF Building, Plans
  <2> QED
    BY <1>1, <2>1, <2>2 DEF Known
<1>2. CASE BuildPlan
  <2>1. issued' = issued + 1 /\ Building = 0 /\ Building' = 1 /\ ~Register
    BY <1>2 DEF BuildPlan, Building, Register
  <2>2. issued' - Building' = issued - Building
    BY <1>a, <2>1
  <2> QED
    BY <2>1, <2>2 DEF Known
<1>3. CASE Monitor \/ \E p \in Plans : TimeOut(p)
  <2>1. UNCHANGED <<dpc, issued>>
    BY <1>3, TableShrinks DEF IInv
  <2>2. ~Register
    BY <2>1 DEF Register
  <2> QED
    BY <2>1, <2>2 DEF Known, Building
<1>4. CASE RecvView \/ DetectorExit \/ RejectBusy \/ RejectOp \/ Submit \/ CountSubmitted
           \/ SubmitFailed
  <2>1. issued' = issued /\ dpc # "register" /\ dpc' # "register"
    BY <1>4 DEF RecvView, DetectorExit, RejectBusy, RejectOp, Submit, CountSubmitted,
                SubmitFailed, NextOp
  <2> QED
    BY <2>1 DEF Known, Building, Register
<1> QED
  BY <1>1, <1>2, <1>3, <1>4 DEF EngineNext, Detector

\* A plan in flight is known.
LEMMA InflightKnown == IInv => inflight \subseteq Known
<1> SUFFICES ASSUME IInv PROVE inflight \subseteq Known
  OBVIOUS
<1>1. issued \in Nat /\ inflight \subseteq 1..issued
  BY DEF IInv, TypeOK
<1>2. dpc = "register" => issued \notin inflight
  BY DEF IInv, Control
<1> QED
  BY <1>1, <1>2 DEF Known, Building

-----------------------------------------------------------------------------
\* The engine sends only registered plans and takes reports as they are.
LEMMA EngineProvenance ==
  ASSUME IInv, Provenance, EngineNext, UNCHANGED accepted
  PROVE  Provenance'
<1>a. plan_q \in Seq(Plans) /\ report_q \in Seq(Reports) /\ issued \in Nat
  BY DEF IInv, TypeOK
<1>b. Known \subseteq Known'
  BY KnownStep
<1> USE DEF detector, monitor, table, disk, channels
<1>1. CASE Submit
  <2>1. issued \in Known'
    <3>1. issued' = issued /\ dpc' = "count" /\ issued \in Plans
      BY <1>1 DEF Submit, IInv, Control
    <3> QED
      BY <1>a, <3>1 DEF Known, Building, Plans
  <2>2. /\ Len(plan_q') = Len(plan_q) + 1 /\ plan_q'[Len(plan_q) + 1] = issued
        /\ \A i \in 1..Len(plan_q) : plan_q'[i] = plan_q[i]
    BY <1>a, <1>1 DEF Submit, IInv, Control
  <2>3. ASSUME NEW i \in 1..Len(plan_q') PROVE plan_q'[i] \in Known'
    <3>1. i \in 1..Len(plan_q) \/ i = Len(plan_q) + 1
      BY <1>a, <2>2
    <3>2. \A j \in 1..Len(plan_q) : plan_q[j] \in Known'
      BY <1>b DEF Provenance
    <3> QED
      BY <2>1, <2>2, <3>1, <3>2
  <2>4. UNCHANGED <<report_q, mpc, report>>
    BY <1>1 DEF Submit
  <2> QED
    BY <1>b, <2>3, <2>4 DEF Provenance
<1>2. CASE RecvReport
  <2>1. /\ report' = report_q[1] /\ 1 \in 1..Len(report_q)
        /\ \A i \in 1..Len(report_q') : i + 1 \in 1..Len(report_q) /\ report_q'[i] = report_q[i + 1]
    BY <1>a, <1>2 DEF RecvReport
  <2>2. UNCHANGED plan_q
    BY <1>2 DEF RecvReport
  <2> QED
    BY <1>b, <2>1, <2>2 DEF Provenance
<1>3. CASE ~Submit /\ ~RecvReport
  <2>1. UNCHANGED <<plan_q, report_q>>
    BY <1>3 DEF EngineNext, Detector, Monitor, RecvView, DetectorExit, RejectBusy, RejectOp,
                BuildPlan, Register, CountSubmitted, SubmitFailed, Persist, ApplyUnknown,
                ApplyFill, ApplyClose, CountExecuted, ScanTimeouts, CancelOverdue,
                MonitorExit, TimeOut
  <2>2. mpc' \in {"persist", "apply"} => mpc \in {"persist", "apply"} /\ report' = report
    BY <1>3 DEF EngineNext, Detector, Monitor, RecvView, DetectorExit, RejectBusy, RejectOp,
                BuildPlan, Register, CountSubmitted, SubmitFailed, Persist, ApplyUnknown,
                ApplyFill, ApplyClose, CountExecuted, ScanTimeouts, CancelOverdue,
                MonitorExit, TimeOut
  <2> QED
    BY <1>b, <2>1, <2>2 DEF Provenance
<1> QED
  BY <1>1, <1>2, <1>3

\* The executor reports only on plans it has accepted.
LEMMA ExecutorProvenance ==
  ASSUME IInv, Provenance, Executor
  PROVE  Provenance'
<1>a. plan_q \in Seq(Plans) /\ report_q \in Seq(Reports)
  BY DEF IInv, TypeOK
<1>b. UNCHANGED <<mpc, report, Known>>
  BY DEF Executor, Accept, SendReport, StopAccepting, StopReporting, core, detector, monitor,
         Known, Building
<1>1. CASE Accept
  <2>1. /\ Head(plan_q) = plan_q[1] /\ 1 \in 1..Len(plan_q)
        /\ \A i \in 1..Len(plan_q') : i + 1 \in 1..Len(plan_q) /\ plan_q'[i] = plan_q[i + 1]
    BY <1>a, <1>1 DEF Accept
  <2>2. accepted' = accepted \cup {plan_q[1]} /\ UNCHANGED report_q
    BY <1>1, <2>1 DEF Accept
  <2> QED
    BY <1>b, <2>1, <2>2 DEF Provenance
<1>2. CASE SendReport
  <2>1. PICK r \in Reports : r.plan \in accepted /\ report_q' = Append(report_q, r)
    <3>1. PICK p \in Plans, l \in 1..NumLegs + 1, q \in 0..LegQty, s \in Statuses :
            LET r == [plan |-> p, leg |-> l, qty |-> q, status |-> s] IN
            WellFormed(r) /\ report_q' = Append(report_q, r)
      BY <1>2 DEF SendReport
    <3>2. [plan |-> p, leg |-> l, qty |-> q, status |-> s] \in Reports
      BY EngineAssumption DEF Reports, Plans
    <3> QED
      BY <3>1, <3>2 DEF WellFormed
  <2>2. /\ Len(report_q') = Len(report_q) + 1 /\ report_q'[Len(report_q) + 1] = r
        /\ \A i \in 1..Len(report_q) : report_q'[i] = report_q[i]
    BY <1>a, <2>1
  <2>3. \A i \in 1..Len(report_q') : report_q'[i].plan \in accepted
    BY <1>a, <2>1, <2>2 DEF Provenance
  <2>4. UNCHANGED <<plan_q, accepted>>
    BY <1>2 DEF SendReport
  <2> QED
    BY <1>b, <2>3, <2>4 DEF Provenance
<1>3. CASE StopAccepting
  <2>1. plan_q' = <<>> /\ UNCHANGED <<report_q, accepted>>
    BY <1>3 DEF StopAccepting
  <2> QED
    BY <1>b, <2>1 DEF Provenance
<1>4. CASE StopReporting
  BY <1>b, <1>4 DEF StopReporting, Provenance
<1> QED
  BY <1>1, <1>2, <1>3, <1>4 DEF Executor

-----------------------------------------------------------------------------
\* Only Persist writes to the disk, and only about a known plan.
LEMMA UntouchedStep ==
  ASSUME IInv, Provenance, Untouched, EngineNext
  PROVE  Untouched'
<1>a. /\ Known \subseteq Known'
      /\ db \in [Plans -> [Legs -> Nat]] /\ lost \in [Plans -> [Legs -> Nat]]
  BY KnownStep DEF IInv, TypeOK
<1>1. CASE Persist
  <2>1. report.plan \in Known
    BY <1>1 DEF Persist, Provenance
  <2>2. \A p \in Plans \ Known : db'[p] = db[p] /\ lost'[p] = lost[p]
    BY <1>a, <1>1, <2>1 DEF Persist
  <2> QED
    BY <1>a, <2>2 DEF Untouched
<1>2. CASE ~Persist
  <2>1. UNCHANGED <<db, lost>>
    BY <1>2 DEF EngineNext, Detector, Monitor, RecvView, DetectorExit, RejectBusy, RejectOp,
                BuildPlan, Register, Submit, CountSubmitted, SubmitFailed, RecvReport,
                ApplyUnknown, ApplyFill, ApplyClose, CountExecuted, ScanTimeouts,
                CancelOverdue, MonitorExit, TimeOut, disk
  <2> QED
    BY <1>a, <2>1 DEF Untouched
<1> QED
  BY <1>1, <1>2

\* The detector changes the table only by adding an empty plan, about which nothing
\* was persisted or is in hand, and by removing one.
LEMMA DetectorAgrees ==
  ASSUME IInv, Provenance, Untouched, Agree, Detector
  PROVE  Agree'
<1>a. filled \in [Plans -> [Legs -> Nat]] /\ inflight \subseteq Plans
  BY InflightPlans DEF IInv, TypeOK
<1>b. UNCHANGED <<db, lost, mpc, report>>
  BY DEF Detector, RecvView, DetectorExit, RejectBusy, RejectOp, BuildPlan, Register, Submit,
         CountSubmitted, SubmitFailed, disk, monitor
<1>1. CASE Register
  <2>1. issued \in Plans \ Known
    BY <1>1, KnownStep DEF EngineNext
  <2>2. \A l \in Legs : db[issued][l] = 0 /\ lost[issued][l] = 0 /\ InHand(issued, l) = 0
    BY <2>1 DEF Untouched, InHand, Provenance
  <2>3. \A l \in Legs : filled'[issued][l] = 0
    BY <1>a, <1>1, <2>1 DEF Register, NoFill
  <2>4. \A p \in inflight : p # issued /\ filled'[p] = filled[p]
    BY <1>a, <1>1, <2>1, InflightKnown DEF Register
  <2>5. inflight' = inflight \cup {issued}
    BY <1>1 DEF Register
  <2> QED
    BY <1>b, <2>2, <2>3, <2>4, <2>5 DEF Agree, InHand
<1>2. CASE SubmitFailed
  <2>1. inflight' = inflight \ {issued} /\ \A p \in inflight' : filled'[p] = filled[p]
    BY <1>a, <1>2 DEF SubmitFailed
  <2> QED
    BY <1>b, <2>1 DEF Agree, InHand
<1>3. CASE ~Register /\ ~SubmitFailed
  <2>1. UNCHANGED <<inflight, filled>>
    BY <1>3 DEF Detector, RecvView, DetectorExit, RejectBusy, RejectOp, BuildPlan, Submit,
                CountSubmitted, table
  <2> QED
    BY <1>b, <2>1 DEF Agree, InHand
<1> QED
  BY <1>1, <1>2, <1>3

\* The monitor moves the quantity of a report from the report to the disk, and then
\* to the table.
LEMMA MonitorAgrees ==
  ASSUME IInv, Storage, Agree, Monitor \/ \E p \in Plans : TimeOut(p)
  PROVE  Agree'
<1>a. /\ filled \in [Plans -> [Legs -> Nat]] /\ inflight \subseteq Plans
      /\ db \in [Plans -> [Legs -> Nat]] /\ lost \in [Plans -> [Legs -> Nat]]
      /\ report.qty \in Nat
  BY InflightPlans DEF IInv, TypeOK, Reports
<1> USE DEF monitor, table, disk
<1>1. CASE RecvReport
  <2>1. \A p \in inflight : \A l \in Legs : InHand(p, l) = 0 /\ InHand(p, l)' = 0
    BY <1>1 DEF RecvReport, InHand
  <2>2. UNCHANGED <<inflight, filled, db, lost>>
    BY <1>1 DEF RecvReport
  <2> QED
    BY <2>1, <2>2 DEF Agree
<1>2. CASE Persist
  <2>1. /\ report.plan \in Plans /\ report.leg \in Legs /\ mpc = "persist" /\ mpc' = "apply"
        /\ UNCHANGED <<report, inflight, filled>>
    BY <1>2 DEF Persist, IInv, Control
  <2>2. ASSUME NEW p \in inflight, NEW l \in Legs
        PROVE  db'[p][l] + lost'[p][l] = filled[p][l] + InHand(p, l)'
    <3>1. db[p][l] + lost[p][l] = filled[p][l]
      BY <1>a, <2>1 DEF Agree, InHand
    <3>2. CASE p = report.plan /\ l = report.leg
      <4>1. db'[p][l] + lost'[p][l] = db[p][l] + lost[p][l] + report.qty
        BY <1>a, <1>2, <2>1, <3>2 DEF Persist, PersistedQty
      <4>2. InHand(p, l)' = report.qty
        BY <2>1, <3>2 DEF InHand
      <4> QED
        BY <3>1, <4>1, <4>2
    <3>3. CASE p # report.plan \/ l # report.leg
      <4>1. db'[p][l] = db[p][l] /\ lost'[p][l] = lost[p][l]
        BY <1>a, <1>2, <2>1, <3>3 DEF Persist
      <4>2. InHand(p, l)' = 0
        BY <2>1, <3>3 DEF InHand
      <4> QED
        BY <1>a, <3>1, <4>1, <4>2
    <3> QED
      BY <3>2, <3>3
  <2> QED
    BY <2>1, <2>2 DEF Agree
<1>3. CASE ApplyUnknown
  <2>1. \A p \in inflight : \A l \in Legs : InHand(p, l) = 0 /\ InHand(p, l)' = 0
    BY <1>3 DEF ApplyUnknown, InHand
  <2>2. UNCHANGED <<inflight, filled, db, lost>>
    BY <1>3 DEF ApplyUnknown
  <2> QED
    BY <2>1, <2>2 DEF Agree
<1>4. CASE ApplyFill
  <2>1. /\ report.plan \in inflight /\ filled' = FilledNow /\ mpc = "apply" /\ mpc' = "select"
        /\ UNCHANGED <<inflight, db, lost>>
    BY <1>4 DEF ApplyFill
  <2>2. ASSUME NEW p \in inflight, NEW l \in Legs
        PROVE  filled'[p][l] = filled[p][l] + InHand(p, l) /\ InHand(p, l)' = 0
    BY <1>a, <2>1 DEF FilledNow, InHand
  <2>3. ASSUME NEW p \in inflight, NEW l \in Legs PROVE filled'[p][l] \in Nat
    BY <1>a, <2>1, FilledNowType DEF IInv
  <2> QED
    BY <2>1, <2>2, <2>3 DEF Agree
<1>5. CASE ApplyClose
  <2>1. /\ inflight' = inflight \ {report.plan} /\ mpc' = "count"
        /\ \A p \in inflight' : filled'[p] = filled[p]
        /\ UNCHANGED <<db, lost>>
    BY <1>a, <1>5 DEF ApplyClose, Drop
  <2>2. \A p \in inflight' : \A l \in Legs : InHand(p, l) = 0 /\ InHand(p, l)' = 0
    BY <2>1 DEF InHand
  <2> QED
    BY <2>1, <2>2 DEF Agree
<1>6. ASSUME NEW q \in Plans, CancelOverdue(q) PROVE Agree'
  <2>1. /\ inflight' = inflight \ {q} /\ mpc # "apply" /\ mpc' # "apply"
        /\ \A p \in inflight' : filled'[p] = filled[p]
        /\ UNCHANGED <<db, lost>>
    BY <1>a, <1>6 DEF CancelOverdue, Drop
  <2> QED
    BY <2>1 DEF Agree, InHand
<1>7. CASE CountExecuted \/ ScanTimeouts \/ MonitorExit
  <2>1. UNCHANGED <<inflight, filled, db, lost>> /\ mpc # "apply" /\ mpc' # "apply"
    BY <1>7 DEF CountExecuted, ScanTimeouts, MonitorExit
  <2> QED
    BY <2>1 DEF Agree, InHand
<1>8. CASE \E p \in Plans : TimeOut(p)
  <2>1. UNCHANGED <<inflight, filled, db, lost, mpc, report>>
    BY <1>8 DEF TimeOut
  <2> QED
    BY <2>1 DEF Agree, InHand
<1> QED
  BY <1>1, <1>2, <1>3, <1>4, <1>5, <1>6, <1>7, <1>8 DEF Monitor

-----------------------------------------------------------------------------
\* Nothing is on disk, in the table or on its way at the start.
LEMMA StorageInitial == Init => SInv
<1> SUFFICES ASSUME Init PROVE SInv
  OBVIOUS
<1>1. Provenance
  BY DEF Init, EngineInit, Provenance
<1>2. Untouched
  BY DEF Init, EngineInit, Untouched, NoFill
<1>3. Agree
  BY DEF Init, EngineInit, Agree
<1> QED
  BY <1>1, <1>2, <1>3 DEF SInv

\* The strengthened agreement is inductive.
LEMMA StorageStep == IInv /\ SInv /\ [Next]_vars => SInv'
<1> SUFFICES ASSUME IInv, SInv, [Next]_vars PROVE SInv'
  OBVIOUS
<1>1. CASE EngineNext /\ UNCHANGED <<accepted, reported>>
  <2>1. Provenance'
    BY <1>1, EngineProvenance DEF SInv
  <2>2. ASSUME Storage PROVE Untouched' /\ Agree'
    BY <1>1, <2>2, UntouchedStep, DetectorAgrees, MonitorAgrees DEF SInv, EngineNext
  <2> QED
    BY <2>1, <2>2 DEF SInv
<1>2. CASE Executor
  <2>1. Provenance'
    BY <1>2, ExecutorProvenance DEF SInv
  <2>2. UNCHANGED <<inflight, filled, db, lost, mpc, report, dpc, issued>>
    BY <1>2 DEF Executor, Accept, SendReport, StopAccepting, StopReporting, core, detector,
                monitor, table, disk
  <2> QED
    BY <2>1, <2>2 DEF SInv, Untouched, Agree, InHand, Known, Building
<1>3. CASE UNCHANGED vars
  <2>1. UNCHANGED <<inflight, filled, db, lost, mpc, report, dpc, issued, plan_q, report_q,
                    accepted>>
    BY <1>3 DEF vars, engineVars, core, detector, monitor, table, disk, channels
  <2> QED
    BY <2>1 DEF SInv, Provenance, Untouched, Agree, InHand, Known, Building
<1> QED
  BY <1>1, <1>2, <1>3 DEF Next, Finished

\* Between two reports, the table and the disk show the same fills for every plan in
\* flight, up to the insertions that failed.
THEOREM StorageAgrees == Spec => []StorageMatchesMemory
<1>1. IInv /\ SInv => StorageMatchesMemory
  <2> SUFFICES ASSUME IInv, SInv, Storage, mpc \in {"select", "cancel"},
                      NEW p \in inflight, NEW l \in Legs
               PROVE  db[p][l] + lost[p][l] = filled[p][l]
    BY DEF StorageMatchesMemory
  <2>1. filled[p][l] \in Nat
    BY InflightPlans DEF IInv, TypeOK
  <2>2. db[p][l] + lost[p][l] = filled[p][l] + InHand(p, l) /\ InHand(p, l) = 0
    BY DEF SInv, Agree, InHand
  <2> QED
    BY <2>1, <2>2
<1> QED
  BY <1>1, Invariance, StorageInitial, StorageStep, PTL DEF Spec
=============================================================================

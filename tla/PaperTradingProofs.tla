------------------------- MODULE PaperTradingProofs -------------------------
(***************************************************************************)
(* Proofs about PaperTrading, for every value of the constants: the cancel  *)
(* map is exact, the disk shows only what was traded, and no plan is        *)
(* forgotten without a cancel request; with them what the engine promises   *)
(* of any executor.                                                         *)
(***************************************************************************)
EXTENDS PaperTrading, StrategyEngineProofs

\* The last plan that was sent, if any.
LastSent == IF dpc \in {"register", "send"} THEN issued - 1 ELSE issued

\* The types of the worker's variables; and the mock never closes its channel.
WorkerTypes ==
  /\ wpc \in [Plans -> {"none", "start", "check", "taker", "passive", "done", "panicked"}]
  /\ leg \in [Plans -> Nat \ {0}]
  /\ signal \in [Plans -> {"empty", "sent", "taken"}]
  /\ cancel_map \subseteq Plans
  /\ outcome \in [Plans -> [Legs -> {"none", "Filled", "PartiallyFilled", "Cancelled"}]]
  /\ \A p \in Plans : wpc[p] \in {"taker", "passive"} => leg[p] \in Legs
  /\ exec_open = TRUE

\* A plan is sent once, and has no worker before it is taken.
Fresh ==
  /\ \A p \in Plans : p > LastSent => wpc[p] = "none"
  /\ \A i \in 1..Len(plan_q) : wpc[plan_q[i]] = "none" /\ plan_q[i] <= LastSent
  /\ \A j \in 1..Len(plan_q) : \A i \in 1..j - 1 : plan_q[i] # plan_q[j]

\* The cancel map, and a signal only where a cancel was heard.
Signals ==
  /\ CancelMapExact
  /\ \A p \in Plans : wpc[p] \in {"none", "start"} => signal[p] = "empty"
  /\ \A p \in Plans : signal[p] # "empty" => p \in heard

\* A report is about a leg the worker is done with, and says what it traded.
Told(r) ==
  /\ r.plan \in Plans /\ r.leg \in Legs
  /\ r.leg < leg[r.plan] /\ r.qty = Traded(r.plan, r.leg)
  /\ r.status \in {"Filled", "PartiallyFilled", "Cancelled"}
  /\ r.status = "Cancelled" => r.plan \in heard

SameLeg(r, s) == r.plan = s.plan /\ r.leg = s.leg

\* Each leg is reported once, and what is reported is not on disk already.
Talk ==
  /\ \A i \in 1..Len(report_q) : Told(report_q[i]) /\ db[report_q[i].plan][report_q[i].leg] = 0
  /\ \A j \in 1..Len(report_q) : \A i \in 1..j - 1 : ~SameLeg(report_q[i], report_q[j])
  /\ report = NoReport \/ Told(report)
  /\ \A i \in 1..Len(report_q) : ~SameLeg(report_q[i], report)
  /\ mpc = "persist" => db[report.plan][report.leg] = 0

\* Nothing is on disk or in the table of a leg that was not reported.
Disk ==
  \A p \in Plans : \A l \in Legs :
    /\ db[p][l] = 0 \/ (l < leg[p] /\ db[p][l] = Traded(p, l))
    /\ filled[p][l] = 0 \/ l < leg[p]

MInv == WorkerTypes /\ Fresh /\ Signals /\ Talk /\ Disk

PInv == IInv /\ MInv

LEMMA SameLegs == Mock!Legs = Legs /\ Mock!Plans = Plans
BY DEF Mock!Legs, Mock!Plans, Legs, Plans

LEMMA LegFacts ==
  /\ Legs \subseteq Nat \ {0} /\ Plans \subseteq Nat \ {0}
  /\ NumLegs \in Nat /\ \A l \in Nat \ {0} : l \in Legs <=> l <= NumLegs
BY EngineAssumption, SMT DEF Legs, Plans

LEMMA InitP == Init => PInv
<1> SUFFICES ASSUME Init PROVE PInv
  OBVIOUS
<1>1. EngineInit /\ Mock!Init
  BY DEF Init
<1>2. IInv
  BY <1>1, EngineInitial
<1>3. WorkerTypes
  <2>1. /\ wpc = [p \in Plans |-> "none"] /\ leg = [p \in Plans |-> 1]
        /\ signal = [p \in Plans |-> "empty"] /\ cancel_map = {}
        /\ outcome = [p \in Plans |-> [l \in Legs |-> "none"]] /\ exec_open = TRUE
    BY <1>1, SameLegs DEF Mock!Init, EngineInit
  <2>2. 1 \in Nat \ {0}
    BY SMT
  <2> QED BY <2>1, <2>2 DEF WorkerTypes
<1>4. Fresh
  BY <1>1, SameLegs, SMT DEF Mock!Init, EngineInit, Fresh
<1>5. Signals
  BY <1>1, SameLegs DEF Mock!Init, EngineInit, Signals, CancelMapExact, Running
<1>6. Talk
  BY <1>1, SMT DEF EngineInit, Talk
<1>7. Disk
  BY <1>1 DEF EngineInit, Disk, NoFill
<1> QED BY <1>2, <1>3, <1>4, <1>5, <1>6, <1>7 DEF PInv, MInv

-----------------------------------------------------------------------------
(* The engine's steps. *)

\* What the engine does to what it shares with the mock.
LEMMA EngineSends ==
  ASSUME IInv, exec_open = TRUE, EngineNext
  PROVE  /\ exec_open' = TRUE
         /\ \/ plan_q' = plan_q /\ LastSent' = LastSent
            \/ /\ plan_q' = Append(plan_q, LastSent + 1) /\ LastSent' = LastSent + 1
               /\ LastSent + 1 \in Plans
<1>1. issued \in Int /\ issued \in 0..MaxPlans
  BY EngineAssumption, SMT DEF IInv, TypeOK
<1>2. CASE Submit
  <2>1. /\ dpc = "send" /\ dpc' = "count" /\ issued' = issued /\ plan_q' = Append(plan_q, issued)
        /\ exec_open' = exec_open
    BY <1>2 DEF Submit
  <2>2. issued \in Plans
    BY <2>1 DEF IInv, Control
  <2>3. LastSent = issued - 1 /\ LastSent' = issued
    BY <2>1 DEF LastSent
  <2>4. issued = LastSent + 1
    BY <1>1, <2>3, SMT
  <2> QED BY <2>1, <2>2, <2>3, <2>4
<1>3. CASE BuildPlan
  <2>1. dpc = "op" /\ dpc' = "register" /\ issued' = issued + 1 /\ plan_q' = plan_q /\ exec_open' = exec_open
    BY <1>3 DEF BuildPlan, channels
  <2>2. dpc \notin {"register", "send"} /\ dpc' \in {"register", "send"}
    BY <2>1
  <2>3. LastSent = issued /\ LastSent' = issued' - 1
    BY <2>2 DEF LastSent
  <2>4. issued' - 1 = issued
    BY <1>1, <2>1, SMT
  <2> QED BY <2>1, <2>3, <2>4
<1>4. CASE Register
  <2>1. dpc = "register" /\ dpc' = "send" /\ issued' = issued /\ plan_q' = plan_q /\ exec_open' = exec_open
    BY <1>4 DEF Register, channels
  <2> QED BY <2>1 DEF LastSent
<1>5. CASE RecvView \/ DetectorExit \/ RejectBusy \/ RejectOp \/ CountSubmitted
  <2>1. /\ dpc \notin {"register", "send"} /\ dpc' \notin {"register", "send"}
        /\ issued' = issued /\ plan_q' = plan_q /\ exec_open' = exec_open
    BY <1>5 DEF RecvView, DetectorExit, RejectBusy, RejectOp, CountSubmitted, NextOp, channels
  <2> QED BY <2>1 DEF LastSent
<1>6. CASE Monitor \/ \E p \in Plans : TimeOut(p)
  <2>1. dpc' = dpc /\ issued' = issued /\ plan_q' = plan_q /\ exec_open' = exec_open
    BY <1>6 DEF Monitor, RecvReport, Persist, ApplyUnknown, ApplyFill, ApplyClose, CountExecuted,
         ScanTimeouts, CancelOverdue, MonitorExit, TimeOut, channels, detector
  <2> QED BY <2>1 DEF LastSent
<1>7. ~SubmitFailed
  BY DEF SubmitFailed
<1> QED BY <1>2, <1>3, <1>4, <1>5, <1>6, <1>7 DEF EngineNext, Detector

\* Facts about queues.
LEMMA TailFacts ==
  ASSUME NEW S, NEW s \in Seq(S), s # <<>>
  PROVE  /\ Head(s) = s[1] /\ Head(s) \in S /\ Tail(s) \in Seq(S) /\ Len(s) \in Nat \ {0}
         /\ 1 \in 1..Len(s)
         /\ Len(Tail(s)) = Len(s) - 1
         /\ \A i \in 1..Len(Tail(s)) : Tail(s)[i] = s[i + 1] /\ i + 1 \in 1..Len(s) /\ 1 \in 1..i
BY SMT

LEMMA AppendFacts ==
  ASSUME NEW S, NEW s \in Seq(S), NEW e \in S
  PROVE  /\ Append(s, e) \in Seq(S) /\ Len(s) \in Nat /\ Len(Append(s, e)) = Len(s) + 1
         /\ Append(s, e)[Len(s) + 1] = e
         /\ \A i \in 1..Len(s) : Append(s, e)[i] = s[i]
         /\ \A i \in 1..Len(s) + 1 : i \in 1..Len(s) \/ i = Len(s) + 1
BY SMT

LEMMA EngineFresh == PInv /\ EngineNext /\ UNCHANGED worker => Fresh'
<1> SUFFICES ASSUME PInv, EngineNext, UNCHANGED worker PROVE Fresh'
  OBVIOUS
<1>1. /\ IInv /\ WorkerTypes /\ Fresh /\ exec_open = TRUE
  BY DEF PInv, MInv, WorkerTypes
<1>2. wpc' = wpc
  BY DEF worker
<1>3. CASE plan_q' = plan_q /\ LastSent' = LastSent
  BY <1>1, <1>2, <1>3 DEF Fresh
<1>4. CASE /\ plan_q' = Append(plan_q, LastSent + 1) /\ LastSent' = LastSent + 1
           /\ LastSent + 1 \in Plans
  <2> DEFINE n == LastSent + 1
  <2>1. LastSent \in Int /\ plan_q \in Seq(Plans)
    BY <1>1, EngineAssumption, SMT DEF IInv, TypeOK, LastSent
  <2>2. wpc[n] = "none" /\ n > LastSent
    BY <1>1, <1>4, <2>1, SMT DEF Fresh
  <2>3. \A i \in 1..Len(plan_q) : plan_q[i] \in Plans /\ plan_q[i] <= LastSent /\ plan_q[i] # n
    <3>1. \A i \in 1..Len(plan_q) : plan_q[i] \in Plans
      BY <2>1
    <3> QED BY <1>1, <2>1, <3>1, LegFacts, SMT DEF Fresh
  <2> HIDE DEF n
  <2>4. /\ Len(plan_q) \in Nat /\ Len(plan_q') = Len(plan_q) + 1 /\ plan_q'[Len(plan_q) + 1] = n
        /\ \A i \in 1..Len(plan_q) : plan_q'[i] = plan_q[i]
        /\ \A i \in 1..Len(plan_q) + 1 : i \in 1..Len(plan_q) \/ i = Len(plan_q) + 1
        /\ n \in Plans /\ LastSent' = n /\ n = LastSent + 1
    BY <1>4, <2>1, AppendFacts DEF n
  <2>5. \A p \in Plans : p > n => p > LastSent
    BY <2>1, <2>4, LegFacts, SMT
  <2>6. ASSUME NEW i \in 1..Len(plan_q') PROVE wpc[plan_q'[i]] = "none" /\ plan_q'[i] <= n
    <3>1. CASE i \in 1..Len(plan_q)
      <4>1. plan_q'[i] = plan_q[i] /\ plan_q[i] \in Plans /\ plan_q[i] <= LastSent
        BY <3>1, <2>3, <2>4
      <4>2. \A x \in Plans : x <= LastSent => x <= n
        BY <2>1, <2>4, LegFacts, SMT
      <4> QED BY <1>1, <3>1, <4>1, <4>2 DEF Fresh
    <3>2. CASE i = Len(plan_q) + 1
      BY <3>2, <2>2, <2>4, LegFacts, SMT
    <3> QED BY <3>1, <3>2, <2>4
  <2>7. ASSUME NEW j \in 1..Len(plan_q'), NEW i \in 1..j - 1 PROVE plan_q'[i] # plan_q'[j]
    <3>1. i \in 1..Len(plan_q)
      BY <2>4, SMT
    <3>2. CASE j \in 1..Len(plan_q)
      BY <1>1, <3>1, <3>2, <2>4 DEF Fresh
    <3>3. CASE j = Len(plan_q) + 1
      BY <3>1, <3>3, <2>3, <2>4
    <3> QED BY <3>2, <3>3, <2>4
  <2> QED BY <1>1, <1>2, <2>4, <2>5, <2>6, <2>7 DEF Fresh
<1> QED BY <1>1, <1>3, <1>4, EngineSends
-----------------------------------------------------------------------------
\* What the engine does to the reports, the report in hand and the disk.
LEMMA EngineTalks ==
  ASSUME exec_open = TRUE, EngineNext
  PROVE  \/ RecvReport
         \/ Persist
         \/ /\ report_q' = report_q /\ db' = db
            /\ \/ report' = report /\ mpc' = mpc
               \/ mpc' # "persist" /\ (report' = report \/ report' = NoReport)
<1>1. CASE Detector
  BY <1>1 DEF Detector, RecvView, DetectorExit, RejectBusy, RejectOp, BuildPlan, Register, Submit,
     CountSubmitted, SubmitFailed, monitor, disk, channels
<1>2. CASE Monitor
  BY <1>2 DEF Monitor, ApplyUnknown, ApplyFill, ApplyClose, CountExecuted, ScanTimeouts,
     CancelOverdue, MonitorExit, disk, channels
<1>3. CASE \E p \in Plans : TimeOut(p)
  BY <1>3 DEF TimeOut, monitor, disk, channels
<1> QED BY <1>1, <1>2, <1>3 DEF EngineNext

\* A fill in the table grows only by the report in hand.
LEMMA EngineFills ==
  ASSUME IInv, exec_open = TRUE, EngineNext, NEW p \in Plans, NEW l \in Legs
  PROVE  \/ filled'[p][l] = 0 \/ filled'[p][l] = filled[p][l]
         \/ report # NoReport /\ report.plan = p /\ report.leg = l
<1>0. filled \in [Plans -> [Legs -> Nat]] /\ inflight \subseteq Plans
  BY InflightPlans DEF IInv, TypeOK
<1>1. \A q : [filled EXCEPT ![q] = NoFill][p][l] \in {0, filled[p][l]}
  BY <1>0 DEF NoFill
<1>2. CASE filled' = filled
  BY <1>2
<1>3. CASE \E q : filled' = [filled EXCEPT ![q] = NoFill]
  BY <1>1, <1>3
<1>4. CASE ApplyFill
  <2>1. filled' = FilledNow /\ report.plan \in Plans
    BY <1>0, <1>4 DEF ApplyFill
  <2>2. report # NoReport
    BY <2>1, LegFacts DEF NoReport
  <2>3. CASE report.plan = p /\ report.leg = l
    BY <2>2, <2>3
  <2>4. CASE ~(report.plan = p /\ report.leg = l)
    BY <1>0, <2>1, <2>4 DEF FilledNow
  <2> QED BY <2>3, <2>4
<1>5. filled' = filled \/ (\E q : filled' = [filled EXCEPT ![q] = NoFill]) \/ ApplyFill
  <2>1. CASE Detector
    BY <2>1 DEF Detector, RecvView, DetectorExit, RejectBusy, RejectOp, BuildPlan, Register, Submit,
       CountSubmitted, SubmitFailed, table
  <2>2. CASE Monitor
    BY <2>2 DEF Monitor, RecvReport, Persist, ApplyUnknown, ApplyClose, Drop, CountExecuted,
       ScanTimeouts, CancelOverdue, MonitorExit, table
  <2>3. CASE \E q \in Plans : TimeOut(q)
    BY <2>3 DEF TimeOut
  <2> QED BY <2>1, <2>2, <2>3 DEF EngineNext
<1> QED BY <1>2, <1>3, <1>4, <1>5

\* A report that is persisted is not NoReport.
LEMMA PersistedTold == IInv /\ Talk /\ mpc = "persist" => Told(report) /\ report \in Reports
BY LegFacts DEF IInv, TypeOK, Control, Talk, NoReport

\* What a step persists: at most the quantity of the report in hand.
LEMMA PersistDisk ==
  ASSUME IInv, Talk, Persist
  PROVE  /\ \A p \in Plans : \A l \in Legs :
              db'[p][l] = IF p = report.plan /\ l = report.leg
                          THEN db'[report.plan][report.leg] ELSE db[p][l]
         /\ db'[report.plan][report.leg] \in {0, report.qty}
<1>1. /\ report.plan \in Plans /\ report.leg \in Legs /\ report.qty \in Nat
      /\ db \in [Plans -> [Legs -> Nat]] /\ db[report.plan][report.leg] = 0
  BY PersistedTold DEF Persist, Talk, IInv, TypeOK, Told, Reports
<1>2. CASE db' = db
  BY <1>1, <1>2
<1>3. CASE db' = [db EXCEPT ![report.plan][report.leg] = @ + PersistedQty]
  <2>1. db[report.plan][report.leg] + PersistedQty = report.qty
    BY <1>1, SMT DEF PersistedQty
  <2>2. db' = [db EXCEPT ![report.plan][report.leg] = report.qty]
    BY <1>3, <2>1
  <2> QED BY <1>1, <2>2
<1> QED BY <1>2, <1>3 DEF Persist

\* The engine tells the truth about what the workers did.
LEMMA EngineTalk == PInv /\ EngineNext /\ UNCHANGED worker => Talk'
<1> SUFFICES ASSUME PInv, EngineNext, UNCHANGED worker PROVE Talk'
  OBVIOUS
<1>1. IInv /\ WorkerTypes /\ Talk /\ exec_open = TRUE
  BY DEF PInv, MInv, WorkerTypes
<1>2. UNCHANGED <<leg, outcome, heard>>
  BY DEF worker
<1>3. \A r : Told(r) => /\ r.plan \in Plans /\ r.leg \in Legs
                        /\ r.leg < leg'[r.plan]
                        /\ r.qty = (IF outcome'[r.plan][r.leg] = "Filled" THEN LegQty ELSE 0)
                        /\ r.status \in {"Filled", "PartiallyFilled", "Cancelled"}
                        /\ r.status = "Cancelled" => r.plan \in heard'
  BY <1>2 DEF Told, Traded
<1>4. \A i \in 1..Len(report_q) : Told(report_q[i]) /\ db[report_q[i].plan][report_q[i].leg] = 0
  BY <1>1 DEF Talk
<1>5. CASE RecvReport
  <2>1. /\ report_q # <<>> /\ report' = Head(report_q) /\ report_q' = Tail(report_q) /\ db' = db
    BY <1>5 DEF RecvReport, disk
  <2>2. /\ Head(report_q) = report_q[1] /\ 1 \in 1..Len(report_q)
        /\ \A i \in 1..Len(report_q') :
             /\ report_q'[i] = report_q[i + 1]
             /\ i + 1 \in 1..Len(report_q) /\ 1 \in 1..i
    <3>1. report_q \in Seq(Reports)
      BY <1>1 DEF IInv, TypeOK
    <3> QED BY <2>1, <3>1, TailFacts
  <2>3. \A j \in 1..Len(report_q') : \A i \in 1..j - 1 : i \in 1..Len(report_q') /\ i + 1 \in 1..(j + 1) - 1
    BY SMT
  <2>4. \A i \in 1..Len(report_q') : ~SameLeg(report_q'[i], report')
    <3>1. \A i \in 1..Len(report_q') : 1 \in 1..(i + 1) - 1
      BY SMT
    <3> QED BY <1>1, <2>1, <2>2, <3>1 DEF Talk, SameLeg
  <2>5. \A j \in 1..Len(report_q') : \A i \in 1..j - 1 : ~SameLeg(report_q'[i], report_q'[j])
    BY <1>1, <2>2, <2>3 DEF Talk
  <2>6. \A i \in 1..Len(report_q') : (Told(report_q[i]))' /\ db'[report_q'[i].plan][report_q'[i].leg] = 0
    BY <1>3, <1>4, <2>1, <2>2 DEF Told, Traded
  <2>7. (Told(report))' /\ db'[report'.plan][report'.leg] = 0
    BY <1>3, <1>4, <2>1, <2>2 DEF Told, Traded
  <2> QED BY <2>4, <2>5, <2>6, <2>7 DEF Talk, SameLeg
<1>6. CASE Persist
  <2>1. mpc = "persist" /\ mpc' = "apply" /\ report' = report /\ report_q' = report_q
    BY <1>6 DEF Persist, channels
  <2>2. Told(report) /\ \A i \in 1..Len(report_q) : ~SameLeg(report_q[i], report)
    BY <1>1, <2>1, PersistedTold DEF Talk
  <2>3. \A i \in 1..Len(report_q) : db'[report_q[i].plan][report_q[i].leg] = 0
    BY <1>1, <1>4, <1>6, <2>2, PersistDisk DEF Told, SameLeg
  <2>4. (Told(report))' /\ \A i \in 1..Len(report_q') : (Told(report_q[i]))'
    BY <1>3, <1>4, <2>1, <2>2 DEF Told, Traded
  <2> QED BY <1>1, <2>1, <2>3, <2>4 DEF Talk, SameLeg, Told, Traded
<1>7. CASE /\ report_q' = report_q /\ db' = db
           /\ \/ report' = report /\ mpc' = mpc
              \/ mpc' # "persist" /\ (report' = report \/ report' = NoReport)
  <2>1. \A i \in 1..Len(report_q') : (Told(report_q[i]))'
    BY <1>3, <1>4, <1>7 DEF Told, Traded
  <2>2. report' = NoReport \/ (Told(report))'
    BY <1>1, <1>3, <1>7 DEF Talk, Told, Traded
  <2>3. \A i \in 1..Len(report_q') : ~SameLeg(report_q'[i], report')
    BY <1>1, <1>7, LegFacts DEF Talk, SameLeg, Told, NoReport
  <2> QED BY <1>1, <1>7, <2>1, <2>2, <2>3 DEF Talk, SameLeg, Told, Traded
<1> QED BY <1>1, <1>5, <1>6, <1>7, EngineTalks

LEMMA EngineDisk == PInv /\ EngineNext /\ UNCHANGED worker => Disk'
<1> SUFFICES ASSUME PInv, EngineNext, UNCHANGED worker, NEW p \in Plans, NEW l \in Legs
             PROVE  /\ db'[p][l] = 0 \/ (l < leg'[p] /\ db'[p][l] = Traded(p, l)')
                    /\ filled'[p][l] = 0 \/ l < leg'[p]
  BY DEF Disk
<1>1. IInv /\ WorkerTypes /\ Talk /\ Disk /\ exec_open = TRUE
  BY DEF PInv, MInv, WorkerTypes
<1>2. leg' = leg /\ Traded(p, l)' = Traded(p, l)
  BY DEF worker, Traded
<1>3. CASE Persist
  <2>1. Told(report)
    BY <1>1, <1>3, PersistedTold DEF Persist
  <2>2. LegQty \in Nat /\ report.qty = Traded(report.plan, report.leg)
    BY <2>1, EngineAssumption DEF Told
  <2>3. db'[p][l] = 0 \/ (l < leg[p] /\ db'[p][l] = Traded(p, l))
    BY <1>1, <1>3, <2>1, <2>2, PersistDisk DEF Told, Disk
  <2>4. filled' = filled
    BY <1>3 DEF Persist, table
  <2> QED BY <1>1, <1>2, <2>3, <2>4 DEF Disk
<1>4. CASE db' = db
  <2>1. report # NoReport => Told(report)
    BY <1>1 DEF Talk
  <2>2. filled'[p][l] = 0 \/ l < leg[p]
    BY <1>1, <2>1, EngineFills DEF Disk, Told
  <2> QED BY <1>1, <1>2, <1>4, <2>2 DEF Disk
<1>5. Persist \/ db' = db
  BY <1>1, EngineTalks DEF RecvReport, disk
<1> QED BY <1>3, <1>4, <1>5

LEMMA EngineKeeps == PInv /\ EngineNext /\ UNCHANGED worker => PInv'
<1> SUFFICES ASSUME PInv, EngineNext, UNCHANGED worker PROVE PInv'
  OBVIOUS
<1>1. IInv'
  BY EngineStep DEF PInv
<1>2. WorkerTypes'
  <2>1. exec_open' = TRUE
    BY EngineSends DEF PInv, MInv, WorkerTypes
  <2> QED BY <2>1 DEF PInv, MInv, WorkerTypes, worker
<1>3. Signals'
  BY DEF PInv, MInv, Signals, CancelMapExact, Running, worker
<1> QED BY <1>1, <1>2, <1>3, EngineFresh, EngineTalk, EngineDisk DEF PInv, MInv
-----------------------------------------------------------------------------
(* The steps of the mock execution. *)

LEMMA CoreParts ==
  UNCHANGED core =>
    UNCHANGED <<dpc, issued, mpc, report, inflight, filled, db>> /\ LastSent' = LastSent
BY DEF core, detector, monitor, table, disk, LastSent

\* A worker reports the leg it is at.
LEMMA ReportKeeps ==
  ASSUME PInv, NEW p \in Plans, NEW qty, NEW status \in {"Filled", "PartiallyFilled", "Cancelled"},
         UNCHANGED <<core, exec_open, reports_open>>, Mock!ReportLeg(p, qty, status),
         wpc[p] \in {"check", "taker", "passive"}, leg[p] \in Legs,
         qty = IF status = "Filled" THEN LegQty ELSE 0,
         status = "Cancelled" => p \in heard,
         signal' = signal \/ (signal[p] = "sent" /\ signal' = [signal EXCEPT ![p] = "taken"])
  PROVE  PInv'
<1>0. PICK r : r = [plan |-> p, leg |-> leg[p], qty |-> qty, status |-> status]
  OBVIOUS
<1>1. IInv /\ WorkerTypes /\ Fresh /\ Signals /\ Talk /\ Disk
  BY DEF PInv, MInv
<1>2. UNCHANGED <<dpc, issued, mpc, report, inflight, filled, db>> /\ LastSent' = LastSent
  BY CoreParts
<1>3. /\ report_q' = Append(report_q, r)
      /\ outcome' = [outcome EXCEPT ![p][leg[p]] = status]
      /\ leg' = [leg EXCEPT ![p] = leg[p] + 1]
      /\ wpc' = [wpc EXCEPT ![p] = "check"]
      /\ UNCHANGED <<plan_q, cancel_q, aggressive, cancel_map, heard, exec_open, reports_open>>
  BY <1>0 DEF Mock!ReportLeg, Mock!Goto
<1>4. r \in Reports
  BY <1>0, EngineAssumption, LegFacts DEF Reports, Statuses
<1>5. /\ plan_q \in Seq(Plans) /\ cancel_q \in Seq(Plans) /\ report_q \in Seq(Reports)
      /\ exec_open \in BOOLEAN /\ reports_open \in BOOLEAN
  BY <1>1 DEF IInv, TypeOK
<1>6. /\ report_q' \in Seq(Reports) /\ Len(report_q) \in Nat /\ Len(report_q') = Len(report_q) + 1
      /\ report_q'[Len(report_q) + 1] = r
      /\ \A i \in 1..Len(report_q) : report_q'[i] = report_q[i]
      /\ \A i \in 1..Len(report_q) + 1 : i \in 1..Len(report_q) \/ i = Len(report_q) + 1
  BY <1>3, <1>4, <1>5, AppendFacts
<1>7. IInv'
  BY <1>1, <1>3, <1>5, <1>6, ExecutorStep
<1>8. ASSUME NEW q \in Plans
      PROVE  /\ wpc'[q] = IF q = p THEN "check" ELSE wpc[q]
             /\ leg'[q] = IF q = p THEN leg[p] + 1 ELSE leg[q]
             /\ \/ signal'[q] = signal[q]
                \/ q = p /\ signal[q] = "sent" /\ signal'[q] = "taken"
  <2>1. /\ wpc'[q] = IF q = p THEN "check" ELSE wpc[q]
        /\ leg'[q] = IF q = p THEN leg[p] + 1 ELSE leg[q]
    BY <1>1, <1>3 DEF WorkerTypes
  <2>2. \/ signal'[q] = signal[q]
        \/ q = p /\ signal[q] = "sent" /\ signal'[q] = "taken"
    BY <1>1 DEF WorkerTypes
  <2> QED BY <2>1, <2>2
<1>9. \A q \in Plans : \A l \in Legs :
        outcome'[q][l] = IF q = p /\ l = leg[p] THEN status ELSE outcome[q][l]
  BY <1>1, <1>3 DEF WorkerTypes
<1>10. \A x \in Nat \ {0} : x + 1 \in Nat \ {0} /\ x < x + 1 /\ ~(x < x)
  BY SMT
<1>11. WorkerTypes'
  <2>1. leg' \in [Plans -> Nat \ {0}]
    BY <1>1, <1>3, <1>10 DEF WorkerTypes
  <2>2. outcome' \in [Plans -> [Legs -> {"none", "Filled", "PartiallyFilled", "Cancelled"}]]
    BY <1>1, <1>3 DEF WorkerTypes
  <2>3. signal' \in [Plans -> {"empty", "sent", "taken"}]
    BY <1>1 DEF WorkerTypes
  <2> QED BY <1>1, <1>3, <1>8, <2>1, <2>2, <2>3 DEF WorkerTypes
<1>12. Fresh'
  BY <1>1, <1>2, <1>3, <1>5, <1>8 DEF Fresh
<1>13. Signals'
  BY <1>1, <1>3, <1>8 DEF Signals, CancelMapExact, Running
<1>14. ASSUME NEW s, Told(s) PROVE (Told(s))'
  <2>1. /\ s.plan \in Plans /\ s.leg \in Legs /\ s.leg < leg[s.plan]
        /\ s.leg \in Nat \ {0} /\ leg[s.plan] \in Nat \ {0} /\ leg[p] \in Nat \ {0}
    BY <1>1, <1>14, LegFacts DEF Told, WorkerTypes
  <2>2. s.leg < leg'[s.plan]
    <3>1. s.leg < leg[s.plan] + 1
      BY <2>1, SMT
    <3> QED BY <1>8, <2>1, <3>1
  <2>3. ~(s.plan = p /\ s.leg = leg[p])
    BY <1>10, <2>1
  <2> QED BY <1>3, <1>9, <1>14, <2>1, <2>2, <2>3 DEF Told, Traded
<1>15. ASSUME NEW s, Told(s) PROVE ~SameLeg(s, r)
  BY <1>0, <1>1, <1>10, <1>15 DEF Told, SameLeg, WorkerTypes
<1>16. (Told(r))'
  BY <1>0, <1>1, <1>3, <1>8, <1>9, <1>10 DEF Told, Traded, WorkerTypes
<1>17. db[r.plan][r.leg] = 0
  BY <1>0, <1>1, <1>10 DEF Disk, WorkerTypes
<1>18. Talk'
  <2>1. \A i \in 1..Len(report_q') :
          (Told(report_q[i]))' /\ db'[report_q'[i].plan][report_q'[i].leg] = 0
    BY <1>1, <1>2, <1>6, <1>14, <1>16, <1>17 DEF Talk, Told, Traded
  <2>2. ASSUME NEW j \in 1..Len(report_q'), NEW i \in 1..j - 1
        PROVE  ~SameLeg(report_q'[i], report_q'[j])
    <3>1. i \in 1..Len(report_q)
      BY <1>6, SMT
    <3>2. CASE j \in 1..Len(report_q)
      BY <1>1, <1>6, <3>1, <3>2 DEF Talk
    <3>3. CASE j = Len(report_q) + 1
      BY <1>1, <1>6, <1>15, <3>1, <3>3 DEF Talk
    <3> QED BY <1>6, <3>2, <3>3
  <2>3. report' = NoReport \/ (Told(report))'
    BY <1>1, <1>2, <1>14 DEF Talk, Told, Traded
  <2>4. mpc' = "persist" => db'[report'.plan][report'.leg] = 0
    BY <1>1, <1>2 DEF Talk
  <2>5. \A i \in 1..Len(report_q') : ~SameLeg(report_q'[i], report')
    <3>1. ~SameLeg(r, report)
      <4>1. CASE report = NoReport
        BY <1>0, <4>1, LegFacts DEF SameLeg, NoReport
      <4>2. CASE Told(report)
        BY <1>15, <4>2 DEF SameLeg
      <4> QED BY <1>1, <4>1, <4>2 DEF Talk
    <3> QED BY <1>1, <1>2, <1>6, <3>1 DEF Talk, SameLeg
  <2> QED BY <2>1, <2>2, <2>3, <2>4, <2>5 DEF Talk, SameLeg, Told, Traded
<1>19. Disk'
  <2> SUFFICES ASSUME NEW q \in Plans, NEW l \in Legs
               PROVE  /\ db[q][l] = 0 \/ (l < leg'[q] /\ db[q][l] = (Traded(q, l))')
                      /\ filled[q][l] = 0 \/ l < leg'[q]
    BY <1>2 DEF Disk
  <2>1. /\ l \in Nat \ {0} /\ leg[q] \in Nat \ {0} /\ leg[p] \in Nat \ {0}
    BY <1>1, LegFacts DEF WorkerTypes
  <2>2. l < leg[q] => l < leg'[q] /\ (Traded(q, l))' = Traded(q, l)
    <3>1. l < leg[q] => l < leg[q] + 1
      BY <2>1, SMT
    <3>2. l < leg[q] => ~(q = p /\ l = leg[p])
      BY <1>10, <2>1
    <3> QED BY <1>8, <1>9, <3>1, <3>2 DEF Traded
  <2> QED BY <1>1, <2>2 DEF Disk
<1> QED BY <1>7, <1>11, <1>12, <1>13, <1>18, <1>19 DEF PInv, MInv
\* A step that reports nothing.
LEMMA QuietKeeps ==
  ASSUME PInv, UNCHANGED core, UNCHANGED <<report_q, leg, outcome>>, heard \subseteq heard'
  PROVE  Talk' /\ Disk'
<1>1. /\ Talk /\ Disk
      /\ UNCHANGED <<mpc, report, filled, db>>
  BY CoreParts DEF PInv, MInv
<1>2. \A s : Told(s) => /\ s.plan \in Plans /\ s.leg \in Legs
                        /\ s.leg < leg'[s.plan]
                        /\ s.qty = (IF outcome'[s.plan][s.leg] = "Filled" THEN LegQty ELSE 0)
                        /\ s.status \in {"Filled", "PartiallyFilled", "Cancelled"}
                        /\ s.status = "Cancelled" => s.plan \in heard'
  BY DEF Told, Traded
<1>3. Disk'
  BY <1>1 DEF Disk, Traded
<1>4. \A i \in 1..Len(report_q') : (Told(report_q[i]))'
  BY <1>1, <1>2 DEF Talk, Told, Traded
<1>5. report' = NoReport \/ (Told(report))'
  BY <1>1, <1>2 DEF Talk, Told, Traded
<1> QED BY <1>1, <1>3, <1>4, <1>5 DEF Talk, SameLeg, Told, Traded

\* The invariant of the engine, when the step touches no queue but takes from one.
LEMMA QueuesKeep ==
  ASSUME PInv, UNCHANGED <<core, exec_open, reports_open, report_q>>,
         plan_q' = plan_q \/ (plan_q # <<>> /\ plan_q' = Tail(plan_q)),
         cancel_q' = cancel_q \/ (cancel_q # <<>> /\ cancel_q' = Tail(cancel_q))
  PROVE  IInv'
<1>1. /\ IInv /\ plan_q \in Seq(Plans) /\ cancel_q \in Seq(Plans) /\ report_q \in Seq(Reports)
      /\ exec_open \in BOOLEAN /\ reports_open \in BOOLEAN
  BY DEF PInv, IInv, TypeOK
<1>2. plan_q' \in Seq(Plans)
  BY <1>1, TailFacts
<1>3. cancel_q' \in Seq(Plans)
  BY <1>1, TailFacts
<1> QED BY <1>1, <1>2, <1>3, ExecutorStep

LEMMA AcceptKeeps ==
  PInv /\ Mock!Accept /\ UNCHANGED <<core, exec_open, reports_open>> => PInv'
<1> SUFFICES ASSUME PInv, Mock!Accept, UNCHANGED <<core, exec_open, reports_open>> PROVE PInv'
  OBVIOUS
<1>1. /\ IInv /\ WorkerTypes /\ Fresh /\ Signals /\ plan_q \in Seq(Plans) /\ LastSent' = LastSent
  BY CoreParts DEF PInv, MInv, IInv, TypeOK
<1>2. PICK p : p = Head(plan_q)
  OBVIOUS
<1>3. /\ plan_q # <<>> /\ plan_q' = Tail(plan_q) /\ wpc' = [wpc EXCEPT ![p] = "start"]
      /\ UNCHANGED <<cancel_q, report_q, aggressive, leg, signal, cancel_map, outcome, heard>>
  BY <1>2 DEF Mock!Accept, Mock!Goto
<1>4. /\ p = plan_q[1] /\ p \in Plans /\ 1 \in 1..Len(plan_q)
      /\ \A i \in 1..Len(plan_q') :
           /\ plan_q'[i] = plan_q[i + 1]
           /\ i + 1 \in 1..Len(plan_q) /\ 1 \in 1..i
  BY <1>1, <1>2, <1>3, TailFacts
<1>5. wpc[p] = "none" /\ p <= LastSent
  BY <1>1, <1>4 DEF Fresh
<1>6. \A q \in Plans : wpc'[q] = IF q = p THEN "start" ELSE wpc[q]
  BY <1>1, <1>3 DEF WorkerTypes
<1>7. WorkerTypes'
  BY <1>1, <1>3, <1>4, <1>6 DEF WorkerTypes
<1>8. Signals'
  BY <1>1, <1>3, <1>5, <1>6 DEF Signals, CancelMapExact, Running
<1>9. Fresh'
  <2>1. \A q \in Plans : q > LastSent => q # p
    <3>1. LastSent \in Int
      BY <1>1, EngineAssumption, SMT DEF IInv, TypeOK, LastSent
    <3> QED BY <1>4, <1>5, <3>1, LegFacts, SMT
  <2>2. \A i \in 1..Len(plan_q') : plan_q'[i] \in Plans /\ plan_q'[i] # p
    <3>1. \A i \in 1..Len(plan_q') : 1 \in 1..(i + 1) - 1
      BY SMT
    <3>2. \A i \in 1..Len(plan_q) : plan_q[i] \in Plans
      BY <1>1
    <3> QED BY <1>1, <1>4, <3>1, <3>2 DEF Fresh
  <2>3. \A j \in 1..Len(plan_q') : \A i \in 1..j - 1 :
          i \in 1..Len(plan_q') /\ i + 1 \in 1..(j + 1) - 1
    BY SMT
  <2>4. \A j \in 1..Len(plan_q') : \A i \in 1..j - 1 : plan_q'[i] # plan_q'[j]
    BY <1>1, <1>4, <2>3 DEF Fresh
  <2>5. \A i \in 1..Len(plan_q') : wpc'[plan_q'[i]] = "none" /\ plan_q'[i] <= LastSent
    BY <1>1, <1>4, <1>6, <2>2 DEF Fresh
  <2> QED BY <1>1, <1>6, <2>1, <2>4, <2>5 DEF Fresh
<1> QED BY <1>3, <1>7, <1>8, <1>9, QuietKeeps, QueuesKeep DEF PInv, MInv

LEMMA CancellerKeeps ==
  PInv /\ Mock!Canceller /\ UNCHANGED <<core, exec_open, reports_open>> => PInv'
<1> SUFFICES ASSUME PInv, Mock!Canceller, UNCHANGED <<core, exec_open, reports_open>> PROVE PInv'
  OBVIOUS
<1>1. /\ IInv /\ WorkerTypes /\ Fresh /\ Signals /\ cancel_q \in Seq(Plans) /\ LastSent' = LastSent
  BY CoreParts DEF PInv, MInv, IInv, TypeOK
<1>2. PICK p : p = Head(cancel_q)
  OBVIOUS
<1>3. /\ cancel_q # <<>> /\ cancel_q' = Tail(cancel_q)
      /\ signal' = IF p \in cancel_map THEN [signal EXCEPT ![p] = "sent"] ELSE signal
      /\ cancel_map' = cancel_map \ {p} /\ heard' = heard \cup {p}
      /\ UNCHANGED <<plan_q, report_q, aggressive, wpc, leg, outcome>>
  BY <1>2 DEF Mock!Canceller, Mock!RemoveSender
<1>4. p \in Plans
  BY <1>1, <1>2, <1>3, TailFacts
<1>5. \A q \in Plans :
        signal'[q] = IF q = p /\ p \in cancel_map THEN "sent" ELSE signal[q]
  BY <1>1, <1>3 DEF WorkerTypes
<1>6. WorkerTypes'
  BY <1>1, <1>3 DEF WorkerTypes
<1>7. Signals'
  BY <1>1, <1>3, <1>5 DEF Signals, CancelMapExact, Running
<1>8. Fresh'
  BY <1>1, <1>3 DEF Fresh
<1> QED BY <1>3, <1>6, <1>7, <1>8, QuietKeeps, QueuesKeep DEF PInv, MInv

LEMMA WorkerKeeps ==
  ASSUME PInv, NEW p \in Plans, Mock!Worker(p), UNCHANGED <<core, exec_open, reports_open>>
  PROVE  PInv'
<1>1. /\ IInv /\ WorkerTypes /\ Fresh /\ Signals /\ LastSent' = LastSent /\ plan_q \in Seq(Plans)
  BY CoreParts DEF PInv, MInv, IInv, TypeOK
<1> DEFINE Moves(w, c) ==
      /\ wpc' = [wpc EXCEPT ![p] = w] /\ cancel_map' = c
      /\ UNCHANGED <<plan_q, cancel_q, report_q, aggressive, leg, signal, outcome, heard>>
<1>2. ASSUME NEW w, NEW c, Moves(w, c), wpc[p] # "none",
             WorkerTypes', Signals'
      PROVE  PInv'
  <2>1. \A q \in Plans : wpc[q] = "none" => wpc'[q] = "none"
    BY <1>1, <1>2 DEF WorkerTypes
  <2>2. \A i \in 1..Len(plan_q) : plan_q[i] \in Plans
    BY <1>1
  <2>3. Fresh'
    BY <1>1, <1>2, <2>1, <2>2 DEF Fresh
  <2> QED BY <1>2, <2>3, QuietKeeps, QueuesKeep DEF PInv, MInv
<1>3. CASE Mock!RegisterCancel(p)
  <2>1. wpc[p] = "start" /\ Moves("check", cancel_map \cup {p})
    BY <1>3 DEF Mock!RegisterCancel, Mock!Goto, Mock!execQueues
  <2>2. \A q \in Plans : wpc'[q] = IF q = p THEN "check" ELSE wpc[q]
    BY <1>1, <2>1 DEF WorkerTypes
  <2>3. WorkerTypes'
    BY <1>1, <2>1, <2>2 DEF WorkerTypes
  <2>4. Signals'
    BY <1>1, <2>1, <2>2 DEF Signals, CancelMapExact, Running
  <2> QED BY <1>2, <2>1, <2>3, <2>4
<1>4. CASE Mock!CheckClear(p)
  <2>1. PICK w \in {"taker", "passive", "panicked"} :
          /\ w = "panicked" => signal[p] = "taken"
          /\ Moves(w, cancel_map) /\ wpc[p] = "check" /\ leg[p] \in Legs
    BY <1>4, SameLegs DEF Mock!CheckClear, Mock!Goto, Mock!execQueues
  <2>2. \A q \in Plans : wpc'[q] = IF q = p THEN w ELSE wpc[q]
    BY <1>1, <2>1 DEF WorkerTypes
  <2>3. WorkerTypes'
    BY <1>1, <2>1, <2>2 DEF WorkerTypes
  <2>4. Signals'
    BY <1>1, <2>1, <2>2 DEF Signals, CancelMapExact, Running
  <2> QED BY <1>2, <2>1, <2>3, <2>4
<1>5. CASE Mock!Cleanup(p)
  <2>1. wpc[p] = "check" /\ Moves("done", cancel_map \ {p})
    BY <1>5 DEF Mock!Cleanup, Mock!RemoveSender, Mock!Goto, Mock!execQueues
  <2>2. \A q \in Plans : wpc'[q] = IF q = p THEN "done" ELSE wpc[q]
    BY <1>1, <2>1 DEF WorkerTypes
  <2>3. WorkerTypes'
    BY <1>1, <2>1, <2>2 DEF WorkerTypes
  <2>4. Signals'
    BY <1>1, <2>1, <2>2 DEF Signals, CancelMapExact, Running
  <2> QED BY <1>2, <2>1, <2>3, <2>4
<1>6. CASE Mock!CheckCancelled(p) \/ Mock!CancelPassive(p)
  <2>1. /\ wpc[p] \in {"check", "passive"} /\ leg[p] \in Legs /\ signal[p] = "sent"
        /\ signal' = [signal EXCEPT ![p] = "taken"] /\ Mock!ReportLeg(p, 0, "Cancelled")
    BY <1>1, <1>6, SameLegs DEF Mock!CheckCancelled, Mock!CancelPassive, WorkerTypes
  <2>2. p \in heard
    BY <1>1, <2>1 DEF Signals
  <2> QED BY <2>1, <2>2, ReportKeeps
<1>7. CASE Mock!FillTaker(p)
  <2>1. /\ wpc[p] = "taker" /\ leg[p] \in Legs
        /\ signal' = signal /\ Mock!ReportLeg(p, LegQty, "Filled")
    BY <1>1, <1>7 DEF Mock!FillTaker, WorkerTypes
  <2> QED BY <2>1, ReportKeeps
<1>8. CASE Mock!ExpirePassive(p)
  <2>1. /\ wpc[p] = "passive" /\ leg[p] \in Legs
        /\ signal' = signal /\ Mock!ReportLeg(p, 0, "PartiallyFilled")
    BY <1>1, <1>8 DEF Mock!ExpirePassive, WorkerTypes
  <2> QED BY <2>1, ReportKeeps
<1> QED BY <1>3, <1>4, <1>5, <1>6, <1>7, <1>8 DEF Mock!Worker

\* No step leaves the invariant.
LEMMA Step == PInv /\ [Next]_vars => PInv'
<1> SUFFICES ASSUME PInv, [Next]_vars PROVE PInv'
  OBVIOUS
<1>1. CASE EngineNext /\ UNCHANGED worker
  BY <1>1, EngineKeeps
<1>2. CASE Mock!Next /\ UNCHANGED <<core, exec_open, reports_open>>
  BY <1>2, SameLegs, AcceptKeeps, CancellerKeeps, WorkerKeeps DEF Mock!Next
<1>3. CASE UNCHANGED vars
  <2>1. UNCHANGED <<core, plan_q, cancel_q, report_q, exec_open, reports_open,
                    wpc, leg, signal, cancel_map, outcome, heard>>
    BY <1>3 DEF vars, engineVars, channels, worker
  <2>2. IInv'
    BY <2>1, QueuesKeep
  <2>3. LastSent' = LastSent
    BY <2>1, CoreParts
  <2>4. WorkerTypes' /\ Fresh' /\ Signals'
    BY <2>1, <2>3 DEF PInv, MInv, WorkerTypes, Fresh, Signals, CancelMapExact, Running
  <2> QED BY <2>1, <2>2, <2>4, QuietKeeps DEF PInv, MInv
<1> QED BY <1>1, <1>2, <1>3 DEF Next

THEOREM Invariance == Spec => []PInv
BY InitP, Step, PTL DEF Spec
-----------------------------------------------------------------------------
(* Plans the engine no longer tracks. *)

\* The executor needs no cancel of p: it has one, or nothing of p is left to trade.
Settled(p) ==
  \/ wpc[p] \in {"done", "panicked"} \/ leg[p] \notin Legs
  \/ p \in heard \/ \E i \in 1..Len(cancel_q) : cancel_q[i] = p

\* A cancel that was sent stays, until it is heard.
LEMMA CancelStays ==
  ASSUME IInv, NEW p \in Plans, Settled(p),
         cancel_q' = cancel_q \/ \E q \in Plans : cancel_q' = Append(cancel_q, q),
         UNCHANGED worker
  PROVE  Settled(p)'
<1>1. cancel_q \in Seq(Plans) /\ UNCHANGED <<wpc, leg, heard>>
  BY DEF IInv, TypeOK, worker
<1>2. CASE cancel_q' = cancel_q
  BY <1>1, <1>2 DEF Settled
<1>3. ASSUME NEW q \in Plans, cancel_q' = Append(cancel_q, q) PROVE Settled(p)'
  <2>1. /\ Len(cancel_q') = Len(cancel_q) + 1 /\ Len(cancel_q) \in Nat
        /\ \A i \in 1..Len(cancel_q) : cancel_q'[i] = cancel_q[i]
    BY <1>1, <1>3, AppendFacts
  <2>2. \A i \in 1..Len(cancel_q) : i \in 1..Len(cancel_q')
    BY <2>1, SMT
  <2> QED BY <1>1, <2>1, <2>2 DEF Settled
<1> QED BY <1>2, <1>3

\* The engine only adds to the cancel requests.
LEMMA EngineCancels ==
  IInv /\ EngineNext => cancel_q' = cancel_q \/ \E q \in Plans : cancel_q' = Append(cancel_q, q)
<1> SUFFICES ASSUME IInv, EngineNext
             PROVE  cancel_q' = cancel_q \/ \E q \in Plans : cancel_q' = Append(cancel_q, q)
  OBVIOUS
<1>1. inflight \subseteq Plans
  BY InflightPlans DEF IInv
<1>2. CASE Detector
  BY <1>2 DEF Detector, RecvView, DetectorExit, RejectBusy, RejectOp, BuildPlan, Register, Submit,
     CountSubmitted, SubmitFailed, channels
<1>3. CASE Monitor
  BY <1>1, <1>3 DEF Monitor, RecvReport, Persist, ApplyUnknown, ApplyFill, ApplyClose,
     CountExecuted, ScanTimeouts, CancelOverdue, MonitorExit, channels
<1>4. CASE \E p \in Plans : TimeOut(p)
  BY <1>4 DEF TimeOut, channels
<1> QED BY <1>2, <1>3, <1>4 DEF EngineNext

\* A plan that leaves the table is settled.
LEMMA DroppedSettled ==
  ASSUME PInv, LegQty # 0, EngineNext, UNCHANGED worker, NEW p \in inflight \ inflight'
  PROVE  Settled(p)'
<1>1. /\ IInv /\ WorkerTypes /\ Talk /\ Disk /\ exec_open = TRUE
      /\ UNCHANGED <<wpc, leg, heard>> /\ cancel_q \in Seq(Plans)
  BY DEF PInv, MInv, WorkerTypes, worker, IInv, TypeOK
<1>2. p \in Plans /\ p # 0
  BY <1>1, InflightPlans, LegFacts DEF IInv
<1>3. CASE cancel_q' = Append(cancel_q, p)
  <2>1. cancel_q'[Len(cancel_q) + 1] = p /\ Len(cancel_q) + 1 \in 1..Len(cancel_q')
    BY <1>1, <1>2, <1>3, SMT
  <2> QED BY <2>1 DEF Settled
<1>4. CASE report.plan = p /\ report.status = "Cancelled"
  <2>1. Told(report)
    BY <1>1, <1>2, <1>4 DEF Talk, NoReport
  <2> QED BY <1>1, <1>4, <2>1 DEF Told, Settled
<1>5. CASE report.plan = p /\ \A l \in Legs : FilledNow[p][l] >= LegQty
  <2>1. Told(report)
    BY <1>1, <1>2, <1>5 DEF Talk, NoReport
  <2>2. ASSUME NEW l \in Legs PROVE l < leg[p]
    <3>1. CASE report.leg = l
      BY <1>5, <2>1, <3>1 DEF Told
    <3>2. CASE report.leg # l
      <4>1. filled \in [Plans -> [Legs -> Nat]]
        BY <1>1 DEF IInv, TypeOK
      <4>2. FilledNow[p][l] = filled[p][l]
        BY <1>2, <1>5, <3>2, <4>1 DEF FilledNow
      <4>3. filled[p][l] >= LegQty
        BY <1>5, <4>2
      <4>4. filled[p][l] # 0
        BY <1>2, <4>1, <4>3, EngineAssumption, SMT
      <4> QED BY <1>1, <1>2, <4>4 DEF Disk
    <3> QED BY <3>1, <3>2
  <2>3. leg[p] \in Nat \ {0}
    BY <1>1, <1>2 DEF WorkerTypes
  <2>4. leg[p] \notin Legs
    BY <2>2, <2>3, SMT
  <2> QED BY <1>1, <2>4 DEF Settled
<1> QED BY <1>1, <1>3, <1>4, <1>5, EngineUntracks

\* What was settled stays so when the workers move.
LEMMA MockSettles ==
  ASSUME PInv, NEW p \in Plans, Settled(p), Mock!Next,
         UNCHANGED <<core, exec_open, reports_open>>
  PROVE  Settled(p)'
<1>1. WorkerTypes /\ Fresh /\ cancel_q \in Seq(Plans) /\ plan_q \in Seq(Plans)
  BY DEF PInv, MInv, IInv, TypeOK
<1>2. leg[p] \in Nat \ {0} /\ NumLegs \in Nat
  BY <1>1, LegFacts DEF WorkerTypes
<1>3. CASE Mock!Accept
  <2>1. Head(plan_q) = plan_q[1] /\ 1 \in 1..Len(plan_q)
    BY <1>1, <1>3, TailFacts DEF Mock!Accept
  <2>2. wpc[Head(plan_q)] = "none"
    BY <1>1, <2>1 DEF Fresh
  <2>3. wpc[p] \in {"done", "panicked"} => wpc'[p] = wpc[p]
    BY <1>1, <1>3, <2>2 DEF Mock!Accept, Mock!Goto, WorkerTypes
  <2> QED BY <1>3, <2>3 DEF Mock!Accept, Settled
<1>4. CASE Mock!Canceller
  <2>1. PICK q : /\ q = Head(cancel_q) /\ cancel_q # <<>> /\ cancel_q' = Tail(cancel_q)
                 /\ heard' = heard \cup {q} /\ UNCHANGED <<wpc, leg>>
    BY <1>4 DEF Mock!Canceller
  <2>2. /\ q = cancel_q[1]
        /\ \A i \in 1..Len(cancel_q) :
             i = 1 \/ (i - 1 \in 1..Len(cancel_q') /\ cancel_q'[i - 1] = cancel_q[i])
    BY <1>1, <2>1, SMT
  <2> QED BY <2>1, <2>2 DEF Settled
<1>5. ASSUME NEW q \in Plans, Mock!Worker(q) PROVE Settled(p)'
  <2>1. /\ cancel_q' = cancel_q /\ heard' = heard
        /\ wpc[q] \notin {"done", "panicked"}
        /\ \E w : wpc' = [wpc EXCEPT ![q] = w]
        /\ leg' = leg \/ leg' = [leg EXCEPT ![q] = leg[q] + 1]
    BY <1>5 DEF Mock!Worker, Mock!RegisterCancel, Mock!CheckCancelled, Mock!CheckClear,
       Mock!FillTaker, Mock!ExpirePassive, Mock!CancelPassive, Mock!Cleanup, Mock!ReportLeg,
       Mock!Goto, Mock!execQueues
  <2>2. wpc[p] \in {"done", "panicked"} => wpc'[p] = wpc[p]
    BY <1>1, <2>1 DEF WorkerTypes
  <2>3. leg[p] \notin Legs => leg'[p] \notin Legs
    <3>1. leg'[p] = leg[p] \/ leg'[p] = leg[p] + 1
      BY <1>1, <2>1 DEF WorkerTypes
    <3>2. leg[p] \notin Legs => leg[p] > NumLegs
      BY <1>2, SMT DEF Legs
    <3> QED BY <1>2, <3>1, <3>2, SMT DEF Legs
  <2> QED BY <2>1, <2>2, <2>3 DEF Settled
<1> QED BY <1>3, <1>4, <1>5, SameLegs DEF Mock!Next

LEMMA ForgottenStep ==
  ASSUME LegQty # 0
  PROVE  PInv /\ ForgottenPlansAreCancelled /\ [Next]_vars => ForgottenPlansAreCancelled'
<1> SUFFICES ASSUME PInv, ForgottenPlansAreCancelled, [Next]_vars,
                    NEW p \in 1..issued', p \notin inflight'
             PROVE  (dpc' = "register" /\ p = issued') \/ Settled(p)'
  BY DEF ForgottenPlansAreCancelled, Settled
<1>1. IInv /\ exec_open = TRUE /\ issued \in 0..MaxPlans /\ MaxPlans \in Nat
  BY EngineAssumption DEF PInv, MInv, WorkerTypes, IInv, TypeOK
<1>2. \A q \in 1..issued \ inflight : (dpc = "register" /\ q = issued) \/ Settled(q)
  BY DEF ForgottenPlansAreCancelled, Settled
<1>3. CASE EngineNext /\ UNCHANGED worker
  <2>1. CASE p \in inflight
    BY <1>3, <2>1, DroppedSettled
  <2>2. CASE p \notin inflight /\ Settled(p) /\ p \in Plans
    BY <1>1, <1>3, <2>2, EngineCancels, CancelStays
  <2>3. CASE p \notin inflight /\ dpc = "register" /\ p = issued
    <3>1. Register \/ (dpc' = dpc /\ issued' = issued)
      BY <1>3, <2>3 DEF EngineNext, Detector, Monitor, RecvView, DetectorExit, RejectBusy, RejectOp,
         BuildPlan, Submit, CountSubmitted, SubmitFailed, RecvReport, Persist, ApplyUnknown,
         ApplyFill, ApplyClose, CountExecuted, ScanTimeouts, CancelOverdue, MonitorExit, TimeOut,
         detector
    <3>2. ~Register
      BY <2>3 DEF Register
    <3> QED BY <2>3, <3>1, <3>2
  <2>4. CASE p \notin 1..issued
    <3>1. BuildPlan \/ issued' = issued
      BY <1>3 DEF EngineNext, Detector, Monitor, RecvView, DetectorExit, RejectBusy, RejectOp,
         Register, Submit, CountSubmitted, SubmitFailed, RecvReport, Persist, ApplyUnknown,
         ApplyFill, ApplyClose, CountExecuted, ScanTimeouts, CancelOverdue, MonitorExit, TimeOut,
         detector
    <3>2. issued' = issued + 1 /\ dpc' = "register"
      BY <2>4, <3>1 DEF BuildPlan
    <3>3. p = issued'
      BY <1>1, <2>4, <3>2, SMT
    <3> QED BY <3>2, <3>3
  <2>5. p \in 1..issued => p \in Plans
    BY <1>1, SMT DEF Plans
  <2> QED BY <1>2, <2>1, <2>2, <2>3, <2>4, <2>5
<1>4. CASE Mock!Next /\ UNCHANGED <<core, exec_open, reports_open>>
  <2>1. UNCHANGED <<dpc, issued, inflight>>
    BY <1>4, CoreParts
  <2>2. p \in Plans
    BY <1>1, <2>1, SMT DEF Plans
  <2> QED BY <1>2, <1>4, <2>1, <2>2, MockSettles
<1>5. CASE UNCHANGED vars
  <2>1. UNCHANGED <<dpc, issued, inflight, cancel_q, wpc, leg, heard>>
    BY <1>5, CoreParts DEF vars, engineVars, channels, worker
  <2> QED BY <1>2, <2>1 DEF Settled
<1> QED BY <1>3, <1>4, <1>5 DEF Next

-----------------------------------------------------------------------------
(* What was traded: in the table, or in one report on its way. *)

About(r, p, l) == r.plan = p /\ r.leg = l

\* A report about leg l of plan p is in hand or in the queue.
Awaited(p, l) ==
  About(report, p, l) \/ \E i \in 1..Len(report_q) : About(report_q[i], p, l)

\* What FillsConserved rests on: the monitor holds a report only while it handles it,
\* a worker that was not spawned is at its first leg, and a leg that was not reached
\* traded nothing.
Hand    == mpc \notin {"persist", "apply"} => report = NoReport
Idle    == \A p \in Plans : wpc[p] = "none" => leg[p] = 1
Ahead   == \A p \in Plans : \A l \in Legs : l < leg[p] \/ outcome[p][l] = "none"
Counted ==
  \A p \in inflight : \A l \in Legs :
    filled[p][l] = IF Awaited(p, l) THEN 0 ELSE Traded(p, l)

FillInv == Hand /\ Idle /\ Ahead /\ Counted

LEMMA InitFills == Init => FillInv
<1> SUFFICES ASSUME Init PROVE FillInv
  OBVIOUS
<1>1. Hand /\ Counted
  BY DEF Init, EngineInit, Hand, Counted
<1>2. Idle /\ Ahead
  BY SameLegs DEF Init, Mock!Init, Idle, Ahead
<1> QED BY <1>1, <1>2 DEF FillInv

\* A leg that is not behind its worker has no report and traded nothing.
LEMMA NotReached ==
  ASSUME PInv, FillInv, NEW p \in Plans, NEW l \in Legs, ~(l < leg[p])
  PROVE  ~Awaited(p, l) /\ Traded(p, l) = 0 /\ filled[p][l] = 0
<1>1. Talk /\ Disk /\ Ahead
  BY DEF PInv, MInv, FillInv
<1>2. ~About(report, p, l)
  <2>1. CASE report = NoReport
    BY <2>1, LegFacts DEF About, NoReport
  <2>2. CASE Told(report)
    BY <2>2 DEF About, Told
  <2> QED BY <1>1, <2>1, <2>2 DEF Talk
<1>3. \A i \in 1..Len(report_q) : ~About(report_q[i], p, l)
  BY <1>1 DEF Talk, Told, About
<1>4. Traded(p, l) = 0 /\ filled[p][l] = 0
  BY <1>1 DEF Ahead, Disk, Traded
<1> QED BY <1>2, <1>3, <1>4 DEF Awaited

\* A step that registers no plan, and changes neither the fills nor the reports of
\* those that stay, leaves them counted.
LEMMA CountedKeeps ==
  ASSUME Counted, inflight' \subseteq inflight, UNCHANGED outcome,
         \A p \in inflight' : filled'[p] = filled[p],
         \A p \in inflight' : \A l \in Legs : Awaited(p, l)' = Awaited(p, l)
  PROVE  Counted'
<1>1. \A p, l : Traded(p, l)' = Traded(p, l)
  BY DEF Traded
<1> SUFFICES ASSUME NEW p \in inflight', NEW l \in Legs
             PROVE  filled'[p][l] = IF Awaited(p, l)' THEN 0 ELSE Traded(p, l)'
  BY DEF Counted
<1>2. Awaited(p, l)' = Awaited(p, l) /\ Traded(p, l)' = Traded(p, l) /\ filled'[p] = filled[p]
  BY <1>1
<1>3. filled[p][l] = IF Awaited(p, l) THEN 0 ELSE Traded(p, l)
  BY DEF Counted
<1> QED BY <1>2, <1>3

\* The steps of the engine that leave the reports alone, but Register.
LEMMA OthersCount ==
  ASSUME PInv, exec_open = TRUE, EngineNext,
         ~(Register \/ RecvReport \/ ApplyUnknown \/ ApplyFill \/ ApplyClose)
  PROVE  /\ UNCHANGED <<report, report_q>>
         /\ inflight' \subseteq inflight
         /\ \A p \in inflight' : filled'[p] = filled[p]
         /\ mpc = "persist" => mpc' \in {"persist", "apply"}
         /\ mpc = "apply" => mpc' = "apply"
<1>0. filled \in [Plans -> [Legs -> Nat]] /\ inflight \subseteq Plans
  BY InflightPlans DEF PInv, IInv, TypeOK
<1>1. CASE Detector
  BY <1>1 DEF Detector, RecvView, DetectorExit, RejectBusy, RejectOp, BuildPlan, Submit,
     CountSubmitted, SubmitFailed, monitor, table, channels
<1>2. CASE \E p \in Plans : CancelOverdue(p)
  <2>1. PICK p \in Plans : CancelOverdue(p)
    BY <1>2
  <2>2. /\ UNCHANGED <<report, report_q>> /\ mpc = "cancel"
        /\ inflight' = inflight \ {p} /\ filled' = [filled EXCEPT ![p] = NoFill]
    BY <2>1 DEF CancelOverdue, Drop
  <2> QED BY <1>0, <2>2
<1>3. CASE Persist \/ CountExecuted \/ ScanTimeouts \/ MonitorExit
  BY <1>3 DEF Persist, CountExecuted, ScanTimeouts, MonitorExit, table, channels
<1>4. CASE \E p \in Plans : TimeOut(p)
  BY <1>4 DEF TimeOut, monitor, channels
<1> QED BY <1>1, <1>2, <1>3, <1>4 DEF EngineNext, Monitor

LEMMA EngineCounts ==
  ASSUME PInv, FillInv, EngineNext, UNCHANGED worker
  PROVE  Hand' /\ Counted'
<1>1. /\ IInv /\ WorkerTypes /\ Fresh /\ Talk /\ Disk /\ Hand /\ Idle /\ Counted
      /\ exec_open = TRUE /\ UNCHANGED <<wpc, leg, outcome>>
      /\ filled \in [Plans -> [Legs -> Nat]] /\ report_q \in Seq(Reports)
      /\ inflight \subseteq Plans
  BY InflightPlans DEF PInv, MInv, WorkerTypes, FillInv, worker, IInv, TypeOK
<1>2. CASE Register
  <2>1. /\ dpc = "register" /\ inflight' = inflight \cup {issued}
        /\ filled' = [filled EXCEPT ![issued] = NoFill]
        /\ UNCHANGED <<mpc, report, report_q>>
    BY <1>2 DEF Register, monitor, channels
  <2>2. issued \in Plans /\ issued \in Int
    BY <1>1, <2>1, LegFacts DEF IInv, Control, TypeOK
  <2>3. leg[issued] = 1
    <3>1. issued > LastSent
      BY <2>1, <2>2, SMT DEF LastSent
    <3> QED BY <1>1, <2>2, <3>1 DEF Fresh, Idle
  <2>4. \A l \in Legs : ~(l < leg[issued])
    BY <2>3, LegFacts, SMT
  <2>5. \A l \in Legs : ~Awaited(issued, l) /\ Traded(issued, l) = 0
    BY <2>2, <2>4, NotReached
  <2> SUFFICES ASSUME NEW p \in inflight', NEW l \in Legs
               PROVE  filled'[p][l] = IF Awaited(p, l)' THEN 0 ELSE Traded(p, l)'
    BY <1>1, <2>1 DEF Hand, Counted
  <2>6. Awaited(p, l)' = Awaited(p, l) /\ Traded(p, l)' = Traded(p, l)
    BY <1>1, <2>1 DEF Awaited, About, Traded
  <2>7. CASE p = issued
    <3>1. filled'[p][l] = 0
      BY <1>1, <2>1, <2>2, <2>7 DEF NoFill
    <3> QED BY <2>5, <2>6, <2>7, <3>1
  <2>8. CASE p # issued
    <3>1. filled'[p][l] = filled[p][l] /\ p \in inflight
      BY <1>1, <2>1, <2>8
    <3> QED BY <1>1, <2>6, <3>1 DEF Counted
  <2> QED BY <2>7, <2>8
<1>3. CASE RecvReport
  <2>1. /\ mpc = "select" /\ mpc' \in {"persist", "apply"} /\ report_q # <<>>
        /\ report' = Head(report_q) /\ report_q' = Tail(report_q)
        /\ UNCHANGED <<inflight, filled>>
    BY <1>3 DEF RecvReport, table
  <2>2. report = NoReport
    BY <1>1, <2>1 DEF Hand
  <2>3. /\ report' = report_q[1]
        /\ \A i \in 1..Len(report_q') : report_q'[i] = report_q[i + 1] /\ i + 1 \in 1..Len(report_q)
        /\ \A i \in 1..Len(report_q) : i = 1 \/ (i - 1 \in 1..Len(report_q') /\ (i - 1) + 1 = i)
        /\ 1 \in 1..Len(report_q)
    BY <1>1, <2>1, SMT
  <2>4. ASSUME NEW p \in inflight', NEW l \in Legs
        PROVE  Awaited(p, l)' = Awaited(p, l)
    <3>1. ~About(report, p, l)
      BY <1>1, <2>1, <2>2, LegFacts DEF About, NoReport
    <3>2. Awaited(p, l) => Awaited(p, l)'
      BY <2>3, <3>1 DEF Awaited, About
    <3>3. Awaited(p, l)' => Awaited(p, l)
      BY <2>3 DEF Awaited, About
    <3>4. Awaited(p, l) \in BOOLEAN /\ Awaited(p, l)' \in BOOLEAN
      BY DEF Awaited, About
    <3> QED BY <3>2, <3>3, <3>4
  <2> QED BY <1>1, <2>1, <2>4, CountedKeeps DEF Hand
<1>4. CASE ApplyFill
  <2>1. /\ report.plan \in inflight /\ filled' = FilledNow /\ report' = NoReport
        /\ UNCHANGED <<inflight, report_q>>
    BY <1>4 DEF ApplyFill, channels
  <2>2. report # NoReport /\ Told(report)
    BY <1>1, <2>1, LegFacts DEF Talk, NoReport
  <2>3. /\ report.plan \in Plans /\ report.leg \in Legs /\ report.qty = Traded(report.plan, report.leg)
        /\ Traded(report.plan, report.leg) \in Nat
    BY <2>2, EngineAssumption DEF Told, Traded
  <2>4. filled[report.plan][report.leg] = 0
    <3>1. Awaited(report.plan, report.leg)
      BY DEF Awaited, About
    <3> QED BY <1>1, <2>1, <2>3, <3>1 DEF Counted
  <2>5. \A p \in Plans : \A l \in Legs :
          filled'[p][l] = IF p = report.plan /\ l = report.leg
                          THEN report.qty ELSE filled[p][l]
    <3>1. filled[report.plan][report.leg] + report.qty = report.qty
      BY <2>3, <2>4, SMT
    <3>2. filled' = [filled EXCEPT ![report.plan][report.leg] = report.qty]
      BY <2>1, <2>3, <3>1 DEF FilledNow
    <3> QED BY <1>1, <2>3, <3>2
  <2> SUFFICES ASSUME NEW p \in inflight, NEW l \in Legs
               PROVE  filled'[p][l] = IF Awaited(p, l)' THEN 0 ELSE Traded(p, l)'
    BY <2>1 DEF Hand, Counted
  <2>6. Traded(p, l)' = Traded(p, l) /\ p \in Plans
    BY <1>1 DEF Traded
  <2>7. ~About(report', p, l)
    BY <2>1, <2>6, LegFacts DEF About, NoReport
  <2>8. CASE p = report.plan /\ l = report.leg
    <3>1. \A i \in 1..Len(report_q) : ~About(report_q[i], p, l)
      BY <1>1, <2>8 DEF Talk, SameLeg, About
    <3>2. ~Awaited(p, l)'
      BY <2>1, <2>7, <3>1 DEF Awaited, About
    <3> QED BY <2>3, <2>5, <2>6, <2>8, <3>2
  <2>9. CASE ~(p = report.plan /\ l = report.leg)
    <3>1. Awaited(p, l)' = Awaited(p, l)
      BY <2>1, <2>7, <2>9 DEF Awaited, About
    <3>2. filled'[p][l] = filled[p][l]
      BY <2>5, <2>6, <2>9
    <3> QED BY <1>1, <2>6, <3>1, <3>2 DEF Counted
  <2> QED BY <2>8, <2>9
<1>5. CASE ApplyUnknown \/ ApplyClose
  <2>1. /\ report' = NoReport /\ report_q' = report_q
        /\ inflight' = inflight \ {report.plan}
        /\ filled' = filled \/ filled' = [filled EXCEPT ![report.plan] = NoFill]
    BY <1>5 DEF ApplyUnknown, ApplyClose, Drop, table, channels
  <2>2. \A p \in inflight' : filled'[p] = filled[p]
    BY <1>1, <2>1
  <2>3. ASSUME NEW p \in inflight', NEW l \in Legs
        PROVE  Awaited(p, l)' = Awaited(p, l)
    <3>1. ~About(report, p, l) /\ ~About(report', p, l)
      BY <1>1, <2>1, LegFacts DEF About, NoReport
    <3> QED BY <2>1, <3>1 DEF Awaited, About
  <2> QED BY <1>1, <2>1, <2>2, <2>3, CountedKeeps DEF Hand
<1>6. CASE ~(Register \/ RecvReport \/ ApplyUnknown \/ ApplyFill \/ ApplyClose)
  <2>1. /\ UNCHANGED <<report, report_q>> /\ inflight' \subseteq inflight
        /\ \A p \in inflight' : filled'[p] = filled[p]
        /\ mpc \in {"persist", "apply"} => mpc' \in {"persist", "apply"}
    BY <1>1, <1>6, OthersCount
  <2>2. \A p, l : Awaited(p, l)' = Awaited(p, l)
    BY <2>1 DEF Awaited, About
  <2> QED BY <1>1, <2>1, <2>2, CountedKeeps DEF Hand
<1> QED BY <1>2, <1>3, <1>4, <1>5, <1>6

\* A worker reports the leg it is at: the trade is now on its way.
LEMMA ReportCounts ==
  ASSUME PInv, FillInv, NEW p \in Plans, NEW qty, NEW status,
         UNCHANGED core, Mock!ReportLeg(p, qty, status), leg[p] \in Legs
  PROVE  FillInv'
<1>0. PICK r : r = [plan |-> p, leg |-> leg[p], qty |-> qty, status |-> status]
  OBVIOUS
<1>1. /\ WorkerTypes /\ Hand /\ Idle /\ Ahead /\ Counted /\ Len(report_q) \in Nat
      /\ inflight \subseteq Plans
  BY InflightPlans DEF PInv, MInv, FillInv, IInv, TypeOK
<1>2. UNCHANGED <<mpc, report, inflight, filled>>
  BY CoreParts
<1>3. /\ report_q' = Append(report_q, r)
      /\ outcome' = [outcome EXCEPT ![p][leg[p]] = status]
      /\ leg' = [leg EXCEPT ![p] = leg[p] + 1]
      /\ wpc' = [wpc EXCEPT ![p] = "check"]
  BY <1>0 DEF Mock!ReportLeg, Mock!Goto
<1>4. /\ Len(report_q') = Len(report_q) + 1 /\ report_q'[Len(report_q) + 1] = r
      /\ \A i \in 1..Len(report_q) : report_q'[i] = report_q[i] /\ i \in 1..Len(report_q')
      /\ \A i \in 1..Len(report_q') : i \in 1..Len(report_q) \/ i = Len(report_q) + 1
      /\ Len(report_q) + 1 \in 1..Len(report_q')
  <2>1. report_q \in Seq(Reports)
    BY DEF PInv, IInv, TypeOK
  <2> QED BY <1>1, <1>3, <2>1, SMT
<1>5. ASSUME NEW q \in Plans
      PROVE  /\ wpc'[q] = IF q = p THEN "check" ELSE wpc[q]
             /\ leg'[q] = IF q = p THEN leg[p] + 1 ELSE leg[q]
             /\ \A l \in Legs :
                  outcome'[q][l] = IF q = p /\ l = leg[p] THEN status ELSE outcome[q][l]
  BY <1>1, <1>3 DEF WorkerTypes
<1>6. Hand' /\ Idle'
  BY <1>1, <1>2, <1>5 DEF Hand, Idle
<1>7. Ahead'
  <2> SUFFICES ASSUME NEW q \in Plans, NEW l \in Legs
               PROVE  l < leg'[q] \/ outcome'[q][l] = "none"
    BY DEF Ahead
  <2>1. l \in Nat /\ leg[q] \in Nat /\ leg[p] \in Nat
    BY <1>1, LegFacts DEF WorkerTypes
  <2>2. l < leg[q] => l < leg[q] + 1
    BY <2>1, SMT
  <2>3. leg[p] < leg[p] + 1
    BY <2>1, SMT
  <2>4. l < leg[q] \/ outcome[q][l] = "none"
    BY <1>1 DEF Ahead
  <2> QED BY <1>5, <2>2, <2>3, <2>4
<1>8. Counted'
  <2> SUFFICES ASSUME NEW q \in inflight, NEW l \in Legs
               PROVE  filled[q][l] = IF Awaited(q, l)' THEN 0 ELSE Traded(q, l)'
    BY <1>2 DEF Counted
  <2>1. q \in Plans
    BY <1>1
  <2>2. CASE q = p /\ l = leg[p]
    <3>1. ~(l < leg[p])
      <4>1. leg[p] \in Nat
        BY <1>1 DEF WorkerTypes
      <4> QED BY <2>2, <4>1, SMT
    <3>2. filled[q][l] = 0
      BY <2>1, <2>2, <3>1, NotReached
    <3>3. About(r, q, l)
      BY <1>0, <2>2 DEF About
    <3>4. Awaited(q, l)'
      BY <1>4, <3>3 DEF Awaited, About
    <3> QED BY <3>2, <3>4
  <2>3. CASE ~(q = p /\ l = leg[p])
    <3>1. ~About(r, q, l)
      BY <1>0, <2>3 DEF About
    <3>2. Awaited(q, l)' = Awaited(q, l)
      <4>1. Awaited(q, l) => Awaited(q, l)'
        BY <1>2, <1>4 DEF Awaited, About
      <4>2. Awaited(q, l)' => Awaited(q, l)
        BY <1>2, <1>4, <3>1 DEF Awaited, About
      <4>3. Awaited(q, l) \in BOOLEAN /\ Awaited(q, l)' \in BOOLEAN
        BY DEF Awaited, About
      <4> QED BY <4>1, <4>2, <4>3
    <3>3. Traded(q, l)' = Traded(q, l)
      BY <1>5, <2>1, <2>3 DEF Traded
    <3> QED BY <1>1, <3>2, <3>3 DEF Counted
  <2> QED BY <2>2, <2>3
<1> QED BY <1>6, <1>7, <1>8 DEF FillInv

\* The other steps of the mock leave every report and every leg alone.
LEMMA QuietCounts ==
  ASSUME PInv, FillInv, UNCHANGED core, UNCHANGED <<report_q, leg, outcome>>,
         \A p \in Plans : wpc'[p] = "none" => wpc[p] = "none"
  PROVE  FillInv'
<1>1. Hand /\ Idle /\ Ahead /\ Counted /\ UNCHANGED <<mpc, report, inflight, filled>>
  BY CoreParts DEF FillInv
<1>2. \A p, l : Awaited(p, l)' = Awaited(p, l)
  BY <1>1 DEF Awaited, About
<1>3. Counted'
  BY <1>1, <1>2, CountedKeeps
<1> QED BY <1>1, <1>3 DEF FillInv, Hand, Idle, Ahead

LEMMA MockCounts ==
  ASSUME PInv, FillInv, Mock!Next, UNCHANGED core
  PROVE  FillInv'
<1>1. WorkerTypes /\ plan_q \in Seq(Plans)
  BY DEF PInv, MInv, IInv, TypeOK
<1>2. CASE Mock!Accept
  BY <1>1, <1>2, QuietCounts DEF Mock!Accept, Mock!Goto, WorkerTypes
<1>3. CASE Mock!Canceller
  BY <1>3, QuietCounts DEF Mock!Canceller
<1>4. ASSUME NEW p \in Plans, Mock!Worker(p) PROVE FillInv'
  <2>1. CASE Mock!RegisterCancel(p) \/ Mock!CheckClear(p) \/ Mock!Cleanup(p)
    <3>1. /\ UNCHANGED <<report_q, leg, outcome>>
          /\ \E w : wpc' = [wpc EXCEPT ![p] = w] /\ w # "none"
      BY <2>1 DEF Mock!RegisterCancel, Mock!CheckClear, Mock!Cleanup, Mock!Goto, Mock!execQueues
    <3>2. \A q \in Plans : wpc'[q] = "none" => wpc[q] = "none"
      BY <1>1, <3>1 DEF WorkerTypes
    <3> QED BY <3>1, <3>2, QuietCounts
  <2>2. CASE \/ Mock!CheckCancelled(p) \/ Mock!CancelPassive(p)
             \/ Mock!FillTaker(p) \/ Mock!ExpirePassive(p)
    <3>1. leg[p] \in Legs /\ \E qty, status : Mock!ReportLeg(p, qty, status)
      BY <1>1, <2>2, SameLegs DEF Mock!CheckCancelled, Mock!CancelPassive, Mock!FillTaker,
         Mock!ExpirePassive, WorkerTypes
    <3> QED BY <3>1, ReportCounts
  <2> QED BY <1>4, <2>1, <2>2 DEF Mock!Worker
<1> QED BY <1>2, <1>3, <1>4, SameLegs DEF Mock!Next

LEMMA FillStep == PInv /\ FillInv /\ [Next]_vars => FillInv'
<1> SUFFICES ASSUME PInv, FillInv, [Next]_vars PROVE FillInv'
  OBVIOUS
<1>1. CASE EngineNext /\ UNCHANGED worker
  <2>1. Idle' /\ Ahead'
    BY <1>1 DEF FillInv, Idle, Ahead, worker
  <2> QED BY <1>1, <2>1, EngineCounts DEF FillInv
<1>2. CASE Mock!Next /\ UNCHANGED <<core, exec_open, reports_open>>
  BY <1>2, MockCounts
<1>3. CASE UNCHANGED vars
  BY <1>3, QuietCounts DEF vars, engineVars, channels, worker
<1> QED BY <1>1, <1>2, <1>3 DEF Next

\* A plan is in the table with the fills of exactly those of its legs whose report was
\* handled: the others are reported once, by one report that says what was traded.
LEMMA CountedConserved == PInv /\ FillInv => FillsConserved
<1> SUFFICES ASSUME PInv, FillInv, NEW p \in inflight, NEW l \in Legs
             PROVE  \/ Pending(p, l) = {} /\ filled[p][l] = Traded(p, l)
                    \/ \E i \in 0..Len(report_q) :
                         /\ Pending(p, l) = {i} /\ Unapplied(i).qty = Traded(p, l)
                         /\ filled[p][l] = 0
  BY DEF FillsConserved
<1>1. /\ Talk /\ Counted /\ p \in Plans /\ p # 0 /\ Len(report_q) \in Nat
  BY InflightPlans, LegFacts DEF PInv, MInv, FillInv, IInv, TypeOK
<1>2. \A i \in 0..Len(report_q) : i = 0 \/ (i # 0 /\ i \in 1..Len(report_q))
  BY SMT
<1>3. \A i \in 1..Len(report_q) : i # 0 /\ i \in 0..Len(report_q)
  BY SMT
<1>4. 0 \in 0..Len(report_q)
  BY <1>1, SMT
<1>5. CASE ~Awaited(p, l)
  <2>1. Pending(p, l) = {}
    BY <1>2, <1>5 DEF Pending, Unapplied, Awaited, About
  <2>2. filled[p][l] = Traded(p, l)
    BY <1>1, <1>5 DEF Counted
  <2> QED BY <2>1, <2>2
<1>6. CASE About(report, p, l)
  <2>1. Told(report) /\ \A i \in 1..Len(report_q) : ~About(report_q[i], p, l)
    BY <1>1, <1>6 DEF Talk, NoReport, SameLeg, About
  <2>2. Pending(p, l) = {0}
    BY <1>2, <1>4, <1>6, <2>1 DEF Pending, Unapplied, About
  <2>3. Unapplied(0).qty = Traded(p, l)
    BY <1>6, <2>1 DEF Unapplied, Told, About
  <2>4. filled[p][l] = 0
    BY <1>1, <1>6 DEF Counted, Awaited
  <2> QED BY <1>4, <2>2, <2>3, <2>4
<1>7. ASSUME ~About(report, p, l), NEW i \in 1..Len(report_q), About(report_q[i], p, l)
      PROVE  \E j \in 0..Len(report_q) :
               /\ Pending(p, l) = {j} /\ Unapplied(j).qty = Traded(p, l)
               /\ filled[p][l] = 0
  <2>1. ASSUME NEW j \in 1..Len(report_q), About(report_q[j], p, l) PROVE j = i
    <3>1. i \in 1..j - 1 \/ j \in 1..i - 1 \/ i = j
      BY SMT
    <3>2. SameLeg(report_q[i], report_q[j]) /\ SameLeg(report_q[j], report_q[i])
      BY <1>7, <2>1 DEF SameLeg, About
    <3> QED BY <1>1, <3>1, <3>2 DEF Talk
  <2>2. Pending(p, l) = {i}
    BY <1>2, <1>3, <1>7, <2>1 DEF Pending, Unapplied, About
  <2>3. Unapplied(i).qty = Traded(p, l)
    BY <1>1, <1>3, <1>7 DEF Unapplied, Talk, Told, About
  <2>4. filled[p][l] = 0
    BY <1>1, <1>7 DEF Counted, Awaited
  <2> QED BY <1>3, <2>2, <2>3, <2>4
<1> QED BY <1>5, <1>6, <1>7 DEF Awaited

-----------------------------------------------------------------------------
\* Every variable of the engine keeps its type with this executor too.
THEOREM TypeCorrect == Spec => []TypeOK
<1>1. PInv => TypeOK
  BY DEF PInv, IInv
<1> QED BY <1>1, Invariance, PTL

\* mock.rs:37-134: cancel_map holds the sender of a worker exactly while it runs and
\* was not cancelled, however registration, cancel requests and the end of the worker
\* are interleaved.
THEOREM CancelMapIsExact == Spec => []CancelMapExact
<1>1. PInv => CancelMapExact
  BY DEF PInv, MInv, Signals
<1> QED BY <1>1, Invariance, PTL

\* The disk never shows more than what was traded: no report is persisted twice, and
\* each says what its leg traded, also for plans that are no longer in flight.
THEOREM DiskTellsTheTruth == Spec => []DiskIsReal
<1>1. PInv => DiskIsReal
  <2> SUFFICES ASSUME PInv, NEW p \in Plans, NEW l \in Legs PROVE db[p][l] <= Traded(p, l)
    BY DEF DiskIsReal
  <2>1. Traded(p, l) \in Nat /\ (db[p][l] = 0 \/ db[p][l] = Traded(p, l))
    BY EngineAssumption DEF PInv, MInv, Disk, Traded
  <2> QED BY <2>1, SMT
<1> QED BY <1>1, Invariance, PTL

\* engine.rs:303-444 with mock.rs:61-134: for a plan in flight, what the executor traded
\* on a leg is in the table or in exactly one report that was not handled yet, however the
\* reports, the cancel requests and the timeout scan are interleaved.
THEOREM NoFillLost == Spec => []FillsConserved
<1>1. Init => PInv /\ FillInv
  BY InitP, InitFills
<1> QED BY <1>1, FillStep, Invariance, CountedConserved, PTL DEF Spec

\* engine.rs:237-444: the engine stops tracking a plan whose executor still has legs to
\* work on only with a cancel request, which the executor has or will have. A plan of legs
\* of no quantity counts as executed at its first fill, hence the assumption.
THEOREM NoneForgotten == ASSUME LegQty # 0 PROVE Spec => []ForgottenPlansAreCancelled
<1>1. Init => ForgottenPlansAreCancelled
  <2>1. Init => 1..issued = {}
    BY SMT DEF Init, EngineInit
  <2> QED BY <2>1 DEF ForgottenPlansAreCancelled
<1> QED BY <1>1, ForgottenStep, Invariance, PTL DEF Spec

\* The engine wired to the mock executor implements the lifecycle it promises.
THEOREM Refinement == Spec => ImplementsLifecycle
<1>1. Init => Lifecycle!Init
  BY EngineInitRefines DEF Init
<1>2. PInv /\ [Next]_vars => [Lifecycle!Next]_Lifecycle!vars
  <2> SUFFICES ASSUME PInv, [Next]_vars PROVE Lifecycle!Next \/ UNCHANGED Lifecycle!vars
    OBVIOUS
  <2>1. CASE EngineNext
    BY <2>1, EngineRefines DEF PInv
  <2>2. CASE UNCHANGED core
    BY <2>2, ExecutorRefines
  <2> QED BY <2>1, <2>2 DEF Next, vars, engineVars
<1> QED BY <1>1, <1>2, Invariance, PTL DEF Spec, ImplementsLifecycle, Lifecycle!Safety
=============================================================================

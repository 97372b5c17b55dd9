---------------------------- MODULE TriViewFeed ----------------------------
(***************************************************************************)
(* One triangle subscription of crates/marketdata/src/triview.rs and its   *)
(* way to the strategy engine: the builder task, which polls three books    *)
(* and offers a view of them to a bounded channel; the demo's forwarder     *)
(* (crates/demo/src/mock_execution_demo.rs) to an unbounded one; and the    *)
(* engine's detector, as far as it receives.                                *)
(*                                                                          *)
(* A book is represented by the number of its changes. What a view shows    *)
(* of it, the best levels, is in module Detection.                          *)
(***************************************************************************)
EXTENDS Naturals, Sequences, SequencesExt

CONSTANTS
  Symbols,     \* the three symbols of the triangle
  Capacity,    \* of the subscription's channel (64 in the code)
  MaxChanges,  \* bound: changes of each book
  MaxViews     \* bound: views built; fetches beyond it only fail

ASSUME ViewAssumption ==
  /\ Symbols # {}
  /\ Capacity \in Nat \ {0} /\ MaxChanges \in Nat /\ MaxViews \in Nat

VARIABLES
  version,      \* the exchange's books
  bpc,          \* builder: "select", "fetch", "send" or "ended"
  waiting,      \* the symbols whose fetch has not returned
  got,          \* the snapshots of this tick that came back Ok
  tri_q,        \* the subscription's channel
  shutdown_tx,  \* the subscriber's end of the one-shot: "held", "sent", "dropped"
  fpc,          \* forwarder: "recv" or "ended"
  view_q,       \* the unbounded channel to the detector
  dpc,          \* detector: "recv", "ended" or "panicked"
  \* History variables: no step of the code reads them.
  from,         \* the books when this tick began
  built,        \* how many views were built
  handled       \* the views the detector received

builderVars == <<bpc, waiting, got, from, built>>
pipeVars == <<fpc, view_q, dpc, handled>>
vars == <<version, builderVars, tri_q, shutdown_tx, pipeVars>>

Versions == [Symbols -> 0..MaxChanges]

Init ==
  /\ version = [s \in Symbols |-> 0] /\ from = version
  /\ bpc = "select" /\ waiting = {} /\ got = <<>> /\ built = 0
  /\ tri_q = <<>> /\ shutdown_tx = "held"
  /\ fpc = "recv" /\ view_q = <<>> /\ dpc = "recv" /\ handled = <<>>

\* A book of the exchange changes, at any moment.
Change(s) ==
  /\ version[s] < MaxChanges
  /\ version' = [version EXCEPT ![s] = @ + 1]
  /\ UNCHANGED <<builderVars, tri_q, shutdown_tx, pipeVars>>

-----------------------------------------------------------------------------
(* The builder. *)

\* The results of a tick are its own: those of the tick before are gone.
NoneYet_LastGood == got
NoneYet == <<>>

\* ticker.tick() wins the select; three requests are made at once.
Tick ==
  /\ bpc = "select"
  /\ bpc' = "fetch" /\ waiting' = Symbols /\ got' = NoneYet /\ from' = version
  /\ UNCHANGED <<version, built, tri_q, shutdown_tx, pipeVars>>

\* One of the joined requests returns, with a snapshot or an error.
FetchOk(s) ==
  /\ bpc = "fetch" /\ s \in waiting /\ built < MaxViews
  /\ waiting' = waiting \ {s}
  /\ got' = [t \in DOMAIN got \cup {s} |-> IF t = s THEN version[s] ELSE got[t]]
  /\ UNCHANGED <<version, bpc, from, built, tri_q, shutdown_tx, pipeVars>>

FetchErr(s) ==
  /\ bpc = "fetch" /\ s \in waiting
  /\ waiting' = waiting \ {s}
  /\ UNCHANGED <<version, bpc, got, from, built, tri_q, shutdown_tx, pipeVars>>

\* One failed fetch and there is no view; the next tick tries again.
NoView ==
  /\ bpc = "fetch" /\ waiting = {} /\ DOMAIN got # Symbols
  /\ bpc' = "select"
  /\ UNCHANGED <<version, waiting, got, from, built, tri_q, shutdown_tx, pipeVars>>

\* build_triview_from_snapshots; nr and from are for checking only.
View(n) == [nr |-> n, from |-> from, books |-> got]

HasRoom_OneMore == Len(tri_q) <= Capacity
HasRoom == Len(tri_q) < Capacity
RxDropped == fpc = "ended"
Complete == bpc = "fetch" /\ waiting = {} /\ DOMAIN got = Symbols

Offer(v) == tri_q' = Append(tri_q, v)

\* try_send succeeds.
TrySend_SendsAgain ==
  /\ Complete /\ HasRoom /\ ~RxDropped
  /\ Offer(View(built + 1)) /\ built' = built + 1 /\ bpc' = "send"
  /\ UNCHANGED <<version, waiting, got, from, shutdown_tx, pipeVars>>
TrySend ==
  /\ Complete /\ HasRoom /\ ~RxDropped
  /\ Offer(View(built + 1)) /\ built' = built + 1 /\ bpc' = "select"
  /\ UNCHANGED <<version, waiting, got, from, shutdown_tx, pipeVars>>

\* try_send fails: the view is sent with a timeout.
TrySendFails ==
  /\ Complete /\ (~HasRoom \/ RxDropped)
  /\ built' = built + 1 /\ bpc' = "send"
  /\ UNCHANGED <<version, waiting, got, from, tri_q, shutdown_tx, pipeVars>>

SendWaited ==
  /\ bpc = "send" /\ HasRoom /\ ~RxDropped
  /\ Offer(View(built)) /\ bpc' = "select"
  /\ UNCHANGED <<version, waiting, got, from, built, shutdown_tx, pipeVars>>

\* 100 ms with the channel full, or a receiver that is gone: the tick is dropped.
\* timeout polls the send first, so room found in time is used.
DropTick ==
  /\ bpc = "send" /\ (~HasRoom \/ RxDropped)
  /\ bpc' = "select"
  /\ UNCHANGED <<version, waiting, got, from, built, tri_q, shutdown_tx, pipeVars>>

\* The one-shot resolves when a message was sent and when the sender was dropped.
ShutdownReady_SentOnly == shutdown_tx = "sent"
ShutdownReady == shutdown_tx # "held"

Shutdown ==
  /\ bpc = "select" /\ ShutdownReady
  /\ bpc' = "ended"
  /\ UNCHANGED <<version, waiting, got, from, built, tri_q, shutdown_tx, pipeVars>>

Builder ==
  \/ Tick \/ NoView \/ TrySend \/ TrySendFails \/ SendWaited \/ DropTick \/ Shutdown
  \/ \E s \in Symbols : FetchOk(s) \/ FetchErr(s)

\* The subscriber's use of the handle.
StopSubscription ==
  /\ shutdown_tx = "held"
  /\ shutdown_tx' \in {"sent", "dropped"}
  /\ UNCHANGED <<version, builderVars, tri_q, pipeVars>>

-----------------------------------------------------------------------------
(* The forwarder and the detector. *)

DetectorGone == dpc # "recv"

Forward ==
  /\ fpc = "recv" /\ tri_q # <<>> /\ ~DetectorGone
  /\ view_q' = Append(view_q, Head(tri_q)) /\ tri_q' = Tail(tri_q)
  /\ UNCHANGED <<version, builderVars, shutdown_tx, fpc, dpc, handled>>

\* tri_tx.send fails: the loop is left, and both ends it holds are dropped.
ForwardFails ==
  /\ fpc = "recv" /\ tri_q # <<>> /\ DetectorGone
  /\ fpc' = "ended" /\ tri_q' = <<>>
  /\ UNCHANGED <<version, builderVars, shutdown_tx, view_q, dpc, handled>>

\* recv returns None when the channel is empty and the builder has dropped tx.
StreamEnded_Undrained == bpc = "ended"
StreamEnded == tri_q = <<>> /\ bpc = "ended"

ForwarderExit ==
  /\ fpc = "recv" /\ StreamEnded
  /\ fpc' = "ended" /\ tri_q' = <<>>
  /\ UNCHANGED <<version, builderVars, shutdown_tx, view_q, dpc, handled>>

Detect ==
  /\ dpc = "recv" /\ view_q # <<>>
  /\ handled' = Append(handled, Head(view_q)) /\ view_q' = Tail(view_q)
  /\ UNCHANGED <<version, builderVars, tri_q, shutdown_tx, fpc, dpc>>

\* A price of zero makes the detection divide by zero, which panics; what is
\* queued is dropped with the receiver.
DetectorPanics ==
  /\ dpc = "recv" /\ view_q # <<>>
  /\ dpc' = "panicked" /\ view_q' = <<>>
  /\ UNCHANGED <<version, builderVars, tri_q, shutdown_tx, fpc, handled>>

DetectorExit ==
  /\ dpc = "recv" /\ view_q = <<>> /\ fpc = "ended"
  /\ dpc' = "ended"
  /\ UNCHANGED <<version, builderVars, tri_q, shutdown_tx, fpc, view_q, handled>>

\* Everything has ended.
Ended == bpc = "ended" /\ fpc = "ended" /\ DetectorGone /\ UNCHANGED vars

Next ==
  \/ \E s \in Symbols : Change(s)
  \/ Builder \/ StopSubscription
  \/ Forward \/ ForwardFails \/ ForwarderExit
  \/ Detect \/ DetectorPanics \/ DetectorExit
  \/ Ended

\* The tasks are polled, and every request is answered in the end. The branches of
\* the select are polled in random order: a shutdown that is ready each time the
\* builder comes back to it is not passed over for ever.
Fairness ==
  /\ WF_vars(Tick \/ NoView \/ TrySend \/ TrySendFails \/ SendWaited \/ DropTick)
  /\ \A s \in Symbols : WF_vars(FetchOk(s) \/ FetchErr(s))
  /\ SF_vars(Shutdown)
  /\ WF_vars(Forward \/ ForwardFails \/ ForwarderExit)
  /\ WF_vars(Detect \/ DetectorExit)

Spec == Init /\ [][Next]_vars /\ Fairness

-----------------------------------------------------------------------------
\* The views under way or received, oldest first.
Line == handled \o view_q \o tri_q

Views == [nr : 1..MaxViews, from : Versions, books : Versions]

TypeOK ==
  /\ version \in Versions /\ from \in Versions
  /\ bpc \in {"select", "fetch", "send", "ended"}
  /\ waiting \subseteq Symbols
  /\ DOMAIN got \subseteq Symbols /\ \A s \in DOMAIN got : got[s] \in 0..MaxChanges
  /\ tri_q \in Seq(Views) /\ Len(tri_q) <= Capacity
  /\ view_q \in Seq(Views) /\ handled \in Seq(Views)
  /\ shutdown_tx \in {"held", "sent", "dropped"}
  /\ fpc \in {"recv", "ended"} /\ dpc \in {"recv", "ended", "panicked"}
  /\ built \in 0..MaxViews

\* triview.rs:110-125: the three books of a view were all fetched during the tick
\* that made it, and after those of the view before, however long the answers took,
\* whichever failed, and however long the view then waited for room. (They need not
\* be of one moment.)
BooksOfOneRound ==
  \A j \in 1..Len(Line) : \A s \in Symbols :
    /\ Line[j].from[s] <= Line[j].books[s]
    /\ \A i \in 1..j - 1 : Line[i].books[s] <= Line[j].from[s]

\* triview.rs:103-173, mock_execution_demo.rs:157-169: the builder, the two channels
\* and the forwarder together are a stream of views in order, without repetition,
\* whose end is told last.
Pending == IF dpc = "panicked" THEN <<>> ELSE view_q \o tri_q
Status == CASE dpc = "recv" -> "open" [] dpc = "ended" -> "complete"
            [] dpc = "panicked" -> "abandoned"
Stream == INSTANCE ViewStream WITH pending <- Pending, received <- handled, status <- Status
ImplementsViewStream == Stream!Spec

\* triview.rs:138-153: a view the channel has taken reaches the detector, unless the
\* detector is gone.
AcceptedViewsArrive ==
  \A n \in 1..MaxViews :
    (Len(Line) >= n) ~> (Len(handled) >= n \/ dpc = "panicked")

\* triview.rs:163-166, engine.rs:174: when the subscriber stops the subscription, all
\* three tasks end; none waits for ever for a request, for room or for a message.
ShutdownDrains ==
  shutdown_tx # "held" ~> bpc = "ended" /\ fpc = "ended" /\ dpc # "recv"
=============================================================================

---------------------------- MODULE SymbolWorker ----------------------------
(***************************************************************************)
(* The per-symbol worker of crates/marketdata/src/manager.rs, the single   *)
(* writer of a symbol's order book. It fetches a snapshot when it starts,  *)
(* then takes messages from its channel: deltas are counted into a buffer  *)
(* until a snapshot was applied and applied to the book afterwards; one    *)
(* that the book refuses makes the worker fetch a new snapshot.            *)
(*                                                                         *)
(* The buffered deltas are never read again, so only their number is kept. *)
(***************************************************************************)
EXTENDS OrderBook, Sequences

CONSTANTS MaxBuffered   \* cfg.max_buffered_deltas

ASSUME WorkerAssumption == MaxBuffered \in Nat

VARIABLES
  wpc,               \* "boot", "overflow" and "resync" wait for a snapshot, "recv" for a message
  snapshot_applied,
  buffered,          \* number of deltas in the buffer
  rx,                \* the worker's channel, with what the adapter queues before it
  reply              \* the snapshot the provider has answered with, if any

workerVars == <<wpc, snapshot_applied, buffered, rx, reply>>

WorkerInit ==
  /\ BookInit
  /\ wpc = "boot" /\ snapshot_applied = FALSE /\ buffered = 0
  /\ rx = <<>> /\ reply = {}

\* fetch_snapshot_for returns a snapshot: it is applied and marks the book as
\* initialised.
FetchReturns ==
  /\ wpc \in {"boot", "overflow", "resync"}
  /\ \E s \in reply : ApplySnapshot(s)
  /\ snapshot_applied' = TRUE
  /\ reply' = {} /\ wpc' = "recv"
  /\ UNCHANGED <<buffered, rx>>

\* Only a failed resync raises the flag.
FlagAfterFailure_Lowered == FALSE
FlagAfterFailure == IF wpc = "resync" THEN TRUE ELSE resync_required

\* fetch_snapshot_for returns None, for want of a provider or for an error of it.
FetchFails ==
  /\ wpc \in {"boot", "overflow", "resync"} /\ reply = {}
  /\ resync_required' = FlagAfterFailure
  /\ wpc' = "recv"
  /\ UNCHANGED <<book, last_seq, snapshot_applied, buffered, rx, reply>>

\* rx.recv() returns a message of the kind asked for.
Receive(kind) ==
  /\ wpc = "recv" /\ rx # <<>> /\ Head(rx).kind = kind
  /\ rx' = Tail(rx)

\* A Snapshot message replaces the book and clears the buffer.
RecvSnapshot ==
  /\ Receive("snapshot")
  /\ ApplySnapshot(Head(rx))
  /\ snapshot_applied' = TRUE /\ buffered' = 0
  /\ UNCHANGED <<wpc, reply>>

\* The buffer has reached its cap.
BufferFull_OneMore == buffered > MaxBuffered
BufferFull == buffered >= MaxBuffered

\* A delta before the first snapshot is put in the buffer.
BufferDelta ==
  /\ Receive("delta") /\ ~snapshot_applied /\ ~BufferFull
  /\ buffered' = buffered + 1
  /\ UNCHANGED <<bookVars, wpc, snapshot_applied, reply>>

\* When the buffer is full it is thrown away, with the delta in hand, and a
\* snapshot is fetched.
OverflowBuffer ==
  /\ Receive("delta") /\ ~snapshot_applied /\ BufferFull
  /\ buffered' = 0 /\ wpc' = "overflow"
  /\ UNCHANGED <<bookVars, snapshot_applied, reply>>

RecvDelta ==
  /\ Receive("delta") /\ snapshot_applied
  /\ ApplyDelta(Head(rx))
  /\ UNCHANGED <<wpc, snapshot_applied, buffered, reply>>

\* A delta across too large a gap is dropped and a snapshot is fetched.
DetectGap ==
  /\ Receive("delta") /\ snapshot_applied
  /\ RefuseDelta(Head(rx))
  /\ wpc' = "resync"
  /\ UNCHANGED <<snapshot_applied, buffered, reply>>
=============================================================================

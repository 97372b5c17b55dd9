----------------------------- MODULE MarketFeed -----------------------------
(***************************************************************************)
(* One symbol from the exchange to its order book: an exchange that        *)
(* numbers its updates and publishes them in batches, the websocket task   *)
(* of crates/adapters/src/binance_spot.rs, the mapping of                  *)
(* crates/marketdata/src/adapter_wiring.rs, and the symbol's worker.       *)
(*                                                                         *)
(* The exchange follows the Binance depth stream: an event carries the     *)
(* final sizes of every level that changed since the previous event, and   *)
(* the ids of its first and last update, of which the adapter keeps the    *)
(* last. A snapshot has the best levels of each side only.                 *)
(***************************************************************************)
EXTENDS SymbolWorker, FiniteSets

CONSTANTS
  MaxSize,         \* bound: the sizes that occur
  MaxUpdates,      \* bound: updates of the exchange
  Depth,           \* levels of a side in a snapshot (100 in the code)
  StreamSnapshots  \* TRUE when the adapter may flag an update is_snapshot

ASSUME FeedAssumption ==
  /\ MaxSize \in Nat /\ MaxUpdates \in Nat /\ Depth \in Nat
  /\ StreamSnapshots \in BOOLEAN

VARIABLES
  history,    \* the exchange's book at each update id, from id 0 on
  published,  \* the id of the last event, delivered or not
  connected,  \* the websocket is up
  \* History variables: no step of the code reads them.
  taken,      \* the id of the last delta the book was asked to apply
  base,       \* the id of the last snapshot that was applied
  unbroken    \* no update is missing between it and the deltas applied since

seen == <<taken, base, unbroken>>
feedVars == <<history, published, connected, seen>>
vars == <<bookVars, workerVars, feedVars>>

\* The last update id, and the exchange's book at id v.
Version == Len(history) - 1
At(v) == history[v + 1]

\* The levels a snapshot of book b shows: the best ones of each side.
Shown(b) ==
  {lv \in Levels : /\ b[lv] > 0
                   /\ Cardinality({p \in 1..lv[2] : b[<<lv[1], p>>] > 0}) <= Depth}

\* What the request for a snapshot brings of book b.
Served(b) == [lv \in Levels |-> IF lv \in Shown(b) THEN b[lv] ELSE 0]

Init ==
  /\ WorkerInit
  /\ history \in {<<b>> : b \in [Levels -> 0..MaxSize]}
  /\ published = 0 /\ connected = TRUE
  /\ taken = 0 /\ base = 0 /\ unbroken = TRUE

\* The exchange changes the size of a level.
Update ==
  /\ Version < MaxUpdates
  /\ \E lv \in Levels, size \in 0..MaxSize :
       history' = Append(history, [At(Version) EXCEPT ![lv] = size])
  /\ UNCHANGED <<bookVars, workerVars, published, connected, seen>>

\* map_adapter_update_to_message: prev_sequence is always sequence - 1, however
\* many updates the event covers. The id of the first one is history.
DeltaMessage(v) ==
  LET Changed == {lv \in Levels : \E i \in published..v : At(i)[lv] # At(v)[lv]}
  IN  [kind |-> "delta", prev |-> IF v = 0 THEN 0 ELSE v - 1, seq |-> v,
       first |-> published + 1,
       sizes |-> [lv \in Changed |-> At(v)[lv]]]

SnapshotMessage(v) == [kind |-> "snapshot", seq |-> v, book |-> Served(At(v))]

\* An event of the depth stream; nobody gets it while the websocket is down.
Publish ==
  /\ published < Version
  /\ rx' = IF connected THEN Append(rx, DeltaMessage(Version)) ELSE rx
  /\ published' = Version
  /\ UNCHANGED <<bookVars, wpc, snapshot_applied, buffered, reply, history, connected, seen>>

\* An adapter that publishes the book itself instead.
PublishSnapshot ==
  /\ StreamSnapshots /\ connected /\ published < Version
  /\ rx' = Append(rx, SnapshotMessage(Version))
  /\ published' = Version
  /\ UNCHANGED <<bookVars, wpc, snapshot_applied, buffered, reply, history, connected, seen>>

\* The websocket closes or fails; the task reconnects after its backoff, and
\* nothing tells the worker.
Disconnect ==
  /\ connected
  /\ connected' = FALSE
  /\ UNCHANGED <<bookVars, workerVars, history, published, seen>>

Reconnect ==
  /\ ~connected
  /\ connected' = TRUE
  /\ UNCHANGED <<bookVars, workerVars, history, published, seen>>

\* The exchange serves the snapshot the worker waits for; updates and events may
\* overtake it on its way back.
ServeSnapshot ==
  /\ wpc \in {"boot", "overflow", "resync"} /\ reply = {}
  /\ reply' = {[seq |-> Version, book |-> Served(At(Version))]}
  /\ UNCHANGED <<bookVars, wpc, snapshot_applied, buffered, rx, feedVars>>

\* The steps of the worker, with what each means for the history: a snapshot is
\* applied,
GetSnapshot ==
  /\ FetchReturns \/ RecvSnapshot
  /\ base' = last_seq' /\ unbroken' = TRUE
  /\ UNCHANGED <<taken, history, published, connected>>

\* a delta is applied, which may begin beyond what the book has,
GetDelta ==
  /\ RecvDelta
  /\ taken' = Head(rx).seq
  /\ unbroken' = (unbroken /\ Head(rx).first <= last_seq + 1)
  /\ UNCHANGED <<base, history, published, connected>>

\* a delta is refused,
LeaveDelta ==
  /\ DetectGap
  /\ taken' = Head(rx).seq
  /\ UNCHANGED <<base, unbroken, history, published, connected>>

\* or the book stays as it is.
GetNothing ==
  /\ FetchFails \/ BufferDelta \/ OverflowBuffer
  /\ UNCHANGED feedVars

Next ==
  \/ Update \/ Publish \/ PublishSnapshot \/ Disconnect \/ Reconnect \/ ServeSnapshot
  \/ GetSnapshot \/ GetDelta \/ LeaveDelta \/ GetNothing

\* Nothing but safety is claimed here: no fairness.
Spec == Init /\ [][Next]_vars

-----------------------------------------------------------------------------
TypeOK ==
  /\ book \in Books /\ last_seq \in {NoSeq} \cup 0..Version /\ resync_required \in BOOLEAN
  /\ wpc \in {"boot", "recv", "overflow", "resync"}
  /\ snapshot_applied \in BOOLEAN /\ buffered \in 0..MaxBuffered
  /\ \A s \in reply : s.seq \in 0..Version /\ s.book \in Books
  /\ \A i \in 1..Len(rx) : rx[i].seq \in 0..Version
  /\ history \in Seq(Books) /\ published \in 0..Version
  /\ connected \in BOOLEAN /\ taken \in 0..Version
  /\ base \in 0..Version /\ unbroken \in BOOLEAN

\* A level the exchange has and the book lacks because the last snapshot did not
\* reach it, and no event changed it since.
OutOfSight(lv) ==
  /\ book[lv] = 0 /\ At(last_seq)[lv] > 0
  /\ At(base)[lv] = At(last_seq)[lv] /\ lv \notin Shown(At(base))

\* The book is the exchange's book at the sequence number it claims, as far as a
\* snapshot of limited depth can tell.
IsAVersion == \A lv \in Levels : book[lv] = At(last_seq)[lv] \/ OutOfSight(lv)

\* manager.rs:129, "ensures sequence correctness": so it is at all times, whatever
\* was lost, delayed or fetched.
BookIsAVersion == last_seq # NoSeq => IsAVersion

\* What the tolerance leaves of it: once the deltas have caught up with the last
\* snapshot, also after older ones were applied on top of it, the book is right,
\* unless an update was missing between two that were applied.
BookCatchesUp == last_seq # NoSeq /\ unbroken /\ last_seq >= base => IsAVersion

\* The flag is honest: while it is down and no snapshot is being fetched, the book
\* has every delta the worker was given, applied or contained in a snapshot.
FreshUnlessFlagged ==
  wpc = "recv" /\ snapshot_applied /\ ~resync_required => last_seq >= taken
=============================================================================

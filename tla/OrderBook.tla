----------------------------- MODULE OrderBook -----------------------------
(***************************************************************************)
(* The order book of crates/orderbook/src/orderbook.rs: the size at each   *)
(* price level of both sides, the sequence number it is at, and the flag   *)
(* that asks for a resync. Bids and asks are treated alike: the prices of  *)
(* either side are counted from its best one, and a level the BTreeMap     *)
(* does not hold has size 0.                                               *)
(***************************************************************************)
EXTENDS Integers

CONSTANTS
  Sides,    \* bids and asks
  Prices,   \* bound: number of prices of a side, the best one being 1
  MaxGap    \* cfg.max_acceptable_sequence_gap

ASSUME OrderBookAssumption == Prices \in Nat /\ MaxGap \in Nat

Levels == Sides \X (1..Prices)

NoSeq == -1   \* Option::None of last_seq
NoBook == [lv \in Levels |-> 0]

Books == [Levels -> Nat]

VARIABLES
  book,            \* bids and asks
  last_seq,        \* NoSeq, or the sequence number of the last update
  resync_required

bookVars == <<book, last_seq, resync_required>>

BookInit == book = NoBook /\ last_seq = NoSeq /\ resync_required = FALSE

\* Clears both sides and inserts every level of the snapshot with size > 0.
ApplySnapshot_NotCleared(s) ==
  /\ book' = [lv \in Levels |-> IF s.book[lv] > 0 THEN s.book[lv] ELSE book[lv]]
  /\ last_seq' = s.seq
  /\ resync_required' = FALSE
ApplySnapshot(s) ==
  /\ book' = s.book
  /\ last_seq' = s.seq
  /\ resync_required' = FALSE

\* The sequence check of apply_delta_with_gap_tolerance.
GapSize(d) == IF d.prev > last_seq THEN d.prev - last_seq ELSE last_seq - d.prev
Accepts(d) == last_seq = NoSeq \/ GapSize(d) <= MaxGap

\* Every level of the change list takes its new size, which is 0 when the level
\* is removed; the flag is cleared.
ApplyDelta(d) ==
  /\ Accepts(d)
  /\ book' = [lv \in Levels |-> IF lv \in DOMAIN d.sizes THEN d.sizes[lv] ELSE book[lv]]
  /\ last_seq' = d.seq
  /\ resync_required' = FALSE

\* The gap is too large: nothing is applied.
RefuseDelta(d) ==
  /\ ~Accepts(d)
  /\ resync_required' = TRUE
  /\ UNCHANGED <<book, last_seq>>
=============================================================================

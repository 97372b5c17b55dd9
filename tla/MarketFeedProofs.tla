-------------------------- MODULE MarketFeedProofs --------------------------
(***************************************************************************)
(* The order book of a symbol, for any levels, depth of the snapshots, gap *)
(* tolerance, buffer size and number of updates: it is the exchange's book *)
(* again once the deltas have caught up with the last snapshot and none is *)
(* missing, and one that lags behind what its worker was given is flagged. *)
(***************************************************************************)
EXTENDS MarketFeed, SequenceTheorems, TLAPS

Sizes     == UNION {[L -> Nat] : L \in SUBSET Levels}
Deltas    == [kind : {"delta"}, prev : Nat, seq : Nat, first : Nat, sizes : Sizes]
Snapshots == [kind : {"snapshot"}, seq : Nat, book : Books]
Messages  == Deltas \cup Snapshots

\* The types the proof needs, the messages included.
Types ==
  /\ book \in Books /\ last_seq \in {NoSeq} \cup 0..Version
  /\ history \in Seq(Books) /\ Len(history) \in Nat \ {0}
  /\ published \in 0..Version /\ taken \in 0..published
  /\ base \in 0..Version /\ unbroken \in BOOLEAN
  /\ rx \in Seq(Messages)

\* A message of an exchange with history h that has published up to n: a snapshot
\* has what is served of the book at its sequence number; a delta has the sizes of
\* that book wherever it differs from one of those since the event before.
WellMade(m, n, h) ==
  /\ m.seq \in 1..n
  /\ m.kind = "snapshot" => m.book = Served(h[m.seq + 1])
  /\ m.kind = "delta" =>
       /\ m.first \in 1..m.seq
       /\ \A lv \in Levels :
            IF lv \in DOMAIN m.sizes
            THEN m.sizes[lv] = h[m.seq + 1][lv]
            ELSE \A i \in m.first..m.seq + 1 : h[i][lv] = h[m.seq + 1][lv]

\* The messages in the channel are in order and not older than the last one taken.
Queue ==
  /\ \A i \in 1..Len(rx) : WellMade(rx[i], published, history) /\ taken <= rx[i].seq
  /\ \A i, j \in 1..Len(rx) : i < j => rx[i].seq <= rx[j].seq

\* An answer of the exchange is for the request under way, and was given after the
\* delta that caused it.
Answer ==
  /\ reply # {} => wpc \in {"boot", "overflow", "resync"}
  /\ \A s \in reply : s.seq \in taken..Version /\ s.book = Served(At(s.seq))

\* A book that counts as initialised has had a snapshot, and only it is resynced.
Progress ==
  /\ snapshot_applied => last_seq # NoSeq
  /\ wpc = "resync" => snapshot_applied
  /\ wpc \in {"boot", "overflow"} => ~snapshot_applied

\* A level the deltas applied since the snapshot, the first of which began at p, have
\* not touched: it is as it was in the snapshot, and the exchange has not changed it.
Untouched(lv, p) ==
  /\ book[lv] = Served(At(base))[lv]
  /\ \A i \in p..last_seq : At(i)[lv] = At(last_seq)[lv]

\* What the book is made of: a snapshot, or a snapshot and deltas without a hole, the
\* last of which may still be older than the snapshot.
Made ==
  \/ last_seq = base /\ book = Served(At(base))
  \/ /\ last_seq <= taken
     /\ \E p \in 0..base : \A lv \in Levels :
          book[lv] = At(last_seq)[lv] \/ Untouched(lv, p)

Unbroken == last_seq # NoSeq /\ unbroken => Made

FInv == Types /\ Queue /\ Answer /\ Progress /\ FreshUnlessFlagged /\ Unbroken

-----------------------------------------------------------------------------
\* Every version of the exchange's book is a book.
LEMMA Versions ==
  ASSUME Types
  PROVE  /\ Version \in Nat /\ published \in Nat /\ taken \in Nat
         /\ \A v \in 0..Version : At(v) \in Books /\ Served(At(v)) \in Books
<1>1. history \in Seq(Books) /\ Len(history) \in Nat \ {0}
  BY DEF Types
<1>2. Version \in Nat
  BY <1>1 DEF Version
<1>3. ASSUME NEW v \in 0..Version PROVE At(v) \in Books /\ Served(At(v)) \in Books
  <2>1. v + 1 \in 1..Len(history)
    BY <1>1, <1>3 DEF Version
  <2>2. At(v) \in Books
    BY <1>1, <2>1 DEF At
  <2> QED
    BY <2>2 DEF Served, Books
<1> QED
  BY <1>2, <1>3 DEF Types

\* The message made of an event is one, and says what happened.
LEMMA DeltaMade ==
  ASSUME Types, published < Version
  PROVE  LET m == DeltaMessage(Version) IN
         /\ m \in Messages /\ m.kind = "delta" /\ m.seq = Version
         /\ WellMade(m, Version, history)
<1> DEFINE Changed == {lv \in Levels : \E i \in published..Version : At(i)[lv] # At(Version)[lv]}
           sizes == [lv \in Changed |-> At(Version)[lv]]
           m == DeltaMessage(Version)
<1>1. Version \in Nat \ {0} /\ published \in Nat /\ At(Version) \in Books
  BY Versions
<1>2. m = [kind |-> "delta", prev |-> Version - 1, seq |-> Version, first |-> published + 1,
            sizes |-> sizes]
  BY <1>1 DEF DeltaMessage
<1>3. sizes \in Sizes
  <2>1. sizes \in [Changed -> Nat] /\ Changed \in SUBSET Levels
    BY <1>1 DEF Books
  <2> HIDE DEF Changed, sizes
  <2> QED
    BY <2>1 DEF Sizes
<1>4. m \in Messages
  <2> HIDE DEF sizes
  <2>1. Version - 1 \in Nat /\ published + 1 \in Nat
    BY <1>1
  <2> QED
    BY <1>1, <1>2, <1>3, <2>1 DEF Messages, Deltas
<1>5. ASSUME NEW lv \in Levels, lv \in DOMAIN sizes
      PROVE  sizes[lv] = history[Version + 1][lv]
  BY <1>5 DEF At
<1>6. ASSUME NEW lv \in Levels, lv \notin DOMAIN sizes, NEW i \in published + 1..Version + 1
      PROVE  history[i][lv] = history[Version + 1][lv]
  <2>1. i - 1 \in published..Version /\ At(i - 1) = history[i]
    BY <1>1 DEF At
  <2>2. At(i - 1)[lv] = At(Version)[lv]
    BY <1>6, <2>1
  <2> QED
    BY <2>1, <2>2 DEF At
<1> HIDE DEF sizes
<1>7. WellMade(m, Version, history)
  BY <1>1, <1>2, <1>5, <1>6 DEF WellMade
<1> QED
  BY <1>2, <1>4, <1>7

\* A message stays well made when the exchange goes on.
LEMMA StaysMade ==
  ASSUME Types, NEW n \in Nat, published <= n, NEW b \in Books,
         NEW h, h = history \/ h = Append(history, b),
         NEW m, WellMade(m, published, history)
  PROVE  WellMade(m, n, h)
<1>1. /\ history \in Seq(Books) /\ published \in 0..Len(history) - 1 /\ Len(history) \in Nat
      /\ m.seq \in 1..published
  BY DEF Types, Version, WellMade
<1>2. m.seq \in 1..Len(history) /\ m.seq + 1 \in 1..Len(history) /\ m.seq \in 1..n
  BY <1>1
<1>3. ASSUME NEW i \in 1..m.seq + 1 PROVE h[i] = history[i]
  <2>1. i \in 1..Len(history)
    BY <1>1, <1>2
  <2> QED
    BY <1>1, <2>1
<1>4. m.seq + 1 \in 1..m.seq + 1
  BY <1>1
<1>5. CASE m.kind # "delta"
  BY <1>2, <1>3, <1>4, <1>5 DEF WellMade
<1>6. CASE m.kind = "delta"
  <2>1. /\ m.first \in 1..m.seq
        /\ \A i \in m.first..m.seq + 1 : i \in 1..m.seq + 1
    BY <1>1, <1>6 DEF WellMade
  <2>2. ASSUME NEW lv \in Levels
        PROVE  IF lv \in DOMAIN m.sizes
               THEN m.sizes[lv] = h[m.seq + 1][lv]
               ELSE \A i \in m.first..m.seq + 1 : h[i][lv] = h[m.seq + 1][lv]
    <3>1. IF lv \in DOMAIN m.sizes
          THEN m.sizes[lv] = history[m.seq + 1][lv]
          ELSE \A i \in m.first..m.seq + 1 : history[i][lv] = history[m.seq + 1][lv]
      BY <1>6, <2>2 DEF WellMade
    <3> QED
      BY <1>3, <1>4, <2>1, <3>1
  <2> QED
    BY <1>2, <1>6, <2>1, <2>2 DEF WellMade
<1> QED
  BY <1>5, <1>6

\* A message at the end of the channel.
LEMMA Enqueue ==
  ASSUME Types, Queue, NEW m \in Messages, rx' = Append(rx, m),
         published' \in Nat, published < published',
         m.seq = published', WellMade(m, published', history),
         UNCHANGED <<history, taken>>
  PROVE  Queue' /\ rx' \in Seq(Messages)
<1>1. /\ rx \in Seq(Messages) /\ published \in Nat /\ taken \in 0..published
      /\ Books # {}
  BY Versions DEF Types
<1>2. /\ Len(rx') = Len(rx) + 1 /\ rx'[Len(rx) + 1] = m /\ rx' \in Seq(Messages)
      /\ \A i \in 1..Len(rx) : rx'[i] = rx[i]
  BY <1>1
<1>3. ASSUME NEW i \in 1..Len(rx') PROVE i \in 1..Len(rx) \/ i = Len(rx) + 1
  BY <1>1, <1>2
<1>4. ASSUME NEW i \in 1..Len(rx)
      PROVE  /\ WellMade(rx[i], published', history) /\ rx'[i] = rx[i]
             /\ taken <= rx[i].seq /\ rx[i].seq \in Nat /\ rx[i].seq <= published
  <2>1. WellMade(rx[i], published, history) /\ taken <= rx[i].seq
    BY DEF Queue
  <2>2. WellMade(rx[i], published', history)
    BY <1>1, <2>1, StaysMade, SMTT(30)
  <2>3. rx[i].seq \in 1..published
    BY <2>1 DEF WellMade
  <2> QED
    BY <1>1, <1>2, <2>1, <2>2, <2>3
<1>5. ASSUME NEW i \in 1..Len(rx')
      PROVE  WellMade(rx'[i], published', history') /\ taken' <= rx'[i].seq
  <2>1. CASE i \in 1..Len(rx)
    BY <1>4, <2>1
  <2>2. CASE i = Len(rx) + 1
    BY <1>1, <1>2, <2>2
  <2> QED
    BY <1>3, <2>1, <2>2
<1>6. ASSUME NEW i \in 1..Len(rx'), NEW j \in 1..Len(rx'), i < j
      PROVE  rx'[i].seq <= rx'[j].seq
  <2>1. i \in 1..Len(rx)
    BY <1>1, <1>2, <1>6
  <2>2. CASE j \in 1..Len(rx)
    BY <1>2, <1>6, <2>1, <2>2 DEF Queue
  <2>3. CASE j = Len(rx) + 1
    BY <1>1, <1>2, <1>4, <2>1, <2>3
  <2> QED
    BY <1>3, <2>2, <2>3
<1> QED
  BY <1>2, <1>5, <1>6 DEF Queue

\* Taking a message from the channel keeps the order; what is left is not older.
LEMMA Dequeue ==
  ASSUME Types, Queue, rx # <<>>, rx' = Tail(rx), UNCHANGED <<history, published>>,
         taken' = taken \/ taken' = Head(rx).seq
  PROVE  /\ Queue' /\ rx' \in Seq(Messages) /\ taken' \in 0..published
         /\ WellMade(Head(rx), published, history) /\ Head(rx) \in Messages
         /\ taken <= Head(rx).seq /\ taken' <= Head(rx).seq
<1>1. rx \in Seq(Messages) /\ published \in Nat /\ taken \in 0..published
  BY Versions DEF Types
<1>2. /\ 1 \in 1..Len(rx) /\ Head(rx) = rx[1] /\ rx' \in Seq(Messages)
      /\ \A i \in 1..Len(rx') : i + 1 \in 1..Len(rx) /\ 1 < i + 1 /\ rx'[i] = rx[i + 1]
  BY <1>1
<1>3. /\ WellMade(Head(rx), published, history) /\ taken <= Head(rx).seq
      /\ Head(rx).seq \in 1..published
  BY <1>2 DEF Queue, WellMade
<1>4. taken' \in 0..published /\ taken' <= Head(rx).seq
  BY <1>1, <1>3
<1>5. ASSUME NEW i \in 1..Len(rx')
      PROVE  WellMade(rx'[i], published', history') /\ taken' <= rx'[i].seq
  <2>1. /\ WellMade(rx[i + 1], published, history) /\ taken <= rx[i + 1].seq
        /\ Head(rx).seq <= rx[i + 1].seq
    BY <1>2 DEF Queue
  <2> QED
    BY <1>2, <2>1
<1>6. ASSUME NEW i \in 1..Len(rx'), NEW j \in 1..Len(rx'), i < j
      PROVE  rx'[i].seq <= rx'[j].seq
  BY <1>1, <1>2, <1>6 DEF Queue
<1>7. Head(rx) \in Messages
  BY <1>1, <1>2
<1> QED
  BY <1>2, <1>3, <1>4, <1>5, <1>6, <1>7 DEF Queue

\* What the book is made of does not change while book and sequence number stay,
\* however the exchange goes on.
LEMMA StaysUnbroken ==
  ASSUME Types, Unbroken, UNCHANGED <<book, last_seq, base, unbroken>>,
         \A i \in 1..Len(history) : history'[i] = history[i],
         taken' \in Nat, taken <= taken'
  PROVE  Unbroken'
<1>1. SUFFICES ASSUME last_seq # NoSeq, unbroken PROVE Made'
  BY DEF Unbroken
<1>2. /\ Made /\ Version \in Nat /\ last_seq \in 0..Version /\ base \in 0..Version
      /\ taken \in Nat /\ Len(history) = Version + 1
  BY <1>1, Versions DEF Unbroken, Types, Version
<1>3. ASSUME NEW v \in 0..Version PROVE history'[v + 1] = history[v + 1]
  BY <1>2
<1>4. history'[base + 1] = history[base + 1] /\ history'[last_seq + 1] = history[last_seq + 1]
  BY <1>2, <1>3
<1>5. CASE last_seq = base /\ book = Served(At(base))
  BY <1>4, <1>5 DEF Made, At
<1>6. ASSUME last_seq <= taken, NEW p \in 0..base,
             \A lv \in Levels : book[lv] = At(last_seq)[lv] \/ Untouched(lv, p)
      PROVE  Made'
  <2>1. last_seq' <= taken'
    BY <1>2, <1>6
  <2>2. ASSUME NEW lv \in Levels
        PROVE  \/ book[lv] = history'[last_seq + 1][lv]
               \/ /\ book[lv] = Served(history'[base + 1])[lv]
                  /\ \A i \in p..last_seq : history'[i + 1][lv] = history'[last_seq + 1][lv]
    <3>1. CASE book[lv] = At(last_seq)[lv]
      BY <1>4, <3>1 DEF At
    <3>2. CASE Untouched(lv, p)
      <4>1. ASSUME NEW i \in p..last_seq PROVE history'[i + 1][lv] = history'[last_seq + 1][lv]
        <5>1. i \in 0..Version
          BY <1>2
        <5> QED
          BY <1>3, <1>4, <3>2, <5>1 DEF Untouched, At
      <4> QED
        BY <1>4, <3>2, <4>1 DEF Untouched, At
    <3> QED
      BY <1>6, <3>1, <3>2
  <2> QED
    BY <2>1, <2>2 DEF Made, Untouched, At
<1> QED
  BY <1>2, <1>5, <1>6 DEF Made

-----------------------------------------------------------------------------
\* The exchange changes a size: no earlier version of its book changes with it.
LEMMA UpdateStep ==
  ASSUME FInv, Update
  PROVE  FInv'
<1>1. PICK lv \in Levels, size \in 0..MaxSize :
        history' = Append(history, [At(Version) EXCEPT ![lv] = size])
  BY DEF Update
<1> DEFINE b == [At(Version) EXCEPT ![lv] = size]
<1>2. /\ UNCHANGED <<bookVars, workerVars, published, connected, seen>>
      /\ Types /\ Queue /\ Answer /\ Progress /\ FreshUnlessFlagged /\ Unbroken
      /\ history \in Seq(Books) /\ Version \in Nat /\ Len(history) = Version + 1
      /\ rx \in Seq(Messages) /\ published \in 0..Version /\ taken \in 0..published
      /\ last_seq \in {NoSeq} \cup 0..Version /\ book \in Books
  BY Versions DEF Update, FInv, Types, Version
<1>3. UNCHANGED <<book, last_seq, resync_required, wpc, snapshot_applied, rx, reply, taken, base,
                  unbroken>>
  BY <1>2 DEF bookVars, workerVars, seen
<1>4. b \in Books /\ history' = Append(history, b)
  <2>1. At(Version) \in Books /\ size \in Nat
    BY <1>2, Versions, FeedAssumption
  <2> QED
    BY <1>1, <2>1 DEF Books
<1> HIDE DEF b
<1>5. /\ history' \in Seq(Books) /\ Len(history') = Len(history) + 1
      /\ \A i \in 1..Len(history) : history'[i] = history[i]
  BY <1>2, <1>4
<1>6. Version' = Version + 1
  BY <1>2, <1>5 DEF Version
<1>7. \A v \in 0..Version : At(v)' = At(v)
  BY <1>2, <1>5 DEF At
<1>8. Types'
  BY <1>2, <1>3, <1>5, <1>6 DEF Types
<1>9. Queue'
  <2>1. ASSUME NEW i \in 1..Len(rx)
        PROVE  WellMade(rx[i], published, history') /\ taken <= rx[i].seq
    <3>1. WellMade(rx[i], published, history) /\ taken <= rx[i].seq
      BY <1>2 DEF Queue
    <3>2. published \in Nat /\ published <= published
      BY <1>2
    <3> QED
      BY <1>2, <1>4, <3>1, <3>2, StaysMade
  <2> QED
    BY <1>2, <1>3, <2>1 DEF Queue
<1>10. Answer'
  <2>1. ASSUME NEW s \in reply
        PROVE  s.seq \in taken..Version' /\ s.book = Served(history'[s.seq + 1])
    <3>1. s.seq \in taken..Version /\ s.book = Served(At(s.seq))
      BY <1>2 DEF Answer
    <3>2. s.seq \in 0..Version
      BY <1>2, <3>1
    <3>3. history'[s.seq + 1] = history[s.seq + 1]
      BY <1>2, <1>5, <3>2
    <3> QED
      BY <1>2, <1>6, <3>1, <3>3 DEF At
  <2> QED
    BY <1>2, <1>3, <2>1 DEF Answer, At
<1>11. Progress' /\ FreshUnlessFlagged'
  BY <1>2, <1>3 DEF Progress, FreshUnlessFlagged
<1>12. Unbroken'
  <2>1. taken' \in Nat /\ taken <= taken'
    BY <1>2, <1>3
  <2> QED
    BY <1>2, <1>3, <1>5, <2>1, StaysUnbroken
<1> QED
  BY <1>8, <1>9, <1>10, <1>11, <1>12 DEF FInv

\* An event, a whole book, or a change of the connection.
LEMMA PublishStep ==
  ASSUME FInv, Publish \/ PublishSnapshot \/ Disconnect \/ Reconnect
  PROVE  FInv'
<1>1. /\ Types /\ Queue /\ Answer /\ Progress /\ FreshUnlessFlagged /\ Unbroken
      /\ Version \in Nat /\ published \in 0..Version /\ taken \in 0..published
      /\ rx \in Seq(Messages)
  BY Versions DEF FInv, Types
<1>2. UNCHANGED <<book, last_seq, resync_required, wpc, snapshot_applied, reply, history, taken,
                  base, unbroken>>
  BY DEF Publish, PublishSnapshot, Disconnect, Reconnect, bookVars, workerVars, seen
<1>3. Version' = Version /\ (\A v : At(v)' = At(v))
  BY <1>2 DEF Version, At
<1>4. Queue' /\ rx' \in Seq(Messages) /\ published' \in published..Version
  <2>1. CASE UNCHANGED <<rx, published>>
    BY <1>1, <1>2, <2>1 DEF Queue
  <2>2. CASE rx' = rx /\ published < Version /\ published' = Version
    <3>1. ASSUME NEW i \in 1..Len(rx) PROVE WellMade(rx[i], Version, history) /\ taken <= rx[i].seq
      <4>1. WellMade(rx[i], published, history) /\ taken <= rx[i].seq
        BY <1>1 DEF Queue
      <4>2. At(Version) \in Books
        BY <1>1, Versions
      <4> QED
        BY <1>1, <4>1, <4>2, StaysMade
    <3> QED
      BY <1>1, <1>2, <2>2, <3>1 DEF Queue
  <2>3. CASE Publish /\ connected
    <3>1. /\ DeltaMessage(Version) \in Messages /\ DeltaMessage(Version).seq = Version
          /\ WellMade(DeltaMessage(Version), Version, history)
      BY <1>1, <2>3, DeltaMade DEF Publish
    <3>2. rx' = Append(rx, DeltaMessage(Version)) /\ published' = Version /\ published < Version
      BY <2>3 DEF Publish
    <3> QED
      BY <1>1, <1>2, <3>1, <3>2, Enqueue
  <2>4. CASE PublishSnapshot
    <3>1. rx' = Append(rx, SnapshotMessage(Version)) /\ published' = Version /\ published < Version
      BY <2>4 DEF PublishSnapshot
    <3>2. /\ SnapshotMessage(Version) =
               [kind |-> "snapshot", seq |-> Version, book |-> Served(At(Version))]
          /\ Served(At(Version)) \in Books
      BY <1>1, Versions DEF SnapshotMessage
    <3>3. SnapshotMessage(Version) \in Messages
      BY <1>1, <3>2 DEF Messages, Snapshots
    <3>4. WellMade(SnapshotMessage(Version), Version, history)
      BY <1>1, <3>1, <3>2 DEF WellMade, At
    <3> QED
      BY <1>1, <1>2, <3>1, <3>2, <3>3, <3>4, Enqueue
  <2> QED
    BY <2>1, <2>2, <2>3, <2>4 DEF Publish, PublishSnapshot, Disconnect, Reconnect, workerVars
<1>5. Types'
  BY <1>1, <1>2, <1>3, <1>4 DEF Types
<1>6. Answer' /\ Progress' /\ FreshUnlessFlagged'
  BY <1>1, <1>2 DEF Answer, Progress, FreshUnlessFlagged, At, Version
<1>7. Unbroken'
  <2>1. taken' \in Nat /\ taken <= taken'
    BY <1>1, <1>2
  <2> QED
    BY <1>1, <1>2, <2>1, StaysUnbroken
<1> QED
  BY <1>1, <1>4, <1>5, <1>6, <1>7 DEF FInv

\* The exchange answers: its book of now has every delta it ever sent.
LEMMA AnswerStep ==
  ASSUME FInv, ServeSnapshot
  PROVE  FInv'
<1>1. /\ Version \in Nat /\ published \in 0..Version /\ taken \in 0..published
      /\ Types /\ Queue /\ Progress /\ FreshUnlessFlagged /\ Unbroken
  BY Versions DEF FInv, Types
<1>2. /\ UNCHANGED <<book, last_seq, resync_required, wpc, snapshot_applied, rx, history,
                     published, taken, base, unbroken>>
      /\ wpc \in {"boot", "overflow", "resync"}
      /\ reply' = {[seq |-> Version, book |-> Served(At(Version))]}
  BY DEF ServeSnapshot, bookVars, feedVars, seen
<1>3. Answer'
  BY <1>1, <1>2 DEF Answer, At, Version
<1>4. Types' /\ Queue' /\ Progress' /\ FreshUnlessFlagged'
  BY <1>1, <1>2 DEF Types, Queue, Progress, FreshUnlessFlagged, At, Version
<1>5. Unbroken'
  <2>1. taken' \in Nat /\ taken <= taken'
    BY <1>1, <1>2
  <2> QED
    BY <1>1, <1>2, <2>1, StaysUnbroken
<1> QED
  BY <1>3, <1>4, <1>5 DEF FInv

-----------------------------------------------------------------------------
\* A snapshot is applied, fetched or taken from the channel: the book is that snapshot.
LEMMA SnapshotMade ==
  ASSUME NEW s, book' = s.book, last_seq' = s.seq, base' = last_seq', UNCHANGED history,
         s.book = Served(At(s.seq))
  PROVE  Unbroken'
BY DEF Unbroken, Made, At

\* The worker gets an answer.
LEMMA FetchStep ==
  ASSUME FInv, FetchReturns, GetSnapshot
  PROVE  FInv'
<1>1. /\ Version \in Nat /\ published \in 0..Version /\ taken \in 0..published
      /\ Types /\ Queue /\ Answer /\ Progress
  BY Versions DEF FInv, Types
<1>2. /\ UNCHANGED <<rx, history, published, taken>>
      /\ wpc' = "recv" /\ reply' = {} /\ snapshot_applied' = TRUE
      /\ base' = last_seq' /\ unbroken' = TRUE
  BY DEF FetchReturns, GetSnapshot
<1>3. Queue' /\ Version' = Version
  BY <1>1, <1>2 DEF Queue, Version
<1>4. PICK s \in reply : book' = s.book /\ last_seq' = s.seq
  BY DEF FetchReturns, ApplySnapshot
<1>5. s.seq \in taken..Version /\ s.book = Served(At(s.seq))
  BY <1>1 DEF Answer
<1>6. s.seq \in 0..Version /\ s.book \in Books /\ taken <= s.seq /\ s.seq # NoSeq
  BY <1>1, <1>5, Versions DEF NoSeq
<1>7. Types'
  BY <1>1, <1>2, <1>3, <1>4, <1>6 DEF Types
<1>8. Answer' /\ Progress' /\ FreshUnlessFlagged'
  BY <1>2, <1>4, <1>6 DEF Answer, Progress, FreshUnlessFlagged
<1>9. Unbroken'
  BY <1>2, <1>4, <1>5, SnapshotMade
<1> QED
  BY <1>3, <1>7, <1>8, <1>9 DEF FInv

\* The worker is told that there is none.
LEMMA FailStep ==
  ASSUME FInv, FetchFails, GetNothing
  PROVE  FInv'
<1>1. /\ Version \in Nat /\ published \in 0..Version /\ taken \in 0..published
      /\ Types /\ Queue /\ Answer /\ Progress /\ Unbroken
  BY Versions DEF FInv, Types
<1>2. /\ UNCHANGED <<book, last_seq, snapshot_applied, rx, reply, history, published, taken, base,
                     unbroken>>
      /\ wpc' = "recv" /\ reply = {} /\ wpc \in {"boot", "overflow", "resync"}
      /\ wpc = "resync" => resync_required'
  BY DEF FetchFails, FlagAfterFailure, GetNothing, feedVars, seen
<1>3. Types' /\ Queue'
  BY <1>1, <1>2 DEF Types, Queue, Version
<1>4. Answer' /\ Progress' /\ FreshUnlessFlagged'
  BY <1>1, <1>2 DEF Answer, Progress, FreshUnlessFlagged
<1>5. Unbroken'
  <2>1. taken' \in Nat /\ taken <= taken'
    BY <1>1, <1>2
  <2> QED
    BY <1>1, <1>2, <2>1, StaysUnbroken
<1> QED
  BY <1>3, <1>4, <1>5 DEF FInv

\* What the actions that take a message have in common.
LEMMA Taking ==
  ASSUME FInv, NEW kind \in {"snapshot", "delta"}, Receive(kind),
         UNCHANGED <<history, published>>, taken' = taken \/ taken' = Head(rx).seq
  PROVE  /\ Version \in Nat /\ Version' = Version /\ published \in 0..Version
         /\ Queue' /\ rx' \in Seq(Messages) /\ taken' \in 0..published
         /\ taken \in 0..published /\ taken <= taken' /\ taken' <= Head(rx).seq
         /\ WellMade(Head(rx), published, history) /\ Head(rx) \in Messages
         /\ Head(rx).seq \in 1..Version /\ Head(rx).kind = kind
         /\ wpc = "recv" /\ reply = {}
<1>1. /\ Version \in Nat /\ published \in 0..Version /\ taken \in 0..published
      /\ Types /\ Queue /\ Answer
  BY Versions DEF FInv, Types
<1>2. wpc = "recv" /\ rx # <<>> /\ Head(rx).kind = kind /\ rx' = Tail(rx)
  BY DEF Receive
<1>3. /\ Queue' /\ rx' \in Seq(Messages) /\ taken' \in 0..published
      /\ WellMade(Head(rx), published, history) /\ Head(rx) \in Messages
      /\ taken <= Head(rx).seq /\ taken' <= Head(rx).seq
  BY <1>1, <1>2, Dequeue
<1>4. Head(rx).seq \in 1..Version
  BY <1>1, <1>3 DEF WellMade
<1>5. taken <= taken'
  BY <1>1, <1>3
<1>6. reply = {} /\ Version' = Version
  BY <1>1, <1>2 DEF Answer, Version
<1> QED
  BY <1>1, <1>2, <1>3, <1>4, <1>5, <1>6

\* A book is taken from the channel.
LEMMA SnapshotStep ==
  ASSUME FInv, RecvSnapshot, GetSnapshot
  PROVE  FInv'
<1> DEFINE m == Head(rx)
<1>1. /\ Receive("snapshot") /\ book' = m.book /\ last_seq' = m.seq /\ resync_required' = FALSE
      /\ snapshot_applied' = TRUE /\ base' = last_seq' /\ unbroken' = TRUE
      /\ UNCHANGED <<wpc, reply, history, published, taken>>
  BY DEF RecvSnapshot, ApplySnapshot, GetSnapshot
<1>2. /\ Version \in Nat /\ Version' = Version /\ published \in 0..Version
      /\ Queue' /\ rx' \in Seq(Messages) /\ taken' \in 0..published /\ taken' <= m.seq
      /\ WellMade(m, published, history) /\ m.kind = "snapshot"
      /\ m.seq \in 1..Version /\ wpc = "recv" /\ reply = {}
  BY <1>1, Taking
<1>3. m.book = Served(At(m.seq))
  BY <1>2 DEF WellMade, At
<1>4. Served(At(m.seq)) \in Books
  <2>1. m.seq \in 0..Version /\ Types
    BY <1>2 DEF FInv
  <2> HIDE DEF m
  <2> QED
    BY <2>1, Versions
<1> HIDE DEF m
<1>5. Types'
  BY <1>1, <1>2, <1>3, <1>4 DEF FInv, Types
<1>6. Answer' /\ Progress' /\ FreshUnlessFlagged'
  BY <1>1, <1>2, <1>3 DEF FInv, Answer, Progress, FreshUnlessFlagged, NoSeq
<1>7. Unbroken'
  BY <1>1, <1>3, SnapshotMade
<1> QED
  BY <1>2, <1>5, <1>6, <1>7 DEF FInv

\* A delta that the book does not get, because it waits for a snapshot or refuses it.
LEMMA SkipStep ==
  ASSUME FInv, ((BufferDelta \/ OverflowBuffer) /\ GetNothing) \/ LeaveDelta
  PROVE  FInv'
<1>1. /\ Receive("delta")
      /\ taken' = taken \/ taken' = Head(rx).seq
      /\ UNCHANGED <<book, last_seq, snapshot_applied, reply, history, published, base, unbroken>>
      /\ \/ ~snapshot_applied /\ wpc' \in {wpc, "overflow"}
         \/ snapshot_applied /\ wpc' = "resync"
  BY DEF BufferDelta, OverflowBuffer, GetNothing, LeaveDelta, DetectGap, RefuseDelta, bookVars,
         feedVars, seen
<1>2. /\ Version \in Nat /\ Version' = Version /\ published \in 0..Version
      /\ Queue' /\ rx' \in Seq(Messages) /\ taken' \in 0..published
      /\ taken \in 0..published /\ taken <= taken' /\ wpc = "recv" /\ reply = {}
  BY <1>1, Taking
<1>3. Types'
  BY <1>1, <1>2 DEF FInv, Types
<1>4. Answer' /\ Progress' /\ FreshUnlessFlagged'
  BY <1>1, <1>2 DEF FInv, Answer, Progress, FreshUnlessFlagged
<1>5. Unbroken'
  <2>1. Types /\ Unbroken /\ taken' \in Nat
    BY <1>2 DEF FInv
  <2> QED
    BY <1>1, <1>2, <2>1, StaysUnbroken
<1> QED
  BY <1>2, <1>3, <1>4, <1>5 DEF FInv

\* A delta put over what the book is made of, if it begins where the book is or before:
\* the levels it leaves alone did not change since, and so are still right or untouched.
LEMMA DeltaPut ==
  ASSUME Types, Unbroken, last_seq # NoSeq, unbroken, NEW m, m.kind = "delta",
         WellMade(m, published, history), m.first <= last_seq + 1, taken <= m.seq,
         book' = [lv \in Levels |-> IF lv \in DOMAIN m.sizes THEN m.sizes[lv] ELSE book[lv]],
         last_seq' = m.seq, taken' = m.seq, UNCHANGED <<history, base>>
  PROVE  Made'
<1>1. /\ Made /\ Version \in Nat /\ last_seq \in 0..Version /\ base \in 0..Version
      /\ taken \in Nat /\ m.first \in 1..m.seq /\ m.seq \in Nat
  BY Versions DEF Unbroken, Types, WellMade
<1>2. ASSUME NEW lv \in Levels, lv \in DOMAIN m.sizes PROVE book'[lv] = history[m.seq + 1][lv]
  BY <1>2 DEF WellMade
<1>3. ASSUME NEW lv \in Levels, lv \notin DOMAIN m.sizes, NEW v \in m.first - 1..m.seq
      PROVE  history[v + 1][lv] = history[m.seq + 1][lv]
  <2>1. v + 1 \in m.first..m.seq + 1
    BY <1>1
  <2> QED
    BY <1>3, <2>1 DEF WellMade
<1>4. SUFFICES \E p \in 0..base : \A lv \in Levels :
                 \/ book'[lv] = history[m.seq + 1][lv]
                 \/ /\ book'[lv] = Served(history[base + 1])[lv]
                    /\ \A i \in p..m.seq : history[i + 1][lv] = history[m.seq + 1][lv]
  <2>1. last_seq' <= taken'
    BY <1>1
  <2> QED
    BY <1>4, <2>1 DEF Made, Untouched, At
<1>5. CASE last_seq = base /\ book = Served(At(base))
  <2>1. m.first - 1 \in 0..base
    BY <1>1, <1>5
  <2>2. ASSUME NEW lv \in Levels
        PROVE  \/ book'[lv] = history[m.seq + 1][lv]
               \/ /\ book'[lv] = Served(history[base + 1])[lv]
                  /\ \A i \in m.first - 1..m.seq : history[i + 1][lv] = history[m.seq + 1][lv]
    BY <1>2, <1>3, <1>5 DEF At
  <2> QED
    BY <2>1, <2>2
<1>6. ASSUME last_seq <= taken, NEW p \in 0..base,
             \A lv \in Levels : book[lv] = At(last_seq)[lv] \/ Untouched(lv, p)
      PROVE  \A lv \in Levels :
               \/ book'[lv] = history[m.seq + 1][lv]
               \/ /\ book'[lv] = Served(history[base + 1])[lv]
                  /\ \A i \in p..m.seq : history[i + 1][lv] = history[m.seq + 1][lv]
  <2> SUFFICES ASSUME NEW lv \in Levels, lv \notin DOMAIN m.sizes
               PROVE  \/ book'[lv] = history[m.seq + 1][lv]
                      \/ /\ book'[lv] = Served(history[base + 1])[lv]
                         /\ \A i \in p..m.seq : history[i + 1][lv] = history[m.seq + 1][lv]
    BY <1>2
  <2>1. book'[lv] = book[lv]
    OBVIOUS
  <2>2. last_seq \in m.first - 1..m.seq
    BY <1>1, <1>6
  <2>3. history[last_seq + 1][lv] = history[m.seq + 1][lv]
    BY <1>3, <2>2
  <2>4. CASE book[lv] = At(last_seq)[lv]
    BY <2>1, <2>3, <2>4 DEF At
  <2>5. CASE Untouched(lv, p)
    <3>1. ASSUME NEW i \in p..m.seq PROVE history[i + 1][lv] = history[m.seq + 1][lv]
      <4>1. i \in p..last_seq \/ i \in m.first - 1..m.seq
        BY <1>1, <2>2
      <4> QED
        BY <1>3, <2>3, <2>5, <4>1 DEF Untouched, At
    <3> QED
      BY <2>1, <2>5, <3>1 DEF Untouched, At
  <2> QED
    BY <1>6, <2>4, <2>5
<1> QED
  BY <1>1, <1>5, <1>6 DEF Made

\* A delta that the book takes.
LEMMA ApplyStep ==
  ASSUME FInv, GetDelta
  PROVE  FInv'
<1> DEFINE m == Head(rx)
<1>1. /\ Receive("delta") /\ snapshot_applied /\ last_seq' = m.seq /\ taken' = m.seq
      /\ book' = [lv \in Levels |-> IF lv \in DOMAIN m.sizes THEN m.sizes[lv] ELSE book[lv]]
      /\ unbroken' = (unbroken /\ m.first <= last_seq + 1)
      /\ UNCHANGED <<wpc, snapshot_applied, reply, history, published, base>>
  BY DEF GetDelta, RecvDelta, ApplyDelta
<1>2. /\ Version \in Nat /\ Version' = Version /\ published \in 0..Version
      /\ Queue' /\ rx' \in Seq(Messages) /\ taken' \in 0..published /\ taken <= taken'
      /\ WellMade(m, published, history) /\ m \in Messages /\ m.kind = "delta"
      /\ m.seq \in 1..Version /\ wpc = "recv" /\ reply = {}
  BY <1>1, Taking
<1> HIDE DEF m
<1>3. book' \in Books
  <2>1. m \in Deltas
    BY <1>2 DEF Messages, Snapshots
  <2>2. PICK L \in SUBSET Levels : m.sizes \in [L -> Nat]
    BY <2>1 DEF Deltas, Sizes
  <2>3. book \in [Levels -> Nat]
    BY DEF FInv, Types, Books
  <2>4. ASSUME NEW lv \in Levels
        PROVE  (IF lv \in DOMAIN m.sizes THEN m.sizes[lv] ELSE book[lv]) \in Nat
    BY <2>2, <2>3
  <2> QED
    BY <1>1, <2>4 DEF Books
<1>4. last_seq # NoSeq /\ last_seq \in 0..Version
  BY <1>1 DEF FInv, Progress, Types
<1>5. Types'
  <2>1. unbroken' \in BOOLEAN
    BY <1>1
  <2> QED
    BY <1>1, <1>2, <1>3, <2>1 DEF FInv, Types
<1>6. Answer' /\ Progress' /\ FreshUnlessFlagged'
  BY <1>1, <1>2, <1>4 DEF FInv, Answer, Progress, FreshUnlessFlagged, NoSeq
<1>7. Unbroken'
  <2>1. SUFFICES ASSUME unbroken' PROVE Made'
    BY DEF Unbroken
  <2>2. Types /\ Unbroken /\ taken <= m.seq
    BY <1>1, <1>2 DEF FInv
  <2>3. unbroken /\ m.first <= last_seq + 1
    BY <1>1, <2>1
  <2> QED
    BY <1>1, <1>2, <1>4, <2>2, <2>3, DeltaPut
<1> QED
  BY <1>2, <1>5, <1>6, <1>7 DEF FInv
-----------------------------------------------------------------------------
\* The invariant holds in the first state: the channel is empty and nothing is known.
LEMMA FeedInitial == Init => FInv
<1> SUFFICES ASSUME Init PROVE FInv
  OBVIOUS
<1>1. /\ book = NoBook /\ last_seq = NoSeq /\ wpc = "boot" /\ snapshot_applied = FALSE
      /\ rx = <<>> /\ reply = {} /\ published = 0 /\ taken = 0 /\ base = 0 /\ unbroken = TRUE
  BY DEF Init, WorkerInit, BookInit
<1>2. PICK b \in [Levels -> 0..MaxSize] : history = <<b>>
  BY DEF Init
<1>3. b \in Books
  BY FeedAssumption DEF Books
<1>4. history \in Seq(Books) /\ Len(history) = 1 /\ Version = 0
  BY <1>2, <1>3 DEF Version
<1>5. Types
  BY <1>1, <1>4 DEF Types, NoBook, Books
<1> QED
  BY <1>1, <1>5 DEF FInv, Queue, Answer, Progress, FreshUnlessFlagged, Unbroken

\* Every step keeps the invariant.
LEMMA FeedStep == FInv /\ [Next]_vars => FInv'
<1> SUFFICES ASSUME FInv, [Next]_vars PROVE FInv'
  OBVIOUS
<1>1. CASE Update
  BY <1>1, UpdateStep
<1>2. CASE Publish \/ PublishSnapshot \/ Disconnect \/ Reconnect
  BY <1>2, PublishStep
<1>3. CASE ServeSnapshot
  BY <1>3, AnswerStep
<1>4. CASE GetSnapshot
  BY <1>4, FetchStep, SnapshotStep DEF GetSnapshot
<1>5. CASE GetDelta
  BY <1>5, ApplyStep
<1>6. CASE LeaveDelta
  BY <1>6, SkipStep
<1>7. CASE GetNothing
  BY <1>7, FailStep, SkipStep DEF GetNothing
<1>8. CASE UNCHANGED vars
  BY <1>8 DEF FInv, Types, Queue, Answer, Progress, FreshUnlessFlagged, Unbroken, Made, Untouched,
              At, Version, vars, bookVars, workerVars, feedVars, seen
<1> QED
  BY <1>1, <1>2, <1>3, <1>4, <1>5, <1>6, <1>7, <1>8 DEF Next

\* apply_delta_with_gap_tolerance and the worker's resync: whatever the tolerance,
\* a book that is not flagged has every delta its worker was given.
THEOREM FreshOrFlagged == Spec => []FreshUnlessFlagged
<1>1. FInv /\ [Next]_vars => FInv'
  BY FeedStep
<1>2. FInv => FreshUnlessFlagged
  BY DEF FInv
<1>3. Init => FInv
  BY FeedInitial
<1> QED
  BY <1>1, <1>2, <1>3, PTL DEF Spec

\* What a book is made of is the exchange's book at its sequence number, once that is
\* not older than the snapshot: a level no delta touched has not changed since.
LEMMA MadeIsAVersion == ASSUME FInv, last_seq # NoSeq, unbroken, last_seq >= base PROVE IsAVersion
<1>1. /\ Made /\ Version \in Nat /\ last_seq \in 0..Version /\ base \in 0..Version
      /\ At(base) \in Books /\ base \in 0..last_seq /\ Types
  BY Versions DEF FInv, Unbroken, Types
<1>2. SUFFICES ASSUME NEW lv \in Levels, book[lv] # At(last_seq)[lv] PROVE OutOfSight(lv)
  BY DEF IsAVersion
<1>3. At(base)[lv] = At(last_seq)[lv] /\ book[lv] = Served(At(base))[lv]
  <2>1. CASE last_seq = base /\ book = Served(At(base))
    BY <2>1
  <2>2. ASSUME NEW p \in 0..base, Untouched(lv, p)
        PROVE  At(base)[lv] = At(last_seq)[lv] /\ book[lv] = Served(At(base))[lv]
    <3>1. base \in p..last_seq
      BY <1>1
    <3> QED
      BY <2>2, <3>1 DEF Untouched
  <2> QED
    BY <1>1, <1>2, <2>1, <2>2 DEF Made
<1>4. Served(At(base))[lv] = IF lv \in Shown(At(base)) THEN At(base)[lv] ELSE 0
  BY DEF Served
<1>5. At(base)[lv] \in Nat
  BY <1>1 DEF Books
<1> QED
  BY <1>2, <1>3, <1>4, <1>5 DEF OutOfSight

\* manager.rs:129, "ensures sequence correctness", as far as the tolerance allows, and
\* whatever it is: the book is right as soon as the deltas have caught up with the last
\* snapshot, unless an update was missing between two that were applied.
THEOREM RightOnceCaughtUp == Spec => []BookCatchesUp
<1>1. FInv /\ [Next]_vars => FInv'
  BY FeedStep
<1>2. FInv => BookCatchesUp
  BY MadeIsAVersion DEF BookCatchesUp
<1>3. Init => FInv
  BY FeedInitial
<1> QED
  BY <1>1, <1>2, <1>3, PTL DEF Spec

\* Where the worker is, its flags and its buffer.
Flags ==
  /\ wpc \in {"boot", "recv", "overflow", "resync"}
  /\ snapshot_applied \in BOOLEAN /\ resync_required \in BOOLEAN /\ connected \in BOOLEAN
  /\ buffered \in 0..MaxBuffered

LEMMA FlagsStep == Flags /\ [Next]_vars => Flags'
<1> SUFFICES ASSUME Flags, [Next]_vars PROVE Flags'
  OBVIOUS
<1>1. CASE BufferDelta /\ UNCHANGED connected
  <2>1. buffered \in 0..MaxBuffered /\ ~(buffered >= MaxBuffered) /\ buffered' = buffered + 1
    BY <1>1 DEF BufferDelta, BufferFull, Flags
  <2>2. buffered' \in 0..MaxBuffered
    BY <2>1, WorkerAssumption, SMT
  <2> QED BY <1>1, <2>2 DEF BufferDelta, bookVars, Flags
<1>2. CASE /\ FetchReturns \/ FetchFails \/ RecvSnapshot \/ OverflowBuffer \/ RecvDelta \/ DetectGap
           /\ UNCHANGED connected
  <2>1. 0 \in 0..MaxBuffered
    BY WorkerAssumption, SMT
  <2> QED BY <1>2, <2>1 DEF Flags, FetchReturns, FetchFails, RecvSnapshot, OverflowBuffer,
             RecvDelta, DetectGap, ApplySnapshot, ApplyDelta, RefuseDelta, FlagAfterFailure, bookVars
<1>3. CASE UNCHANGED <<wpc, snapshot_applied, resync_required, buffered>> /\ connected' \in BOOLEAN
  BY <1>3 DEF Flags
<1>4. \/ /\ \/ FetchReturns \/ FetchFails \/ RecvSnapshot \/ BufferDelta \/ OverflowBuffer
            \/ RecvDelta \/ DetectGap
         /\ UNCHANGED connected
      \/ UNCHANGED <<wpc, snapshot_applied, resync_required, buffered>> /\ connected' \in BOOLEAN
  BY DEF Flags, Next, Update, Publish, PublishSnapshot, Disconnect, Reconnect, ServeSnapshot,
     GetSnapshot, GetDelta, LeaveDelta, GetNothing, vars, bookVars, workerVars, feedVars
<1> QED BY <1>1, <1>2, <1>3, <1>4

\* Every variable keeps its type; what is queued or answered has been published.
THEOREM TypeCorrect == Spec => []TypeOK
<1>1. FInv /\ [Next]_vars => FInv'
  BY FeedStep
<1>2. Init => FInv /\ Flags
  <2>1. Init => Flags
    <3>1. 0 \in 0..MaxBuffered
      BY WorkerAssumption, SMT
    <3> QED BY <3>1 DEF Init, WorkerInit, BookInit, Flags
  <2> QED BY <2>1, FeedInitial
<1>3. FInv /\ Flags => TypeOK
  <2> SUFFICES ASSUME FInv, Flags PROVE TypeOK
    OBVIOUS
  <2>1. Types /\ Version \in Nat /\ published \in 0..Version /\ taken \in 0..published
    BY Versions DEF FInv, Types
  <2>2. taken \in 0..Version
    BY <2>1, SMT
  <2>3. \A s \in reply : s.seq \in 0..Version /\ s.book \in Books
    <3>1. \A s \in reply : s.seq \in 0..Version
      BY <2>1, SMT DEF FInv, Answer
    <3> QED BY <2>1, <3>1, Versions DEF FInv, Answer
  <2>4. \A i \in 1..Len(rx) : rx[i].seq \in 0..Version
    <3>1. \A n \in 1..published : n \in 0..Version
      BY <2>1, SMT
    <3> QED BY <3>1 DEF FInv, Queue, WellMade
  <2> QED BY <2>1, <2>2, <2>3, <2>4 DEF TypeOK, Types, Flags
<1> QED
  BY <1>1, <1>2, <1>3, FlagsStep, PTL DEF Spec
=============================================================================

------------------------- MODULE TriViewFeedProofs -------------------------
(***************************************************************************)
(* Proofs about TriViewFeed, for every set of symbols, every capacity and   *)
(* every bound: its types, that each view is of one round and after those   *)
(* of the view before, and that the subscription implements ViewStream.     *)
(***************************************************************************)
EXTENDS TriViewFeed, TLAPS, SequenceTheorems

\* Taking the head of the second sequence to the end of the first changes nothing of
\* the two in a row.
LEMMA MoveHead ==
  ASSUME NEW S, NEW a \in Seq(S), NEW b \in Seq(S), b # <<>>
  PROVE  Append(a, Head(b)) \o Tail(b) = a \o b
<1> DEFINE l == Append(a, Head(b)) \o Tail(b)
           r == a \o b
<1>1. Head(b) \in S /\ Tail(b) \in Seq(S) /\ Len(b) \in Nat \ {0} /\ Len(Tail(b)) = Len(b) - 1
  BY SMT
<1>2. l \in Seq(S) /\ r \in Seq(S)
  BY <1>1, SMT
<1>3. Len(l) = Len(a) + Len(b) /\ Len(r) = Len(a) + Len(b)
  BY <1>1, SMT
<1>4. ASSUME NEW i \in 1..Len(a) + Len(b) PROVE l[i] = r[i]
  BY <1>1, SMT
<1> QED BY <1>2, <1>3, <1>4, SeqEqual

\* Concatenation is associative, and so is appending behind it.
LEMMA ConcatFacts ==
  ASSUME NEW S, NEW a \in Seq(S), NEW b \in Seq(S), NEW c \in Seq(S), NEW e \in S
  PROVE  /\ a \o b \in Seq(S)
         /\ (a \o b) \o c = a \o (b \o c)
         /\ a \o Append(b, e) = Append(a \o b, e)
         /\ a \o <<>> = a
<1>1. a \o b \in Seq(S)
  OBVIOUS
<1>2. a \o Append(b, e) = Append(a \o b, e)
  <2>1. /\ a \o Append(b, e) \in Seq(S) /\ Append(a \o b, e) \in Seq(S)
        /\ Len(a \o Append(b, e)) = Len(a) + Len(b) + 1
        /\ Len(Append(a \o b, e)) = Len(a) + Len(b) + 1
    BY SMT
  <2>2. ASSUME NEW i \in 1..Len(a) + Len(b) + 1
        PROVE  (a \o Append(b, e))[i] = Append(a \o b, e)[i]
    BY SMT
  <2> QED BY <2>1, <2>2, SeqEqual
<1> QED BY <1>1, <1>2, ConcatAssociative, ConcatEmptySeq

-----------------------------------------------------------------------------
(* Sequences of views. *)

\* Each view is of one round, and the rounds do not overlap.
OneRound(l) ==
  \A j \in 1..Len(l) : \A s \in Symbols :
    /\ l[j].from[s] <= l[j].books[s]
    /\ \A i \in 1..j - 1 : l[i].books[s] <= l[j].from[s]

\* The views are numbered in their order, up to n.
Numbered(l, n) ==
  \A j \in 1..Len(l) : l[j].nr <= n /\ \A i \in 1..j - 1 : l[i].nr < l[j].nr

\* No view shows a book beyond v.
Behind(l, v) == \A j \in 1..Len(l) : \A s \in Symbols : l[j].books[s] <= v[s]

LEMMA ViewTyped ==
  ASSUME NEW v \in Views, NEW s \in Symbols
  PROVE  v.from[s] \in Nat /\ v.books[s] \in Nat /\ v.nr \in Nat
BY ViewAssumption, SMT DEF Views, Versions

\* A view that begins after all the others goes behind them.
LEMMA AppendOrdered ==
  ASSUME NEW l \in Seq(Views), NEW v \in Views, NEW w \in Versions, NEW n \in Int, NEW m \in Int,
         OneRound(l), Behind(l, v.from), Behind(l, w), Numbered(l, n), n < v.nr, v.nr <= m,
         \A s \in Symbols : v.from[s] <= v.books[s] /\ v.books[s] <= w[s]
  PROVE  /\ OneRound(Append(l, v)) /\ Behind(Append(l, v), w) /\ Numbered(Append(l, v), m)
<1> DEFINE k == Append(l, v)
<1>1. /\ k \in Seq(Views) /\ Len(k) = Len(l) + 1 /\ Len(l) \in Nat
      /\ k[Len(l) + 1] = v
      /\ \A i \in 1..Len(l) : k[i] = l[i] /\ l[i] \in Views
  OBVIOUS
<1>2. v.nr \in Nat /\ \A i \in 1..Len(l) : l[i].nr \in Nat
  BY <1>1, ViewAssumption, SMT DEF Views
<1>5. \A x \in Nat : x <= n => x <= m /\ x < v.nr
  BY <1>2, SMT
<1> HIDE DEF k
<1>3. ASSUME NEW j \in 1..Len(k), NEW s \in Symbols
      PROVE  /\ k[j].from[s] <= k[j].books[s]
             /\ k[j].books[s] <= w[s]
             /\ \A i \in 1..j - 1 : k[i].books[s] <= k[j].from[s]
  <2>1. CASE j \in 1..Len(l)
    <3>1. \A i \in 1..j - 1 : i \in 1..Len(l) /\ k[i] = l[i]
      BY <2>1, <1>1, SMT
    <3> QED BY <2>1, <3>1, <1>1 DEF OneRound, Behind
  <2>2. CASE j = Len(l) + 1
    <3>1. \A i \in 1..j - 1 : i \in 1..Len(l) /\ k[i] = l[i]
      BY <2>2, <1>1, SMT
    <3> QED BY <2>2, <3>1, <1>1 DEF Behind
  <2> QED BY <2>1, <2>2, <1>1, SMT
<1>4. ASSUME NEW j \in 1..Len(k)
      PROVE  k[j].nr <= m /\ \A i \in 1..j - 1 : k[i].nr < k[j].nr
  <2>1. CASE j \in 1..Len(l)
    <3>1. \A i \in 1..j - 1 : i \in 1..Len(l) /\ k[i] = l[i]
      BY <2>1, <1>1, SMT
    <3>2. l[j].nr <= n /\ \A i \in 1..j - 1 : l[i].nr < l[j].nr
      BY <2>1 DEF Numbered
    <3>3. l[j].nr <= m
      BY <2>1, <3>2, <1>2, <1>5
    <3> QED BY <2>1, <3>1, <3>2, <3>3, <1>1
  <2>2. CASE j = Len(l) + 1
    <3>1. \A i \in 1..j - 1 : i \in 1..Len(l) /\ k[i] = l[i]
      BY <2>2, <1>1, SMT
    <3>2. \A i \in 1..Len(l) : l[i].nr <= n
      BY DEF Numbered
    <3>3. \A i \in 1..Len(l) : l[i].nr < v.nr
      BY <3>2, <1>2, <1>5
    <3> QED BY <2>2, <3>1, <3>3, <1>1
  <2> QED BY <2>1, <2>2, <1>1, SMT
<1> QED BY <1>3, <1>4 DEF OneRound, Behind, Numbered, k

\* Views in the middle may be lost.
LEMMA DropMiddle ==
  ASSUME NEW a \in Seq(Views), NEW b \in Seq(Views), NEW c \in Seq(Views),
         NEW v \in Versions, NEW n \in Int,
         OneRound(a \o b \o c), Behind(a \o b \o c, v), Numbered(a \o b \o c, n)
  PROVE  OneRound(a \o c) /\ Behind(a \o c, v) /\ Numbered(a \o c, n)
<1> DEFINE l == a \o b \o c
           k == a \o c
           at(i) == IF i <= Len(a) THEN i ELSE i + Len(b)
<1>1. Len(l) = Len(a) + Len(b) + Len(c) /\ Len(k) = Len(a) + Len(c)
  BY SMT
<1>2. Len(a) \in Nat /\ Len(b) \in Nat /\ Len(c) \in Nat
  OBVIOUS
<1>3. ASSUME NEW i \in 1..Len(k)
      PROVE  at(i) \in 1..Len(l) /\ k[i] = l[at(i)]
  BY <1>1, <1>2, SMT
<1>4. ASSUME NEW j \in 1..Len(k), NEW i \in 1..j - 1
      PROVE  i \in 1..Len(k) /\ at(i) \in 1..at(j) - 1
  BY <1>1, <1>2, SMT
<1> HIDE DEF l, k, at
<1>5. OneRound(l) /\ Behind(l, v) /\ Numbered(l, n)
  BY DEF l
<1>6. OneRound(k)
  BY <1>3, <1>4, <1>5 DEF OneRound
<1>7. Behind(k, v)
  BY <1>3, <1>5 DEF Behind
<1>8. Numbered(k, n)
  BY <1>3, <1>4, <1>5 DEF Numbered
<1> QED BY <1>6, <1>7, <1>8 DEF k

-----------------------------------------------------------------------------
(* The invariant. *)

\* The number of the last view that may be under way.
Sent == IF bpc = "send" THEN built - 1 ELSE built

\* What the builder holds: the snapshots are of this round.
Round ==
  /\ got = [s \in DOMAIN got |-> got[s]]
  /\ \A s \in Symbols : from[s] <= version[s]
  /\ bpc \in {"fetch", "send"} =>
       /\ Behind(Line, from)
       /\ \A s \in DOMAIN got : from[s] <= got[s] /\ got[s] <= version[s]
  /\ bpc = "fetch" /\ DOMAIN got # {} => built < MaxViews
  /\ bpc = "send" => DOMAIN got = Symbols /\ built >= 1

\* A task that has ended left nothing in its channel, and ended after the one before.
Ends ==
  /\ fpc = "ended" => tri_q = <<>>
  /\ dpc = "ended" => fpc = "ended" /\ view_q = <<>>
  /\ dpc = "panicked" => view_q = <<>>

Order == OneRound(Line) /\ Behind(Line, version) /\ Numbered(Line, Sent)

RInv == TypeOK /\ Round /\ Ends /\ Order

LEMMA InitInv == Init => RInv
<1> SUFFICES ASSUME Init PROVE RInv
  OBVIOUS
<1>1. version \in Versions /\ from \in Versions
  BY ViewAssumption, SMT DEF Init, Versions
<1>2. handled = <<>> /\ view_q = <<>> /\ tri_q = <<>> /\ <<>> \in Seq(Views)
  BY DEF Init
<1>3. Line = <<>>
  BY <1>2, ConcatEmptySeq DEF Line
<1>4. DOMAIN got = {}
  BY SMT DEF Init
<1>5. TypeOK
  BY <1>1, <1>2, <1>4, ViewAssumption, SMT DEF Init, TypeOK
<1>6. Round
  <2>1. got = [s \in DOMAIN got |-> got[s]]
    BY SMT DEF Init
  <2> QED BY <2>1, <1>4, ViewAssumption, SMT DEF Init, Round
<1>7. Ends
  BY DEF Init, Ends
<1>8. Order
  BY <1>3, SMT DEF Order, OneRound, Behind, Numbered
<1> QED BY <1>5, <1>6, <1>7, <1>8 DEF RInv

\* The line is a sequence of views.
LEMMA LineTyped == ASSUME TypeOK PROVE Line \in Seq(Views) /\ built \in Int
BY ViewAssumption, SMT DEF TypeOK, Line

\* A view sent by the builder goes behind the others.
LEMMA OfferKeeps ==
  ASSUME RInv, NEW n \in 1..MaxViews, n > Sent, built' = n, bpc' = "select",
         Offer(View(n)), HasRoom, DOMAIN got = Symbols, bpc \in {"fetch", "send"}, fpc = "recv",
         UNCHANGED <<version, waiting, got, from, shutdown_tx, pipeVars>>
  PROVE  RInv'
<1> DEFINE v == View(n)
<1>1. /\ TypeOK /\ Round /\ Ends /\ Order
  BY DEF RInv
<1>2. got \in Versions
  <2>1. got = [s \in Symbols |-> got[s]] /\ \A s \in Symbols : got[s] \in 0..MaxChanges
    BY <1>1 DEF Round, TypeOK
  <2> QED BY <2>1 DEF Versions
<1>3. v \in Views /\ v.nr = n /\ v.from = from /\ v.books = got
  BY <1>1, <1>2 DEF View, Views, TypeOK
<1> HIDE DEF v
<1>4. /\ tri_q' = Append(tri_q, v)
      /\ version' = version /\ waiting' = waiting /\ got' = got /\ from' = from
      /\ shutdown_tx' = shutdown_tx
      /\ fpc' = fpc /\ view_q' = view_q /\ dpc' = dpc /\ handled' = handled
  BY DEF Offer, pipeVars, v
<1>5. handled \in Seq(Views) /\ view_q \in Seq(Views) /\ tri_q \in Seq(Views)
  BY <1>1 DEF TypeOK
<1>6. Line' = Append(Line, v)
  <2>1. handled \o view_q \in Seq(Views)
    BY <1>5
  <2> QED BY <2>1, <1>3, <1>4, <1>5, ConcatFacts DEF Line
<1>7. TypeOK'
  <2>1. tri_q' \in Seq(Views) /\ Len(tri_q') <= Capacity
    BY <1>3, <1>4, <1>5, ViewAssumption, SMT DEF HasRoom
  <2>2. built' \in 0..MaxViews
    BY ViewAssumption, SMT
  <2> QED BY <2>1, <2>2, <1>1, <1>4, Zenon DEF TypeOK
<1>8. OneRound(Line') /\ Behind(Line', version') /\ Numbered(Line', n)
  <2>1. Line \in Seq(Views) /\ built \in Int /\ Sent \in Int /\ version \in Versions
    BY <1>1, LineTyped, SMT DEF Sent, TypeOK
  <2>2. OneRound(Line) /\ Behind(Line, from) /\ Behind(Line, version) /\ Numbered(Line, Sent)
    BY <1>1 DEF Order, Round
  <2>3. \A s \in Symbols : v.from[s] <= v.books[s] /\ v.books[s] <= version[s]
    BY <1>1, <1>3 DEF Round
  <2>4. Sent < v.nr /\ v.nr <= n /\ n \in Int
    BY <1>3, <2>1, SMT
  <2> QED BY <2>1, <2>2, <2>3, <2>4, <1>3, <1>4, <1>6, AppendOrdered
<1>9. Order'
  <2>1. Sent' = n
    BY DEF Sent
  <2> QED BY <2>1, <1>8 DEF Order
<1>10. Round'
  BY <1>1, <1>4 DEF Round
<1>11. Ends'
  BY <1>1, <1>4 DEF Ends
<1> QED BY <1>7, <1>9, <1>10, <1>11 DEF RInv

\* A step that leaves the line, what was sent and the books of the round alone.
LEMMA LineKept ==
  ASSUME RInv, TypeOK', Ends', Line' = Line, UNCHANGED <<version, builderVars>>
  PROVE  RInv'
<1>1. Sent' = Sent /\ bpc' = bpc /\ built' = built /\ got' = got /\ from' = from /\ version' = version
  BY DEF Sent, builderVars
<1>2. Order'
  BY <1>1 DEF RInv, Order
<1>3. Round'
  BY <1>1 DEF RInv, Round
<1> QED BY <1>2, <1>3 DEF RInv

\* A step that loses what is in one of the channels.
LEMMA LineCut ==
  ASSUME RInv, TypeOK', Ends', UNCHANGED <<version, builderVars>>,
         OneRound(Line'), Behind(Line', version), Numbered(Line', Sent),
         Behind(Line, from) => Behind(Line', from)
  PROVE  RInv'
<1>1. Sent' = Sent /\ bpc' = bpc /\ built' = built /\ got' = got /\ from' = from /\ version' = version
  BY DEF Sent, builderVars
<1>2. Order'
  BY <1>1 DEF RInv, Order
<1>3. Round'
  BY <1>1 DEF RInv, Round
<1> QED BY <1>2, <1>3 DEF RInv

\* The builder's steps that send nothing leave the channels alone.
LEMMA BuilderQuiet ==
  ASSUME RInv, Round', UNCHANGED <<version, tri_q, shutdown_tx, pipeVars>>,
         bpc' \in {"select", "fetch", "send", "ended"}, waiting' \subseteq Symbols,
         from' \in Versions, built' \in 0..MaxViews, Sent' \in Int, Sent <= Sent',
         DOMAIN got' \subseteq Symbols, \A s \in DOMAIN got' : got'[s] \in 0..MaxChanges
  PROVE  RInv'
<1>1. /\ version' = version /\ tri_q' = tri_q /\ shutdown_tx' = shutdown_tx
      /\ fpc' = fpc /\ view_q' = view_q /\ dpc' = dpc /\ handled' = handled
  BY DEF pipeVars
<1>2. TypeOK /\ Ends /\ Order
  BY DEF RInv
<1>3. TypeOK'
  BY <1>1, <1>2 DEF TypeOK
<1>4. Ends'
  BY <1>1, <1>2 DEF Ends
<1>5. Line' = Line
  BY <1>1 DEF Line
<1>6. Numbered(Line, Sent')
  <2>1. Line \in Seq(Views) /\ Sent \in Int
    BY <1>2, LineTyped, SMT DEF Sent
  <2>2. ASSUME NEW j \in 1..Len(Line) PROVE Line[j].nr \in Int
    <3>1. Line[j] \in Views
      BY <2>1, SMT
    <3> QED BY <3>1, ViewAssumption, SMT DEF Views
  <2>3. Numbered(Line, Sent)
    BY <1>2 DEF Order
  <2> QED BY <2>1, <2>2, <2>3, SMT DEF Numbered
<1>7. Order'
  BY <1>1, <1>2, <1>5, <1>6 DEF Order
<1> QED BY <1>3, <1>4, <1>7 DEF RInv

\* The line when the channels are known.
LEMMA LineParts ==
  ASSUME TypeOK
  PROVE  /\ handled \in Seq(Views) /\ view_q \in Seq(Views) /\ tri_q \in Seq(Views)
         /\ <<>> \in Seq(Views)
         /\ handled \o view_q \in Seq(Views)
         /\ version \in Versions /\ from \in Versions /\ Sent \in Int /\ built \in Int
<1>1. /\ handled \in Seq(Views) /\ view_q \in Seq(Views) /\ tri_q \in Seq(Views)
      /\ version \in Versions /\ from \in Versions
  BY DEF TypeOK
<1>2. built \in Int
  BY ViewAssumption, SMT DEF TypeOK
<1> QED BY <1>1, <1>2, SMT DEF Sent

LEMMA StepInv == RInv /\ [Next]_vars => RInv'
<1> SUFFICES ASSUME RInv, [Next]_vars PROVE RInv'
  OBVIOUS
<1> USE DEF pipeVars, builderVars
<1>0. TypeOK /\ Round /\ Ends /\ Order
  BY DEF RInv
<1>1. ASSUME NEW s \in Symbols, Change(s) PROVE RInv'
  <2>1. /\ bpc' = bpc /\ waiting' = waiting /\ got' = got /\ from' = from /\ built' = built
        /\ tri_q' = tri_q /\ shutdown_tx' = shutdown_tx
        /\ fpc' = fpc /\ view_q' = view_q /\ dpc' = dpc /\ handled' = handled
    BY <1>1 DEF Change
  <2>2. version' \in Versions /\ \A t \in Symbols : version[t] <= version'[t]
    BY <1>0, <1>1, ViewAssumption, SMT DEF Change, TypeOK, Versions
  <2>3. TypeOK'
    BY <1>0, <2>1, <2>2 DEF TypeOK
  <2>4. Line' = Line /\ Sent' = Sent
    BY <2>1 DEF Line, Sent
  <2>5. ASSUME NEW t \in Symbols PROVE version[t] \in Int /\ version'[t] \in Int /\ from[t] \in Int
    BY <1>0, <2>2, ViewAssumption, SMT DEF TypeOK, Versions
  <2>6. ASSUME NEW j \in 1..Len(Line), NEW t \in Symbols PROVE Line[j].books[t] \in Int
    <3>1. Line[j] \in Views
      BY <1>0, LineTyped, SMT
    <3> QED BY <3>1, ViewTyped, SMT
  <2>7. Behind(Line, version')
    BY <1>0, <2>2, <2>5, <2>6, SMT DEF Order, Behind
  <2>8. Order'
    BY <1>0, <2>4, <2>7 DEF Order
  <2>9. \A t \in DOMAIN got : t \in Symbols /\ got[t] \in Int
    BY <1>0, ViewAssumption, SMT DEF TypeOK
  <2>10. /\ \A t \in Symbols : from[t] <= version'[t]
         /\ (\A t \in DOMAIN got : from[t] <= got[t] /\ got[t] <= version[t])
              => \A t \in DOMAIN got : from[t] <= got[t] /\ got[t] <= version'[t]
    BY <1>0, <2>2, <2>5, <2>9, SMT DEF Round
  <2>11. Round'
    BY <1>0, <2>1, <2>4, <2>10 DEF Round
  <2>12. Ends'
    BY <1>0, <2>1 DEF Ends
  <2> QED BY <2>3, <2>8, <2>11, <2>12 DEF RInv
<1>2. CASE Tick
  <2>1. /\ bpc' = "fetch" /\ waiting' = Symbols /\ got' = <<>> /\ from' = version
        /\ built' = built /\ Line' = Line /\ version' = version /\ Sent' = Sent /\ Sent \in Int
    BY <1>2, <1>0, LineParts DEF Tick, NoneYet, Line, Sent
  <2>2. DOMAIN got' = {} /\ got' = [s \in DOMAIN got' |-> got'[s]]
    BY <2>1, SMT
  <2>3. \A s \in Symbols : version[s] <= version[s]
    BY <1>0, ViewAssumption, SMT DEF TypeOK, Versions
  <2>4. Behind(Line, version)
    BY <1>0 DEF Order
  <2>5. Round'
    BY <2>1, <2>2, <2>3, <2>4 DEF Round
  <2>6. version \in Versions /\ built \in 0..MaxViews
    BY <1>0 DEF TypeOK
  <2>7. UNCHANGED <<version, tri_q, shutdown_tx, pipeVars>>
    BY <1>2 DEF Tick
  <2>8. Sent <= Sent'
    BY <2>1, SMT
  <2> QED BY <2>1, <2>2, <2>5, <2>6, <2>7, <2>8, BuilderQuiet
<1>3. ASSUME NEW s \in Symbols, FetchOk(s) PROVE RInv'
  <2>1. /\ bpc = "fetch" /\ bpc' = bpc /\ built < MaxViews /\ waiting' = waiting \ {s}
        /\ from' = from /\ built' = built /\ Line' = Line /\ version' = version
        /\ Sent' = Sent /\ Sent \in Int
        /\ got' = [t \in DOMAIN got \cup {s} |-> IF t = s THEN version[s] ELSE got[t]]
    BY <1>3, <1>0, LineParts DEF FetchOk, Line, Sent
  <2>2. /\ DOMAIN got' = DOMAIN got \cup {s} /\ got'[s] = version[s]
        /\ \A t \in DOMAIN got \ {s} : got'[t] = got[t]
        /\ got' = [t \in DOMAIN got' |-> got'[t]]
    BY <2>1, Zenon
  <2>3. version[s] \in 0..MaxChanges /\ from[s] <= version[s]
    BY <1>0 DEF TypeOK, Versions, Round
  <2>4. version[s] <= version[s]
    BY <2>3, ViewAssumption, SMT
  <2>5. \A t \in DOMAIN got' : from[t] <= got'[t] /\ got'[t] <= version[t]
    BY <1>0, <2>1, <2>2, <2>3, <2>4 DEF Round
  <2>6. \A t \in DOMAIN got' : got'[t] \in 0..MaxChanges
    BY <1>0, <2>2, <2>3 DEF TypeOK
  <2>7. Round'
    BY <1>0, <2>1, <2>2, <2>5 DEF Round
  <2>8. /\ bpc' \in {"select", "fetch", "send", "ended"} /\ waiting' \subseteq Symbols
        /\ from' \in Versions /\ built' \in 0..MaxViews /\ DOMAIN got' \subseteq Symbols
    BY <1>0, <2>1, <2>2 DEF TypeOK
  <2>9. UNCHANGED <<version, tri_q, shutdown_tx, pipeVars>>
    BY <1>3 DEF FetchOk
  <2>10. Sent <= Sent' /\ Sent' \in Int
    BY <2>1, SMT
  <2> QED BY <2>6, <2>7, <2>8, <2>9, <2>10, BuilderQuiet
<1>4. ASSUME NEW s \in Symbols, FetchErr(s) PROVE RInv'
  <2>1. /\ bpc' = bpc /\ waiting' = waiting \ {s} /\ got' = got /\ from' = from
        /\ built' = built /\ Line' = Line /\ version' = version /\ Sent' = Sent /\ Sent \in Int
    BY <1>4, <1>0, LineParts DEF FetchErr, Line, Sent
  <2>2. Round'
    BY <1>0, <2>1 DEF Round
  <2>3. /\ bpc' \in {"select", "fetch", "send", "ended"} /\ waiting' \subseteq Symbols
        /\ from' \in Versions /\ built' \in 0..MaxViews /\ DOMAIN got' \subseteq Symbols
        /\ \A t \in DOMAIN got' : got'[t] \in 0..MaxChanges
    BY <1>0, <2>1 DEF TypeOK
  <2>4. UNCHANGED <<version, tri_q, shutdown_tx, pipeVars>>
    BY <1>4 DEF FetchErr
  <2>5. Sent <= Sent' /\ Sent' \in Int
    BY <2>1, SMT
  <2> QED BY <2>2, <2>3, <2>4, <2>5, BuilderQuiet
<1>5. CASE NoView \/ DropTick \/ Shutdown
  <2>1. /\ bpc' \in {"select", "ended"} /\ waiting' = waiting /\ got' = got /\ from' = from
        /\ built' = built /\ Line' = Line /\ version' = version
        /\ UNCHANGED <<version, tri_q, shutdown_tx, pipeVars>>
    BY <1>5 DEF NoView, DropTick, Shutdown, Line
  <2>2. Sent \in Int /\ built \in Int
    BY <1>0, LineParts
  <2>3. Sent' = built /\ Sent <= Sent' /\ Sent' \in Int
    BY <2>1, <2>2, SMT DEF Sent
  <2>4. Round'
    BY <1>0, <2>1 DEF Round
  <2>5. /\ bpc' \in {"select", "fetch", "send", "ended"} /\ waiting' \subseteq Symbols
        /\ from' \in Versions /\ built' \in 0..MaxViews /\ DOMAIN got' \subseteq Symbols
        /\ \A t \in DOMAIN got' : got'[t] \in 0..MaxChanges
    BY <1>0, <2>1 DEF TypeOK
  <2> QED BY <2>1, <2>3, <2>4, <2>5, BuilderQuiet
<1>6. ASSUME Complete PROVE built + 1 \in 1..MaxViews /\ built < MaxViews /\ DOMAIN got = Symbols
  <2>1. built < MaxViews /\ DOMAIN got = Symbols
    BY <1>0, <1>6, ViewAssumption DEF Complete, Round
  <2> QED BY <1>0, <2>1, ViewAssumption, SMT DEF TypeOK
<1>7. CASE TrySendFails
  <2>1. /\ Complete /\ bpc = "fetch" /\ bpc' = "send" /\ waiting' = waiting /\ got' = got
        /\ from' = from /\ built' = built + 1 /\ Line' = Line /\ version' = version
        /\ UNCHANGED <<version, tri_q, shutdown_tx, pipeVars>>
    BY <1>7 DEF TrySendFails, Complete, Line
  <2>2. built \in 0..MaxViews
    BY <1>0 DEF TypeOK
  <2>3. Sent <= Sent' /\ Sent' \in Int /\ built' >= 1 /\ built' \in 0..MaxViews
    BY <1>6, <2>1, <2>2, ViewAssumption, SMT DEF Sent
  <2>4. Round'
    BY <1>0, <1>6, <2>1, <2>3 DEF Round
  <2>5. /\ bpc' \in {"select", "fetch", "send", "ended"} /\ waiting' \subseteq Symbols
        /\ from' \in Versions /\ DOMAIN got' \subseteq Symbols
        /\ \A t \in DOMAIN got' : got'[t] \in 0..MaxChanges
    BY <1>0, <2>1 DEF TypeOK
  <2> QED BY <2>1, <2>3, <2>4, <2>5, BuilderQuiet
<1>8. CASE TrySend
  <2>1. /\ Complete /\ HasRoom /\ fpc = "recv" /\ Offer(View(built + 1)) /\ built' = built + 1
        /\ bpc' = "select" /\ bpc = "fetch"
        /\ UNCHANGED <<version, waiting, got, from, shutdown_tx, pipeVars>>
    BY <1>0, <1>8 DEF TrySend, Complete, RxDropped, TypeOK
  <2>2. built \in Int
    BY <1>0, LineParts
  <2>3. built + 1 > Sent
    BY <2>1, <2>2, SMT DEF Sent
  <2> QED BY <1>6, <2>1, <2>3, OfferKeeps
<1>9. CASE SendWaited
  <2>1. /\ HasRoom /\ fpc = "recv" /\ Offer(View(built)) /\ built' = built
        /\ bpc' = "select" /\ bpc = "send"
        /\ UNCHANGED <<version, waiting, got, from, shutdown_tx, pipeVars>>
    BY <1>0, <1>9 DEF SendWaited, RxDropped, TypeOK
  <2>2. built \in 0..MaxViews /\ built >= 1 /\ DOMAIN got = Symbols
    BY <1>0, <2>1 DEF TypeOK, Round
  <2>3. built \in 1..MaxViews /\ built > Sent
    BY <2>1, <2>2, ViewAssumption, SMT DEF Sent
  <2> QED BY <2>1, <2>2, <2>3, OfferKeeps
<1>10. CASE StopSubscription
  <2>1. Line' = Line /\ UNCHANGED <<version, builderVars>>
    BY <1>10 DEF StopSubscription, Line
  <2>2. TypeOK'
    BY <1>0, <1>10 DEF TypeOK, StopSubscription
  <2>3. Ends'
    BY <1>0, <1>10 DEF Ends, StopSubscription
  <2> QED BY <2>1, <2>2, <2>3, LineKept
<1>11. CASE Forward
  <2>1. /\ tri_q # <<>> /\ dpc = "recv" /\ fpc = "recv" /\ view_q' = Append(view_q, Head(tri_q))
        /\ tri_q' = Tail(tri_q) /\ handled' = handled /\ fpc' = fpc /\ dpc' = dpc
        /\ shutdown_tx' = shutdown_tx /\ UNCHANGED <<version, builderVars>>
    BY <1>11 DEF Forward, DetectorGone
  <2>2. /\ handled \in Seq(Views) /\ view_q \in Seq(Views) /\ tri_q \in Seq(Views)
        /\ handled \o view_q \in Seq(Views)
    BY <1>0, LineParts
  <2>3. Head(tri_q) \in Views /\ Tail(tri_q) \in Seq(Views) /\ Len(Tail(tri_q)) <= Len(tri_q)
    BY <2>1, <2>2, SMT
  <2>4. Line' = Line
    <3>1. handled \o Append(view_q, Head(tri_q)) = Append(handled \o view_q, Head(tri_q))
      BY <2>2, <2>3, ConcatFacts, SMTT(20)
    <3>2. Append(handled \o view_q, Head(tri_q)) \o Tail(tri_q) = (handled \o view_q) \o tri_q
      BY <2>1, <2>2, MoveHead
    <3> QED BY <2>1, <3>1, <3>2 DEF Line
  <2>5. /\ tri_q' \in Seq(Views) /\ Len(tri_q') <= Capacity /\ view_q' \in Seq(Views)
    <3>1. Len(tri_q) <= Capacity
      BY <1>0 DEF TypeOK
    <3> QED BY <2>1, <2>2, <2>3, <3>1, ViewAssumption, SMT
  <2>6. TypeOK'
    BY <1>0, <2>1, <2>5 DEF TypeOK
  <2>7. Ends'
    BY <2>1 DEF Ends
  <2> QED BY <2>1, <2>4, <2>6, <2>7, LineKept
<1>12. CASE ForwardFails \/ ForwarderExit
  <2>1. /\ fpc' = "ended" /\ tri_q' = <<>> /\ view_q' = view_q /\ handled' = handled /\ dpc' = dpc
        /\ shutdown_tx' = shutdown_tx /\ UNCHANGED <<version, builderVars>>
    BY <1>12 DEF ForwardFails, ForwarderExit
  <2>2. /\ handled \in Seq(Views) /\ view_q \in Seq(Views) /\ tri_q \in Seq(Views)
        /\ <<>> \in Seq(Views) /\ handled \o view_q \in Seq(Views)
        /\ version \in Versions /\ from \in Versions /\ Sent \in Int
    BY <1>0, LineParts
  <2>3. Len(<<>>) <= Capacity
    BY ViewAssumption, SMT
  <2>4. TypeOK'
    BY <1>0, <2>1, <2>2, <2>3 DEF TypeOK
  <2>5. Ends'
    BY <1>0, <2>1 DEF Ends
  <2>6. Line' = (handled \o view_q) \o <<>> /\ Line = (handled \o view_q) \o tri_q
    BY <2>1 DEF Line
  <2>7. ((handled \o view_q) \o tri_q) \o <<>> = (handled \o view_q) \o tri_q
    <3>1. (handled \o view_q) \o tri_q \in Seq(Views)
      BY <2>2
    <3> QED BY <3>1, ConcatEmptySeq
  <2>8. OneRound(Line) /\ Behind(Line, version) /\ Numbered(Line, Sent)
    BY <1>0 DEF Order
  <2>9. OneRound(Line') /\ Behind(Line', version) /\ Numbered(Line', Sent)
    BY <2>2, <2>6, <2>7, <2>8, DropMiddle
  <2>10. Behind(Line, from) => Behind(Line', from)
    BY <2>2, <2>6, <2>7, <2>8, DropMiddle
  <2> QED BY <2>1, <2>4, <2>5, <2>9, <2>10, LineCut
<1>13. CASE Detect
  <2>1. /\ view_q # <<>> /\ dpc = "recv" /\ handled' = Append(handled, Head(view_q))
        /\ view_q' = Tail(view_q) /\ tri_q' = tri_q /\ fpc' = fpc /\ dpc' = dpc
        /\ shutdown_tx' = shutdown_tx /\ UNCHANGED <<version, builderVars>>
    BY <1>13 DEF Detect
  <2>2. handled \in Seq(Views) /\ view_q \in Seq(Views) /\ tri_q \in Seq(Views)
    BY <1>0, LineParts
  <2>3. handled' \in Seq(Views) /\ view_q' \in Seq(Views)
    BY <2>1, <2>2, SMT
  <2>4. Line' = Line
    BY <2>1, <2>2, MoveHead DEF Line
  <2>5. TypeOK'
    BY <1>0, <2>1, <2>3 DEF TypeOK
  <2>6. Ends'
    BY <1>0, <2>1 DEF Ends
  <2> QED BY <2>1, <2>4, <2>5, <2>6, LineKept
<1>14. CASE DetectorPanics
  <2>1. /\ dpc' = "panicked" /\ view_q' = <<>> /\ tri_q' = tri_q /\ fpc' = fpc /\ handled' = handled
        /\ shutdown_tx' = shutdown_tx /\ UNCHANGED <<version, builderVars>>
    BY <1>14 DEF DetectorPanics
  <2>2. /\ handled \in Seq(Views) /\ view_q \in Seq(Views) /\ tri_q \in Seq(Views)
        /\ <<>> \in Seq(Views)
        /\ version \in Versions /\ from \in Versions /\ Sent \in Int
    BY <1>0, LineParts
  <2>3. TypeOK'
    BY <1>0, <2>1, <2>2 DEF TypeOK
  <2>4. Ends'
    BY <1>0, <2>1 DEF Ends
  <2>5. Line' = handled \o tri_q
    BY <2>1, <2>2, ConcatEmptySeq DEF Line
  <2>6. OneRound(Line) /\ Behind(Line, version) /\ Numbered(Line, Sent)
    BY <1>0 DEF Order
  <2>7. OneRound(Line') /\ Behind(Line', version) /\ Numbered(Line', Sent)
    BY <2>2, <2>5, <2>6, DropMiddle DEF Line
  <2>8. Behind(Line, from) => Behind(Line', from)
    BY <2>2, <2>5, <2>6, DropMiddle DEF Line
  <2> QED BY <2>1, <2>3, <2>4, <2>7, <2>8, LineCut
<1>15. CASE DetectorExit
  <2>1. /\ dpc' = "ended" /\ view_q = <<>> /\ fpc = "ended" /\ view_q' = view_q /\ tri_q' = tri_q
        /\ fpc' = fpc /\ handled' = handled /\ shutdown_tx' = shutdown_tx
        /\ UNCHANGED <<version, builderVars>>
    BY <1>15 DEF DetectorExit
  <2>2. Line' = Line
    BY <2>1 DEF Line
  <2>3. TypeOK'
    BY <1>0, <2>1 DEF TypeOK
  <2>4. Ends'
    BY <1>0, <2>1 DEF Ends
  <2> QED BY <2>1, <2>2, <2>3, <2>4, LineKept
<1>16. CASE UNCHANGED vars
  <2>1. Line' = Line /\ UNCHANGED <<version, builderVars>>
    BY <1>16 DEF vars, Line
  <2>2. TypeOK'
    BY <1>0, <1>16 DEF TypeOK, vars
  <2>3. Ends'
    BY <1>0, <1>16 DEF Ends, vars
  <2> QED BY <2>1, <2>2, <2>3, LineKept
<1> QED
  BY <1>1, <1>2, <1>3, <1>4, <1>5, <1>7, <1>8, <1>9, <1>10, <1>11, <1>12, <1>13, <1>14, <1>15,
     <1>16, Zenon DEF Next, Builder, Ended

LEMMA AlwaysRInv == Spec => []RInv
BY InitInv, StepInv, PTL DEF Spec

\* Type correctness: among other things, the channel never holds more than its
\* capacity (triview.rs:99, 139).
THEOREM TypeCorrect == Spec => []TypeOK
<1>1. RInv => TypeOK
  BY DEF RInv
<1> QED BY <1>1, AlwaysRInv, PTL

\* triview.rs:110-125: no view mixes the results of two ticks, and the views do not
\* overlap, whatever is received, under way or lost.
THEOREM RoundsInOrder == Spec => []BooksOfOneRound
<1>1. RInv => BooksOfOneRound
  BY DEF RInv, Order, OneRound, BooksOfOneRound
<1> QED BY <1>1, AlwaysRInv, PTL

-----------------------------------------------------------------------------
(* The refinement. *)

\* The first of what is pending is the first of what the detector can receive.
LEMMA HeadOfTwo ==
  ASSUME NEW S, NEW a \in Seq(S), NEW b \in Seq(S), a # <<>>
  PROVE  /\ a \o b # <<>> /\ Head(a \o b) = Head(a) /\ Tail(a \o b) = Tail(a) \o b
<1>1. /\ Len(a) \in Nat \ {0} /\ Tail(a) \in Seq(S) /\ a \o b \in Seq(S)
      /\ Len(a \o b) = Len(a) + Len(b)
  BY SMT
<1>2. a \o b # <<>> /\ Head(a \o b) = Head(a)
  BY <1>1, SMT
<1>3. /\ Tail(a \o b) \in Seq(S) /\ Tail(a) \o b \in Seq(S)
      /\ Len(Tail(a \o b)) = Len(a) + Len(b) - 1
      /\ Len(Tail(a) \o b) = Len(a) + Len(b) - 1
  BY <1>1, <1>2, SMT
<1>4. ASSUME NEW i \in 1..Len(a) + Len(b) - 1 PROVE Tail(a \o b)[i] = (Tail(a) \o b)[i]
  BY <1>1, <1>2, SMT
<1>5. Tail(a \o b) = Tail(a) \o b
  BY <1>3, <1>4, SeqEqual
<1> QED BY <1>2, <1>5

\* What is offered to the channel is accepted by the stream, or, when the detector is
\* gone, nothing.
LEMMA OfferAccepts ==
  ASSUME RInv, NEW n \in 1..MaxViews, n > Sent, Offer(View(n)), DOMAIN got = Symbols,
         bpc \in {"fetch", "send"}, fpc = "recv", UNCHANGED pipeVars
  PROVE  Stream!Accept \/ UNCHANGED Stream!vars
<1> DEFINE v == View(n)
<1>0. TypeOK /\ Round /\ Ends /\ Order
  BY DEF RInv
<1>1. /\ tri_q' = Append(tri_q, v) /\ view_q' = view_q /\ handled' = handled /\ dpc' = dpc
      /\ v.nr = n /\ v.books = got
  BY DEF Offer, pipeVars, View
<1>2. /\ handled \in Seq(Views) /\ view_q \in Seq(Views) /\ tri_q \in Seq(Views)
      /\ Sent \in Int /\ from \in Versions
  BY <1>0, LineParts
<1>3. v \in Views
  <2>1. got = [s \in Symbols |-> got[s]] /\ \A s \in Symbols : got[s] \in 0..MaxChanges
    BY <1>0 DEF Round, TypeOK
  <2>2. got \in Versions
    BY <2>1 DEF Versions
  <2> QED BY <1>2, <2>2 DEF View, Views
<1> HIDE DEF v
<1>4. CASE dpc = "recv"
  <2> DEFINE p == view_q \o tri_q
  <2>1. p \in Seq(Views) /\ Len(p) \in Nat /\ view_q \o Append(tri_q, v) = Append(p, v)
    BY <1>2, <1>3, ConcatFacts
  <2>2. Pending = p /\ Pending' = Append(p, v) /\ Status = "open" /\ Status' = Status
    BY <1>1, <1>4, <2>1 DEF Pending, Status
  <2>3. Line = handled \o p
    BY <1>2, ConcatFacts DEF Line
  <2>4. /\ \A i \in 1..Len(p) : p[i] = Line[Len(handled) + i]
        /\ \A i \in 1..Len(p) : Len(handled) + i \in 1..Len(Line)
        /\ \A i \in 1..Len(handled) : handled[i] = Line[i] /\ i \in 1..Len(Line)
    BY <1>2, <2>1, <2>3, SMT
  <2> HIDE DEF p
  <2>5. ASSUME NEW i \in 1..Len(Line) PROVE Stream!Precedes(Line[i], v)
    <3>1. Line[i] \in Views
      BY <1>0, LineTyped, SMT
    <3>2. Line[i].nr <= Sent /\ Line[i].nr \in Int
      BY <1>0, <3>1, ViewAssumption, SMT DEF Order, Numbered, Views
    <3>3. Line[i].nr < v.nr
      BY <1>1, <1>2, <3>2, SMT
    <3>4. ASSUME NEW s \in Symbols PROVE Line[i].books[s] <= v.books[s]
      <4>1. Line[i].books[s] <= from[s] /\ from[s] <= got[s]
        BY <1>0 DEF Round, Behind
      <4>2. Line[i].books[s] \in Int /\ from[s] \in Int /\ got[s] \in Int
        BY <1>0, <1>2, <3>1, ViewTyped, ViewAssumption, SMT DEF Versions, TypeOK
      <4> QED BY <1>1, <4>1, <4>2, SMT
    <3> QED BY <3>3, <3>4 DEF Stream!Precedes
  <2>6. /\ \A i \in 1..Len(p) : Stream!Precedes(p[i], v)
        /\ \A i \in 1..Len(handled) : Stream!Precedes(handled[i], v)
    BY <2>4, <2>5
  <2>7. Append(p, v)[Len(p) + 1] = v /\ Len(Append(p, v)) = Len(p) + 1
    BY <1>3, <2>1, SMT
  <2> QED BY <1>1, <2>2, <2>6, <2>7 DEF Stream!Accept
<1>5. CASE dpc = "panicked"
  BY <1>1, <1>5 DEF Pending, Status, Stream!vars
<1>6. dpc # "ended"
  BY <1>0 DEF Ends
<1> QED BY <1>0, <1>4, <1>5, <1>6 DEF TypeOK

LEMMA StepRefines == RInv /\ [Next]_vars => [Stream!Next]_(Stream!vars)
<1> SUFFICES ASSUME RInv, [Next]_vars PROVE Stream!Next \/ UNCHANGED Stream!vars
  OBVIOUS
<1> USE DEF pipeVars, builderVars
<1>0. TypeOK /\ Round /\ Ends /\ Order
  BY DEF RInv
<1>1. ASSUME UNCHANGED <<tri_q, view_q, dpc, handled>> PROVE UNCHANGED Stream!vars
  BY <1>1 DEF Pending, Status, Stream!vars
<1>2. ASSUME Complete PROVE built + 1 \in 1..MaxViews /\ DOMAIN got = Symbols
  <2>1. built < MaxViews /\ DOMAIN got = Symbols
    BY <1>0, <1>2, ViewAssumption DEF Complete, Round
  <2> QED BY <1>0, <2>1, ViewAssumption, SMT DEF TypeOK
<1>3. CASE TrySend
  <2>1. /\ Complete /\ fpc = "recv" /\ Offer(View(built + 1)) /\ bpc = "fetch" /\ UNCHANGED pipeVars
    BY <1>0, <1>3 DEF TrySend, Complete, RxDropped, TypeOK
  <2>2. built \in Int
    BY <1>0, LineParts
  <2>3. built + 1 > Sent
    BY <2>1, <2>2, SMT DEF Sent
  <2> QED BY <1>2, <2>1, <2>3, OfferAccepts DEF Stream!Next
<1>4. CASE SendWaited
  <2>1. fpc = "recv" /\ Offer(View(built)) /\ bpc = "send" /\ UNCHANGED pipeVars
    BY <1>0, <1>4 DEF SendWaited, RxDropped, TypeOK
  <2>2. built \in 0..MaxViews /\ built >= 1 /\ DOMAIN got = Symbols
    BY <1>0, <2>1 DEF TypeOK, Round
  <2>3. built \in 1..MaxViews /\ built > Sent
    BY <2>1, <2>2, ViewAssumption, SMT DEF Sent
  <2> QED BY <2>1, <2>2, <2>3, OfferAccepts DEF Stream!Next
<1>5. /\ handled \in Seq(Views) /\ view_q \in Seq(Views) /\ tri_q \in Seq(Views)
  BY <1>0, LineParts
<1>6. CASE Forward
  <2>1. /\ tri_q # <<>> /\ dpc' = dpc /\ view_q' = Append(view_q, Head(tri_q))
        /\ tri_q' = Tail(tri_q) /\ handled' = handled
    BY <1>6 DEF Forward
  <2>2. view_q' \o tri_q' = view_q \o tri_q
    BY <1>5, <2>1, MoveHead
  <2> QED BY <2>1, <2>2 DEF Pending, Status, Stream!vars
<1>7. CASE ForwardFails
  <2>1. dpc = "panicked" /\ dpc' = dpc /\ handled' = handled
    BY <1>0, <1>7 DEF ForwardFails, DetectorGone, TypeOK, Ends
  <2> QED BY <2>1 DEF Pending, Status, Stream!vars
<1>8. CASE ForwarderExit
  BY <1>1, <1>8 DEF ForwarderExit, StreamEnded
<1>9. CASE Detect
  <2>1. /\ view_q # <<>> /\ dpc = "recv" /\ dpc' = dpc /\ handled' = Append(handled, Head(view_q))
        /\ view_q' = Tail(view_q) /\ tri_q' = tri_q
    BY <1>9 DEF Detect
  <2>2. /\ Pending = view_q \o tri_q /\ Pending' = Tail(view_q) \o tri_q
        /\ Status = "open" /\ Status' = Status
    BY <2>1 DEF Pending, Status
  <2>3. Pending # <<>> /\ Head(Pending) = Head(view_q) /\ Pending' = Tail(Pending)
    BY <1>5, <2>1, <2>2, HeadOfTwo
  <2> QED BY <2>1, <2>2, <2>3 DEF Stream!Next, Stream!Receive
<1>10. CASE DetectorPanics
  <2>1. dpc = "recv" /\ dpc' = "panicked" /\ handled' = handled
    BY <1>10 DEF DetectorPanics
  <2> QED BY <2>1 DEF Pending, Status, Stream!Next, Stream!Abandon
<1>11. CASE DetectorExit
  <2>1. /\ dpc = "recv" /\ dpc' = "ended" /\ handled' = handled /\ view_q = <<>> /\ tri_q = <<>>
        /\ view_q' = view_q /\ tri_q' = tri_q
    BY <1>0, <1>11 DEF DetectorExit, Ends
  <2>2. view_q \o tri_q = <<>>
    BY <2>1, SMT
  <2> QED BY <2>1, <2>2 DEF Pending, Status, Stream!Next, Stream!Complete
<1>12. CASE \/ \E s \in Symbols : Change(s) \/ FetchOk(s) \/ FetchErr(s)
            \/ Tick \/ NoView \/ TrySendFails \/ DropTick \/ Shutdown \/ StopSubscription
  BY <1>1, <1>12 DEF Change, FetchOk, FetchErr, Tick, NoView, TrySendFails, DropTick, Shutdown,
                     StopSubscription
<1>13. CASE UNCHANGED vars
  BY <1>1, <1>13 DEF vars
<1> QED
  BY <1>3, <1>4, <1>6, <1>7, <1>8, <1>9, <1>10, <1>11, <1>12, <1>13, Zenon
  DEF Next, Builder, Ended

\* triview.rs:103-173, mock_execution_demo.rs:157-169: the subscription, the forwarder
\* and the detector implement the stream of ViewStream: what is received comes in the
\* order it was made, never twice, never behind the end.
THEOREM StreamRefinement == Spec => ImplementsViewStream
<1>1. Init => Stream!Init
  <2>1. ASSUME Init PROVE Pending = <<>> /\ handled = <<>> /\ Status = "open"
    BY <2>1, ConcatEmptySeq, SMT DEF Init, Pending, Status
  <2> QED BY <2>1 DEF Stream!Init
<1> QED BY <1>1, StepRefines, AlwaysRInv, PTL DEF Spec, ImplementsViewStream, Stream!Spec
=============================================================================

--------------------------- MODULE PlanningProofs ---------------------------
(***************************************************************************)
(* Proofs about Planning, for every view and configuration: fractions and   *)
(* what rounding to a step does to them, what the detector finds, and what  *)
(* the checks and the planner make of it.                                   *)
(***************************************************************************)
EXTENDS Planning, TLAPS

-----------------------------------------------------------------------------
(* Fractions. *)

\* Division with a positive divisor rounds down.
LEMMA DivBounds ==
  ASSUME NEW a \in Int, NEW b \in Nat \ {0}
  PROVE  /\ a \div b \in Int
         /\ (a \div b) * b <= a
         /\ a < (a \div b) * b + b
BY SMT

\* Rounding down is the only multiple in that range.
LEMMA DivUnique ==
  ASSUME NEW k \in Int, NEW b \in Nat \ {0}
  PROVE  (k * b) \div b = k
<1> DEFINE q == (k * b) \div b
<1>1. k * b \in Int /\ q \in Int /\ q * b <= k * b /\ k * b < q * b + b
  BY DivBounds, SMT
<1>2. q * b + b = (q + 1) * b
  BY <1>1, SMT
<1>3. ~(q < k)
  <2> SUFFICES ASSUME q < k PROVE FALSE
    OBVIOUS
  <2>1. q + 1 <= k
    BY <1>1, SMT
  <2>2. (q + 1) * b <= k * b
    BY <2>1, <1>1, SMT
  <2> QED BY <2>2, <1>1, <1>2, SMT
<1>4. ~(k < q)
  <2> SUFFICES ASSUME k < q PROVE FALSE
    OBVIOUS
  <2>1. k + 1 <= q
    BY <1>1, SMT
  <2>2. (k + 1) * b <= q * b
    BY <2>1, <1>1, SMT
  <2>3. (k + 1) * b = k * b + b
    BY <1>1, SMT
  <2> QED BY <2>2, <2>3, <1>1, SMT
<1> QED BY <1>1, <1>3, <1>4, SMT

\* A product of positive numbers is positive.
LEMMA ProductPositive ==
  ASSUME NEW a \in Nat \ {0}, NEW b \in Nat \ {0}
  PROVE  a * b \in Nat \ {0}
BY SMT

\* Arithmetic stays within the fractions.
LEMMA ArithmeticTyped ==
  ASSUME NEW x \in Fractional, NEW y \in Fractional
  PROVE  /\ Plus(x, y) \in Fractional
         /\ Minus(x, y) \in Fractional
         /\ Times(x, y) \in Fractional
<1>1. x.num \in Int /\ y.num \in Int /\ x.den \in Nat \ {0} /\ y.den \in Nat \ {0}
  BY DEF Fractional
<1>2. x.den * y.den \in Nat \ {0}
  BY <1>1, ProductPositive
<1> QED BY <1>1, <1>2, SMT DEF Plus, Minus, Times, Frac, Fractional

\* The quotient by a positive fraction is a fraction.
LEMMA OverTyped ==
  ASSUME NEW x \in Fractional, NEW y, Positive(y)
  PROVE  Over(x, y) \in Fractional
<1>1. y \in Fractional /\ y.num > 0
  BY SMT DEF Positive, Less, Zero, Whole, Frac, Fractional
<1>2. x.num \in Int /\ y.num \in Nat \ {0} /\ x.den \in Nat \ {0} /\ y.den \in Nat \ {0}
  BY <1>1, SMT DEF Fractional
<1>3. x.den * y.num \in Nat \ {0}
  BY <1>2, ProductPositive
<1> QED BY <1>2, <1>3, SMT DEF Over, Frac, Fractional

LEMMA ConstantsTyped == Zero \in Fractional /\ One \in Fractional
BY SMT DEF Zero, One, Whole, Frac, Fractional

\* Rounding to a positive step before the clipping at zero: the result is a multiple
\* of the step, not above the quantity, and less than a step below it.
LEMMA RoundedDown ==
  ASSUME NEW qty \in Fractional, NEW step, Positive(step),
         NEW x, x = Times(Whole(Floor(Over(qty, step))), step)
  PROVE  /\ x \in Fractional
         /\ Same(x, Times(Whole(Floor(Over(x, step))), step))
         /\ AtMost(x, qty)
         /\ Less(qty, Plus(x, step))
<1>1. step \in Fractional /\ step.num > 0
  BY SMT DEF Positive, Less, Zero, Whole, Frac, Fractional
<1> DEFINE qn == qty.num
           qd == qty.den
           sn == step.num
           sd == step.den
           k == (qn * sd) \div (qd * sn)
<1>2. qn \in Int /\ sn \in Nat \ {0} /\ qd \in Nat \ {0} /\ sd \in Nat \ {0}
  BY <1>1, SMT DEF Fractional
<1>3. qd * sn \in Nat \ {0} /\ qn * sd \in Int
  BY <1>2, ProductPositive, SMT
<1>4. k \in Int /\ k * (qd * sn) <= qn * sd /\ qn * sd < k * (qd * sn) + (qd * sn)
  BY <1>3, DivBounds
<1>5. x = Frac(k * sn, sd)
  BY <1>2, <1>4, SMT DEF Times, Whole, Floor, Over, Frac
<1>6. k * sn \in Int
  BY <1>2, <1>4, SMT
<1>7. x \in Fractional
  BY <1>5, <1>6, <1>2, SMT DEF Frac, Fractional
<1>8. Same(x, Times(Whole(Floor(Over(x, step))), step))
  <2>1. Floor(Over(x, step)) = ((k * sn) * sd) \div (sd * sn)
    BY <1>5 DEF Floor, Over, Frac
  <2>2. sd * sn \in Nat \ {0}
    BY <1>2, ProductPositive
  <2>3. (k * sn) * sd = k * (sd * sn)
    BY <1>2, <1>4, SMT
  <2>4. Floor(Over(x, step)) = k
    BY <2>1, <2>2, <2>3, <1>4, DivUnique
  <2>5. Times(Whole(k), step) = Frac(k * sn, sd)
    BY <1>2, <1>4, SMT DEF Times, Whole, Frac
  <2> QED BY <2>4, <2>5, <1>5 DEF Same, Frac
<1>9. AtMost(x, qty)
  <2>1. (k * sn) * qd = k * (qd * sn)
    BY <1>2, <1>4, SMT
  <2>2. ~(qn * sd < (k * sn) * qd)
    BY <2>1, <1>3, <1>4, SMT
  <2> QED BY <2>2, <1>5 DEF AtMost, Less, Frac
<1>10. Less(qty, Plus(x, step))
  <2> DEFINE t == k * sn + sn
  <2>1. Plus(x, step) = Frac((k * sn) * sd + sn * sd, sd * sd)
    BY <1>5 DEF Plus, Frac
  <2>2. (k * sn) * sd + sn * sd = t * sd /\ t \in Int
    BY <1>2, <1>6, SMT
  <2>3. k * (qd * sn) + (qd * sn) = t * qd
    BY <1>2, <1>4, <1>6, SMT
  <2>4. qn * sd < t * qd /\ t * qd \in Int
    BY <2>2, <2>3, <1>2, <1>4, SMT
  <2>5. (qn * sd) * sd < (t * qd) * sd
    BY <2>4, <1>3, <1>2, SMT
  <2>6. qn * (sd * sd) < (t * sd) * qd
    <3>1. (qn * sd) * sd = qn * (sd * sd)
      BY <1>2, SMT
    <3>2. (t * qd) * sd = (t * sd) * qd
      BY <2>2, <1>2, SMT
    <3> QED BY <2>5, <3>1, <3>2
  <2> QED BY <2>1, <2>2, <2>6 DEF Less, Frac
<1> QED BY <1>7, <1>8, <1>9, <1>10

-----------------------------------------------------------------------------
(* Types. *)

Prices == {p \in Fractional : Positive(p)}
LegSet == [symbol : Symbols, side_buy : BOOLEAN, price : Prices, qty : Fractional]
Opportunities ==
  [estimated_profit : Fractional, implied_price : Fractional, legs : Seq(LegSet)]
Verdicts == {"unprofitable", "unbuildable", "planned"}
Results == [verdict : Verdicts, legs : Seq(LegSet)]

\* The best price of a side that has one.
LEMMA BestPrice ==
  ASSUME NEW side \in Seq(Fractional), side # <<>>,
         \A i \in 1..Len(side) : Positive(side[i])
  PROVE  Positive(Head(side)) /\ Head(side) \in Fractional /\ Head(side) \in Prices
<1>1. Head(side) = side[1] /\ 1 \in 1..Len(side)
  BY SMT
<1> QED BY <1>1 DEF Positive, Prices

\* Prices multiply to a price.
LEMMA PriceProduct ==
  ASSUME NEW x, Positive(x), NEW y, Positive(y)
  PROVE  Positive(Times(x, y))
<1>1. /\ x \in Fractional /\ x.num > 0
      /\ y \in Fractional /\ y.num > 0
  BY SMT DEF Positive, Less, Zero, Whole, Frac, Fractional
<1>2. x.num \in Nat \ {0} /\ y.num \in Nat \ {0}
  BY <1>1, SMT DEF Fractional
<1>3. x.num * y.num \in Nat \ {0}
  BY <1>2, ProductPositive
<1>4. Times(x, y) \in Fractional /\ Times(x, y).num = x.num * y.num
  BY <1>1, ArithmeticTyped DEF Times, Frac
<1> QED BY <1>3, <1>4, SMT DEF Positive, Less, Zero, Whole, Frac, Fractional

LEMMA KeepTyped ==
  ASSUME NEW c \in Configs, NEW s \in Symbols
  PROVE  Keep(c.fee_map, s) \in Fractional
<1>1. Fee(c.fee_map, s) \in Fractional
  BY ConstantsTyped, PlanningAssumption DEF Fee
<1> QED BY <1>1, ConstantsTyped, ArithmeticTyped DEF Keep

LEMMA LegTyped ==
  ASSUME NEW s \in Symbols, NEW buy \in BOOLEAN, NEW price \in Prices,
         NEW qty \in Fractional
  PROVE  Leg(s, buy, price, qty) \in LegSet
BY DEF Leg, LegSet

LEMMA Triple ==
  ASSUME NEW S, NEW a \in S, NEW b \in S, NEW c \in S
  PROVE  <<a, b, c>> \in Seq(S)
OBVIOUS

LEMMA OpportunityTyped ==
  ASSUME NEW p \in Fractional, NEW i \in Fractional, NEW l \in Seq(LegSet)
  PROVE  [estimated_profit |-> p, implied_price |-> i, legs |-> l] \in Opportunities
BY DEF Opportunities

\* What is detected along either way is an opportunity.
LEMMA ForwardTyped ==
  ASSUME NEW v \in ViewSet, NEW c \in Configs, ForwardQuoted(v)
  PROVE  Forward(v, c.fee_map) \in Opportunities
<1> DEFINE ask_ab == Head(v.asks.ab)
           bid_bc == Head(v.bids.bc)
           ask_ac == Head(v.asks.ac)
           btc == Times(Over(Start, ask_ab), Keep(c.fee_map, "ab"))
           eth == Times(Over(btc, ask_ac), Keep(c.fee_map, "ac"))
           final == Times(Times(eth, bid_bc), Keep(c.fee_map, "bc"))
<1>1. "ab" \in Symbols /\ "bc" \in Symbols /\ "ac" \in Symbols
  BY DEF Symbols
<1>2. /\ Positive(ask_ab) /\ ask_ab \in Fractional /\ ask_ab \in Prices
      /\ Positive(bid_bc) /\ bid_bc \in Fractional /\ bid_bc \in Prices
      /\ Positive(ask_ac) /\ ask_ac \in Fractional /\ ask_ac \in Prices
  BY <1>1, BestPrice, PlanningAssumption DEF ForwardQuoted
<1>3. Start \in Fractional
  BY PlanningAssumption DEF Positive
<1>4. Over(Start, ask_ab) \in Fractional /\ btc \in Fractional
  BY <1>1, <1>2, <1>3, OverTyped, KeepTyped, ArithmeticTyped
<1>5. Over(btc, ask_ac) \in Fractional /\ eth \in Fractional
  BY <1>1, <1>2, <1>4, OverTyped, KeepTyped, ArithmeticTyped
<1>6. final \in Fractional /\ Minus(final, Start) \in Fractional
  BY <1>1, <1>2, <1>3, <1>5, KeepTyped, ArithmeticTyped
<1>7. Over(bid_bc, Times(ask_ab, ask_ac)) \in Fractional
  BY <1>2, PriceProduct, OverTyped
<1>8. <<Leg("ab", TRUE, ask_ab, Over(Start, ask_ab)), Leg("ac", TRUE, ask_ac, Over(btc, ask_ac)),
        Leg("bc", FALSE, bid_bc, eth)>> \in Seq(LegSet)
  <2>1. /\ Leg("ab", TRUE, ask_ab, Over(Start, ask_ab)) \in LegSet
        /\ Leg("ac", TRUE, ask_ac, Over(btc, ask_ac)) \in LegSet
        /\ Leg("bc", FALSE, bid_bc, eth) \in LegSet
    BY <1>1, <1>2, <1>4, <1>5, LegTyped
  <2> HIDE DEF btc, eth, ask_ab, ask_ac, bid_bc
  <2> QED BY <2>1, Triple
<1> HIDE DEF btc, eth, final, ask_ab, ask_ac, bid_bc
<1>9. Forward(v, c.fee_map) =
        [estimated_profit |-> Minus(final, Start),
         implied_price |-> Over(bid_bc, Times(ask_ab, ask_ac)),
         legs |-> <<Leg("ab", TRUE, ask_ab, Over(Start, ask_ab)),
                    Leg("ac", TRUE, ask_ac, Over(btc, ask_ac)), Leg("bc", FALSE, bid_bc, eth)>>]
  BY DEF Forward, btc, eth, final, ask_ab, ask_ac, bid_bc
<1> QED BY <1>6, <1>7, <1>8, <1>9, OpportunityTyped

LEMMA BackwardTyped ==
  ASSUME NEW v \in ViewSet, NEW c \in Configs, BackwardQuoted(v)
  PROVE  Backward(v, c.fee_map) \in Opportunities
<1> DEFINE ask_bc == Head(v.asks.bc)
           bid_ac == Head(v.bids.ac)
           bid_ab == Head(v.bids.ab)
           eth == Times(Over(Start, ask_bc), Keep(c.fee_map, "bc"))
           btc == Times(Times(eth, bid_ac), Keep(c.fee_map, "ac"))
           final == Times(Times(btc, bid_ab), Keep(c.fee_map, "ab"))
<1>1. "ab" \in Symbols /\ "bc" \in Symbols /\ "ac" \in Symbols
  BY DEF Symbols
<1>2. /\ Positive(ask_bc) /\ ask_bc \in Fractional /\ ask_bc \in Prices
      /\ Positive(bid_ac) /\ bid_ac \in Fractional /\ bid_ac \in Prices
      /\ Positive(bid_ab) /\ bid_ab \in Fractional /\ bid_ab \in Prices
  BY <1>1, BestPrice, PlanningAssumption DEF BackwardQuoted
<1>3. Start \in Fractional
  BY PlanningAssumption DEF Positive
<1>4. Over(Start, ask_bc) \in Fractional /\ eth \in Fractional
  BY <1>1, <1>2, <1>3, OverTyped, KeepTyped, ArithmeticTyped
<1>5. btc \in Fractional
  BY <1>1, <1>2, <1>4, KeepTyped, ArithmeticTyped
<1>6. final \in Fractional /\ Minus(final, Start) \in Fractional
  BY <1>1, <1>2, <1>3, <1>5, KeepTyped, ArithmeticTyped
<1>7. Over(Times(bid_ab, bid_ac), ask_bc) \in Fractional
  BY <1>2, ArithmeticTyped, OverTyped
<1>8. <<Leg("bc", TRUE, ask_bc, Over(Start, ask_bc)), Leg("ac", FALSE, bid_ac, eth),
        Leg("ab", FALSE, bid_ab, btc)>> \in Seq(LegSet)
  <2>1. /\ Leg("bc", TRUE, ask_bc, Over(Start, ask_bc)) \in LegSet
        /\ Leg("ac", FALSE, bid_ac, eth) \in LegSet
        /\ Leg("ab", FALSE, bid_ab, btc) \in LegSet
    BY <1>1, <1>2, <1>4, <1>5, LegTyped
  <2> HIDE DEF btc, eth, ask_bc, bid_ac, bid_ab
  <2> QED BY <2>1, Triple
<1> HIDE DEF btc, eth, final, ask_bc, bid_ac, bid_ab
<1>9. Backward(v, c.fee_map) =
        [estimated_profit |-> Minus(final, Start),
         implied_price |-> Over(Times(bid_ab, bid_ac), ask_bc),
         legs |-> <<Leg("bc", TRUE, ask_bc, Over(Start, ask_bc)), Leg("ac", FALSE, bid_ac, eth),
                    Leg("ab", FALSE, bid_ab, btc)>>]
  BY DEF Backward, btc, eth, final, ask_bc, bid_ac, bid_ab
<1> QED BY <1>6, <1>7, <1>8, <1>9, OpportunityTyped

LEMMA DetectionTyped ==
  ASSUME NEW v \in ViewSet, NEW c \in Configs, NEW m
  PROVE  detect_triangular_opportunities(v, c.fee_map, m) \in Seq(Opportunities)
<1> DEFINE Found(quoted, op) ==
             IF quoted /\ Less(m, op.estimated_profit) THEN <<op>> ELSE <<>>
<1>1. Found(ForwardQuoted(v), Forward(v, c.fee_map)) \in Seq(Opportunities)
  <2>1. CASE ForwardQuoted(v)
    BY <2>1, ForwardTyped
  <2>2. CASE ~ForwardQuoted(v)
    BY <2>2
  <2> QED BY <2>1, <2>2
<1>2. Found(BackwardQuoted(v), Backward(v, c.fee_map)) \in Seq(Opportunities)
  <2>1. CASE BackwardQuoted(v)
    BY <2>1, BackwardTyped
  <2>2. CASE ~BackwardQuoted(v)
    BY <2>2
  <2> QED BY <2>1, <2>2
<1>3. detect_triangular_opportunities(v, c.fee_map, m) =
        Found(ForwardQuoted(v), Forward(v, c.fee_map))
          \o Found(BackwardQuoted(v), Backward(v, c.fee_map))
  BY DEF detect_triangular_opportunities
<1> HIDE DEF Found
<1> QED BY <1>1, <1>2, <1>3

-----------------------------------------------------------------------------
(* The order of fractions. *)

\* A fraction that is at most zero is below a positive one and not above a product
\* that is not negative.
LEMMA OrderFacts ==
  ASSUME NEW x \in Fractional, NEW y \in Fractional
  PROVE  /\ Less(x, y) \in BOOLEAN
         /\ AtMost(x, y) <=> ~Less(y, x)
         /\ AtMost(x, x)
         /\ Less(x, y) => AtMost(x, y)
         /\ Less(Zero, x) <=> x.num > 0
         /\ AtMost(x, Zero) <=> x.num <= 0
BY SMT DEF Less, AtMost, Zero, Whole, Frac, Fractional

\* Less is transitive with AtMost.
LEMMA LessAtMost ==
  ASSUME NEW x \in Fractional, NEW y \in Fractional, NEW z \in Fractional,
         Less(x, y), AtMost(y, z)
  PROVE  Less(x, z)
<1> DEFINE a == x.num
           b == x.den
           c == y.num
           d == y.den
           e == z.num
           f == z.den
<1>1. a \in Int /\ c \in Int /\ e \in Int /\ b \in Nat \ {0} /\ d \in Nat \ {0} /\ f \in Nat \ {0}
  BY DEF Fractional
<1>2. a * d < c * b /\ c * f <= e * d
  BY <1>1, SMT DEF Less, AtMost
<1> HIDE DEF a, b, c, d, e, f
<1>3. (a * d) * f < (c * b) * f
  BY <1>1, <1>2, SMT
<1>4. (c * f) * b <= (e * d) * b
  BY <1>1, <1>2, SMT
<1>5. (c * b) * f = (c * f) * b
  BY <1>1, SMT
<1>6. (a * d) * f < (e * d) * b
  BY <1>1, <1>3, <1>4, <1>5, SMT
<1>7. (a * d) * f = (a * f) * d /\ (e * d) * b = (e * b) * d
  BY <1>1, SMT
<1>8. a * f < e * b
  <2> SUFFICES ASSUME e * b <= a * f PROVE FALSE
    BY <1>1, SMT
  <2>1. (e * b) * d <= (a * f) * d
    BY <1>1, SMT
  <2> QED BY <2>1, <1>1, <1>6, <1>7, SMT
<1> QED BY <1>8 DEF Less, a, b, e, f

\* Adding the same fraction keeps the order.
LEMMA PlusMonotone ==
  ASSUME NEW x \in Fractional, NEW y \in Fractional, NEW z \in Fractional, AtMost(x, y)
  PROVE  AtMost(Plus(x, z), Plus(y, z))
<1> DEFINE a == x.num
           b == x.den
           c == y.num
           d == y.den
           e == z.num
           f == z.den
<1>1. a \in Int /\ c \in Int /\ e \in Int /\ b \in Nat \ {0} /\ d \in Nat \ {0} /\ f \in Nat \ {0}
  BY DEF Fractional
<1>2. a * d <= c * b
  BY <1>1, SMT DEF Less, AtMost
<1>3. Plus(x, z) = Frac(a * f + e * b, b * f) /\ Plus(y, z) = Frac(c * f + e * d, d * f)
  BY DEF Plus
<1> HIDE DEF a, b, c, d, e, f
<1>4. f * f \in Nat \ {0} /\ a * d \in Int /\ c * b \in Int
  BY <1>1, ProductPositive, SMT
<1>5. (a * d) * (f * f) <= (c * b) * (f * f)
  BY <1>2, <1>4, SMT
<1>6. (a * f + e * b) * (d * f) = (a * d) * (f * f) + (e * f) * (b * d)
  <2>1. (a * f + e * b) * (d * f) = (a * f) * (d * f) + (e * b) * (d * f)
    BY <1>1, SMT
  <2>2. (a * f) * (d * f) = (a * d) * (f * f)
    BY <1>1, SMT
  <2>3. (e * b) * (d * f) = (e * f) * (b * d)
    BY <1>1, SMT
  <2> QED BY <2>1, <2>2, <2>3
<1>7. (c * f + e * d) * (b * f) = (c * b) * (f * f) + (e * f) * (b * d)
  <2>1. (c * f + e * d) * (b * f) = (c * f) * (b * f) + (e * d) * (b * f)
    BY <1>1, SMT
  <2>2. (c * f) * (b * f) = (c * b) * (f * f)
    BY <1>1, SMT
  <2>3. (e * d) * (b * f) = (e * f) * (b * d)
    BY <1>1, SMT
  <2> QED BY <2>1, <2>2, <2>3
<1>8. (a * d) * (f * f) \in Int /\ (c * b) * (f * f) \in Int /\ (e * f) * (b * d) \in Int
  BY <1>1, SMT
<1>9. (a * f + e * b) * (d * f) <= (c * f + e * d) * (b * f)
  BY <1>5, <1>6, <1>7, <1>8, SMT
<1>10. (a * f + e * b) * (d * f) \in Int /\ (c * f + e * d) * (b * f) \in Int
  BY <1>6, <1>7, <1>8, SMT
<1>11. ~((c * f + e * d) * (b * f) < (a * f + e * b) * (d * f))
  BY <1>9, <1>10, SMT
<1> QED BY <1>3, <1>11 DEF AtMost, Less, Frac

LEMMA SignOrder ==
  ASSUME NEW x \in Fractional, NEW y \in Fractional, ~Less(Zero, x), Less(Zero, y)
  PROVE  AtMost(x, y) /\ ~Less(y, x)
<1>1. /\ x.num \in Int /\ x.num <= 0 /\ y.num \in Nat \ {0}
      /\ x.den \in Nat \ {0} /\ y.den \in Nat \ {0}
  BY OrderFacts, SMT DEF Fractional
<1>2. y.num * x.den \in Nat \ {0}
  BY <1>1, ProductPositive
<1>3. x.num * y.den <= 0 /\ x.num * y.den \in Int
  BY <1>1, SMT
<1> QED BY <1>2, <1>3, SMT DEF AtMost, Less

LEMMA ValuePositive ==
  ASSUME NEW x \in Fractional, Less(Zero, x), NEW y \in Prices
  PROVE  Times(x, y) \in Fractional /\ Less(Zero, Times(x, y))
<1>1. Positive(x) /\ Positive(y)
  BY DEF Positive, Prices
<1> QED BY <1>1, PriceProduct DEF Positive

LEMMA AtMostTransitive ==
  ASSUME NEW x \in Fractional, NEW y \in Fractional, NEW z \in Fractional,
         AtMost(x, y), AtMost(y, z)
  PROVE  AtMost(x, z)
<1> SUFFICES ASSUME Less(z, x) PROVE FALSE
  BY DEF AtMost
<1>1. Less(z, y)
  BY LessAtMost
<1> QED BY <1>1 DEF AtMost

LEMMA AtMostLess ==
  ASSUME NEW x \in Fractional, NEW y \in Fractional, NEW z \in Fractional,
         AtMost(x, y), Less(y, z)
  PROVE  Less(x, z)
<1> SUFFICES ASSUME AtMost(z, x) PROVE FALSE
  BY DEF AtMost
<1>1. Less(y, x)
  BY LessAtMost
<1> QED BY <1>1 DEF AtMost

\* Same is the equality of the order.
LEMMA SameOrder ==
  ASSUME NEW x \in Fractional, NEW y \in Fractional
  PROVE  Same(x, y) <=> AtMost(x, y) /\ AtMost(y, x)
<1> DEFINE p == x.num * y.den
           q == y.num * x.den
<1>1. p \in Int /\ q \in Int
  BY SMT DEF Fractional
<1>2. /\ Same(x, y) <=> p = q
      /\ AtMost(x, y) <=> ~(q < p)
      /\ AtMost(y, x) <=> ~(p < q)
  BY DEF Same, AtMost, Less
<1> HIDE DEF p, q
<1> QED BY <1>1, <1>2, SMT

LEMMA SignFacts ==
  ASSUME NEW x \in Fractional
  PROVE  /\ Less(Zero, x) <=> x.num > 0
         /\ AtMost(Zero, x) <=> x.num >= 0
         /\ Less(Zero, x) => AtMost(Zero, x)
BY SMT DEF Less, AtMost, Zero, Whole, Frac, Fractional

LEMMA TimesCommutes ==
  ASSUME NEW x \in Fractional, NEW y \in Fractional
  PROVE  Times(x, y) = Times(y, x)
<1>1. x.num * y.num = y.num * x.num /\ x.den * y.den = y.den * x.den
  BY SMT DEF Fractional
<1> QED BY <1>1 DEF Times

LEMMA TimesMonotone ==
  ASSUME NEW x \in Fractional, NEW y \in Fractional, NEW z \in Fractional,
         AtMost(x, y), AtMost(Zero, z)
  PROVE  AtMost(Times(x, z), Times(y, z))
<1> DEFINE a == x.num
           b == x.den
           c == y.num
           d == y.den
           e == z.num
           f == z.den
<1>1. a \in Int /\ c \in Int /\ e \in Int /\ b \in Nat \ {0} /\ d \in Nat \ {0} /\ f \in Nat \ {0}
  BY DEF Fractional
<1>2. a * d <= c * b
  BY <1>1, SMT DEF Less, AtMost
<1>3. e >= 0
  BY SignFacts
<1>4. Times(x, z) = Frac(a * e, b * f) /\ Times(y, z) = Frac(c * e, d * f)
  BY DEF Times
<1> HIDE DEF a, b, c, d, e, f
<1>5. a * d \in Int /\ c * b \in Int /\ e * f \in Nat
  BY <1>1, <1>3, SMT
<1>6. (a * d) * (e * f) <= (c * b) * (e * f)
  <2> DEFINE p == a * d
             q == c * b
             r == e * f
  <2>1. p \in Int /\ q \in Int /\ r \in Nat /\ p <= q
    BY <1>2, <1>5
  <2> HIDE DEF p, q, r
  <2>2. p * r <= q * r
    BY <2>1, SMT
  <2> QED BY <2>2 DEF p, q, r
<1>7. (a * e) * (d * f) = (a * d) * (e * f)
  BY <1>1, SMT
<1>8. (c * e) * (b * f) = (c * b) * (e * f)
  BY <1>1, SMT
<1>9. (a * d) * (e * f) \in Int /\ (c * b) * (e * f) \in Int
  BY <1>5, SMT
<1>10. ~((c * e) * (b * f) < (a * e) * (d * f))
  BY <1>6, <1>7, <1>8, <1>9, SMT
<1> QED BY <1>4, <1>10 DEF AtMost, Less, Frac

LEMMA OverMonotone ==
  ASSUME NEW x \in Fractional, NEW y \in Fractional, NEW p, Positive(p), AtMost(x, y)
  PROVE  AtMost(Over(x, p), Over(y, p))
<1> DEFINE inverse == Frac(p.den, p.num)
<1>1. p \in Fractional /\ p.num > 0
  BY SignFacts DEF Positive
<1>2. inverse \in Fractional /\ inverse.num > 0
  BY <1>1, SMT DEF Frac, Fractional
<1>3. AtMost(Zero, inverse)
  BY <1>2, SignFacts
<1>4. Over(x, p) = Times(x, inverse) /\ Over(y, p) = Times(y, inverse)
  BY DEF Over, Times, Frac
<1> HIDE DEF inverse
<1> QED BY <1>2, <1>3, <1>4, TimesMonotone

\* Buying an amount and what it costs.
LEMMA TimesOver ==
  ASSUME NEW x \in Fractional, NEW p, Positive(p)
  PROVE  Same(Times(Over(x, p), p), x)
<1> DEFINE a == x.num
           b == x.den
           c == p.num
           d == p.den
<1>1. a \in Int /\ c \in Int /\ b \in Int /\ d \in Int
  BY SMT DEF Positive, Fractional
<1>2. Times(Over(x, p), p) = Frac((a * d) * c, (b * c) * d)
  BY DEF Times, Over, Frac
<1> HIDE DEF a, b, c, d
<1>3. ((a * d) * c) * b = a * ((b * c) * d)
  BY <1>1, SMT
<1> QED BY <1>2, <1>3 DEF Same, Frac, a, b

LEMMA MinusOrder ==
  ASSUME NEW x \in Fractional, NEW y \in Fractional, NEW m \in Fractional,
         AtMost(Zero, m), Less(m, Minus(x, y))
  PROVE  Less(y, x)
<1>1. Minus(x, y) \in Fractional /\ Zero \in Fractional
  BY ArithmeticTyped, ConstantsTyped
<1>2. Less(Zero, Minus(x, y))
  BY <1>1, AtMostLess
<1>3. x.num * y.den - y.num * x.den > 0
  BY <1>1, <1>2, SignFacts DEF Minus, Frac
<1>4. x.num * y.den \in Int /\ y.num * x.den \in Int
  BY SMT DEF Fractional
<1> QED BY <1>3, <1>4, SMT DEF Less

LEMMA MinusSame ==
  ASSUME NEW x \in Fractional, NEW y \in Fractional, NEW z \in Fractional, Same(x, y)
  PROVE  Same(Minus(z, x), Minus(z, y))
<1> DEFINE a == z.num
           b == z.den
           c == x.num
           d == x.den
           e == y.num
           f == y.den
<1>1. a \in Int /\ b \in Int /\ c \in Int /\ d \in Int /\ e \in Int /\ f \in Int
  BY SMT DEF Fractional
<1>2. c * f = e * d
  BY DEF Same
<1>3. Minus(z, x) = Frac(a * d - c * b, b * d) /\ Minus(z, y) = Frac(a * f - e * b, b * f)
  BY DEF Minus
<1> HIDE DEF a, b, c, d, e, f
<1>4. (a * d - c * b) * (b * f) = (a * b) * (d * f) - (b * b) * (c * f)
  <2>1. (a * d - c * b) * (b * f) = (a * d) * (b * f) - (c * b) * (b * f)
    BY <1>1, SMT
  <2>2. (a * d) * (b * f) = (a * b) * (d * f)
    BY <1>1, SMT
  <2>3. (c * b) * (b * f) = (b * b) * (c * f)
    BY <1>1, SMT
  <2> QED BY <2>1, <2>2, <2>3
<1>5. (a * f - e * b) * (b * d) = (a * b) * (d * f) - (b * b) * (e * d)
  <2>1. (a * f - e * b) * (b * d) = (a * f) * (b * d) - (e * b) * (b * d)
    BY <1>1, SMT
  <2>2. (a * f) * (b * d) = (a * b) * (d * f)
    BY <1>1, SMT
  <2>3. (e * b) * (b * d) = (b * b) * (e * d)
    BY <1>1, SMT
  <2> QED BY <2>1, <2>2, <2>3
<1> QED BY <1>2, <1>3, <1>4, <1>5 DEF Same, Frac

LEMMA TimesDistributes ==
  ASSUME NEW x \in Fractional, NEW y \in Fractional, NEW z \in Fractional
  PROVE  Same(Times(Plus(x, y), z), Plus(Times(x, z), Times(y, z)))
<1> DEFINE a == x.num
           b == x.den
           c == y.num
           d == y.den
           e == z.num
           f == z.den
           n == (a * d + c * b) * e
           m == (b * d) * f
<1>1. a \in Int /\ b \in Int /\ c \in Int /\ d \in Int /\ e \in Int /\ f \in Int
  BY SMT DEF Fractional
<1>2. /\ Times(Plus(x, y), z) = Frac(n, m)
      /\ Plus(Times(x, z), Times(y, z)) = Frac((a * e) * (d * f) + (c * e) * (b * f),
                                               (b * f) * (d * f))
  BY DEF Plus, Times, Frac
<1> HIDE DEF a, b, c, d, e, f
<1>3. (a * e) * (d * f) + (c * e) * (b * f) = n * f
  <2>1. (a * e) * (d * f) = ((a * d) * e) * f
    BY <1>1, SMT
  <2>2. (c * e) * (b * f) = ((c * b) * e) * f
    BY <1>1, SMT
  <2>3. n = (a * d) * e + (c * b) * e
    BY <1>1, SMT
  <2>4. n * f = ((a * d) * e) * f + ((c * b) * e) * f
    BY <2>3, <1>1, SMT
  <2> QED BY <2>1, <2>2, <2>4
<1>4. (b * f) * (d * f) = m * f
  BY <1>1, SMT
<1>5. n \in Int /\ m \in Int
  BY <1>1, SMT
<1> HIDE DEF n, m
<1>6. n * (m * f) = (n * f) * m
  BY <1>1, <1>5, SMT
<1> QED BY <1>2, <1>3, <1>4, <1>6 DEF Same, Frac

\* A factor of a positive product is positive if the other one is.
LEMMA TimesSign ==
  ASSUME NEW x \in Fractional, NEW y \in Fractional, Less(Zero, x), Less(Zero, Times(x, y))
  PROVE  Less(Zero, y)
<1>1. Times(x, y) \in Fractional
  BY ArithmeticTyped
<1>2. x.num \in Int /\ y.num \in Int /\ x.num > 0 /\ x.num * y.num > 0
  BY <1>1, SignFacts DEF Times, Frac, Fractional
<1>3. y.num > 0
  BY <1>2, SMT
<1> QED BY <1>3, SignFacts

-----------------------------------------------------------------------------
(* Lots. *)

\* What LotsRespected says of one leg, planned with the quantity qty.
LotOk(leg, qty) ==
  /\ Less(Zero, qty)
  /\ leg.symbol \in DOMAIN cfg.lot_rules =>
       LET rule == cfg.lot_rules[leg.symbol]
       IN  /\ AtMost(rule.min_size, qty)
           /\ AtMost(rule.min_notional, Times(qty, leg.price))
           /\ HasStep(leg.symbol) =>
                \/ LargestLot(qty, leg.qty, leg.symbol)
                \/ qty = rule.min_size /\ Less(leg.qty, Plus(qty, rule.step_size))
  /\ ~HasStep(leg.symbol) => AtMost(leg.qty, qty)

\* Whether rounded or raised, a quantity the planner lets pass obeys the rules of its
\* symbol.
LEMMA LotRespected ==
  ASSUME cfg \in Configs, NEW leg \in LegSet,
         ~TooSmall(leg, cfg.lot_rules), ~RoundedAway(leg, cfg.lot_rules)
  PROVE  LotQty(leg, cfg.lot_rules) \in Fractional /\ LotOk(leg, LotQty(leg, cfg.lot_rules))
<1> DEFINE q == LotQty(leg, cfg.lot_rules)
<1>1. leg.qty \in Fractional /\ leg.price \in Prices /\ Zero \in Fractional
  BY ConstantsTyped DEF LegSet
<1>2. CASE leg.symbol \notin DOMAIN cfg.lot_rules
  <2>1. q = leg.qty /\ ~HasStep(leg.symbol)
    BY <1>2 DEF LotQty, HasStep
  <2>2. Less(Zero, q) /\ AtMost(leg.qty, q)
    BY <2>1, <1>1, OrderFacts, SMT DEF RoundedAway, AtMost
  <2> QED BY <2>1, <2>2, <1>1, <1>2 DEF LotOk
<1>3. CASE leg.symbol \in DOMAIN cfg.lot_rules
  <2> DEFINE rule == cfg.lot_rules[leg.symbol]
             step == rule.step_size
             least == rule.min_size
             x == Times(Whole(Floor(Over(leg.qty, step))), step)
             r == round_qty_to_step(leg.qty, step)
  <2>1. step \in Fractional /\ least \in Fractional /\ rule.min_notional \in Fractional
    BY <1>3, PlanningAssumption
  <2>2. q = AtLeast(r, least) /\ (HasStep(leg.symbol) <=> Less(Zero, step))
    <3>1. q = AtLeast(r, least)
      BY <1>3 DEF LotQty
    <3>2. HasStep(leg.symbol) <=> Less(Zero, step)
      BY <1>3, Zenon DEF HasStep
    <3> QED BY <3>1, <3>2
  <2>3. TooSmall(leg, cfg.lot_rules) =
          (Less(Zero, rule.min_notional) /\ Less(Times(q, leg.price), rule.min_notional))
    BY <1>3 DEF TooSmall
  <2>4. RoundedAway(leg, cfg.lot_rules) = AtMost(q, Zero)
    BY DEF RoundedAway
  <2> HIDE DEF q, rule, step, least, x, r
  <2>5. /\ r \in Fractional
        /\ ~Less(Zero, step) => r = leg.qty
        /\ Less(Zero, step) =>
             /\ x \in Fractional /\ LargestLot(x, leg.qty, leg.symbol)
             /\ r = IF Less(x, Zero) THEN Zero ELSE x
             /\ Less(leg.qty, Plus(x, step))
    <3>1. CASE ~Less(Zero, step)
      <4>1. r = leg.qty
        BY <3>1 DEF r, round_qty_to_step, AtMost
      <4> QED BY <4>1, <3>1, <1>1
    <3>2. CASE Less(Zero, step)
      <4>1. Positive(step)
        BY <3>2, <2>1 DEF Positive
      <4>2. /\ x \in Fractional
            /\ Same(x, Times(Whole(Floor(Over(x, step))), step))
            /\ AtMost(x, leg.qty)
            /\ Less(leg.qty, Plus(x, step))
        BY <4>1, <1>1, RoundedDown DEF x
      <4>3. LargestLot(x, leg.qty, leg.symbol)
        BY <4>2 DEF LargestLot, step, rule
      <4>4. r = IF Less(x, Zero) THEN Zero ELSE x
        BY <3>2 DEF r, x, round_qty_to_step, AtMost
      <4> QED BY <4>2, <4>3, <4>4, <3>2, <1>1
    <3> QED BY <3>1, <3>2
  <2>6. q \in Fractional /\ q = IF Less(Zero, least) /\ Less(r, least) THEN least ELSE r
    BY <2>1, <2>2, <2>5 DEF AtLeast
  <2>7. Less(Zero, q)
    BY <2>4, <2>6, <1>1 DEF AtMost
  <2>8. AtMost(least, q)
    <3>1. CASE Less(Zero, least)
      <4>1. ~Less(q, least)
        BY <3>1, <2>6, <2>1, OrderFacts DEF AtMost
      <4> QED BY <4>1 DEF AtMost
    <3>2. CASE ~Less(Zero, least)
      BY <3>2, <2>1, <2>6, <2>7, SignOrder
    <3> QED BY <3>1, <3>2
  <2>9. AtMost(rule.min_notional, Times(q, leg.price))
    <3>1. CASE Less(Zero, rule.min_notional)
      BY <3>1, <2>3 DEF AtMost
    <3>2. CASE ~Less(Zero, rule.min_notional)
      BY <3>2, <2>1, <2>6, <2>7, <1>1, ValuePositive, SignOrder
    <3> QED BY <3>1, <3>2
  <2>10. ASSUME Less(Zero, step)
         PROVE  \/ LargestLot(q, leg.qty, leg.symbol)
                \/ q = least /\ Less(leg.qty, Plus(q, step))
    <3>1. CASE Less(Zero, least) /\ Less(r, least)
      <4>1. q = least
        BY <3>1, <2>6
      <4>2. AtMost(x, least)
        <5>1. CASE Less(x, Zero)
          <6>1. Less(x, least)
            BY <5>1, <3>1, <2>10, <2>5, <2>1, <1>1, OrderFacts, LessAtMost
          <6> QED BY <6>1, <2>10, <2>5, <2>1, OrderFacts
        <5>2. CASE ~Less(x, Zero)
          BY <5>2, <3>1, <2>10, <2>5, <2>1, OrderFacts
        <5> QED BY <5>1, <5>2
      <4>3. AtMost(Plus(x, step), Plus(least, step))
        BY <4>2, <2>10, <2>5, <2>1, PlusMonotone
      <4>4. Plus(x, step) \in Fractional /\ Plus(least, step) \in Fractional
        BY <2>10, <2>5, <2>1, ArithmeticTyped
      <4>5. Less(leg.qty, Plus(least, step))
        BY <4>3, <4>4, <2>10, <2>5, <1>1, LessAtMost
      <4> QED BY <4>1, <4>5
    <3>2. CASE ~(Less(Zero, least) /\ Less(r, least))
      <4>1. q = r
        BY <3>2, <2>6
      <4>2. ~Less(x, Zero)
        <5> SUFFICES ASSUME Less(x, Zero) PROVE FALSE
          OBVIOUS
        <5>1. q = Zero
          BY <4>1, <2>10, <2>5
        <5> QED BY <5>1, <2>7, <1>1, OrderFacts DEF AtMost
      <4> QED BY <4>1, <4>2, <2>10, <2>5
    <3> QED BY <3>1, <3>2
  <2>11. ~Less(Zero, step) => AtMost(leg.qty, q)
    BY <2>5, <2>6, <2>1, <1>1, OrderFacts
  <2>12. /\ AtMost(cfg.lot_rules[leg.symbol].min_size, q)
         /\ AtMost(cfg.lot_rules[leg.symbol].min_notional, Times(q, leg.price))
         /\ HasStep(leg.symbol) =>
              \/ LargestLot(q, leg.qty, leg.symbol)
              \/ /\ q = cfg.lot_rules[leg.symbol].min_size
                 /\ Less(leg.qty, Plus(q, cfg.lot_rules[leg.symbol].step_size))
         /\ ~HasStep(leg.symbol) => AtMost(leg.qty, q)
    BY <2>2, <2>8, <2>9, <2>10, <2>11 DEF step, least, rule
  <2>13. LotOk(leg, q)
    BY <2>7, <2>12, Zenon DEF LotOk
  <2> QED BY <2>6, <2>13 DEF q
<1> QED BY <1>2, <1>3

-----------------------------------------------------------------------------
(* The loop over the opportunities of a view. *)

\* The opportunities are what the detector finds in the view.
FoundInv ==
  /\ phase \in {"recv", "loop"}
  /\ phase = "recv" => found = <<>> /\ results = <<>>
  /\ phase = "loop" =>
       found = detect_triangular_opportunities(view, cfg.fee_map, cfg.min_profit_abs)

\* The verdicts so far are about the first opportunities: one that is called
\* unprofitable failed the checks, and a plan is what the planner makes of an
\* opportunity it lets pass.
VerdictInv ==
  \A i \in 1..Len(results) :
    /\ results[i].verdict = "unprofitable" => ~pre_trade_checks(found[i], cfg)
    /\ results[i].verdict = "planned" =>
         /\ Buildable(found[i], cfg.lot_rules)
         /\ results[i].legs = build_trade_plan(found[i], cfg.lot_rules)

LoopInv ==
  /\ view \in ViewSet /\ cfg \in Configs
  /\ found \in Seq(Opportunities) /\ results \in Seq(Results)
  /\ Len(results) <= Len(found)
  /\ FoundInv /\ VerdictInv

\* A planned leg is a leg of the opportunity with the quantity of the planner, which lets
\* it pass.
LEMMA PlannedLen ==
  ASSUME LoopInv, NEW i \in Planned
  PROVE  /\ found[i] \in Opportunities /\ found[i].legs \in Seq(LegSet)
         /\ Len(found[i].legs) \in Nat /\ Len(results[i].legs) = Len(found[i].legs)
         /\ Buildable(found[i], cfg.lot_rules)
         /\ results[i].legs = build_trade_plan(found[i], cfg.lot_rules)
<1> DEFINE op == found[i]
<1>1. i \in 1..Len(results) /\ i \in 1..Len(found)
  BY SMT DEF Planned, LoopInv
<1>2. op \in Opportunities
  BY <1>1, SMT DEF LoopInv
<1>3. op.legs \in Seq(LegSet) /\ Len(op.legs) \in Nat
  BY <1>2 DEF Opportunities
<1>4. /\ Buildable(op, cfg.lot_rules)
      /\ results[i].legs = build_trade_plan(op, cfg.lot_rules)
  BY <1>1 DEF LoopInv, VerdictInv, Planned
<1> HIDE DEF op
<1>5. Len(results[i].legs) = Len(op.legs)
  BY <1>3, <1>4, SMT DEF build_trade_plan
<1> QED BY <1>2, <1>3, <1>4, <1>5 DEF op

LEMMA PlannedLeg ==
  ASSUME LoopInv, NEW i \in Planned, NEW j \in 1..Len(results[i].legs)
  PROVE  /\ j \in 1..Len(found[i].legs) /\ found[i].legs[j] \in LegSet
         /\ results[i].legs[j] =
              [found[i].legs[j] EXCEPT !.qty = LotQty(found[i].legs[j], cfg.lot_rules)]
         /\ ~TooSmall(found[i].legs[j], cfg.lot_rules)
         /\ ~RoundedAway(found[i].legs[j], cfg.lot_rules)
<1> DEFINE op == found[i]
<1>1. /\ op.legs \in Seq(LegSet) /\ j \in 1..Len(op.legs)
      /\ Buildable(op, cfg.lot_rules)
      /\ results[i].legs = build_trade_plan(op, cfg.lot_rules)
  BY PlannedLen
<1> HIDE DEF op
<1>2. op.legs[j] \in LegSet
  BY <1>1
<1>3. results[i].legs[j] = [op.legs[j] EXCEPT !.qty = LotQty(op.legs[j], cfg.lot_rules)]
  BY <1>1 DEF build_trade_plan
<1>4. ~TooSmall(op.legs[j], cfg.lot_rules) /\ ~RoundedAway(op.legs[j], cfg.lot_rules)
  BY <1>1 DEF Buildable
<1> QED BY <1>1, <1>2, <1>3, <1>4 DEF op

\* Every plan that satisfies the loop's invariant meets the lot rules.
LEMMA LoopLots == ASSUME LoopInv PROVE LotsRespected
<1> SUFFICES ASSUME NEW i \in Planned, NEW j \in 1..Len(results[i].legs)
             PROVE  /\ results[i].legs[j].symbol = found[i].legs[j].symbol
                    /\ results[i].legs[j].price = found[i].legs[j].price
                    /\ LotOk(found[i].legs[j], results[i].legs[j].qty)
  <2> DEFINE leg(i, j) == results[i].legs[j]
  <2> SUFFICES ASSUME NEW i \in Planned, NEW j \in 1..Len(results[i].legs),
                      leg(i, j).symbol = found[i].legs[j].symbol,
                      leg(i, j).price = found[i].legs[j].price,
                      LotOk(found[i].legs[j], leg(i, j).qty)
               PROVE  /\ Less(Zero, leg(i, j).qty)
                      /\ leg(i, j).symbol \in DOMAIN cfg.lot_rules =>
                           LET rule == cfg.lot_rules[leg(i, j).symbol]
                           IN  /\ AtMost(rule.min_size, leg(i, j).qty)
                               /\ AtMost(rule.min_notional, Value(leg(i, j)))
                               /\ HasStep(leg(i, j).symbol) =>
                                    \/ LargestLot(leg(i, j).qty, found[i].legs[j].qty, leg(i, j).symbol)
                                    \/ /\ leg(i, j).qty = rule.min_size
                                       /\ Less(found[i].legs[j].qty,
                                               Plus(leg(i, j).qty, rule.step_size))
                      /\ ~HasStep(leg(i, j).symbol) => AtMost(found[i].legs[j].qty, leg(i, j).qty)
    BY Zenon DEF LotsRespected
  <2>1. Value(leg(i, j)) = Times(leg(i, j).qty, found[i].legs[j].price)
    BY DEF Value
  <2> QED BY <2>1, Zenon DEF LotOk
<1> DEFINE leg == found[i].legs[j]
<1>1. /\ leg \in LegSet
      /\ results[i].legs[j] = [leg EXCEPT !.qty = LotQty(leg, cfg.lot_rules)]
      /\ ~TooSmall(leg, cfg.lot_rules) /\ ~RoundedAway(leg, cfg.lot_rules)
  BY PlannedLeg
<1> HIDE DEF leg
<1>2. /\ results[i].legs[j].symbol = leg.symbol /\ results[i].legs[j].price = leg.price
      /\ results[i].legs[j].qty = LotQty(leg, cfg.lot_rules)
  BY <1>1 DEF LegSet
<1>3. LotOk(leg, LotQty(leg, cfg.lot_rules))
  BY <1>1, LotRespected DEF LoopInv
<1> QED BY <1>2, <1>3 DEF leg

\* The plan of an opportunity that the planner lets pass is a sequence of legs.
LEMMA PlanTyped ==
  ASSUME cfg \in Configs, NEW op \in Opportunities, Buildable(op, cfg.lot_rules)
  PROVE  build_trade_plan(op, cfg.lot_rules) \in Seq(LegSet)
<1>1. op.legs \in Seq(LegSet) /\ Len(op.legs) \in Nat
  BY DEF Opportunities
<1>2. ASSUME NEW k \in 1..Len(op.legs)
      PROVE  [op.legs[k] EXCEPT !.qty = LotQty(op.legs[k], cfg.lot_rules)] \in LegSet
  <2>1. op.legs[k] \in LegSet
    BY <1>1
  <2>2. ~TooSmall(op.legs[k], cfg.lot_rules) /\ ~RoundedAway(op.legs[k], cfg.lot_rules)
    BY DEF Buildable
  <2>3. LotQty(op.legs[k], cfg.lot_rules) \in Fractional
    BY <2>1, <2>2, LotRespected
  <2> QED BY <2>1, <2>3 DEF LegSet
<1> DEFINE F(k) == [op.legs[k] EXCEPT !.qty = LotQty(op.legs[k], cfg.lot_rules)]
<1>3. build_trade_plan(op, cfg.lot_rules) = [k \in 1..Len(op.legs) |-> F(k)]
  BY DEF build_trade_plan
<1> QED
  <2>1. \A k \in 1..Len(op.legs) : F(k) \in LegSet
    BY <1>2
  <2> HIDE DEF F
  <2> QED BY <1>1, <1>3, <2>1

LEMMA LoopInit == Init => LoopInv
BY SMT DEF Init, LoopInv, FoundInv, VerdictInv

\* The next opportunity gets a verdict: only one that fails the checks is unprofitable,
\* and only one that the planner lets pass has a plan.
SoundDecision ==
  \E verdict \in Verdicts, legs \in Seq(LegSet) :
    /\ Decide(verdict, legs)
    /\ verdict = "unprofitable" => ~pre_trade_checks(Op, cfg)
    /\ verdict = "planned" =>
         Buildable(Op, cfg.lot_rules) /\ legs = build_trade_plan(Op, cfg.lot_rules)

LEMMA DecideKeeps == LoopInv /\ More /\ SoundDecision => LoopInv'
<1> SUFFICES ASSUME LoopInv, More, SoundDecision PROVE LoopInv'
  OBVIOUS
<1>0. PICK verdict \in Verdicts, legs \in Seq(LegSet) :
        /\ Decide(verdict, legs)
        /\ verdict = "unprofitable" => ~pre_trade_checks(Op, cfg)
        /\ verdict = "planned" =>
             Buildable(Op, cfg.lot_rules) /\ legs = build_trade_plan(Op, cfg.lot_rules)
  BY DEF SoundDecision
<1> DEFINE n == Len(results)
           res == [verdict |-> verdict, legs |-> legs]
<1>1. /\ results \in Seq(Results) /\ found \in Seq(Opportunities)
      /\ n \in Nat /\ n < Len(found) /\ Len(found) \in Nat
      /\ phase = "loop"
  BY DEF LoopInv, More
<1>2. /\ results' = Append(results, res)
      /\ view' = view /\ cfg' = cfg /\ phase' = phase /\ found' = found
  BY <1>0 DEF Decide
<1>3. res \in Results
  BY DEF Results
<1>4. /\ results' \in Seq(Results) /\ Len(results') = n + 1
      /\ results'[n + 1] = res
      /\ \A i \in 1..n : results'[i] = results[i]
  BY <1>1, <1>2, <1>3
<1>5. ASSUME NEW i \in 1..Len(results')
      PROVE  /\ results'[i].verdict = "unprofitable" => ~pre_trade_checks(found[i], cfg)
             /\ results'[i].verdict = "planned" =>
                  /\ Buildable(found[i], cfg.lot_rules)
                  /\ results'[i].legs = build_trade_plan(found[i], cfg.lot_rules)
  <2>1. CASE i \in 1..n
    BY <2>1, <1>4 DEF LoopInv, VerdictInv
  <2>2. CASE i = n + 1
    <3>1. results'[i].verdict = verdict /\ results'[i].legs = legs
      BY <2>2, <1>4
    <3>2. found[i] = Op
      BY <2>2 DEF Op
    <3> QED BY <3>1, <3>2, <1>0
  <2> QED BY <2>1, <2>2, <1>1, <1>4, SMT
<1>6. VerdictInv'
  BY <1>2, <1>5 DEF VerdictInv
<1>7. FoundInv'
  <2>1. FoundInv
    BY DEF LoopInv
  <2> QED BY <2>1, <1>1, <1>2 DEF FoundInv
<1> QED
  <2>1. Len(results') <= Len(found')
    BY <1>1, <1>2, <1>4, SMT
  <2>2. view' \in ViewSet /\ cfg' \in Configs /\ found' \in Seq(Opportunities)
    BY <1>2 DEF LoopInv
  <2> QED BY <1>4, <1>6, <1>7, <2>1, <2>2 DEF LoopInv

LEMMA LoopStep == LoopInv /\ [Next]_vars => LoopInv'
<1> SUFFICES ASSUME LoopInv, [Next]_vars PROVE LoopInv'
  OBVIOUS
<1>0. /\ <<>> \in Seq(LegSet)
      /\ {"unprofitable", "unbuildable", "planned"} \subseteq Verdicts
  BY DEF Verdicts
<1>1. CASE Detect
  <2>1. found' \in Seq(Opportunities)
    BY <1>1, DetectionTyped DEF Detect, LoopInv
  <2>2. results = <<>> /\ results' = <<>> /\ view' = view /\ cfg' = cfg /\ phase' = "loop"
    BY <1>1 DEF Detect, LoopInv, FoundInv
  <2>3. FoundInv'
    BY <1>1, <2>2 DEF Detect, FoundInv
  <2>4. VerdictInv'
    BY <2>2, SMT DEF VerdictInv
  <2>5. results' \in Seq(Results) /\ Len(results') <= Len(found')
    BY <2>1, <2>2, SMT
  <2> QED BY <2>1, <2>2, <2>3, <2>4, <2>5 DEF LoopInv
<1>2. CASE FailChecks
  <2>1. Decide("unprofitable", <<>>) /\ More /\ ~pre_trade_checks(Op, cfg)
    BY <1>2 DEF FailChecks
  <2>2. "unprofitable" # "planned"
    OBVIOUS
  <2>3. SoundDecision
    BY <1>0, <2>1, <2>2, Zenon DEF SoundDecision
  <2> QED BY <2>1, <2>3, DecideKeeps
<1>3. CASE FailPlan
  <2>1. Decide("unbuildable", <<>>) /\ More
    BY <1>3 DEF FailPlan
  <2>2. "unbuildable" # "planned" /\ "unbuildable" # "unprofitable"
    OBVIOUS
  <2>3. SoundDecision
    BY <1>0, <2>1, <2>2, Zenon DEF SoundDecision
  <2> QED BY <2>1, <2>3, DecideKeeps
<1>4. CASE Plan
  <2>1. Op \in Opportunities
    <3>1. Len(results) + 1 \in 1..Len(found)
      BY <1>4, SMT DEF Plan, More, LoopInv
    <3> QED BY <3>1 DEF Op, LoopInv
  <2>2. Buildable(Op, cfg.lot_rules) /\ build_trade_plan(Op, cfg.lot_rules) \in Seq(LegSet)
    BY <1>4, <2>1, PlanTyped DEF Plan, LoopInv
  <2>3. Decide("planned", build_trade_plan(Op, cfg.lot_rules)) /\ More
    BY <1>4 DEF Plan
  <2>4. "planned" # "unprofitable"
    OBVIOUS
  <2>5. SoundDecision
    BY <1>0, <2>2, <2>3, <2>4, Zenon DEF SoundDecision
  <2> QED BY <2>3, <2>5, DecideKeeps
<1>5. CASE Done \/ UNCHANGED vars
  BY <1>5 DEF Done, vars, LoopInv, FoundInv, VerdictInv
<1> QED BY <1>1, <1>2, <1>3, <1>4, <1>5 DEF Next

\* The opportunities and the verdicts on them are what the code makes of the view.
THEOREM LoopInvariant == Spec => []LoopInv
BY LoopInit, LoopStep, PTL DEF Spec

\* Whatever the view, the fees and the lot rules, every planned leg obeys the rules of
\* its symbol (planner.rs:24-57).
THEOREM PlansRespectLots == Spec => []LotsRespected
BY LoopInvariant, LoopLots, PTL
-----------------------------------------------------------------------------
(* The opportunities. *)

\* What the detector finds: a way that is quoted and gains more than the minimum, each
\* way at most once.
LEMMA DetectedWays ==
  ASSUME NEW v, NEW f, NEW m, NEW d, d = detect_triangular_opportunities(v, f, m)
  PROVE  LET Gains(op) == Less(m, op.estimated_profit)
             F == Forward(v, f)
             B == Backward(v, f)
         IN  /\ \A i \in 1..Len(d) : \/ d[i] = F /\ ForwardQuoted(v) /\ Gains(F)
                                     \/ d[i] = B /\ BackwardQuoted(v) /\ Gains(B)
             /\ ForwardQuoted(v) /\ Gains(F) => \E i \in 1..Len(d) : d[i] = F
             /\ BackwardQuoted(v) /\ Gains(B) => \E i \in 1..Len(d) : d[i] = B
             /\ Len(d) <= 1 \/ (ForwardQuoted(v) /\ Gains(F) /\ BackwardQuoted(v) /\ Gains(B))
<1> DEFINE F == Forward(v, f)
           B == Backward(v, f)
           forward == ForwardQuoted(v) /\ Less(m, F.estimated_profit)
           backward == BackwardQuoted(v) /\ Less(m, B.estimated_profit)
<1>1. d = (IF forward THEN <<F>> ELSE <<>>) \o (IF backward THEN <<B>> ELSE <<>>)
  BY DEF detect_triangular_opportunities
<1> SUFFICES /\ \A i \in 1..Len(d) : \/ d[i] = F /\ forward
                                     \/ d[i] = B /\ backward
             /\ forward => \E i \in 1..Len(d) : d[i] = F
             /\ backward => \E i \in 1..Len(d) : d[i] = B
             /\ Len(d) <= 1 \/ (forward /\ backward)
  BY Zenon
<1> HIDE DEF F, B, forward, backward
<1>2. CASE forward /\ backward
  <2>1. d = <<F>> \o <<B>>
    BY <1>1, <1>2
  <2>3. Len(d) = 2 /\ d[1] = F /\ d[2] = B
    BY <2>1
  <2>4. \A i \in 1..Len(d) : d[i] = F \/ d[i] = B
    BY <2>3, SMT
  <2>5. 1 \in 1..Len(d) /\ 2 \in 1..Len(d)
    BY <2>3, SMT
  <2> QED BY <2>3, <2>4, <2>5, <1>2
<1>3. CASE forward /\ ~backward
  <2>1. d = <<F>> \o <<>>
    BY <1>1, <1>3
  <2>2. Len(d) = 1 /\ d[1] = F
    BY <2>1
  <2>3. 1 \in 1..Len(d) /\ Len(d) <= 1 /\ \A i \in 1..Len(d) : d[i] = F
    BY <2>2, SMT
  <2> QED BY <2>2, <2>3, <1>3
<1>4. CASE ~forward /\ backward
  <2>1. d = <<>> \o <<B>>
    BY <1>1, <1>4
  <2>2. Len(d) = 1 /\ d[1] = B
    BY <2>1
  <2>3. 1 \in 1..Len(d) /\ Len(d) <= 1 /\ \A i \in 1..Len(d) : d[i] = B
    BY <2>2, SMT
  <2> QED BY <2>2, <2>3, <1>4
<1>5. CASE ~forward /\ ~backward
  <2>1. d = <<>> \o <<>>
    BY <1>1, <1>5
  <2>2. Len(d) = 0
    BY <2>1
  <2>3. Len(d) <= 1 /\ \A i \in 1..Len(d) : FALSE
    BY <2>2, SMT
  <2> QED BY <2>3, <1>5
<1> QED BY <1>2, <1>3, <1>4, <1>5

\* The prices of a way that is quoted.
LEMMA QuotedPrices ==
  ASSUME NEW v \in ViewSet
  PROVE  /\ ForwardQuoted(v) =>
              /\ Positive(Head(v.asks.ab)) /\ Head(v.asks.ab) \in Prices
              /\ Positive(Head(v.bids.bc)) /\ Head(v.bids.bc) \in Prices
              /\ Positive(Head(v.asks.ac)) /\ Head(v.asks.ac) \in Prices
         /\ BackwardQuoted(v) =>
              /\ Positive(Head(v.asks.bc)) /\ Head(v.asks.bc) \in Prices
              /\ Positive(Head(v.bids.ac)) /\ Head(v.bids.ac) \in Prices
              /\ Positive(Head(v.bids.ab)) /\ Head(v.bids.ab) \in Prices
<1>1. "ab" \in Symbols /\ "bc" \in Symbols /\ "ac" \in Symbols
  BY DEF Symbols
<1> QED BY <1>1, BestPrice, PlanningAssumption DEF ForwardQuoted, BackwardQuoted

\* Three legs that follow each other are a chain.
LEMMA ThreeLegs ==
  ASSUME NEW a, NEW b, NEW c,
         Spends(a).cur = "usdt", Brings(c).cur = "usdt",
         Spends(b).cur = Brings(a).cur, Same(Spends(b).amount, Brings(a).amount),
         Spends(c).cur = Brings(b).cur, Same(Spends(c).amount, Brings(b).amount)
  PROVE  Chain(<<a, b, c>>)
<1> DEFINE legs == <<a, b, c>>
<1>1. Len(legs) = 3 /\ legs[1] = a /\ legs[2] = b /\ legs[3] = c
  OBVIOUS
<1> HIDE DEF legs
<1>2. ASSUME NEW i \in 1..Len(legs) - 1
      PROVE  /\ Spends(legs[i + 1]).cur = Brings(legs[i]).cur
             /\ Same(Spends(legs[i + 1]).amount, Brings(legs[i]).amount)
  <2>1. CASE i = 1
    BY <2>1, <1>1
  <2>2. CASE i = 2
    BY <2>2, <1>1
  <2> QED BY <2>1, <2>2, <1>1, SMT
<1>3. Chain(legs)
  BY <1>1, <1>2 DEF Chain
<1> QED BY <1>3 DEF legs

\* What OpportunitiesPayOff says of one opportunity, but for the minimum.
PaysOff(op) ==
  /\ Chain(op.legs) /\ Same(Spends(op.legs[1]).amount, Start)
  /\ \A j \in 1..Len(op.legs) :
       Same(op.legs[j].price, Head(IF op.legs[j].side_buy THEN view.asks[op.legs[j].symbol]
                                   ELSE view.bids[op.legs[j].symbol]))
  /\ Same(Proceeds(op.legs), op.estimated_profit)

LEMMA ForwardPaysOff ==
  ASSUME view \in ViewSet, cfg \in Configs, ForwardQuoted(view)
  PROVE  PaysOff(Forward(view, cfg.fee_map))
<1> DEFINE ask_ab == Head(view.asks.ab)
           bid_bc == Head(view.bids.bc)
           ask_ac == Head(view.asks.ac)
           start == Over(Start, ask_ab)
           btc == Times(start, Keep(cfg.fee_map, "ab"))
           bought == Over(btc, ask_ac)
           eth == Times(bought, Keep(cfg.fee_map, "ac"))
           final == Times(Times(eth, bid_bc), Keep(cfg.fee_map, "bc"))
           a == Leg("ab", TRUE, ask_ab, start)
           b == Leg("ac", TRUE, ask_ac, bought)
           c == Leg("bc", FALSE, bid_bc, eth)
           op == Forward(view, cfg.fee_map)
<1>1. /\ Positive(ask_ab) /\ Positive(bid_bc) /\ Positive(ask_ac)
      /\ bid_bc \in Fractional /\ Start \in Fractional
      /\ "ab" \in Symbols /\ "bc" \in Symbols /\ "ac" \in Symbols
  BY QuotedPrices, PlanningAssumption DEF Positive, Symbols
<1>2. start \in Fractional /\ btc \in Fractional
  BY <1>1, OverTyped, KeepTyped, ArithmeticTyped
<1>3. bought \in Fractional /\ eth \in Fractional
  BY <1>1, <1>2, OverTyped, KeepTyped, ArithmeticTyped
<1>4. final \in Fractional
  BY <1>1, <1>3, KeepTyped, ArithmeticTyped
<1>5. /\ Same(Times(start, ask_ab), Start) /\ Times(start, ask_ab) \in Fractional
      /\ Same(Times(bought, ask_ac), btc)
      /\ Same(eth, eth)
  <2>1. ask_ab \in Fractional
    BY <1>1 DEF Positive
  <2> QED BY <1>1, <1>2, <1>3, <2>1, TimesOver, ArithmeticTyped DEF Same
<1>6. op.legs = <<a, b, c>> /\ op.estimated_profit = Minus(final, Start)
  BY DEF Forward
<1>7. /\ Spends(a) = [cur |-> Quote["ab"], amount |-> Times(start, ask_ab)]
      /\ Brings(a) = [cur |-> Base["ab"], amount |-> btc]
      /\ Spends(b) = [cur |-> Quote["ac"], amount |-> Times(bought, ask_ac)]
      /\ Brings(b) = [cur |-> Base["ac"], amount |-> eth]
      /\ Spends(c) = [cur |-> Base["bc"], amount |-> eth]
      /\ Brings(c) = [cur |-> Quote["bc"], amount |-> final]
  BY SMT DEF Spends, Brings, Value, Leg
<1>8. /\ a.price = ask_ab /\ a.side_buy = TRUE /\ a.symbol = "ab"
      /\ b.price = ask_ac /\ b.side_buy = TRUE /\ b.symbol = "ac"
      /\ c.price = bid_bc /\ c.side_buy = FALSE /\ c.symbol = "bc"
  BY DEF Leg
<1>9. /\ Quote["ab"] = "usdt" /\ Quote["ac"] = "btc" /\ Quote["bc"] = "usdt"
      /\ Base["ab"] = "btc" /\ Base["ac"] = "eth" /\ Base["bc"] = "eth"
  BY DEF Quote, Base
<1> HIDE DEF a, b, c, op, final, eth, bought, btc, start
<1>10. Chain(op.legs)
  BY <1>5, <1>6, <1>7, <1>9, ThreeLegs
<1>11. op.legs[1] = a /\ op.legs[2] = b /\ op.legs[3] = c /\ Len(op.legs) = 3
  BY <1>6
<1>12. Same(Spends(op.legs[1]).amount, Start)
  BY <1>5, <1>7, <1>11
<1>13. Proceeds(op.legs) = Minus(final, Times(start, ask_ab))
  BY <1>7, <1>11 DEF Proceeds
<1>14. Same(Proceeds(op.legs), op.estimated_profit)
  BY <1>1, <1>4, <1>5, <1>6, <1>13, MinusSame
<1>15. ASSUME NEW j \in 1..Len(op.legs)
       PROVE  Same(op.legs[j].price,
                   Head(IF op.legs[j].side_buy THEN view.asks[op.legs[j].symbol]
                        ELSE view.bids[op.legs[j].symbol]))
  <2>1. CASE j = 1
    BY <2>1, <1>8, <1>11 DEF Same
  <2>2. CASE j = 2
    BY <2>2, <1>8, <1>11 DEF Same
  <2>3. CASE j = 3
    BY <2>3, <1>8, <1>11 DEF Same
  <2> QED BY <2>1, <2>2, <2>3, <1>11, SMT
<1> QED BY <1>10, <1>12, <1>14, <1>15 DEF PaysOff, op

LEMMA BackwardPaysOff ==
  ASSUME view \in ViewSet, cfg \in Configs, BackwardQuoted(view)
  PROVE  PaysOff(Backward(view, cfg.fee_map))
<1> DEFINE ask_bc == Head(view.asks.bc)
           bid_ac == Head(view.bids.ac)
           bid_ab == Head(view.bids.ab)
           start == Over(Start, ask_bc)
           eth == Times(start, Keep(cfg.fee_map, "bc"))
           btc == Times(Times(eth, bid_ac), Keep(cfg.fee_map, "ac"))
           final == Times(Times(btc, bid_ab), Keep(cfg.fee_map, "ab"))
           a == Leg("bc", TRUE, ask_bc, start)
           b == Leg("ac", FALSE, bid_ac, eth)
           c == Leg("ab", FALSE, bid_ab, btc)
           op == Backward(view, cfg.fee_map)
<1>1. /\ Positive(ask_bc) /\ Positive(bid_ac) /\ Positive(bid_ab)
      /\ bid_ac \in Fractional /\ bid_ab \in Fractional /\ Start \in Fractional
      /\ "ab" \in Symbols /\ "bc" \in Symbols /\ "ac" \in Symbols
  BY QuotedPrices, PlanningAssumption DEF Positive, Symbols
<1>2. start \in Fractional /\ eth \in Fractional
  BY <1>1, OverTyped, KeepTyped, ArithmeticTyped
<1>3. btc \in Fractional
  BY <1>1, <1>2, KeepTyped, ArithmeticTyped
<1>4. final \in Fractional
  BY <1>1, <1>3, KeepTyped, ArithmeticTyped
<1>5. /\ Same(Times(start, ask_bc), Start) /\ Times(start, ask_bc) \in Fractional
      /\ Same(eth, eth) /\ Same(btc, btc)
  <2>1. ask_bc \in Fractional
    BY <1>1 DEF Positive
  <2> QED BY <1>1, <1>2, <1>3, <2>1, TimesOver, ArithmeticTyped DEF Same
<1>6. op.legs = <<a, b, c>> /\ op.estimated_profit = Minus(final, Start)
  BY DEF Backward
<1>7. /\ Spends(a) = [cur |-> Quote["bc"], amount |-> Times(start, ask_bc)]
      /\ Brings(a) = [cur |-> Base["bc"], amount |-> eth]
      /\ Spends(b) = [cur |-> Base["ac"], amount |-> eth]
      /\ Brings(b) = [cur |-> Quote["ac"], amount |-> btc]
      /\ Spends(c) = [cur |-> Base["ab"], amount |-> btc]
      /\ Brings(c) = [cur |-> Quote["ab"], amount |-> final]
  BY SMT DEF Spends, Brings, Value, Leg
<1>8. /\ a.price = ask_bc /\ a.side_buy = TRUE /\ a.symbol = "bc"
      /\ b.price = bid_ac /\ b.side_buy = FALSE /\ b.symbol = "ac"
      /\ c.price = bid_ab /\ c.side_buy = FALSE /\ c.symbol = "ab"
  BY DEF Leg
<1>9. /\ Quote["ab"] = "usdt" /\ Quote["ac"] = "btc" /\ Quote["bc"] = "usdt"
      /\ Base["ab"] = "btc" /\ Base["ac"] = "eth" /\ Base["bc"] = "eth"
  BY DEF Quote, Base
<1> HIDE DEF a, b, c, op, final, eth, btc, start
<1>10. Chain(op.legs)
  BY <1>5, <1>6, <1>7, <1>9, ThreeLegs
<1>11. op.legs[1] = a /\ op.legs[2] = b /\ op.legs[3] = c /\ Len(op.legs) = 3
  BY <1>6
<1>12. Same(Spends(op.legs[1]).amount, Start)
  BY <1>5, <1>7, <1>11
<1>13. Proceeds(op.legs) = Minus(final, Times(start, ask_bc))
  BY <1>7, <1>11 DEF Proceeds
<1>14. Same(Proceeds(op.legs), op.estimated_profit)
  BY <1>1, <1>4, <1>5, <1>6, <1>13, MinusSame
<1>15. ASSUME NEW j \in 1..Len(op.legs)
       PROVE  Same(op.legs[j].price,
                   Head(IF op.legs[j].side_buy THEN view.asks[op.legs[j].symbol]
                        ELSE view.bids[op.legs[j].symbol]))
  <2>1. CASE j = 1
    BY <2>1, <1>8, <1>11 DEF Same
  <2>2. CASE j = 2
    BY <2>2, <1>8, <1>11 DEF Same
  <2>3. CASE j = 3
    BY <2>3, <1>8, <1>11 DEF Same
  <2> QED BY <2>1, <2>2, <2>3, <1>11, SMT
<1> QED BY <1>10, <1>12, <1>14, <1>15 DEF PaysOff, op

\* What is found, in terms of the two ways.
LEMMA FoundWays ==
  ASSUME LoopInv, NEW i \in 1..Len(found)
  PROVE  /\ found[i] \in Opportunities
         /\ Less(cfg.min_profit_abs, found[i].estimated_profit)
         /\ \/ ForwardQuoted(view) /\ found[i] = Forward(view, cfg.fee_map)
            \/ BackwardQuoted(view) /\ found[i] = Backward(view, cfg.fee_map)
<1>1. found \in Seq(Opportunities)
  BY DEF LoopInv
<1>2. phase = "loop"
  <2> SUFFICES ASSUME phase = "recv" PROVE FALSE
    BY DEF LoopInv, FoundInv
  <2>1. found = <<>>
    BY DEF LoopInv, FoundInv
  <2> QED BY <2>1, SMT
<1>3. found = detect_triangular_opportunities(view, cfg.fee_map, cfg.min_profit_abs)
  BY <1>2 DEF LoopInv, FoundInv
<1> QED BY <1>1, <1>3, DetectedWays

\* Every opportunity trades round the triangle at the prices of the view and gains what
\* the code estimates, more than the minimum (tri_arbitrage.rs:74-99, 139-164).
THEOREM OpportunitiesGain == Spec => []OpportunitiesPayOff
<1>1. ASSUME LoopInv PROVE OpportunitiesPayOff
  <2>1. ASSUME NEW i \in 1..Len(found)
        PROVE  PaysOff(found[i]) /\ Less(cfg.min_profit_abs, found[i].estimated_profit)
    BY <1>1, FoundWays, ForwardPaysOff, BackwardPaysOff DEF LoopInv
  <2> QED BY <2>1, Zenon DEF OpportunitiesPayOff, PaysOff
<1> QED BY <1>1, LoopInvariant, PTL

\* The two ways round the triangle.
LEMMA TwoWays ==
  ASSUME NEW w \in Ways
  PROVE  \/ /\ w[1][1] = "ab" /\ w[2][1] = "ac" /\ w[3][1] = "bc"
            /\ w[1][2] /\ w[2][2] /\ ~w[3][2]
         \/ /\ w[1][1] = "bc" /\ w[2][1] = "ac" /\ w[3][1] = "ab"
            /\ w[1][2] /\ ~w[2][2] /\ ~w[3][2]
<1> DEFINE Pays(i) == IF w[i][2] THEN Quote[w[i][1]] ELSE Base[w[i][1]]
           Gets(i) == IF w[i][2] THEN Base[w[i][1]] ELSE Quote[w[i][1]]
<1>1. Pays(1) = "usdt" /\ Pays(2) = Gets(1) /\ Pays(3) = Gets(2) /\ Gets(3) = "usdt"
  BY DEF Ways
<1>2. /\ w[1][1] \in Symbols /\ w[2][1] \in Symbols /\ w[3][1] \in Symbols
  BY DEF Ways
<1>3. \A s \in Symbols :
        /\ Quote[s] = "usdt" <=> s \in {"ab", "bc"}
        /\ Quote[s] = "btc" <=> s = "ac"
        /\ Quote[s] \in {"usdt", "btc"}
        /\ Base[s] = "btc" <=> s = "ab"
        /\ Base[s] = "eth" <=> s \in {"bc", "ac"}
        /\ Base[s] \in {"btc", "eth"}
  BY DEF Symbols, Quote, Base
<1>4. w[1][2] /\ w[1][1] \in {"ab", "bc"}
  BY <1>1, <1>2, <1>3
<1>5. ~w[3][2] /\ w[3][1] \in {"ab", "bc"}
  BY <1>1, <1>2, <1>3
<1>6. CASE w[1][1] = "ab"
  <2>1. Pays(2) = "btc"
    BY <1>1, <1>2, <1>3, <1>4, <1>6
  <2>2. w[2][2] /\ w[2][1] = "ac"
    <3>1. CASE ~w[2][2]
      <4>1. Gets(2) = "usdt" /\ Pays(3) \in {"btc", "eth"}
        BY <3>1, <2>1, <1>2, <1>3, <1>5
      <4> QED BY <4>1, <1>1
    <3>2. CASE w[2][2]
      BY <3>2, <2>1, <1>2, <1>3
    <3> QED BY <3>1, <3>2
  <2>3. Base[w[3][1]] = "eth"
    BY <2>2, <1>1, <1>2, <1>3, <1>5
  <2>4. w[3][1] = "bc"
    BY <2>3, <1>2, <1>3, <1>5
  <2> QED BY <1>4, <1>5, <1>6, <2>2, <2>4
<1>7. CASE w[1][1] = "bc"
  <2>1. Pays(2) = "eth"
    BY <1>1, <1>2, <1>3, <1>4, <1>7
  <2>2. ~w[2][2] /\ w[2][1] \in {"bc", "ac"}
    BY <2>1, <1>2, <1>3
  <2>3. Base[w[3][1]] = Quote[w[2][1]]
    BY <2>2, <1>1, <1>5
  <2>4. w[2][1] = "ac" /\ w[3][1] = "ab"
    BY <2>2, <2>3, <1>2, <1>3, <1>5
  <2> QED BY <1>4, <1>5, <1>7, <2>2, <2>4
<1> QED BY <1>4, <1>6, <1>7

\* What is quoted and gained along a way is what the detector looks at.
LEMMA WayGain ==
  ASSUME NEW w \in Ways, Quoted(w)
  PROVE  \/ /\ w[1][1] = "ab" /\ w[2][1] = "ac" /\ w[3][1] = "bc"
            /\ w[1][2] /\ w[2][2] /\ ~w[3][2]
            /\ ForwardQuoted(view)
            /\ Gain(w) = Forward(view, cfg.fee_map).estimated_profit
         \/ /\ w[1][1] = "bc" /\ w[2][1] = "ac" /\ w[3][1] = "ab"
            /\ w[1][2] /\ ~w[2][2] /\ ~w[3][2]
            /\ BackwardQuoted(view)
            /\ Gain(w) = Backward(view, cfg.fee_map).estimated_profit
<1>0. Side(w, 1) # <<>> /\ Side(w, 2) # <<>> /\ Side(w, 3) # <<>>
  BY DEF Quoted
<1>1. CASE /\ w[1][1] = "ab" /\ w[2][1] = "ac" /\ w[3][1] = "bc"
           /\ w[1][2] /\ w[2][2] /\ ~w[3][2]
  <2>1. Side(w, 1) = view.asks.ab /\ Side(w, 2) = view.asks.ac /\ Side(w, 3) = view.bids.bc
    BY <1>1 DEF Side
  <2>2. ForwardQuoted(view)
    BY <1>0, <2>1 DEF ForwardQuoted
  <2>3. Gain(w) = Forward(view, cfg.fee_map).estimated_profit
    BY <1>1, <2>1 DEF Gain, Forward
  <2> QED BY <1>1, <2>2, <2>3
<1>2. CASE /\ w[1][1] = "bc" /\ w[2][1] = "ac" /\ w[3][1] = "ab"
           /\ w[1][2] /\ ~w[2][2] /\ ~w[3][2]
  <2>1. Side(w, 1) = view.asks.bc /\ Side(w, 2) = view.bids.ac /\ Side(w, 3) = view.bids.ab
    BY <1>2 DEF Side
  <2>2. BackwardQuoted(view)
    BY <1>0, <2>1 DEF BackwardQuoted
  <2>3. Gain(w) = Backward(view, cfg.fee_map).estimated_profit
    BY <1>2, <2>1 DEF Gain, Backward
  <2> QED BY <1>2, <2>2, <2>3
<1> QED BY <1>1, <1>2, TwoWays

\* Every way round the triangle that gains more than the minimum is found
\* (tri_arbitrage.rs:46-166).
THEOREM EveryWayFound == Spec => []NoneMissed
<1>1. ASSUME LoopInv PROVE NoneMissed
  <2> SUFFICES ASSUME phase = "loop", NEW w \in Ways, Quoted(w),
                      Less(cfg.min_profit_abs, Gain(w))
               PROVE  \E i \in 1..Len(found) : \A j \in 1..3 :
                        found[i].legs[j].symbol = w[j][1] /\ found[i].legs[j].side_buy = w[j][2]
    BY DEF NoneMissed
  <2>1. found = detect_triangular_opportunities(view, cfg.fee_map, cfg.min_profit_abs)
    BY <1>1 DEF LoopInv, FoundInv
  <2>2. \A k \in 1..3 : w[k][2] = TRUE \/ w[k][2] = FALSE
    BY DEF Ways
  <2>3. CASE /\ w[1][1] = "ab" /\ w[2][1] = "ac" /\ w[3][1] = "bc"
             /\ w[1][2] /\ w[2][2] /\ ~w[3][2]
             /\ ForwardQuoted(view)
             /\ Gain(w) = Forward(view, cfg.fee_map).estimated_profit
    <3>1. PICK i \in 1..Len(found) : found[i] = Forward(view, cfg.fee_map)
      BY <2>1, <2>3, DetectedWays
    <3> DEFINE legs == Forward(view, cfg.fee_map).legs
    <3>2. /\ w[1][2] = TRUE /\ w[2][2] = TRUE /\ w[3][2] = FALSE
      BY <2>2, <2>3
    <3>3. /\ legs[1].symbol = w[1][1] /\ legs[2].symbol = w[2][1] /\ legs[3].symbol = w[3][1]
          /\ legs[1].side_buy = w[1][2] /\ legs[2].side_buy = w[2][2]
          /\ legs[3].side_buy = w[3][2]
      <4>1. /\ legs[1].symbol = "ab" /\ legs[2].symbol = "ac" /\ legs[3].symbol = "bc"
            /\ legs[1].side_buy = TRUE /\ legs[2].side_buy = TRUE /\ legs[3].side_buy = FALSE
        BY SMT DEF Forward, Leg
      <4> HIDE DEF legs
      <4> QED BY <4>1, <3>2, <2>3, Zenon
    <3>4. found[i].legs = legs
      BY <3>1
    <3> HIDE DEF legs
    <3>5. ASSUME NEW j \in 1..3
          PROVE  found[i].legs[j].symbol = w[j][1] /\ found[i].legs[j].side_buy = w[j][2]
      <4>1. j = 1 \/ j = 2 \/ j = 3
        OBVIOUS
      <4> QED BY <4>1, <3>3, <3>4, Zenon
    <3> QED BY <3>5
  <2>4. CASE /\ w[1][1] = "bc" /\ w[2][1] = "ac" /\ w[3][1] = "ab"
             /\ w[1][2] /\ ~w[2][2] /\ ~w[3][2]
             /\ BackwardQuoted(view)
             /\ Gain(w) = Backward(view, cfg.fee_map).estimated_profit
    <3>1. PICK i \in 1..Len(found) : found[i] = Backward(view, cfg.fee_map)
      BY <2>1, <2>4, DetectedWays
    <3> DEFINE legs == Backward(view, cfg.fee_map).legs
    <3>2. /\ w[1][2] = TRUE /\ w[2][2] = FALSE /\ w[3][2] = FALSE
      BY <2>2, <2>4
    <3>3. /\ legs[1].symbol = w[1][1] /\ legs[2].symbol = w[2][1] /\ legs[3].symbol = w[3][1]
          /\ legs[1].side_buy = w[1][2] /\ legs[2].side_buy = w[2][2]
          /\ legs[3].side_buy = w[3][2]
      <4>1. /\ legs[1].symbol = "bc" /\ legs[2].symbol = "ac" /\ legs[3].symbol = "ab"
            /\ legs[1].side_buy = TRUE /\ legs[2].side_buy = FALSE /\ legs[3].side_buy = FALSE
        BY SMT DEF Backward, Leg
      <4> HIDE DEF legs
      <4> QED BY <4>1, <3>2, <2>4, Zenon
    <3>4. found[i].legs = legs
      BY <3>1
    <3> HIDE DEF legs
    <3>5. ASSUME NEW j \in 1..3
          PROVE  found[i].legs[j].symbol = w[j][1] /\ found[i].legs[j].side_buy = w[j][2]
      <4>1. j = 1 \/ j = 2 \/ j = 3
        OBVIOUS
      <4> QED BY <4>1, <3>3, <3>4, Zenon
    <3> QED BY <3>5
  <2> QED BY <2>3, <2>4, WayGain
<1> QED BY <1>1, LoopInvariant, PTL

-----------------------------------------------------------------------------
(* The percentage. *)

LEMMA OverPositive ==
  ASSUME NEW x, Positive(x), NEW y, Positive(y)
  PROVE  Positive(Over(x, y))
<1> DEFINE inverse == Frac(y.den, y.num)
<1>1. y \in Fractional /\ y.num > 0
  BY SignFacts DEF Positive
<1>2. inverse \in Fractional /\ inverse.num > 0
  BY <1>1, SMT DEF Frac, Fractional
<1>3. Positive(inverse)
  BY <1>2, SignFacts DEF Positive
<1>4. Over(x, y) = Times(x, inverse)
  BY DEF Over, Times, Frac
<1> HIDE DEF inverse
<1> QED BY <1>3, <1>4, PriceProduct

LEMMA OverBound ==
  ASSUME NEW x \in Fractional, NEW y, Positive(y), NEW z \in Fractional,
         AtMost(Times(x, y), z)
  PROVE  AtMost(x, Over(z, y))
<1> DEFINE a == x.num
           b == x.den
           c == y.num
           d == y.den
           e == z.num
           f == z.den
<1>1. a \in Int /\ b \in Int /\ c \in Int /\ d \in Int /\ e \in Int /\ f \in Int
  BY SMT DEF Positive, Fractional
<1>2. ~(e * (b * d) < (a * c) * f)
  BY DEF AtMost, Less, Times, Frac
<1>3. Over(z, y) = Frac(e * d, f * c)
  BY DEF Over
<1> HIDE DEF a, b, c, d, e, f
<1>4. (e * d) * b = e * (b * d) /\ a * (f * c) = (a * c) * f
  BY <1>1, SMT
<1>5. ~((e * d) * b < a * (f * c))
  BY <1>2, <1>4
<1> QED BY <1>3, <1>5 DEF AtMost, Less, Frac, a, b

\* Either way, the first leg buys what Start is worth and the implied price is one.
LEMMA FirstLeg ==
  ASSUME LoopInv, NEW i \in 1..Len(found)
  PROVE  /\ Positive(found[i].legs[1].price)
         /\ found[i].legs[1].qty = Over(Start, found[i].legs[1].price)
         /\ Positive(found[i].implied_price)
<1>0. view \in ViewSet
  BY DEF LoopInv
<1>1. CASE ForwardQuoted(view) /\ found[i] = Forward(view, cfg.fee_map)
  <2> DEFINE op == Forward(view, cfg.fee_map)
  <2>1. /\ Positive(Head(view.asks.ab)) /\ Positive(Head(view.bids.bc))
        /\ Positive(Head(view.asks.ac))
    BY <1>0, <1>1, QuotedPrices
  <2>2. /\ op.legs[1].price = Head(view.asks.ab)
        /\ op.legs[1].qty = Over(Start, Head(view.asks.ab))
        /\ op.implied_price = Over(Head(view.bids.bc),
                                   Times(Head(view.asks.ab), Head(view.asks.ac)))
    BY SMT DEF Forward, Leg
  <2>3. Positive(op.implied_price)
    BY <2>1, <2>2, PriceProduct, OverPositive
  <2> HIDE DEF op
  <2>4. found[i] = op
    BY <1>1 DEF op
  <2> QED BY <2>1, <2>2, <2>3, <2>4
<1>2. CASE BackwardQuoted(view) /\ found[i] = Backward(view, cfg.fee_map)
  <2> DEFINE op == Backward(view, cfg.fee_map)
  <2>1. /\ Positive(Head(view.asks.bc)) /\ Positive(Head(view.bids.ac))
        /\ Positive(Head(view.bids.ab))
    BY <1>0, <1>2, QuotedPrices
  <2>2. /\ op.legs[1].price = Head(view.asks.bc)
        /\ op.legs[1].qty = Over(Start, Head(view.asks.bc))
        /\ op.implied_price = Over(Times(Head(view.bids.ab), Head(view.bids.ac)),
                                   Head(view.asks.bc))
    BY SMT DEF Backward, Leg
  <2>3. Positive(op.implied_price)
    BY <2>1, <2>2, PriceProduct, OverPositive
  <2> HIDE DEF op
  <2>4. found[i] = op
    BY <1>2 DEF op
  <2> QED BY <2>1, <2>2, <2>3, <2>4
<1> QED BY <1>1, <1>2, FoundWays

\* The amount the percentage is taken of is not above Start while the first price is
\* above what a unit becomes, so that no opportunity that earns the percentage of Start
\* fails the checks (engine.rs:266-284).
LEMMA PctEarned ==
  ASSUME NEW p, Positive(p), NEW implied, Positive(implied), AtMost(implied, p),
         NEW pct \in Fractional, Less(Zero, pct),
         NEW profit \in Fractional, AtMost(Times(pct, Start), profit)
  PROVE  AtMost(pct, Over(profit, Times(Over(Start, p), implied)))
<1> DEFINE qty == Over(Start, p)
           amount == Times(qty, implied)
<1>1. /\ Positive(qty) /\ qty \in Fractional /\ Start \in Fractional
      /\ p \in Fractional /\ implied \in Fractional
  BY PlanningAssumption, OverPositive DEF Positive
<1>2. Positive(amount) /\ amount \in Fractional
  BY <1>1, PriceProduct DEF Positive
<1>3. AtMost(Zero, qty) /\ AtMost(Zero, pct)
  BY <1>1, SignFacts DEF Positive
<1>4. Times(qty, p) \in Fractional /\ AtMost(Times(qty, p), Start)
  BY <1>1, TimesOver, SameOrder, ArithmeticTyped
<1> HIDE DEF qty
<1>5. AtMost(Times(implied, qty), Times(p, qty))
  BY <1>1, <1>3, TimesMonotone
<1>6. AtMost(amount, Times(qty, p))
  BY <1>1, <1>5, TimesCommutes
<1> HIDE DEF amount
<1>7. AtMost(amount, Start)
  BY <1>1, <1>2, <1>4, <1>6, AtMostTransitive
<1>8. AtMost(Times(amount, pct), Times(Start, pct))
  BY <1>1, <1>2, <1>3, <1>7, TimesMonotone
<1>9. /\ Times(amount, pct) = Times(pct, amount) /\ Times(Start, pct) = Times(pct, Start)
      /\ Times(pct, amount) \in Fractional /\ Times(pct, Start) \in Fractional
  BY <1>1, <1>2, TimesCommutes, ArithmeticTyped
<1>10. AtMost(Times(pct, amount), profit)
  BY <1>8, <1>9, AtMostTransitive
<1> QED BY <1>2, <1>10, OverBound DEF amount, qty

\* No opportunity that earns the percentage of Start is called unprofitable.
THEOREM PctNeverTooStrict == Spec => []PctErrsOneWay
<1>1. ASSUME LoopInv PROVE PctErrsOneWay
  <2> SUFFICES ASSUME NEW i \in 1..Len(results),
                      AtMost(found[i].implied_price, found[i].legs[1].price),
                      AtMost(Times(cfg.min_profit_pct, Start), found[i].estimated_profit),
                      results[i].verdict = "unprofitable"
               PROVE  FALSE
    BY DEF PctErrsOneWay
  <2>1. i \in 1..Len(found)
    <3>1. Len(results) <= Len(found) /\ Len(results) \in Nat /\ Len(found) \in Nat
      BY <1>1 DEF LoopInv
    <3> QED BY <3>1, SMT
  <2> DEFINE op == found[i]
  <2>2. ~pre_trade_checks(op, cfg)
    BY <1>1 DEF LoopInv, VerdictInv
  <2>3. Less(cfg.min_profit_abs, op.estimated_profit) /\ op \in Opportunities
    BY <1>1, <2>1, FoundWays
  <2>4. /\ Positive(op.legs[1].price) /\ Positive(op.implied_price)
        /\ op.legs[1].qty = Over(Start, op.legs[1].price)
    BY <1>1, <2>1, FirstLeg
  <2>5. op.estimated_profit \in Fractional /\ cfg.min_profit_pct \in Fractional
    BY <1>1, <2>3, PlanningAssumption DEF LoopInv, Opportunities
  <2> HIDE DEF op
  <2>6. Less(Zero, cfg.min_profit_pct)
        /\ ~AtMost(cfg.min_profit_pct, Over(op.estimated_profit, StartAmount(op)))
    BY <2>2, <2>3 DEF pre_trade_checks
  <2>7. StartAmount(op) = Times(Over(Start, op.legs[1].price), op.implied_price)
    BY <2>4 DEF StartAmount
  <2>8. AtMost(op.implied_price, op.legs[1].price)
        /\ AtMost(Times(cfg.min_profit_pct, Start), op.estimated_profit)
    BY DEF op
  <2> QED BY <2>4, <2>5, <2>6, <2>7, <2>8, PctEarned
<1> QED BY <1>1, LoopInvariant, PTL

-----------------------------------------------------------------------------
(* Both ways round. *)

\* What is kept of an amount when no more than the whole is taken.
Share(k) == k \in Fractional /\ AtMost(Zero, k) /\ AtMost(k, One)

LEMMA KeepIsShare ==
  ASSUME cfg \in Configs, NoFeeAboveOne, NEW s \in Symbols
  PROVE  Share(Keep(cfg.fee_map, s))
<1> DEFINE fee == Fee(cfg.fee_map, s)
           keep == Keep(cfg.fee_map, s)
<1>1. fee \in Fractional /\ AtMost(Zero, fee) /\ AtMost(fee, One)
  <2>1. CASE s \in DOMAIN cfg.fee_map
    BY <2>1, PlanningAssumption DEF Fee, NoFeeAboveOne, validate
  <2>2. CASE s \notin DOMAIN cfg.fee_map
    <3>1. fee = Zero
      BY <2>2 DEF Fee
    <3>2. AtMost(Zero, Zero) /\ AtMost(Zero, One)
      BY SMT DEF AtMost, Less, Zero, One, Whole, Frac
    <3> QED BY <3>1, <3>2, ConstantsTyped
  <2> QED BY <2>1, <2>2
<1>2. keep = Minus(One, fee) /\ keep \in Fractional
  BY KeepTyped DEF Keep
<1> HIDE DEF fee, keep
<1>3. fee.num \in Int /\ fee.den \in Nat \ {0} /\ fee.num >= 0 /\ fee.num <= fee.den
  BY <1>1, SMT DEF AtMost, Less, Zero, One, Whole, Frac, Fractional
<1>4. keep = Frac(fee.den - fee.num, fee.den)
  BY <1>2, <1>3, SMT DEF Minus, One, Whole, Frac
<1>5. AtMost(Zero, keep) /\ AtMost(keep, One)
  BY <1>3, <1>4, SMT DEF AtMost, Less, Zero, One, Whole, Frac
<1> QED BY <1>2, <1>5 DEF Share, keep

LEMMA TimesNonNegative ==
  ASSUME NEW x \in Fractional, AtMost(Zero, x), NEW y \in Fractional, AtMost(Zero, y)
  PROVE  Times(x, y) \in Fractional /\ AtMost(Zero, Times(x, y))
<1>1. Times(x, y) \in Fractional
  BY ArithmeticTyped
<1>2. x.num \in Int /\ y.num \in Int /\ x.num >= 0 /\ y.num >= 0
  BY SignFacts DEF Fractional
<1>3. x.num * y.num >= 0
  BY <1>2, SMT
<1>4. Times(x, y).num = x.num * y.num
  BY DEF Times, Frac
<1> QED BY <1>1, <1>3, <1>4, SignFacts

LEMMA OverNonNegative ==
  ASSUME NEW x \in Fractional, AtMost(Zero, x), NEW p, Positive(p)
  PROVE  Over(x, p) \in Fractional /\ AtMost(Zero, Over(x, p))
<1>1. Over(x, p) \in Fractional
  BY OverTyped
<1>2. x.num \in Int /\ x.num >= 0 /\ p.den \in Nat
  BY SignFacts DEF Positive, Fractional
<1>3. x.num * p.den >= 0
  BY <1>2, SMT
<1>4. Over(x, p).num = x.num * p.den
  BY DEF Over, Frac
<1> QED BY <1>1, <1>3, <1>4, SignFacts

\* A share of an amount is not above a bound of the amount.
LEMMA ShareAtMost ==
  ASSUME NEW x \in Fractional, AtMost(Zero, x), NEW k, Share(k),
         NEW y \in Fractional, AtMost(x, y)
  PROVE  /\ Times(x, k) \in Fractional
         /\ AtMost(Zero, Times(x, k))
         /\ AtMost(Times(x, k), y)
<1>1. k \in Fractional /\ AtMost(Zero, k) /\ AtMost(k, One) /\ One \in Fractional
  BY ConstantsTyped DEF Share
<1>2. Times(x, k) \in Fractional /\ AtMost(Zero, Times(x, k))
  BY <1>1, TimesNonNegative
<1>3. AtMost(Times(k, x), Times(One, x))
  BY <1>1, TimesMonotone
<1>4. Times(One, x) = x
  BY SMT DEF Times, One, Whole, Frac, Fractional
<1>5. Times(k, x) = Times(x, k)
  BY <1>1, TimesCommutes
<1>6. AtMost(Times(x, k), x)
  BY <1>3, <1>4, <1>5
<1> QED BY <1>2, <1>6, AtMostTransitive

LEMMA OverAtMost ==
  ASSUME NEW x \in Fractional, NEW y, Positive(y), NEW z \in Fractional,
         AtMost(z, Times(x, y))
  PROVE  AtMost(Over(z, y), x)
<1> DEFINE a == x.num
           b == x.den
           c == y.num
           d == y.den
           e == z.num
           f == z.den
<1>1. a \in Int /\ b \in Int /\ c \in Int /\ d \in Int /\ e \in Int /\ f \in Int
  BY SMT DEF Positive, Fractional
<1>2. ~((a * c) * f < e * (b * d))
  BY DEF AtMost, Less, Times, Frac
<1>3. Over(z, y) = Frac(e * d, f * c)
  BY DEF Over
<1> HIDE DEF a, b, c, d, e, f
<1>4. (e * d) * b = e * (b * d) /\ a * (f * c) = (a * c) * f
  BY <1>1, SMT
<1>5. ~(a * (f * c) < (e * d) * b)
  BY <1>2, <1>4
<1> QED BY <1>3, <1>5 DEF AtMost, Less, Frac, a, b

\* Two purchases and a sale bring no more than they would without fees.
LEMMA ForwardBound ==
  ASSUME NEW ask1, Positive(ask1), NEW ask2, Positive(ask2), NEW bid3, Positive(bid3),
         NEW k1, Share(k1), NEW k2, Share(k2), NEW k3, Share(k3)
  PROVE  LET final == Times(Times(Times(Over(Times(Over(Start, ask1), k1), ask2), k2), bid3), k3)
         IN  /\ final \in Fractional
             /\ AtMost(final, Times(Over(Over(Start, ask1), ask2), bid3))
<1> DEFINE start == Over(Start, ask1)
           most == Over(start, ask2)
           btc == Times(start, k1)
           bought == Over(btc, ask2)
           eth == Times(bought, k2)
           gross == Times(eth, bid3)
           final == Times(gross, k3)
<1>1. /\ Start \in Fractional /\ AtMost(Zero, Start)
      /\ bid3 \in Fractional /\ AtMost(Zero, bid3)
  BY PlanningAssumption, SignFacts DEF Positive
<1>2. start \in Fractional /\ AtMost(Zero, start) /\ AtMost(start, start)
  BY <1>1, OverNonNegative, OrderFacts
<1>3. btc \in Fractional /\ AtMost(Zero, btc) /\ AtMost(btc, start)
  BY <1>2, ShareAtMost
<1> HIDE DEF start, btc
<1>4. /\ bought \in Fractional /\ AtMost(Zero, bought) /\ most \in Fractional
      /\ AtMost(bought, most)
  BY <1>2, <1>3, OverNonNegative, OverMonotone
<1> HIDE DEF bought, most
<1>5. eth \in Fractional /\ AtMost(Zero, eth) /\ AtMost(eth, most)
  BY <1>4, ShareAtMost
<1> HIDE DEF eth
<1>6. /\ gross \in Fractional /\ AtMost(Zero, gross) /\ Times(most, bid3) \in Fractional
      /\ AtMost(gross, Times(most, bid3))
  BY <1>1, <1>4, <1>5, TimesNonNegative, TimesMonotone, ArithmeticTyped
<1> HIDE DEF gross
<1>7. final \in Fractional /\ AtMost(final, Times(most, bid3))
  BY <1>6, ShareAtMost
<1> QED BY <1>7 DEF final, gross, eth, bought, most, btc, start

\* So do a purchase and two sales.
LEMMA BackwardBound ==
  ASSUME NEW ask1, Positive(ask1), NEW bid2, Positive(bid2), NEW bid3, Positive(bid3),
         NEW k1, Share(k1), NEW k2, Share(k2), NEW k3, Share(k3)
  PROVE  LET final == Times(Times(Times(Times(Times(Over(Start, ask1), k1), bid2), k2), bid3), k3)
         IN  /\ final \in Fractional
             /\ AtMost(final, Times(Times(Over(Start, ask1), bid2), bid3))
<1> DEFINE start == Over(Start, ask1)
           most == Times(start, bid2)
           eth == Times(start, k1)
           sold == Times(eth, bid2)
           btc == Times(sold, k2)
           gross == Times(btc, bid3)
           final == Times(gross, k3)
<1>1. /\ Start \in Fractional /\ AtMost(Zero, Start)
      /\ bid2 \in Fractional /\ AtMost(Zero, bid2)
      /\ bid3 \in Fractional /\ AtMost(Zero, bid3)
  BY PlanningAssumption, SignFacts DEF Positive
<1>2. start \in Fractional /\ AtMost(Zero, start) /\ AtMost(start, start)
  BY <1>1, OverNonNegative, OrderFacts
<1>3. eth \in Fractional /\ AtMost(Zero, eth) /\ AtMost(eth, start)
  BY <1>2, ShareAtMost
<1> HIDE DEF start, eth
<1>4. /\ sold \in Fractional /\ AtMost(Zero, sold) /\ most \in Fractional
      /\ AtMost(sold, most)
  BY <1>1, <1>2, <1>3, TimesNonNegative, TimesMonotone, ArithmeticTyped
<1> HIDE DEF sold, most
<1>5. btc \in Fractional /\ AtMost(Zero, btc) /\ AtMost(btc, most)
  BY <1>4, ShareAtMost
<1> HIDE DEF btc
<1>6. /\ gross \in Fractional /\ AtMost(Zero, gross) /\ Times(most, bid3) \in Fractional
      /\ AtMost(gross, Times(most, bid3))
  BY <1>1, <1>4, <1>5, TimesNonNegative, TimesMonotone, ArithmeticTyped
<1> HIDE DEF gross
<1>7. final \in Fractional /\ AtMost(final, Times(most, bid3))
  BY <1>6, ShareAtMost
<1> QED BY <1>7 DEF final, gross, btc, sold, eth, most, start

\* At uncrossed prices the two ways round, without fees, do not both gain: the second one
\* would take back at better prices what the first one traded.
LEMMA NotBothWays ==
  ASSUME NEW ask1, Positive(ask1), NEW bid1, Positive(bid1), AtMost(bid1, ask1),
         NEW ask2, Positive(ask2), NEW bid2, Positive(bid2), AtMost(bid2, ask2),
         NEW ask3, Positive(ask3), NEW bid3, Positive(bid3), AtMost(bid3, ask3),
         Less(Start, Times(Over(Over(Start, ask1), ask2), bid3)),
         Less(Start, Times(Times(Over(Start, ask3), bid2), bid1))
  PROVE  FALSE
<1> DEFINE start == Over(Start, ask1)
           y == Over(start, ask2)
           x == Over(Start, ask3)
<1>1. /\ Start \in Fractional /\ AtMost(Zero, Start)
      /\ ask1 \in Fractional /\ ask2 \in Fractional /\ ask3 \in Fractional
      /\ bid1 \in Fractional /\ bid2 \in Fractional /\ bid3 \in Fractional
      /\ AtMost(Zero, ask1) /\ AtMost(Zero, ask2) /\ AtMost(Zero, bid1) /\ AtMost(Zero, bid2)
  BY PlanningAssumption, SignFacts DEF Positive
<1>2. start \in Fractional /\ AtMost(Zero, start) /\ x \in Fractional /\ AtMost(Zero, x)
  BY <1>1, OverNonNegative
<1>3. /\ Times(start, ask1) \in Fractional /\ AtMost(Times(start, ask1), Start)
  BY <1>1, <1>2, TimesOver, SameOrder, ArithmeticTyped
<1>4. x = Over(Start, ask3)
  OBVIOUS
<1> HIDE DEF start, x
<1>5. y \in Fractional /\ AtMost(Zero, y)
  BY <1>2, OverNonNegative
<1>6. /\ Times(y, ask2) \in Fractional /\ AtMost(Times(y, ask2), start)
  BY <1>1, <1>2, <1>5, TimesOver, SameOrder, ArithmeticTyped
<1>7. Less(Start, Times(y, bid3)) /\ Less(Start, Times(Times(x, bid2), bid1))
  BY DEF y, start, x
<1> HIDE DEF y
<1>8. AtMost(x, y)
  <2>1. AtMost(Times(bid3, y), Times(ask3, y))
    BY <1>1, <1>5, TimesMonotone
  <2>2. /\ Times(bid3, y) = Times(y, bid3) /\ Times(ask3, y) = Times(y, ask3)
        /\ Times(y, bid3) \in Fractional /\ Times(y, ask3) \in Fractional
    BY <1>1, <1>5, TimesCommutes, ArithmeticTyped
  <2>3. AtMost(Start, Times(y, ask3))
    BY <2>1, <2>2, <1>1, <1>7, LessAtMost, OrderFacts
  <2> QED BY <2>3, <1>1, <1>4, <1>5, OverAtMost
<1>9. AtMost(Times(x, bid2), start)
  <2>1. AtMost(Times(x, bid2), Times(y, bid2))
    BY <1>1, <1>2, <1>5, <1>8, TimesMonotone
  <2>2. AtMost(Times(bid2, y), Times(ask2, y))
    BY <1>1, <1>5, TimesMonotone
  <2>3. /\ Times(bid2, y) = Times(y, bid2) /\ Times(ask2, y) = Times(y, ask2)
        /\ Times(y, bid2) \in Fractional /\ Times(x, bid2) \in Fractional
    BY <1>1, <1>2, <1>5, TimesCommutes, ArithmeticTyped
  <2>4. AtMost(Times(x, bid2), Times(y, ask2))
    BY <2>1, <2>2, <2>3, <1>6, AtMostTransitive
  <2> QED BY <2>3, <2>4, <1>2, <1>6, AtMostTransitive
<1>10. AtMost(Times(Times(x, bid2), bid1), Start)
  <2>1. Times(x, bid2) \in Fractional
    BY <1>1, <1>2, ArithmeticTyped
  <2>2. AtMost(Times(Times(x, bid2), bid1), Times(start, bid1))
    BY <2>1, <1>1, <1>2, <1>9, TimesMonotone
  <2>3. AtMost(Times(bid1, start), Times(ask1, start))
    BY <1>1, <1>2, TimesMonotone
  <2>4. /\ Times(bid1, start) = Times(start, bid1) /\ Times(ask1, start) = Times(start, ask1)
        /\ Times(start, bid1) \in Fractional /\ Times(Times(x, bid2), bid1) \in Fractional
    BY <2>1, <1>1, <1>2, TimesCommutes, ArithmeticTyped
  <2>5. AtMost(Times(Times(x, bid2), bid1), Times(start, ask1))
    BY <2>2, <2>3, <2>4, <1>3, AtMostTransitive
  <2> QED BY <2>4, <2>5, <1>1, <1>3, AtMostTransitive
<1> QED BY <1>7, <1>10 DEF AtMost

\* One view never shows both ways round as profitable, unless a loss is allowed or a fee
\* is above the whole (tri_arbitrage.rs:74, 139).
THEOREM OneWayFound == Spec => []OneWayAtMost
<1>1. ASSUME LoopInv PROVE OneWayAtMost
  <2> SUFFICES ASSUME Uncrossed, NoFeeAboveOne, AtMost(Zero, cfg.min_profit_abs),
                      ~(Len(found) <= 1)
               PROVE  FALSE
    BY DEF OneWayAtMost
  <2>1. view \in ViewSet /\ cfg \in Configs
    BY <1>1 DEF LoopInv
  <2>2. phase = "loop"
    <3> SUFFICES ASSUME phase = "recv" PROVE FALSE
      BY <1>1 DEF LoopInv, FoundInv
    <3>1. found = <<>>
      BY <1>1 DEF LoopInv, FoundInv
    <3> QED BY <3>1, SMT
  <2>3. found = detect_triangular_opportunities(view, cfg.fee_map, cfg.min_profit_abs)
    BY <1>1, <2>2 DEF LoopInv, FoundInv
  <2> DEFINE F == Forward(view, cfg.fee_map)
             B == Backward(view, cfg.fee_map)
  <2>4. /\ ForwardQuoted(view) /\ Less(cfg.min_profit_abs, F.estimated_profit)
        /\ BackwardQuoted(view) /\ Less(cfg.min_profit_abs, B.estimated_profit)
    BY <2>3, DetectedWays
  <2> DEFINE ask1 == Head(view.asks.ab)
             bid1 == Head(view.bids.ab)
             ask2 == Head(view.asks.ac)
             bid2 == Head(view.bids.ac)
             ask3 == Head(view.asks.bc)
             bid3 == Head(view.bids.bc)
             k1 == Keep(cfg.fee_map, "ab")
             k2 == Keep(cfg.fee_map, "ac")
             k3 == Keep(cfg.fee_map, "bc")
             forward == Times(Times(Times(Over(Times(Over(Start, ask1), k1), ask2), k2), bid3), k3)
             backward == Times(Times(Times(Times(Times(Over(Start, ask3), k3), bid2), k2), bid1), k1)
  <2>5. F.estimated_profit = Minus(forward, Start) /\ B.estimated_profit = Minus(backward, Start)
    BY DEF Forward, Backward
  <2>6. /\ Positive(ask1) /\ Positive(bid1) /\ Positive(ask2) /\ Positive(bid2)
        /\ Positive(ask3) /\ Positive(bid3)
    BY <2>1, <2>4, QuotedPrices
  <2>7. AtMost(bid1, ask1) /\ AtMost(bid2, ask2) /\ AtMost(bid3, ask3)
    <3>1. Less(bid1, ask1) /\ Less(bid2, ask2) /\ Less(bid3, ask3)
      BY <2>4 DEF Uncrossed, Symbols, ForwardQuoted, BackwardQuoted
    <3> HIDE DEF ask1, bid1, ask2, bid2, ask3, bid3
    <3> QED BY <2>6, <3>1, OrderFacts DEF Positive
  <2>8. Share(k1) /\ Share(k2) /\ Share(k3)
    BY <2>1, KeepIsShare DEF Symbols
  <2>9. Start \in Fractional /\ cfg.min_profit_abs \in Fractional
    BY <2>1, PlanningAssumption DEF Positive
  <2> HIDE DEF F, B, ask1, bid1, ask2, bid2, ask3, bid3, k1, k2, k3
  <2>10. forward \in Fractional /\ AtMost(forward, Times(Over(Over(Start, ask1), ask2), bid3))
    BY <2>6, <2>8, ForwardBound
  <2>11. backward \in Fractional /\ AtMost(backward, Times(Times(Over(Start, ask3), bid2), bid1))
    BY <2>6, <2>8, BackwardBound
  <2> HIDE DEF forward, backward
  <2>12. Less(Start, forward) /\ Less(Start, backward)
    BY <2>4, <2>5, <2>9, <2>10, <2>11, MinusOrder
  <2>13. /\ Times(Over(Over(Start, ask1), ask2), bid3) \in Fractional
         /\ Times(Times(Over(Start, ask3), bid2), bid1) \in Fractional
    BY <2>6, <2>9, OverTyped, ArithmeticTyped DEF Positive
  <2>14. /\ Less(Start, Times(Over(Over(Start, ask1), ask2), bid3))
         /\ Less(Start, Times(Times(Over(Start, ask3), bid2), bid1))
    BY <2>9, <2>10, <2>11, <2>12, <2>13, LessAtMost
  <2> QED BY <2>6, <2>7, <2>14, NotBothWays
<1> QED BY <1>1, LoopInvariant, PTL

-----------------------------------------------------------------------------
(* What rounding leaves short. *)

\* A planned quantity above the detected one was raised to min_size.
LEMMA NotRaised ==
  ASSUME cfg \in Configs, NEW leg \in LegSet,
         ~TooSmall(leg, cfg.lot_rules), ~RoundedAway(leg, cfg.lot_rules),
         NEW q, q = LotQty(leg, cfg.lot_rules),
         ~(/\ leg.symbol \in DOMAIN cfg.lot_rules
           /\ q = cfg.lot_rules[leg.symbol].min_size /\ Less(leg.qty, q))
  PROVE  AtMost(q, leg.qty)
<1>1. q \in Fractional /\ LotOk(leg, q) /\ leg.qty \in Fractional
  BY LotRespected DEF LegSet
<1>2. AtMost(leg.qty, leg.qty)
  BY <1>1, OrderFacts
<1>3. CASE leg.symbol \notin DOMAIN cfg.lot_rules
  BY <1>2, <1>3 DEF LotQty
<1>4. CASE leg.symbol \in DOMAIN cfg.lot_rules
  <2> DEFINE rule == cfg.lot_rules[leg.symbol]
  <2>1. CASE q = rule.min_size
    BY <2>1, <1>4 DEF AtMost
  <2>2. CASE q # rule.min_size /\ HasStep(leg.symbol)
    BY <2>2, <1>1, <1>4 DEF LotOk, LargestLot
  <2>3. CASE q # rule.min_size /\ ~HasStep(leg.symbol)
    <3>1. AtMost(rule.step_size, Zero)
      BY <2>3, <1>4 DEF HasStep, AtMost
    <3>2. q = AtLeast(leg.qty, rule.min_size)
      BY <3>1, <1>4 DEF LotQty, round_qty_to_step
    <3>3. q = leg.qty
      BY <3>2, <2>3 DEF AtLeast
    <3> QED BY <3>3, <1>2
  <2> QED BY <2>1, <2>2, <2>3
<1> QED BY <1>3, <1>4

\* The amount that q of a leg costs, and what it is before the fee.
Cost(l, q) == IF l.side_buy THEN Times(q, l.price) ELSE q
Gross(l, q) == IF l.side_buy THEN q ELSE Times(q, l.price)
Net(l, q) == Times(Gross(l, q), Keep(cfg.fee_map, l.symbol))

LEMMA Amounts ==
  ASSUME NEW l \in LegSet, NEW q
  PROVE  /\ Spends([l EXCEPT !.qty = q]).amount = Cost(l, q)
         /\ Brings([l EXCEPT !.qty = q]).amount = Net(l, q)
         /\ Spends(l).amount = Cost(l, l.qty)
         /\ Brings(l).amount = Net(l, l.qty)
<1>1. /\ [l EXCEPT !.qty = q].symbol = l.symbol /\ [l EXCEPT !.qty = q].price = l.price
      /\ [l EXCEPT !.qty = q].side_buy = l.side_buy /\ [l EXCEPT !.qty = q].qty = q
  BY DEF LegSet
<1> QED BY <1>1 DEF Spends, Brings, Value, Cost, Gross, Net

LEMMA AmountsMonotone ==
  ASSUME NEW l \in LegSet, NEW q \in Fractional, NEW r \in Fractional, AtMost(q, r)
  PROVE  /\ Cost(l, q) \in Fractional /\ AtMost(Cost(l, q), Cost(l, r))
         /\ Gross(l, q) \in Fractional /\ AtMost(Gross(l, q), Gross(l, r))
<1>1. l.price \in Fractional /\ AtMost(Zero, l.price)
  BY SignFacts DEF LegSet, Prices, Positive
<1>2. Times(q, l.price) \in Fractional /\ AtMost(Times(q, l.price), Times(r, l.price))
  BY <1>1, ArithmeticTyped, TimesMonotone
<1> QED BY <1>2 DEF Cost, Gross

LEMMA AmountsPositive ==
  ASSUME NEW l \in LegSet, NEW q \in Fractional, Less(Zero, q)
  PROVE  Less(Zero, Cost(l, q)) /\ Less(Zero, Gross(l, q))
<1>1. l.price \in Prices
  BY DEF LegSet
<1>2. Less(Zero, Times(q, l.price))
  BY <1>1, ValuePositive
<1> QED BY <1>2 DEF Cost, Gross

LEMMA GrossAdds ==
  ASSUME NEW l \in LegSet, NEW q \in Fractional, NEW r \in Fractional
  PROVE  Same(Gross(l, Plus(q, r)), Plus(Gross(l, q), Gross(l, r)))
<1>1. l.price \in Fractional
  BY DEF LegSet, Prices
<1>2. Same(Times(Plus(q, r), l.price), Plus(Times(q, l.price), Times(r, l.price)))
  BY <1>1, TimesDistributes
<1>3. Same(Plus(q, r), Plus(q, r))
  BY DEF Same
<1> QED BY <1>2, <1>3 DEF Gross

\* A leg that is not raised spends no more than what the leg before it brings and would
\* bring with one step more.
LEMMA ShortByAStep ==
  ASSUME cfg \in Configs, NEW leg \in LegSet, NEW next \in LegSet,
         Same(Spends(next).amount, Brings(leg).amount),
         NEW q \in Fractional, Less(Zero, q), AtMost(q, leg.qty),
         HasStep(leg.symbol) =>
           AtMost(leg.qty, Plus(q, cfg.lot_rules[leg.symbol].step_size)),
         ~HasStep(leg.symbol) => AtMost(leg.qty, q),
         NEW r \in Fractional, Less(Zero, r), AtMost(r, next.qty)
  PROVE  AtMost(Spends([next EXCEPT !.qty = r]).amount,
                Plus(Brings([leg EXCEPT !.qty = q]).amount, OneStep([leg EXCEPT !.qty = q])))
<1> DEFINE k == Keep(cfg.fee_map, leg.symbol)
           cost == Cost(next, next.qty)
           gross == Gross(leg, leg.qty)
           net == Net(leg, leg.qty)
<1>1. /\ leg.qty \in Fractional /\ next.qty \in Fractional /\ leg.symbol \in Symbols
      /\ Zero \in Fractional
  BY ConstantsTyped DEF LegSet
<1>2. Less(Zero, leg.qty) /\ Less(Zero, next.qty)
  BY <1>1, LessAtMost
<1>3. cost \in Fractional /\ gross \in Fractional /\ AtMost(Cost(next, r), cost)
      /\ Cost(next, r) \in Fractional
  BY <1>1, AmountsMonotone, OrderFacts
<1>4. k \in Fractional /\ net = Times(gross, k) /\ net \in Fractional
  BY <1>1, <1>3, KeepTyped, ArithmeticTyped DEF Net
<1>5. AtMost(cost, net)
  <2>1. Spends(next).amount = cost /\ Brings(leg).amount = net
    BY Amounts
  <2>2. Same(cost, net)
    BY <2>1
  <2> HIDE DEF cost, net
  <2> QED BY <2>2, <1>3, <1>4, SameOrder
<1>6. Less(Zero, cost) /\ Less(Zero, gross)
  BY <1>1, <1>2, AmountsPositive
<1>7. AtMost(Zero, k)
  <2>1. Less(Zero, net)
    BY <1>1, <1>3, <1>4, <1>5, <1>6, LessAtMost
  <2>2. Less(Zero, k)
    BY <2>1, <1>3, <1>4, <1>6, TimesSign
  <2> QED BY <2>2, <1>4, SignFacts
<1> HIDE DEF k, cost
<1>8. AtMost(Cost(next, r), net)
  BY <1>3, <1>4, <1>5, AtMostTransitive
<1>9. Net(leg, q) = Times(Gross(leg, q), k) /\ Gross(leg, q) \in Fractional
      /\ Net(leg, q) \in Fractional
  BY <1>1, <1>4, AmountsMonotone, ArithmeticTyped DEF Net, k
<1> DEFINE planned == [leg EXCEPT !.qty = q]
<1>10. planned.symbol = leg.symbol /\ planned \in LegSet
  BY DEF LegSet
<1>11. CASE HasStep(leg.symbol)
  <2> DEFINE step == cfg.lot_rules[leg.symbol].step_size
             gq == Gross(leg, q)
             gs == Gross(leg, step)
  <2>1. step \in Fractional
    BY <1>11, PlanningAssumption DEF HasStep
  <2>2. Plus(q, step) \in Fractional /\ AtMost(leg.qty, Plus(q, step))
    BY <2>1, <1>11, ArithmeticTyped
  <2>3. OneStep(planned) = Net(leg, step)
    <3>1. OneStep(planned) = Brings([planned EXCEPT !.qty = step]).amount
      BY <1>10, <1>11 DEF OneStep
    <3>2. [planned EXCEPT !.qty = step] = [leg EXCEPT !.qty = step]
      BY DEF LegSet
    <3> QED BY <3>1, <3>2, Amounts
  <2>4. Net(leg, step) = Times(gs, k) /\ gs \in Fractional /\ Net(leg, step) \in Fractional
    BY <2>1, <1>4, AmountsMonotone, OrderFacts, ArithmeticTyped DEF Net, k
  <2>5. AtMost(gross, Plus(gq, gs)) /\ Plus(gq, gs) \in Fractional
    <3>1. AtMost(gross, Gross(leg, Plus(q, step))) /\ Gross(leg, Plus(q, step)) \in Fractional
      BY <2>2, <1>1, AmountsMonotone, OrderFacts
    <3>2. Same(Gross(leg, Plus(q, step)), Plus(gq, gs)) /\ Plus(gq, gs) \in Fractional
      BY <2>1, <2>4, <1>9, GrossAdds, ArithmeticTyped
    <3> QED BY <3>1, <3>2, <1>3, SameOrder, AtMostTransitive
  <2> HIDE DEF gq, gs, gross, net
  <2>6. AtMost(Times(gross, k), Times(Plus(gq, gs), k))
    BY <2>5, <1>3, <1>4, <1>7, TimesMonotone
  <2>7. Same(Times(Plus(gq, gs), k), Plus(Times(gq, k), Times(gs, k)))
    BY <2>4, <1>4, <1>9, TimesDistributes DEF gq
  <2>8. /\ Times(Plus(gq, gs), k) \in Fractional
        /\ Plus(Times(gq, k), Times(gs, k)) \in Fractional
        /\ Times(gq, k) = Net(leg, q) /\ Times(gs, k) = Net(leg, step)
    BY <2>4, <2>5, <1>4, <1>9, ArithmeticTyped DEF gq
  <2>9. AtMost(net, Plus(Net(leg, q), Net(leg, step)))
    BY <2>6, <2>7, <2>8, <1>4, SameOrder, AtMostTransitive
  <2>10. AtMost(Cost(next, r), Plus(Net(leg, q), Net(leg, step)))
    BY <2>8, <2>9, <1>3, <1>4, <1>8, AtMostTransitive
  <2> QED BY <2>3, <2>10, Amounts
<1>12. CASE ~HasStep(leg.symbol)
  <2>1. OneStep(planned) = Zero
    BY <1>10, <1>12 DEF OneStep
  <2>2. AtMost(gross, Gross(leg, q))
    BY <1>1, <1>12, AmountsMonotone
  <2>3. AtMost(net, Net(leg, q))
    BY <2>2, <1>3, <1>4, <1>7, <1>9, TimesMonotone
  <2>4. Plus(Net(leg, q), Zero) = Net(leg, q)
    <3> DEFINE n == Net(leg, q)
    <3>1. n \in Fractional
      BY <1>9
    <3> HIDE DEF n
    <3>2. Plus(n, Zero) = n
      BY <3>1, SMT DEF Plus, Zero, Whole, Frac, Fractional
    <3> QED BY <3>2 DEF n
  <2>5. AtMost(Cost(next, r), Net(leg, q))
    BY <2>3, <1>3, <1>4, <1>8, <1>9, AtMostTransitive
  <2> QED BY <2>1, <2>4, <2>5, Amounts
<1> QED BY <1>11, <1>12

\* Unless a quantity was raised to min_size, a planned leg spends at most one step of the
\* leg before it more than that leg brings (planner.rs:21-29).
THEOREM PlansFallShortByAStep == Spec => []ShortByAStepAtMost
<1>1. ASSUME LoopInv PROVE ShortByAStepAtMost
  <2> SUFFICES ASSUME NEW i \in Planned,
                      \A j \in 1..Len(results[i].legs) :
                        ~Raised(results[i].legs[j], found[i].legs[j].qty),
                      NEW j \in 1..Len(results[i].legs) - 1
               PROVE  AtMost(Spends(results[i].legs[j + 1]).amount,
                             Plus(Brings(results[i].legs[j]).amount, OneStep(results[i].legs[j])))
    BY Zenon DEF ShortByAStepAtMost
  <2> DEFINE planned == results[i].legs
             legs == found[i].legs
             Qty(m) == LotQty(legs[m], cfg.lot_rules)
  <2>1. i \in 1..Len(found)
    <3>1. Len(results) <= Len(found) /\ Len(results) \in Nat /\ Len(found) \in Nat
      BY <1>1 DEF LoopInv
    <3> QED BY <3>1, SMT DEF Planned
  <2>2. \A m \in 1..Len(planned) :
          /\ m \in 1..Len(legs) /\ legs[m] \in LegSet
          /\ planned[m] = [legs[m] EXCEPT !.qty = Qty(m)]
          /\ ~TooSmall(legs[m], cfg.lot_rules) /\ ~RoundedAway(legs[m], cfg.lot_rules)
    BY <1>1, PlannedLeg
  <2>3. Len(planned) = Len(legs) /\ Len(legs) \in Nat
    BY <1>1, PlannedLen
  <2>4. Chain(legs)
    BY <1>1, <2>1, FoundWays, ForwardPaysOff, BackwardPaysOff DEF LoopInv, PaysOff
  <2>5. cfg \in Configs
    BY <1>1 DEF LoopInv
  <2>6. \A m \in 1..Len(planned) : ~Raised(planned[m], legs[m].qty)
    OBVIOUS
  <2> HIDE DEF planned, legs
  <2>7. ASSUME NEW m \in 1..Len(planned)
        PROVE  /\ legs[m] \in LegSet /\ planned[m] = [legs[m] EXCEPT !.qty = Qty(m)]
               /\ Qty(m) \in Fractional /\ LotOk(legs[m], Qty(m))
               /\ AtMost(Qty(m), legs[m].qty)
    <3>1. Qty(m) \in Fractional /\ LotOk(legs[m], Qty(m))
      BY <2>2, <2>5, LotRespected
    <3>2. planned[m].symbol = legs[m].symbol /\ planned[m].qty = Qty(m)
      BY <2>2 DEF LegSet
    <3>3. ~(/\ legs[m].symbol \in DOMAIN cfg.lot_rules
            /\ Qty(m) = cfg.lot_rules[legs[m].symbol].min_size
            /\ Less(legs[m].qty, Qty(m)))
      BY <3>2, <2>6 DEF Raised
    <3>4. AtMost(Qty(m), legs[m].qty)
      BY <3>3, <2>2, <2>5, NotRaised
    <3> QED BY <3>1, <3>4, <2>2
  <2>8. j \in 1..Len(planned) /\ j + 1 \in 1..Len(planned) /\ j \in 1..Len(legs) - 1
    BY <2>3, SMT DEF planned
  <2>9. Same(Spends(legs[j + 1]).amount, Brings(legs[j]).amount)
    BY <2>4, <2>8 DEF Chain
  <2> DEFINE step == cfg.lot_rules[legs[j].symbol].step_size
  <2>10. /\ HasStep(legs[j].symbol) => AtMost(legs[j].qty, Plus(Qty(j), step))
         /\ ~HasStep(legs[j].symbol) => AtMost(legs[j].qty, Qty(j))
         /\ Less(Zero, Qty(j)) /\ Less(Zero, Qty(j + 1))
    <3>1. /\ LotOk(legs[j], Qty(j)) /\ LotOk(legs[j + 1], Qty(j + 1))
          /\ legs[j].qty \in Fractional /\ Qty(j) \in Fractional
      BY <2>7, <2>8 DEF LegSet
    <3>2. ASSUME HasStep(legs[j].symbol) PROVE AtMost(legs[j].qty, Plus(Qty(j), step))
      <4>1. Plus(Qty(j), step) \in Fractional
        BY <3>1, <3>2, <2>5, PlanningAssumption, ArithmeticTyped DEF HasStep
      <4>2. legs[j].symbol \in DOMAIN cfg.lot_rules
        BY <3>2 DEF HasStep
      <4>3. Less(legs[j].qty, Plus(Qty(j), step))
        BY <3>1, <3>2, <4>2 DEF LotOk, LargestLot
      <4> QED BY <3>1, <4>1, <4>3, OrderFacts
    <3> QED BY <3>1, <3>2 DEF LotOk
  <2>11. AtMost(Spends([legs[j + 1] EXCEPT !.qty = Qty(j + 1)]).amount,
                Plus(Brings([legs[j] EXCEPT !.qty = Qty(j)]).amount,
                     OneStep([legs[j] EXCEPT !.qty = Qty(j)])))
    <3> HIDE DEF Qty
    <3> QED BY <2>5, <2>7, <2>8, <2>9, <2>10, ShortByAStep
  <2>12. planned[j] = [legs[j] EXCEPT !.qty = Qty(j)]
         /\ planned[j + 1] = [legs[j + 1] EXCEPT !.qty = Qty(j + 1)]
    BY <2>7, <2>8
  <2> QED BY <2>11, <2>12 DEF planned
<1> QED BY <1>1, LoopInvariant, PTL

=============================================================================

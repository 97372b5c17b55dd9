----------------------------- MODULE MCPlanning -----------------------------
(***************************************************************************)
(* Instances of Planning: every combination of best bids and asks from a    *)
(* few prices, sides without a level included, with every combination of    *)
(* two fees, and lot rules whose steps and minima do not divide the         *)
(* quantities.                                                              *)
(***************************************************************************)
EXTENDS Planning

MCStart == Whole(12)

\* A side of a book: one level or none. A book is not crossed.
SidesOf(prices) ==
  {b \in [bid : {<<>>} \cup {<<p>> : p \in prices},
          ask : {<<>>} \cup {<<p>> : p \in prices}] :
     b.bid # <<>> /\ b.ask # <<>> => Less(b.bid[1], b.ask[1])}

MCViews ==
  {[bids |-> [ab |-> x.bid, bc |-> y.bid, ac |-> z.bid],
    asks |-> [ab |-> x.ask, bc |-> y.ask, ac |-> z.ask]] :
     x \in SidesOf({Whole(2), Frac(5, 2)}), y \in SidesOf({Whole(3), Frac(7, 2), Whole(9)}),
     z \in SidesOf({Whole(1), Whole(2)})}

Rule(min_size, step_size, min_notional) ==
  [min_size |-> min_size, step_size |-> step_size, min_notional |-> min_notional]

NoRules == [s \in {} |-> Rule(Zero, Zero, Zero)]
Steps == [s \in Symbols |-> Rule(Zero, Frac(3, 2), Zero)]
Minima == [s \in {"ab", "ac"} |-> Rule(Whole(4), Frac(3, 2), Whole(4))]
Notional == [s \in Symbols |-> Rule(Zero, IF s = "ab" THEN Zero ELSE Whole(5), Whole(15))]

MCConfigs ==
  {[fee_map |-> f, lot_rules |-> r, min_profit_abs |-> limits[1], min_profit_pct |-> limits[2]] :
     f \in [Symbols -> {Zero, Frac(1, 4)}] \cup [{"ab", "ac"} -> {Frac(1, 4), Whole(3)}],
     r \in {NoRules, Steps, Minima, Notional},
     limits \in {<<Zero, Zero>>, <<Whole(3), Frac(1, 2)>>, <<Whole(-7), Zero>>}}
=============================================================================

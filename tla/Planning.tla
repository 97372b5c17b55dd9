------------------------------ MODULE Planning ------------------------------
(***************************************************************************)
(* What the engine's detector makes of one view: opportunities, each of     *)
(* which is rejected by the checks, rejected by the planner or planned      *)
(* (crates/strategy/src/engine.rs, tri_arbitrage.rs and planner.rs). The    *)
(* table, the channels and the limit are in module StrategyEngine, where    *)
(* the verdicts below are a free choice.                                    *)
(***************************************************************************)
EXTENDS Detection, Planner

CONSTANTS
  ViewSet,  \* the views that can be received
  Configs   \* the configurations

Positive(x) == x \in Fractional /\ Less(Zero, x)

ASSUME PlanningAssumption ==
  /\ Positive(Start)
  /\ \A v \in ViewSet : \A s \in Symbols :
       /\ v.asks[s] \in Seq(Fractional) /\ v.bids[s] \in Seq(Fractional)
       /\ \A i \in 1..Len(v.asks[s]) : Positive(v.asks[s][i])
       /\ \A i \in 1..Len(v.bids[s]) : Positive(v.bids[s][i])
  /\ \A c \in Configs :
       /\ c.min_profit_abs \in Fractional /\ c.min_profit_pct \in Fractional
       /\ \A s \in DOMAIN c.fee_map : c.fee_map[s] \in Fractional
       /\ \A s \in DOMAIN c.lot_rules :
            c.lot_rules[s] \in [min_size : Fractional, step_size : Fractional,
                                min_notional : Fractional]
       /\ validate(c)

VARIABLES
  view, cfg,
  phase,   \* "recv" or "loop"
  found,   \* the opportunities of this view
  results  \* the verdicts on the first of them, in order

vars == <<view, cfg, phase, found, results>>

Init ==
  /\ view \in ViewSet /\ cfg \in Configs
  /\ phase = "recv" /\ found = <<>> /\ results = <<>>

Detect ==
  /\ phase = "recv"
  /\ found' = detect_triangular_opportunities(view, cfg.fee_map, cfg.min_profit_abs)
  /\ phase' = "loop"
  /\ UNCHANGED <<view, cfg, results>>

\* The opportunity the loop is at.
More == phase = "loop" /\ Len(results) < Len(found)
Op == found[Len(results) + 1]

Decide(verdict, legs) ==
  /\ results' = Append(results, [verdict |-> verdict, legs |-> legs])
  /\ UNCHANGED <<view, cfg, phase, found>>

FailChecks ==
  More /\ ~pre_trade_checks(Op, cfg) /\ Decide("unprofitable", <<>>)

FailPlan ==
  /\ More /\ pre_trade_checks(Op, cfg) /\ ~Buildable(Op, cfg.lot_rules)
  /\ Decide("unbuildable", <<>>)

Plan ==
  /\ More /\ pre_trade_checks(Op, cfg) /\ Buildable(Op, cfg.lot_rules)
  /\ Decide("planned", build_trade_plan(Op, cfg.lot_rules))

\* The view is dealt with. The next one owes nothing to it.
Done == phase = "loop" /\ ~More /\ UNCHANGED vars

Next == Detect \/ FailChecks \/ FailPlan \/ Plan \/ Done

Spec == Init /\ [][Next]_vars

-----------------------------------------------------------------------------
(* A wallet, and what a trade does to it. *)

Base == [ab |-> "btc", bc |-> "eth", ac |-> "eth"]
Quote == [ab |-> "usdt", bc |-> "usdt", ac |-> "btc"]

Value(leg) == Times(leg.qty, leg.price)
Spends(leg) == IF leg.side_buy THEN [cur |-> Quote[leg.symbol], amount |-> Value(leg)]
               ELSE [cur |-> Base[leg.symbol], amount |-> leg.qty]
Brings(leg) ==
  LET gross == IF leg.side_buy THEN leg.qty ELSE Value(leg)
  IN  [cur |-> IF leg.side_buy THEN Base[leg.symbol] ELSE Quote[leg.symbol],
       amount |-> Times(gross, Keep(cfg.fee_map, leg.symbol))]

\* A chain of trades starts and ends with usdt, and each spends just what the one
\* before it brought.
Chain(legs) ==
  /\ Spends(legs[1]).cur = "usdt" /\ Brings(legs[Len(legs)]).cur = "usdt"
  /\ \A i \in 1..Len(legs) - 1 :
       /\ Spends(legs[i + 1]).cur = Brings(legs[i]).cur
       /\ Same(Spends(legs[i + 1]).amount, Brings(legs[i]).amount)

Proceeds(legs) == Minus(Brings(legs[Len(legs)]).amount, Spends(legs[1]).amount)

\* tri_arbitrage.rs:74-99, 139-164: the legs of an opportunity are a chain of trades
\* from Start at prices of the view, which gains what the code estimates, and more
\* than the minimum.
OpportunitiesPayOff ==
  \A i \in 1..Len(found) :
    LET op == found[i]
    IN  /\ Chain(op.legs) /\ Same(Spends(op.legs[1]).amount, Start)
        /\ \A j \in 1..Len(op.legs) :
             LET leg == op.legs[j]
             IN  Same(leg.price, Head(IF leg.side_buy THEN view.asks[leg.symbol]
                                      ELSE view.bids[leg.symbol]))
        /\ Same(Proceeds(op.legs), op.estimated_profit)
        /\ Less(cfg.min_profit_abs, op.estimated_profit)

\* The ways round the triangle, found from what the symbols trade: a permutation of
\* the symbols with a side for each, such that the currencies chain from usdt.
Ways ==
  {w \in [1..3 -> Symbols \X BOOLEAN] :
     LET Pays(i) == IF w[i][2] THEN Quote[w[i][1]] ELSE Base[w[i][1]]
         Gets(i) == IF w[i][2] THEN Base[w[i][1]] ELSE Quote[w[i][1]]
     IN  /\ Pays(1) = "usdt" /\ Pays(2) = Gets(1) /\ Pays(3) = Gets(2) /\ Gets(3) = "usdt"
         /\ {w[i][1] : i \in 1..3} = Symbols}

Side(w, i) == IF w[i][2] THEN view.asks[w[i][1]] ELSE view.bids[w[i][1]]
Quoted(w) == \A i \in 1..3 : Side(w, i) # <<>>

\* What trading everything along a way adds to Start.
Gain(w) ==
  LET Turn(x, i) == Times(IF w[i][2] THEN Over(x, Head(Side(w, i))) ELSE Times(x, Head(Side(w, i))),
                          Keep(cfg.fee_map, w[i][1]))
  IN  Minus(Turn(Turn(Turn(Start, 1), 2), 3), Start)

\* tri_arbitrage.rs:46-166: every way round the triangle that gains more than the
\* minimum is found.
NoneMissed ==
  phase = "loop" =>
    \A w \in Ways : Quoted(w) /\ Less(cfg.min_profit_abs, Gain(w)) =>
      \E i \in 1..Len(found) : \A j \in 1..3 :
        found[i].legs[j].symbol = w[j][1] /\ found[i].legs[j].side_buy = w[j][2]

Uncrossed ==
  \A s \in Symbols : view.bids[s] # <<>> /\ view.asks[s] # <<>> =>
    Less(Head(view.bids[s]), Head(view.asks[s]))

NoFeeAboveOne == \A s \in DOMAIN cfg.fee_map : AtMost(cfg.fee_map[s], One)

\* tri_arbitrage.rs:74, 139: one view never shows both ways round as profitable, so the
\* loop over opportunities has one at most, unless a loss is allowed or a fee takes more
\* than the whole amount; validate (config.rs) excludes neither.
OneWayAtMost ==
  Uncrossed /\ NoFeeAboveOne /\ AtMost(Zero, cfg.min_profit_abs) => Len(found) <= 1

-----------------------------------------------------------------------------
(* Plans. *)

Planned == {i \in 1..Len(results) : results[i].verdict = "planned"}
HasStep(s) == s \in DOMAIN cfg.lot_rules /\ Less(Zero, cfg.lot_rules[s].step_size)

\* The largest multiple of the step of s that is not above qty.
LargestLot(x, qty, s) ==
  LET step == cfg.lot_rules[s].step_size
  IN  /\ \E k \in {Floor(Over(x, step))} : Same(x, Times(Whole(k), step))
      /\ AtMost(x, qty) /\ Less(qty, Plus(x, step))

\* planner.rs:24-57: a planned quantity is positive and meets every lot rule: it is
\* the largest multiple of the step within the quantity detected, or min_size when
\* that is larger, and its notional is not below the minimum.
LotsRespected ==
  \A i \in Planned : \A j \in 1..Len(results[i].legs) :
    LET leg == results[i].legs[j]
        wanted == found[i].legs[j].qty
    IN  /\ Less(Zero, leg.qty)
        /\ leg.symbol \in DOMAIN cfg.lot_rules =>
             LET rule == cfg.lot_rules[leg.symbol]
             IN  /\ AtMost(rule.min_size, leg.qty)
                 /\ AtMost(rule.min_notional, Value(leg))
                 /\ HasStep(leg.symbol) =>
                      \/ LargestLot(leg.qty, wanted, leg.symbol)
                      \/ leg.qty = rule.min_size /\ Less(wanted, Plus(leg.qty, rule.step_size))
        /\ ~HasStep(leg.symbol) => AtMost(wanted, leg.qty)

\* What one step more of a leg would have brought.
OneStep(leg) ==
  IF HasStep(leg.symbol)
  THEN Brings([leg EXCEPT !.qty = cfg.lot_rules[leg.symbol].step_size]).amount
  ELSE Zero

Raised(leg, wanted) ==
  /\ leg.symbol \in DOMAIN cfg.lot_rules
  /\ leg.qty = cfg.lot_rules[leg.symbol].min_size /\ Less(wanted, leg.qty)

\* planner.rs:21-29: each leg is rounded by itself, so a leg may spend more than the
\* leg before it brings; but by no more than a step of that leg, unless a quantity
\* was raised to min_size.
ShortByAStepAtMost ==
  \A i \in Planned :
    LET legs == results[i].legs
    IN  (\A j \in 1..Len(legs) : ~Raised(legs[j], found[i].legs[j].qty)) =>
          \A j \in 1..Len(legs) - 1 :
            AtMost(Spends(legs[j + 1]).amount, Plus(Brings(legs[j]).amount, OneStep(legs[j])))

\* engine.rs:266-284: min_profit_pct is compared with a profit over an amount that is
\* not what the cycle starts with. As long as the first price is above what a unit
\* becomes on its way round, this errs to one side only: no opportunity that earns the
\* percentage is rejected.
PctErrsOneWay ==
  \A i \in 1..Len(results) :
    LET op == found[i]
    IN  (/\ AtMost(op.implied_price, op.legs[1].price)
         /\ AtMost(Times(cfg.min_profit_pct, Start), op.estimated_profit))
        => results[i].verdict # "unprofitable"
=============================================================================

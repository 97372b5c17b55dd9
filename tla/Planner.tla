------------------------------ MODULE Planner ------------------------------
(***************************************************************************)
(* crates/strategy/src/planner.rs: the legs of an opportunity become order  *)
(* legs whose quantities obey the lot rules, or there is no plan; and the   *)
(* engine's pre_trade_checks (crates/strategy/src/engine.rs) in front of    *)
(* it. The configuration is a record; lot_rules may lack a symbol.          *)
(***************************************************************************)
EXTENDS Fractions, Sequences

\* The amount the engine takes the cycle to start with.
StartAmount_Paid(op) == Times(Times(op.legs[1].qty, op.legs[1].price), op.implied_price)
StartAmount(op) == Times(op.legs[1].qty, op.implied_price)

pre_trade_checks(op, cfg) ==
  /\ Less(cfg.min_profit_abs, op.estimated_profit)
  /\ Less(Zero, cfg.min_profit_pct) =>
       AtMost(cfg.min_profit_pct, Over(op.estimated_profit, StartAmount(op)))

round_qty_to_step_Up(qty, step_size) ==
  IF AtMost(step_size, Zero) THEN qty
  ELSE Times(Whole(Floor(Over(qty, step_size)) + 1), step_size)
round_qty_to_step(qty, step_size) ==
  IF AtMost(step_size, Zero) THEN qty
  ELSE LET rounded == Times(Whole(Floor(Over(qty, step_size))), step_size)
       IN  IF Less(rounded, Zero) THEN Zero ELSE rounded

AtLeast(qty, min_size) == IF Less(Zero, min_size) /\ Less(qty, min_size) THEN min_size ELSE qty

\* The quantity of an order leg: rounded first, raised to min_size then.
LotQty_RaisedFirst(leg, rules) ==
  IF leg.symbol \in DOMAIN rules
  THEN round_qty_to_step(AtLeast(leg.qty, rules[leg.symbol].min_size),
                         rules[leg.symbol].step_size)
  ELSE leg.qty
LotQty(leg, rules) ==
  IF leg.symbol \in DOMAIN rules
  THEN AtLeast(round_qty_to_step(leg.qty, rules[leg.symbol].step_size),
               rules[leg.symbol].min_size)
  ELSE leg.qty

\* Err(MinNotional) and Err(QtyRoundedZero).
TooSmall(leg, rules) ==
  /\ leg.symbol \in DOMAIN rules
  /\ Less(Zero, rules[leg.symbol].min_notional)
  /\ Less(Times(LotQty(leg, rules), leg.price), rules[leg.symbol].min_notional)
RoundedAway(leg, rules) == AtMost(LotQty(leg, rules), Zero)

Buildable(op, rules) ==
  \A i \in 1..Len(op.legs) : ~TooSmall(op.legs[i], rules) /\ ~RoundedAway(op.legs[i], rules)

build_trade_plan(op, rules) ==
  [i \in 1..Len(op.legs) |-> [op.legs[i] EXCEPT !.qty = LotQty(op.legs[i], rules)]]

\* StrategyConfig::validate, which nothing calls. A fee above 1 passes it.
validate(cfg) ==
  /\ AtMost(Zero, cfg.min_profit_pct)
  /\ \A s \in DOMAIN cfg.fee_map : AtMost(Zero, cfg.fee_map[s])
  /\ \A s \in DOMAIN cfg.lot_rules :
       LET rule == cfg.lot_rules[s]
       IN  AtMost(Zero, rule.min_size) /\ AtMost(Zero, rule.step_size)
             /\ AtMost(Zero, rule.min_notional)
=============================================================================

----------------------------- MODULE Detection -----------------------------
(***************************************************************************)
(* crates/strategy/src/tri_arbitrage.rs: the two ways round a triangle, at  *)
(* the best prices of a view. As the demo wires it, ab is BTC in USDT, bc   *)
(* is ETH in USDT and ac is ETH in BTC. A side of a book is a sequence of   *)
(* prices, best first; sizes are not read by the code.                      *)
(***************************************************************************)
EXTENDS Fractions, Sequences

CONSTANT Start  \* what a cycle starts with (10000 USDT in the code)

Symbols == {"ab", "bc", "ac"}

\* fee_map.get(..).map(taker).unwrap_or(0)
Fee(fee_map, s) == IF s \in DOMAIN fee_map THEN fee_map[s] ELSE Zero
Keep_Added(fee_map, s) == Plus(One, Fee(fee_map, s))
Keep(fee_map, s) == Minus(One, Fee(fee_map, s))

Leg(s, buy, price, qty) == [symbol |-> s, side_buy |-> buy, price |-> price, qty |-> qty]

\* USDT -> BTC -> ETH -> USDT.
Forward(view, fee_map) ==
  LET ask_ab == Head(view.asks.ab)
      bid_bc == Head(view.bids.bc)
      ask_ac == Head(view.asks.ac)
      btc_amount == Times(Over(Start, ask_ab), Keep(fee_map, "ab"))
      eth_amount == Times(Over(btc_amount, ask_ac), Keep(fee_map, "ac"))
      final_usdt == Times(Times(eth_amount, bid_bc), Keep(fee_map, "bc"))
  IN  [estimated_profit |-> Minus(final_usdt, Start),
       implied_price |-> Over(bid_bc, Times(ask_ab, ask_ac)),
       legs |-> <<Leg("ab", TRUE, ask_ab, Over(Start, ask_ab)),
                  Leg("ac", TRUE, ask_ac, Over(btc_amount, ask_ac)),
                  Leg("bc", FALSE, bid_bc, eth_amount)>>]

\* USDT -> ETH -> BTC -> USDT.
Backward_GrossLegs(view, fee_map) ==
  LET ask_bc == Head(view.asks.bc)
      bid_ac == Head(view.bids.ac)
      bid_ab == Head(view.bids.ab)
      eth_amount == Times(Over(Start, ask_bc), Keep(fee_map, "bc"))
      btc_amount == Times(Times(eth_amount, bid_ac), Keep(fee_map, "ac"))
      final_usdt == Times(Times(btc_amount, bid_ab), Keep(fee_map, "ab"))
  IN  [estimated_profit |-> Minus(final_usdt, Start),
       implied_price |-> Over(Times(bid_ab, bid_ac), ask_bc),
       legs |-> <<Leg("bc", TRUE, ask_bc, Over(Start, ask_bc)),
                  Leg("ac", FALSE, bid_ac, eth_amount),
                  Leg("ab", FALSE, bid_ab, Times(eth_amount, bid_ac))>>]

Backward(view, fee_map) ==
  LET ask_bc == Head(view.asks.bc)
      bid_ac == Head(view.bids.ac)
      bid_ab == Head(view.bids.ab)
      eth_amount == Times(Over(Start, ask_bc), Keep(fee_map, "bc"))
      btc_amount == Times(Times(eth_amount, bid_ac), Keep(fee_map, "ac"))
      final_usdt == Times(Times(btc_amount, bid_ab), Keep(fee_map, "ab"))
  IN  [estimated_profit |-> Minus(final_usdt, Start),
       implied_price |-> Over(Times(bid_ab, bid_ac), ask_bc),
       legs |-> <<Leg("bc", TRUE, ask_bc, Over(Start, ask_bc)),
                  Leg("ac", FALSE, bid_ac, eth_amount),
                  Leg("ab", FALSE, bid_ab, btc_amount)>>]

\* Each way needs the three prices it trades at, and no others.
ForwardQuoted_BothSides(view) ==
  \A s \in Symbols : view.asks[s] # <<>> /\ view.bids[s] # <<>>
ForwardQuoted(view) ==
  view.asks.ab # <<>> /\ view.bids.bc # <<>> /\ view.asks.ac # <<>>
BackwardQuoted(view) ==
  view.asks.bc # <<>> /\ view.bids.ac # <<>> /\ view.bids.ab # <<>>

detect_triangular_opportunities(view, fee_map, min_profit_abs) ==
  LET Found(quoted, op) ==
        IF quoted /\ Less(min_profit_abs, op.estimated_profit) THEN <<op>> ELSE <<>>
  IN  Found(ForwardQuoted(view), Forward(view, fee_map))
        \o Found(BackwardQuoted(view), Backward(view, fee_map))
=============================================================================

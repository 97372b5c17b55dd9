-------------------------- MODULE MCSymbolRegistry --------------------------
(***************************************************************************)
(* Small instances of SymbolRegistry. In two of them two adapters are      *)
(* wired at the same time and share a symbol; in the first one of them     *)
(* also has a symbol in lower case. In the third the symbols are spelled   *)
(* as the comment of wire_adapter_to_manager spells them.                  *)
(***************************************************************************)
EXTENDS SymbolRegistry, TLC

CONSTANTS BTCUSDT, ETHUSDT, ethusdt, ethbtc, ETHBTC, btcusdt, binance, other

\* to_uppercase.
Upper ==
  [s \in Symbols |-> CASE s = btcusdt -> BTCUSDT
                       [] s = ethusdt -> ETHUSDT
                       [] s = ethbtc  -> ETHBTC
                       [] OTHER       -> s]

\* Both adapters trade BTCUSDT, one of them another symbol too.
SharedSymbol == binance :> {BTCUSDT, ETHUSDT} @@ other :> {BTCUSDT}

\* The second adapter is also wired for a lower-case name, whose updates have a
\* sender only if the first one has registered the upper-case name.
MixedCase == binance :> {BTCUSDT, ETHUSDT} @@ other :> {BTCUSDT, ethusdt}

\* The symbols of adapter_wiring.rs:16.
LowerCase == binance :> {btcusdt, ethbtc, ethusdt}
=============================================================================

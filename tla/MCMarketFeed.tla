---------------------------- MODULE MCMarketFeed ----------------------------
(***************************************************************************)
(* Small instances of MarketFeed: a tolerance smaller than the number of   *)
(* updates, as in the code, where it can be exceeded and met; and one that *)
(* is never exceeded. Nothing relates the two sides of a book, so one will *)
(* do; it has more prices than a snapshot shows.                           *)
(***************************************************************************)
EXTENDS MarketFeed
=============================================================================

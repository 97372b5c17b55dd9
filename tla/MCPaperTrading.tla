--------------------------- MODULE MCPaperTrading ---------------------------
(***************************************************************************)
(* Small instances of PaperTrading: two plans of two legs that run side by *)
(* side, and, for what becomes of a cancelled plan, one plan of three legs *)
(* as the planner builds them.                                             *)
(***************************************************************************)
EXTENDS PaperTrading
=============================================================================

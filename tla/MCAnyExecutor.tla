--------------------------- MODULE MCAnyExecutor ---------------------------
(***************************************************************************)
(* A small instance of AnyExecutor, with a storage that may fail and       *)
(* channels that may close. Plans are numbered in the order they are       *)
(* built, so they are not interchangeable and no symmetry is used; the     *)
(* bounds are in the configuration.                                        *)
(***************************************************************************)
EXTENDS AnyExecutor
=============================================================================

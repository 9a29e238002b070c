---------------------------- MODULE MCBarHistory ----------------------------
(* Instance of BarHistory for TLC; the bounds are in the .cfg files. *)
EXTENDS BarHistory

CONSTANTS w, m   \* model values: the worker, a manual evaluation
=============================================================================

-------------------------- MODULE MCStrategyEngine --------------------------
(* Instance of StrategyEngine for TLC: the worker and one request. *)
EXTENDS StrategyEngine

CONSTANTS w, m   \* model values: the worker, a manual evaluation
=============================================================================

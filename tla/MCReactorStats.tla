--------------------------- MODULE MCReactorStats ---------------------------
(***************************************************************************)
(* Model-checking instance of ReactorStats: counters of four bits, a queue *)
(* that overflows after two frames.                                        *)
(***************************************************************************)
EXTENDS ReactorStats
=============================================================================

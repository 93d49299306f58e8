--------------------------- MODULE MCLatencyStats ---------------------------
(***************************************************************************)
(* Model-checking instance of LatencyStats.  A window of 1000 and the      *)
(* percentages 95 and 99 become a window of 4 and percentages that fall    *)
(* on, and between, the positions of so short a window.                    *)
(***************************************************************************)
EXTENDS LatencyStats
=============================================================================

----------------------------- MODULE MCMpscQueue -----------------------------
(***************************************************************************)
(* Model-checking instance of MpscQueue: Zenoh's two RX threads and a ring *)
(* small enough to fill and to wrap around.                                *)
(***************************************************************************)
EXTENDS MpscQueue
=============================================================================

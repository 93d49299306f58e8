---------------------------- MODULE MCLatestCache ----------------------------
(***************************************************************************)
(* Model-checking instance of LatestCache: two RX threads and two          *)
(* BACKGROUND topics, allocated while frames are already arriving.         *)
(***************************************************************************)
EXTENDS LatestCache
=============================================================================

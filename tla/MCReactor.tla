------------------------------ MODULE MCReactor ------------------------------
(***************************************************************************)
(* Model-checking instance of Reactor: two RX threads and one handler of   *)
(* each priority.                                                          *)
(***************************************************************************)
EXTENDS Reactor
=============================================================================

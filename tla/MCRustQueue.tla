----------------------------- MODULE MCRustQueue -----------------------------
(***************************************************************************)
(* Model-checking instance of RustQueue: two workers and a ring small      *)
(* enough to fill and to wrap around.                                      *)
(***************************************************************************)
EXTENDS RustQueue
=============================================================================

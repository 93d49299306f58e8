---------------------------- MODULE MCRustReactor ----------------------------
(***************************************************************************)
(* Model-checking instance of RustReactor: the handlers that the command   *)
(* line program registers, one of each priority.                           *)
(***************************************************************************)
EXTENDS RustReactor

MCProgram == <<[path |-> "estop", priority |-> "Critical"],
               [path |-> "telemetry", priority |-> "Normal"],
               [path |-> "costmap", priority |-> "Background"]>>
=============================================================================

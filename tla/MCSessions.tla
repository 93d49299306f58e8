----------------------------- MODULE MCSessions -----------------------------
(***************************************************************************)
(* Model-checking instance of Sessions: keys of two robots, and one key    *)
(* that names no robot.                                                    *)
(***************************************************************************)
EXTENDS Sessions

MCKeys == {<<"robot", "uav0", "telemetry">>, <<"robot", "ugv0", "map", "local">>,
           <<"robot", "fleet">>}
=============================================================================

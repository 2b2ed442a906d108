---------------------------- MODULE MCMqttSession ----------------------------
(* Model-checking instance of MqttSession: client and timer handles are   *)
(* model values, reused after they are freed as the heap reuses them.     *)
EXTENDS MqttSession, TLC

\* Handles are interchangeable: permuting clients (and timers) maps
\* behaviours to behaviours.  Used for safety runs only.
HandleSymmetry == Permutations(Clients) \cup Permutations(Timers)
\* part_000, started once and never stopped, with a publishing task.
Part000 == [auto_reconnect |-> FALSE, api_caller |-> TRUE, app_stops |-> FALSE]
\* mqtt_app.c, started and stopped at any point.
AppC == [auto_reconnect |-> TRUE, api_caller |-> FALSE, app_stops |-> TRUE]
\* mqtt_app.c, stopped at any point, with a publishing task.
AppCApi == [auto_reconnect |-> TRUE, api_caller |-> TRUE, app_stops |-> TRUE]
MCBothBuilds == {Part000, AppC}
MCAppC == {AppC}
MCAppCApi == {AppCApi}
=============================================================================

\* Both builds: part_000 (only the reconnect timer reconnects; started once,
\* never stopped; another task publishes) and mqtt_app.c (esp-mqtt also
\* reconnects by itself; stopped at any point).
CONSTANTS
  Clients = {c1, c2}
  Timers = {t1}
  MQTT_MAX_RETRY_COUNT = 5
  Modes <- MCBothBuilds
  NULL = NULL
SPECIFICATION Spec
INVARIANT TypeOK
INVARIANT NoClientLeak
INVARIANT AttemptsBounded
PROPERTY ReconnectOrGiveUp
PROPERTY SessionRefinement
\* After MQTT_MAX_RETRY_COUNT failures part_000 gives up and, with no stop
\* and restart, nothing is left to happen: the session really ends there.
CHECK_DEADLOCK FALSE

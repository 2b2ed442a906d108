\* src/main/mqtt_app.c: the reconnect callback and the DISCONNECTED handler race with mqtt_app_stop.
CONSTANTS
  Clients = {c1, c2}
  Timers = {t1, t2}
  MQTT_MAX_RETRY_COUNT = 5
  Modes <- MCAppCApi
  NULL = NULL
SPECIFICATION Spec
INVARIANT NoUseAfterFree

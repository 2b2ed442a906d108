\* src/main/mqtt_app.c: mqtt_app_stop leaves mqtt_connected set across a restart.
CONSTANTS
  Clients = {c1, c2}
  Timers = {t1, t2}
  MQTT_MAX_RETRY_COUNT = 5
  Modes <- MCAppC
  NULL = NULL
SPECIFICATION Spec
INVARIANT IsConnectedMeansConnected

\* src/main/mqtt_app.c: a DISCONNECTED re-arms the timer between esp_timer_stop and esp_timer_delete.
CONSTANTS
  Clients = {c1, c2}
  Timers = {t1, t2}
  MQTT_MAX_RETRY_COUNT = 5
  Modes <- MCAppC
  NULL = NULL
SPECIFICATION Spec
INVARIANT StopReleasesTimer

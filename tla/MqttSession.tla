------------------------------ MODULE MqttSession ------------------------------
(***************************************************************************)
(* The MQTT connection state machine of src/main/mqtt_app.c and of its     *)
(* raw-string variant src/unnamed/part_000 (the two files share this code  *)
(* line for line, only the esp-mqtt configuration differs).                *)
(*                                                                         *)
(* Three tasks touch the file-scope globals client, reconnect_timer,       *)
(* mqtt_retry_count and mqtt_connected, with no lock:                      *)
(*   - the application task calling mqtt_app_start / mqtt_app_stop;       *)
(*   - the esp-mqtt task, which runs mqtt_event_handler synchronously     *)
(*     after each transport transition (one action per event here);       *)
(*   - the esp_timer task, which runs mqtt_reconnect_timer_callback.      *)
(* The esp-mqtt client and esp_timer are external collaborators: each     *)
(* client handle has a transport state (net) and a heap state (life),     *)
(* each timer handle a heap state (tlife) and an armed flag.              *)
(***************************************************************************)
EXTENDS Naturals, FiniteSets

CONSTANTS
  Clients,              \* handles esp_mqtt_client_init may return
  Timers,               \* handles esp_timer_create may return
  MQTT_MAX_RETRY_COUNT, \* #define, 5 in both source files
  Modes,                \* the builds and callers a behaviour may run with
  NULL

ASSUME MQTT_MAX_RETRY_COUNT \in Nat \ {0}
\* auto_reconnect: FALSE for part_000 (network.disable_auto_reconnect),
\* TRUE for mqtt_app.c (esp-mqtt's automatic reconnect kept); api_caller:
\* another task calls mqtt_app_publish / subscribe / unsubscribe;
\* app_stops: the application ever calls mqtt_app_stop.
ASSUME Modes \subseteq [auto_reconnect : BOOLEAN, api_caller : BOOLEAN,
                        app_stops : BOOLEAN]
ASSUME NULL \notin Clients \cup Timers

MQTT_RECONNECT_TIMEOUT_MS == 5000
BackoffCapMs == 300000                 \* "Máximo 5 minutos"
AttemptCap == MQTT_MAX_RETRY_COUNT + 2 \* saturation of the attempts history

\* 5000 * (1 << (MQTT_MAX_RETRY_COUNT - 1)) fits a 32-bit int.
ASSUME MQTT_RECONNECT_TIMEOUT_MS * 2^(MQTT_MAX_RETRY_COUNT - 1) <= 2147483647

VARIABLES
  client,           \* static esp_mqtt_client_handle_t client
  reconnect_timer,  \* static esp_timer_handle_t reconnect_timer
  mqtt_retry_count, \* static int mqtt_retry_count
  mqtt_connected,   \* static bool mqtt_connected
  life,             \* heap state of each client object
  net,              \* esp-mqtt task state of each client object
  tlife,            \* heap state of each esp_timer object
  armed,            \* the esp_timer objects currently armed
  period,           \* the delay (ms) each timer was last armed with
  app,              \* where the application task is in start / stop
  tmr,              \* where the esp_timer task is in the reconnect callback
  attempts,         \* history: connection attempts begun since the last
                    \* MQTT_EVENT_CONNECTED or mqtt_app_start
  freedUse,         \* history: a destroyed client or deleted timer was
                    \* passed to esp-mqtt or esp_timer
  api,              \* where the API caller is in mqtt_app_publish
  mode              \* the build and callers of this behaviour

vars == <<client, reconnect_timer, mqtt_retry_count, mqtt_connected, life,
          net, tlife, armed, period, app, tmr, attempts, freedUse,
          api, mode>>

AutoReconnect == mode.auto_reconnect
ApiCaller == mode.api_caller
AppStops == mode.app_stops

NetStates == {"idle", "connecting", "connected", "waiting"}
AppPcs == {"idle", "start", "stop_timer", "stop_delete", "stop_null",
           "stop_destroy", "stop_clear"}

TypeOK ==
  /\ client \in Clients \cup {NULL}
  /\ reconnect_timer \in Timers \cup {NULL}
  /\ mqtt_retry_count \in 0..MQTT_MAX_RETRY_COUNT
  /\ mqtt_connected \in BOOLEAN
  /\ life \in [Clients -> {"unused", "live", "freed"}]
  /\ net \in [Clients -> NetStates]
  /\ tlife \in [Timers -> {"unused", "live", "deleted"}]
  /\ armed \subseteq Timers
  /\ period \in [Timers -> 0..BackoffCapMs]
  /\ app \in AppPcs
  /\ tmr \in {"idle", "check", "start"}
  /\ attempts \in 0..AttemptCap
  /\ freedUse \in BOOLEAN
  /\ api \in {"idle", "call"}
  /\ mode \in Modes

-----------------------------------------------------------------------------
(* Helpers: the library calls, as the code uses them.                      *)

\* mqtt_app_is_connected
mqtt_app_is_connected == client /= NULL /\ mqtt_connected

\* exponential_backoff: 5000 * (1 << retry_count) in int, stored in a
\* uint32_t, capped at five minutes.  The int product does not overflow
\* for the counts the handler passes (see the ASSUME below).
exponential_backoff(retry_count) ==
  LET delay == MQTT_RECONNECT_TIMEOUT_MS * 2^retry_count
  IN  IF delay > BackoffCapMs THEN BackoffCapMs ELSE delay

Counted(n) == IF n < AttemptCap THEN n + 1 ELSE n

\* esp_timer_start_once(t, delay_ms * 1000): the period is kept in ms
\* (at most 300000 * 1000 < 2^32, so the uint32_t product is exact); NULL and an armed timer are rejected with
\* an error code, a deleted timer is a use after free.
TimerStartOnce(t, delay_ms) ==
  IF t = NULL \/ t \in armed
    THEN UNCHANGED <<armed, freedUse, period>>
  ELSE IF tlife[t] = "deleted"
    THEN freedUse' = TRUE /\ UNCHANGED <<armed, period>>
  ELSE /\ armed' = armed \cup {t}
       /\ period' = [period EXCEPT ![t] = delay_ms]
       /\ UNCHANGED freedUse

\* esp_timer_delete(t): ESP_ERR_INVALID_STATE while the timer is armed.
TimerDelete(t) ==
  IF t = NULL \/ t \in armed
    THEN UNCHANGED tlife
    ELSE tlife' = [tlife EXCEPT ![t] = "deleted"]

\* esp_mqtt_client_start(h): NULL is rejected, a started client answers
\* "Client has started", an idle one begins connecting.
ClientStart(h) ==
  CASE h = NULL -> UNCHANGED <<net, attempts, freedUse>>
    [] life[h] = "freed" -> freedUse' = TRUE /\ UNCHANGED <<net, attempts>>
    [] net[h] = "idle" -> /\ net' = [net EXCEPT ![h] = "connecting"]
                          /\ attempts' = Counted(attempts)
                          /\ UNCHANGED freedUse
    [] OTHER -> UNCHANGED <<net, attempts, freedUse>>

\* Mutant: the client is stopped but never destroyed.
ClientDestroy_stop_only(h) ==
  /\ life' = life
  /\ net' = [net EXCEPT ![h] = "idle"]

\* esp_mqtt_client_stop + esp_mqtt_client_destroy: stop waits for the
\* esp-mqtt task to exit, destroy frees the object.
ClientDestroy(h) ==
  /\ life' = [life EXCEPT ![h] = "freed"]
  /\ net' = [net EXCEPT ![h] = "idle"]

-----------------------------------------------------------------------------
(* The application task: mqtt_app_start.                                   *)

\* mqtt_app_start, lines 188-258: when a client exists it returns early
\* (a stutter); generate_client_id or esp_mqtt_client_init may fail with
\* nothing acquired (a stutter).  Otherwise the client is allocated and
\* esp_timer_create or esp_mqtt_client_register_event may still fail, each
\* failure releasing what was acquired before it.
StartCreate ==
  /\ UNCHANGED <<period, api, mode>>
  /\ app = "idle"
  /\ client = NULL
  /\ \E c \in {h \in Clients : life[h] /= "live"} :
       \/ \* esp_timer_create fails (also when no timer memory is left):
          \* esp_mqtt_client_destroy, client = NULL
          /\ life' = [life EXCEPT ![c] = "freed"]
          /\ UNCHANGED <<client, reconnect_timer, tlife, app>>
       \/ \E t \in {h \in Timers : tlife[h] /= "live"} :
            \/ \* register_event fails: esp_timer_delete, destroy, both NULL
               /\ life' = [life EXCEPT ![c] = "freed"]
               /\ tlife' = [tlife EXCEPT ![t] = "deleted"]
               /\ UNCHANGED <<client, reconnect_timer, app>>
            \/ /\ client' = c
               /\ life' = [life EXCEPT ![c] = "live"]
               /\ reconnect_timer' = t
               /\ tlife' = [tlife EXCEPT ![t] = "live"]
               /\ app' = "start"
  /\ UNCHANGED <<mqtt_retry_count, mqtt_connected, net, armed, tmr,
                 attempts, freedUse>>

\* mqtt_app_start, lines 261-271: mqtt_retry_count = 0, then
\* esp_mqtt_client_start; on failure the timer is deleted and the client
\* destroyed.  The start fails when the client was already started (by a
\* reconnect callback that ran in between) and may fail when the esp-mqtt
\* task cannot be created.
StartClient ==
  /\ UNCHANGED <<period, api, mode>>
  /\ app = "start"
  /\ app' = "idle"
  /\ mqtt_retry_count' = 0
  /\ \/ /\ net[client] = "idle"
        /\ net' = [net EXCEPT ![client] = "connecting"]
        /\ attempts' = 1
        /\ UNCHANGED <<client, reconnect_timer, life, tlife>>
     \/ /\ TimerDelete(reconnect_timer)
        /\ reconnect_timer' = NULL
        /\ ClientDestroy(client)
        /\ client' = NULL
        /\ attempts' = 0
  /\ UNCHANGED <<mqtt_connected, armed, tmr, freedUse>>

-----------------------------------------------------------------------------
(* The application task: mqtt_app_stop, one action per statement that    *)
(* another task can observe in between.                                    *)

\* lines 327-330: returns early (a stutter) when there is no client.
StopBegin ==
  /\ UNCHANGED <<period, api, mode>>
  /\ AppStops
  /\ app = "idle"
  /\ client /= NULL
  /\ app' = "stop_timer"
  /\ UNCHANGED <<client, reconnect_timer, mqtt_retry_count, mqtt_connected,
                 life, net, tlife, armed, tmr, attempts, freedUse>>

\* lines 333-336: if (esp_timer_is_active) esp_timer_stop.
StopTimer ==
  /\ UNCHANGED <<period, api, mode>>
  /\ app = "stop_timer"
  /\ app' = "stop_delete"
  /\ armed' = IF reconnect_timer = NULL THEN armed
              ELSE armed \ {reconnect_timer}
  /\ UNCHANGED <<client, reconnect_timer, mqtt_retry_count, mqtt_connected,
                 life, net, tlife, tmr, attempts, freedUse>>

\* line 337: esp_timer_delete, which fails if the timer was re-armed since.
StopDelete ==
  /\ UNCHANGED <<period, api, mode>>
  /\ app = "stop_delete"
  /\ app' = "stop_null"
  /\ TimerDelete(reconnect_timer)
  /\ UNCHANGED <<client, reconnect_timer, mqtt_retry_count, mqtt_connected,
                 life, net, armed, tmr, attempts, freedUse>>

\* lines 338-349: reconnect_timer = NULL; if mqtt_connected, publish the
\* offline message and esp_mqtt_client_disconnect.  Neither is observed by
\* this model: the disconnect may or may not be followed by an
\* MQTT_EVENT_DISCONNECTED (ConnectionLost) before the stop below.
StopNull ==
  /\ UNCHANGED <<period, api, mode>>
  /\ app = "stop_null"
  /\ app' = "stop_destroy"
  /\ reconnect_timer' = NULL
  /\ UNCHANGED <<client, mqtt_retry_count, mqtt_connected, life, net,
                 tlife, armed, tmr, attempts, freedUse>>

\* lines 352-353: esp_mqtt_client_stop, esp_mqtt_client_destroy.
StopDestroy ==
  /\ UNCHANGED <<period, api, mode>>
  /\ app = "stop_destroy"
  /\ app' = "stop_clear"
  /\ ClientDestroy(client)
  /\ UNCHANGED <<client, reconnect_timer, mqtt_retry_count, mqtt_connected,
                 tlife, armed, tmr, attempts, freedUse>>

\* line 354: client = NULL.  mqtt_connected is left as it was.
StopClear ==
  /\ UNCHANGED <<period, api, mode>>
  /\ app = "stop_clear"
  /\ app' = "idle"
  /\ client' = NULL
  /\ UNCHANGED <<reconnect_timer, mqtt_retry_count, mqtt_connected, life,
                 net, tlife, armed, tmr, attempts, freedUse>>

-----------------------------------------------------------------------------
(* The esp-mqtt task of client c: a transport transition together with    *)
(* the mqtt_event_handler case it dispatches.                             *)

\* MQTT_EVENT_CONNECTED, lines 112-122: reset the retry counter, set the
\* flag, subscribe and publish the online status (not observed here).
Connected(c) ==
  /\ UNCHANGED <<period, api, mode>>
  /\ life[c] = "live"
  /\ net[c] = "connecting"
  /\ net' = [net EXCEPT ![c] = "connected"]
  /\ mqtt_retry_count' = 0
  /\ mqtt_connected' = TRUE
  /\ attempts' = 0
  /\ UNCHANGED <<client, reconnect_timer, life, tlife, armed, app, tmr,
                 freedUse>>

\* Mutant: the retry bound is not tested.
OnDisconnected_unbounded(c) ==
  /\ net' = [net EXCEPT ![c] = IF AutoReconnect THEN "waiting" ELSE "idle"]
  /\ mqtt_connected' = FALSE
  /\ TimerStartOnce(reconnect_timer, exponential_backoff(mqtt_retry_count))
  /\ mqtt_retry_count' = mqtt_retry_count + 1
  /\ UNCHANGED <<client, reconnect_timer, life, tlife, app, tmr, attempts>>

\* Mutant: the retry is counted but the timer is never armed.
OnDisconnected_no_timer(c) ==
  /\ net' = [net EXCEPT ![c] = IF AutoReconnect THEN "waiting" ELSE "idle"]
  /\ mqtt_connected' = FALSE
  /\ IF mqtt_retry_count < MQTT_MAX_RETRY_COUNT
       THEN /\ mqtt_retry_count' = mqtt_retry_count + 1
            /\ UNCHANGED <<armed, freedUse, period>>
       ELSE UNCHANGED <<armed, freedUse, period, mqtt_retry_count>>
  /\ UNCHANGED <<client, reconnect_timer, life, tlife, app, tmr, attempts>>

\* MQTT_EVENT_DISCONNECTED, lines 124-138: clear the flag and, while
\* retries remain, arm the one-shot timer with the backoff delay and count
\* the retry (counted even when esp_timer_start_once fails).  esp-mqtt then
\* waits to reconnect by itself, or ends its task when auto reconnect is
\* disabled.
OnDisconnected(c) ==
  /\ net' = [net EXCEPT ![c] = IF AutoReconnect THEN "waiting" ELSE "idle"]
  /\ mqtt_connected' = FALSE
  /\ IF mqtt_retry_count < MQTT_MAX_RETRY_COUNT
       THEN /\ TimerStartOnce(reconnect_timer,
                                exponential_backoff(mqtt_retry_count))
            /\ mqtt_retry_count' = mqtt_retry_count + 1
       ELSE UNCHANGED <<armed, freedUse, period, mqtt_retry_count>>
  /\ UNCHANGED <<client, reconnect_timer, life, tlife, app, tmr, attempts>>

\* A connection attempt fails: MQTT_EVENT_ERROR (lines 172-175, logging
\* only) then MQTT_EVENT_DISCONNECTED.
ConnectFailed(c) ==
  /\ UNCHANGED <<api, mode>>
  /\ life[c] = "live"
  /\ net[c] = "connecting"
  /\ OnDisconnected(c)

\* An established connection is lost or closed.
ConnectionLost(c) ==
  /\ UNCHANGED <<api, mode>>
  /\ life[c] = "live"
  /\ net[c] = "connected"
  /\ OnDisconnected(c)

\* esp-mqtt's own reconnect after reconnect_timeout_ms, announced by
\* MQTT_EVENT_BEFORE_CONNECT (lines 108-110, logging only).
AutoRetry(c) ==
  /\ UNCHANGED <<period, api, mode>>
  /\ AutoReconnect
  /\ life[c] = "live"
  /\ net[c] = "waiting"
  /\ net' = [net EXCEPT ![c] = "connecting"]
  /\ attempts' = Counted(attempts)
  /\ UNCHANGED <<client, reconnect_timer, mqtt_retry_count, mqtt_connected,
                 life, tlife, armed, app, tmr, freedUse>>

-----------------------------------------------------------------------------
(* The esp_timer task: mqtt_reconnect_timer_callback.                     *)

\* An armed one-shot timer expires: it is disarmed and its callback runs.
TimerFires ==
  /\ UNCHANGED <<period, api, mode>>
  /\ tmr = "idle"
  /\ \E t \in armed : armed' = armed \ {t}
  /\ tmr' = "check"
  /\ UNCHANGED <<client, reconnect_timer, mqtt_retry_count, mqtt_connected,
                 life, net, tlife, app, attempts, freedUse>>

\* line 95: if (client).
TimerCheck ==
  /\ UNCHANGED <<period, api, mode>>
  /\ tmr = "check"
  /\ tmr' = IF client /= NULL THEN "start" ELSE "idle"
  /\ UNCHANGED <<client, reconnect_timer, mqtt_retry_count, mqtt_connected,
                 life, net, tlife, armed, app, attempts, freedUse>>

\* line 98: esp_mqtt_client_start(client); the global is read again after
\* the ESP_LOGI call, so it is whatever client holds now.
TimerStart ==
  /\ UNCHANGED <<period, api, mode>>
  /\ tmr = "start"
  /\ tmr' = "idle"
  /\ ClientStart(client)
  /\ UNCHANGED <<client, reconnect_timer, mqtt_retry_count, mqtt_connected,
                 life, tlife, armed, app>>

-----------------------------------------------------------------------------
(* Another task calling the API: mqtt_app_publish, lines 275-287, and     *)
(* mqtt_app_subscribe / mqtt_app_unsubscribe (291-321), which have the   *)
(* same two steps.                                                         *)

\* lines 275-278: if (client == NULL || !mqtt_connected) return ESP_FAIL
\* (no step); otherwise go on to the library call.
ApiCheck ==
  /\ ApiCaller
  /\ api = "idle"
  /\ client /= NULL /\ mqtt_connected
  /\ api' = "call"
  /\ UNCHANGED <<client, reconnect_timer, mqtt_retry_count, mqtt_connected,
                 life, net, tlife, armed, period, app, tmr, attempts,
                 freedUse, mode>>

\* lines 280-287: esp_mqtt_client_publish(client, ...) reads the global
\* again: NULL is rejected (msg_id < 0, ESP_FAIL), a destroyed client is a
\* use after free; the message itself changes no state modelled here.
ApiCall ==
  /\ api = "call"
  /\ api' = "idle"
  /\ freedUse' = (freedUse \/ (client /= NULL /\ life[client] = "freed"))
  /\ UNCHANGED <<client, reconnect_timer, mqtt_retry_count, mqtt_connected,
                 life, net, tlife, armed, period, app, tmr, attempts, mode>>

ApiStep == ApiCheck \/ ApiCall

-----------------------------------------------------------------------------
Init ==
  /\ client = NULL
  /\ reconnect_timer = NULL
  /\ mqtt_retry_count = 0
  /\ mqtt_connected = FALSE
  /\ life = [c \in Clients |-> "unused"]
  /\ net = [c \in Clients |-> "idle"]
  /\ tlife = [t \in Timers |-> "unused"]
  /\ armed = {}
  /\ period = [t \in Timers |-> 0]
  /\ app = "idle"
  /\ tmr = "idle"
  /\ attempts = 0
  /\ freedUse = FALSE
  /\ api = "idle"
  /\ mode \in Modes

AppStep ==
  StartCreate \/ StartClient \/ StopBegin \/ StopTimer \/ StopDelete
    \/ StopNull \/ StopDestroy \/ StopClear

MqttTaskStep ==
  \E c \in Clients :
    Connected(c) \/ ConnectFailed(c) \/ ConnectionLost(c) \/ AutoRetry(c)

TimerTaskStep == TimerFires \/ TimerCheck \/ TimerStart

Next == AppStep \/ MqttTaskStep \/ TimerTaskStep \/ ApiStep

(* A call in progress on the application task runs to its end; the        *)
(* esp-mqtt task settles every connection attempt and performs its own    *)
(* reconnect; esp_timer expires armed timers and runs the callback.  A     *)
(* new start or stop, and the loss of a live connection, are never forced; *)
(* an API call in progress returns.                                        *)
Fairness ==
  /\ WF_vars(StartClient)
  /\ WF_vars(StopTimer) /\ WF_vars(StopDelete) /\ WF_vars(StopNull)
  /\ WF_vars(StopDestroy) /\ WF_vars(StopClear)
  /\ \A c \in Clients : WF_vars(Connected(c) \/ ConnectFailed(c))
  /\ \A c \in Clients : WF_vars(AutoRetry(c))
  /\ WF_vars(TimerTaskStep)
  /\ WF_vars(ApiCall)

Spec == Init /\ [][Next]_vars /\ Fairness

-----------------------------------------------------------------------------
(* Properties.                                                             *)

\* Between two calls of the application task, the only client object still
\* allocated, and the only one whose esp-mqtt task runs, is the one
\* `client` holds: every failure path of mqtt_app_start and every path of
\* mqtt_app_stop stops and destroys what it built.
NoClientLeak ==
  app = "idle" =>
    \A c \in Clients : (life[c] = "live" \/ net[c] /= "idle") => c = client

\* Reconnection stops at the bound: between two MQTT_EVENT_CONNECTED (or
\* a start) the client begins at most 1 + MQTT_MAX_RETRY_COUNT connection
\* attempts, whoever begins them (mqtt_app_start, the reconnect callback,
\* esp-mqtt itself).  Stated for part_000, where the reconnect timer is
\* the only driver; mqtt_app.c keeps esp-mqtt's unbounded reconnect.
AttemptsBounded ==
  ~AutoReconnect => attempts <= MQTT_MAX_RETRY_COUNT + 1

\* A client that is not connected is eventually connected again, stopped,
\* or out of retries: the DISCONNECTED handler and the reconnect callback
\* together always lead to another attempt while retries remain.
ReconnectOrGiveUp ==
  (client /= NULL /\ ~mqtt_connected)
    ~> (mqtt_connected \/ client = NULL
        \/ mqtt_retry_count = MQTT_MAX_RETRY_COUNT)

\* Between two calls of the application task, mqtt_app_is_connected()
\* (client != NULL && mqtt_connected) is true only while that client's
\* connection is established, as publish/subscribe rely on.
IsConnectedMeansConnected ==
  (app = "idle" /\ mqtt_app_is_connected)
    => net[client] = "connected"

\* No task ever hands a destroyed client to esp-mqtt or a deleted timer to
\* esp_timer: the reconnect callback, the DISCONNECTED handler and
\* mqtt_app_publish (which checks client at line 275 and uses it at 280)
\* all race with mqtt_app_stop.
NoUseAfterFree ==
  ~freedUse

\* Once mqtt_app_stop has returned, no reconnect timer is left allocated or
\* armed: "stop() cancels a pending reconnection timer".
StopReleasesTimer ==
  (app = "idle" /\ client = NULL)
    => (armed = {} /\ \A t \in Timers : tlife[t] /= "live")

-----------------------------------------------------------------------------
(* Refinement: the session as spec.md describes it (SessionAbstract).     *)
(* A client exists between two calls of the application task; its state *)
(* is its esp-mqtt task's; a reconnection is pending while the current   *)
(* reconnect timer is armed or its callback has not yet restarted the    *)
(* client.  A stop takes effect, abstractly, when it begins.             *)

AbsState ==
  IF client = NULL \/ app /= "idle" THEN "NoClient"
  ELSE CASE net[client] = "connecting" -> "Connecting"
         [] net[client] = "connected"  -> "Connected"
         [] OTHER                      -> "Disconnected"

AbsRetries == IF AbsState = "NoClient" THEN 0 ELSE mqtt_retry_count

AbsPending ==
  /\ AbsState /= "NoClient"
  /\ reconnect_timer \in armed \/ tmr \in {"check", "start"}

Session == INSTANCE SessionAbstract
             WITH MaxRetries <- MQTT_MAX_RETRY_COUNT, state <- AbsState,
                  retries <- AbsRetries, pending <- AbsPending

\* The code implements the spec's connection state machine: every step of
\* the three tasks is a step of SessionAbstract or leaves its state alone,
\* and the code's fairness gives the abstract liveness (every attempt
\* settles, every scheduled reconnection happens).  Stated for part_000
\* without stop: with stop the leaked timer breaks it (StopReleasesTimer),
\* and mqtt_app.c's own reconnect is a second driver of retries.
RefinedMode == ~AutoReconnect /\ ~AppStops

SessionRefinement ==
  /\ RefinedMode => Session!Init
  /\ [][RefinedMode => [Session!Next]_Session!vars]_vars
  /\ RefinedMode => Session!Fairness

=============================================================================

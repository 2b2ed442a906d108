# TLA+ models of the BLE_WIFI MQTT client

This directory holds TLA+ models of the MQTT layer of the firmware, checked
with TLC. The sources are:

- `src/main/mqtt_app.c`: the JSON variant, with a last will and esp-mqtt's
  automatic reconnect left on.
- `src/unnamed/part_000`: the older raw-string variant. It sets
  `network.disable_auto_reconnect = true` and has one-character commands.
- `src/unnamed/part_001`: the configuration header.
- `src/unnamed/part_002` and `src/unnamed/part_003`: the `mqtt_app.h` API.

## The system and its parts

File-scope state in `mqtt_app.c`, lines 26-32:

- `client`
- `reconnect_timer`
- `mqtt_retry_count`
- `mqtt_connected`
- `device_ip`
- `current_active_led`

This state is shared, with no lock, by three tasks:

| task | code it runs |
|---|---|
| application task(s) | `mqtt_app_start`, `mqtt_app_stop`, `mqtt_app_publish*`, `mqtt_app_subscribe`, `mqtt_app_set_ip` |
| esp-mqtt task | `mqtt_event_handler`, once per transport event: BEFORE_CONNECT, CONNECTED, DISCONNECTED, ERROR, DATA |
| esp_timer task | `mqtt_reconnect_timer_callback` |

The components are:

1. **Retry policy.** `exponential_backoff` (lines 88-91) computes 5 s × 2^n, capped at 300 s.
2. **Connection state machine.**
   - `mqtt_app_start` (188-273) creates the client id, the client, the reconnect timer and the event registration, then starts the client. Every failure path releases what came before it.
   - `mqtt_app_stop` (325-358) stops and deletes the timer, sets it to NULL, publishes "offline", then stops and destroys the client.
   - The handler's CONNECTED case (112-122) clears the retry counter.
   - The DISCONNECTED case (124-138) arms the timer with the backoff while `mqtt_retry_count < MQTT_MAX_RETRY_COUNT`.
   - The timer callback (93-101) restarts the client.
   - In `mqtt_app.c`, esp-mqtt also reconnects by itself, because `disable_auto_reconnect` is not set. In `part_000` it does not.
3. **Command dispatcher.** The DATA case (152-170) copies the payload, tests the topic prefix and calls `process_json_command` (440-515). That function parses the JSON, answers `ping` with `pong`, maps `led_a/b/c` to `process_led_command('A'/'B'/'C')` and acknowledges every string `cmd`. In `part_000` the DATA case (134-143) instead hands any one-character payload, on any topic, to `process_led_command`.
4. **Envelope codec and status publisher.** `publish_json_message` (413-437), `publish_json_status` (371-410, with its `last_update_time` rate limit), and the status and telemetry API.
5. **Device IP bookkeeping.** `mqtt_app_set_ip` (360-365) sets the IP. The last will built at start (208) embeds it.
6. **Parts not modelled.** Client identity, error logging, configuration and headers. The table at the end says why.

## Modules

### `MqttSession.tla` (with `MCMqttSession.tla`)

This module models the connection state machine and the retry policy.

**State.** The module has these variables:

- `client` and `reconnect_timer` are the globals. Their values are heap handles, drawn from model-value sets `Clients` and `Timers`. A handle is reused after it is freed, as malloc reuses memory.
- `mqtt_retry_count` and `mqtt_connected` are the other two globals.
- `life[c]` and `tlife[t]` record whether each heap object is live or freed.
- `net[c]` is the state of each client's esp-mqtt task: idle, connecting, connected or waiting.
- `armed` is the set of armed timers, and `period[t]` the delay (ms) each was last armed with.
- `app` is the program counter of the application task inside a start or stop call. Stop is split at every shared access:
  - `StopBegin`: 326-330
  - `StopTimer`: 332-336
  - `StopDelete`: 337
  - `StopNull`: 338-349
  - `StopDestroy`: 351-353
  - `StopClear`: 354-357
- `api` is the program counter of another task inside `mqtt_app_publish` (or subscribe/unsubscribe): `ApiCheck` is the test at 275, `ApiCall` the library call at 280.
- `tmr` is the program counter of the timer callback, which reads `client` twice: `TimerCheck` at 95 and `TimerStart` at 98.
- Two history variables record things the code cannot observe:
  - `attempts` counts connection attempts since the last success;
  - `freedUse` records whether a freed object was passed to esp-mqtt or esp_timer, by any task.

**Actions.** One action per step:

- start: `StartCreate` and `StartClient`;
- the stop steps above;
- handler cases: `Connected`, `OnDisconnected` (used by `ConnectFailed` and `ConnectionLost`);
- esp-mqtt's own reconnect: `AutoRetry`, enabled only in the `mqtt_app.c` build (`mode.auto_reconnect`);
- the timer: `TimerFires`, `TimerCheck` and `TimerStart`;
- the API caller: `ApiCheck` and `ApiCall`, enabled by `mode.api_caller`.

The variable `mode`, chosen at Init from the constant `Modes`, fixes the build and the application around it for the whole behaviour: `auto_reconnect` (FALSE for `part_000`, which sets `disable_auto_reconnect`; TRUE for `mqtt_app.c`), `api_caller` (another task publishes) and `app_stops` (the application ever calls `mqtt_app_stop`). `AutoReconnect`, `ApiCaller` and `AppStops` name its fields. Nothing in this repository calls the API, so every combination is a real usage.

**Refinement.** At the end of the module, `AbsState`, `AbsRetries` and `AbsPending` map the code's state onto `SessionAbstract`:
- a client exists when `client` is set and no start or stop is in progress (a stop takes effect, abstractly, when it begins);
- the abstract state is the esp-mqtt state of that client;
- a reconnection is pending while the current `reconnect_timer` is armed or its callback has not yet restarted the client.

`Session == INSTANCE SessionAbstract WITH ...`. `SessionRefinement` is `Session!Spec` (its Init, its `[][Next]_vars` and its `Fairness`) for the behaviours of `RefinedMode`, `part_000` without stop. TLC accepts an action property only as `[][A]_v`, so the conditional is written inside each part.

**Library calls.** These are operators translated from the contracts of esp-mqtt and esp_timer:

- `ClientStart` fails on a running client.
- `ClientDestroy` stops the client. `esp_mqtt_client_stop` dispatches no DISCONNECTED event.
- `TimerStartOnce` ignores an armed or NULL timer. On a freed timer it is use-after-free.
- `TimerDelete` fails while the timer is armed.

### `SessionAbstract.tla`

The connection state machine as `spec.md` (sections 3 and 4.2) describes it, with every step atomic and no tasks or handles:

- `state`: NoClient, Disconnected, Connecting or Connected;
- `retries`: the retry counter, at most `MaxRetries`;
- `pending`: a reconnection is scheduled.

Its actions are `Start`, `Connect` (resets the counter), `Disconnect` (schedules a retry and counts it only below the bound), `Retry` (the timer is the sole driver) and `Stop` (from any state; cancels the timer). Its fairness is that every attempt settles and every scheduled retry happens.

### `StatusPublisher.tla` (with `MCStatusPublisher.tla`)

This module models what the device says about itself on `/device/status` and what the broker keeps.

**State.**
- The globals `last_update_time`, `mqtt_connected` and `device_ip`. An IP is a model value, and `device_ip` holds `TornIp` while `mqtt_app_set_ip`'s `strncpy` is replacing one address by another; `ipCopy` is the address being copied.
- `env`: the environment of the behaviour, chosen at Init from the constant `Environments`: whether the application calls `mqtt_app_publish_status` (`app`) and whether cJSON allocations may fail (`cjson_fail`).
- `now`: the uptime in seconds.
- `conn`: the client as esp-mqtt sees it: none, down, up, or closing after `esp_mqtt_client_disconnect`.
- `lwt`: the will built by `mqtt_app_start`.
- `outbox`: QoS 1 messages queued while disconnected.
- `retained`: the broker's retained message.
- `pc`, `cur`, `tsl` and `msg`: the program counter and locals of each task's call of `publish_json_status`. Two tasks call it: the application task and the esp-mqtt task in the CONNECTED handler.
- Histories: `said`, the last status message the device said, in real-time order; and `lastReport`.

**Actions.**
- `publish_json_status` is three steps:
  - `StatusBegin`: the connected test and reading the clock;
  - `StatusDiff`: the uint32 difference with `last_update_time`;
  - `StatusWrite`: the write of `last_update_time` and the publish. A cJSON allocation may fail (`env.cjson_fail`), and then nothing is published.
- `Publish` is esp-mqtt's enqueue-or-send. `Resend` is its outbox flush after a reconnection.
- The other actions are `Start`, `StopPublish`/`StopDestroy`, `Connected`, `ConnectionLost` (the broker publishes the will), `PublishStatus` and `Tick`.
- `mqtt_app_set_ip` is two steps on the application task, `SetIpBegin` (the copy is partway) and `SetIpEnd`, so the esp-mqtt task's CONNECTED handler can read `device_ip` in between.

### `CommandDispatch.tla` (with `MCCommandDispatch.tla`)

This module models the command protocol of both builds. `variant`, chosen at Init from the constant `Variants`, is "json" (`mqtt_app.c`) or "raw" (`part_000`).

**Abstraction.** One MQTT_EVENT_DATA is reduced to what the code tells apart:

- the topic: the channel it starts with, and whether more characters follow; or `NullTopic` in a continuation event;
- whether the payload parses;
- the `type` member: missing, non-string, or a value;
- the `payload`/`cmd` members;
- the payload as one character, when `data_len == 1` (from `Chars`).

**Fragmentation.** esp-mqtt delivers a message longer than its receive buffer as a first event, with the topic and a payload prefix that does not parse, and a continuation with no topic. The continuation may be one byte long. With `Fragmenting`, `DeliverFirst` and `DeliverRest` model this; `DeliverWhole` delivers a message that fits.

**State.** `current_active_led`, `rest` (the continuation still to come), `panicked` (the handler faulted), plus histories of:

- the deliveries dispatched;
- the LED codes sent to the external `process_led_command`;
- the publications.

- `misread`: whether the handler acted on a continuation.

**Actions.** The three delivery actions each run the handler's DATA case once:
- `OnDataJson` is the `mqtt_app.c` case and `process_json_command`. It includes the malloc-failure drop and the fault of `strncmp` on a NULL topic.
- `OnDataRaw` is the `part_000` case.

## Runs

| run | cfg | expect | what it shows |
|---|---|---|---|
| session | MCMqttSession_session.cfg | pass | Both builds in one run: `part_000` started once with a publishing task, and `mqtt_app.c` with esp-mqtt's own reconnect and stop at any point. `TypeOK`. `NoClientLeak`: every start failure path and every stop releases the client and its task. `ReconnectOrGiveUp`: a disconnected client is eventually connected, stopped or out of retries. In `part_000`: `AttemptsBounded`, at most 1 + MQTT_MAX_RETRY_COUNT attempts between two connections, and `SessionRefinement`: the code implements `SessionAbstract`, liveness included. |
| session_stale_flag | MCMqttSession_stale.cfg | violation | `mqtt_connected` survives stop. After a restart, `mqtt_app_is_connected()` is true before the new client connects. |
| session_use_after_free | MCMqttSession_uaf.cfg | violation | A DISCONNECTED event during stop arms the timer that `esp_timer_delete` freed. The same property covers `mqtt_app_publish`, which can pass its check between `esp_mqtt_client_destroy` and `client = NULL`. |
| session_timer_leak | MCMqttSession_timerleak.cfg | violation | A re-arm between `esp_timer_stop` and `esp_timer_delete` makes the delete fail. The armed timer outlives stop, and after a restart it drives a retry no disconnection scheduled (this is also why `SessionRefinement` fails once stop is allowed). |
| dispatch | MCCommandDispatch_pass.cfg | pass | `DispatchFollowsSpec`: over every sequence of two events, whole or fragmented, in both builds, the LED codes and replies of the dispatched messages match the spec's dispatch table, folded message by message (part_000: one LED command per one-character message). |
| dispatch_fragment | MCCommandDispatch_fragment.cfg | violation | `ContinuationsIgnored`, `mqtt_app.c` build: the continuation of a long message makes the DATA case call `strncmp` on a NULL topic, which panics the device. |
| dispatch_fragment_raw | MCCommandDispatch_fragraw.cfg | violation | `ContinuationsIgnored`, `part_000` build: the one-byte tail `z` of a long message reaches `process_led_command` as a command nobody sent. |
| status | MCStatusPublisher_status.cfg | pass | Two environments in one run: only the handler publishing with allocation succeeding (as in this repository), and the application also publishing with cJSON allowed to fail. `TypeOK` over every action; `ConnectedEventuallyOnline` in the first environment: while connected, the retained status becomes "online". One IP, so `mqtt_app_set_ip` runs but never tears (135k states). |
| status_time_wrap | MCStatusPublisher_wrap.cfg | violation | The two tasks race on `last_update_time`. `time_since_last_update` wraps to 2^32-1 (65535 in the instance). |
| status_reorder | MCStatusPublisher_reorder.cfg | violation | An "offline" queued while disconnected is resent after the CONNECTED handler's "online", so the retained status says offline while connected. |
| status_stop_online | MCStatusPublisher_stop.cfg | violation | A connection completing during `mqtt_app_stop` publishes "online" after stop's "offline". It stays retained after stop. |
| status_ip_copy | MCStatusPublisher_ipcopy.cfg | violation | `IpsAreWhole`: a connection completing while `mqtt_app_set_ip` copies a new address makes the CONNECTED handler publish, retained, a half-copied `device_ip`. |

The violations are recorded as findings in `PROJECT.json`. All are code bugs:
- the stale flag;
- the use-after-free, from the handler and from the publish API;
- the timer leak;
- the wrapped time;
- the reordered status;
- the online status left after stop;
- the torn `device_ip` in the online status;
- the fragmented message: a NULL-topic fault in `mqtt_app.c`, and a phantom LED command in `part_000`.

In `mqtt_app.c` mode, esp-mqtt's own reconnect has no bound, so attempts go on past MQTT_MAX_RETRY_COUNT. The spec calls automatic reconnection a configuration option, so `AttemptsBounded` is checked only in part_000 mode.

## Bounds

**MqttSession.** Two client handles and two timer handles are enough for:

- a stop followed by a start that reuses a freed handle;
- a leaked timer next to a fresh one.

The pass run `session` has one timer handle: it still reuses a deleted timer after a stop, and a leaked live timer makes the next `esp_timer_create` fail, which `StartCreate` models. Its liveness check over both builds takes 13 s with one timer and over 5 minutes with two. The violation runs keep two timers.

`MQTT_MAX_RETRY_COUNT = 5`, the value in the code, so the retry bound is reached. `attempts` is capped at MAX+2 in the guards (`AttemptCap`), one past the first violation of the bound.

The handler arms the timer only while `mqtt_retry_count < MAX`, so `exponential_backoff` gets at most MAX-1 = 4, and `5000 * (1 << 4)` is far from overflow; an ASSUME states that for the instance's MAX.

**CommandDispatch.** Two deliveries (`MaxDeliveries = 2`) over every topic shape and payload shape. Two is enough to show ordering across messages and the reported LED after an LED command. `Cmds` contains the three LED commands and one unrecognised command. `Chars` contains two LED letters and one other character. A fragmented message takes both events, which is enough for the continuation to be handled.

**SessionRefinement.** It is checked in `session`, on the `part_000` behaviours, which never stop: without stop, the session stops for good once the retries are spent, so that cfg says `CHECK_DEADLOCK FALSE`. With stop allowed, the leaked timer violates it, as `session_timer_leak` shows more directly.

**StatusPublisher.** The bounds are:
- `MaxTime = 3` seconds of uptime;
- `MaxOutbox = 2` queued messages;
- two IPs (one in `status`, where a second only multiplies the messages; `status_ip_copy` has two, so the copy can tear).

A uint32 wrap past every reachable uptime needs only a modulus above `MaxTime`. The instance uses 65536 for 2^32, because TLC's integers are 32-bit. Three seconds let two publishes land in different seconds, in both orders.

The dispatch cfgs say `CHECK_DEADLOCK FALSE`: a behaviour ends when its messages are consumed, or when the handler has faulted and the device panics.

## Fairness

Weak fairness is assumed on:

- the rest of a start or stop call already in progress, because the application task runs it to its end;
- the settling of each connection attempt: esp-mqtt's network timeout, `MQTT_NETWORK_TIMEOUT_MS`, ends every attempt in CONNECTED or an error;
- esp-mqtt's own reconnect, when it is enabled;
- the esp_timer task;
- the return of an API call in progress;
- in StatusPublisher, the rest of a `publish_json_status` call in progress, the end of a stop and of `mqtt_app_set_ip`, and esp-mqtt's outbox resend while connected.

Nothing forces a new start or stop, a publish, or the loss of a live connection.

## Not modelled

| part | why |
|---|---|
| `mqtt_app_publish_telemetry` | It builds a JSON and publishes it through `publish_json_message` and does nothing else. That function tests only `mqtt_connected` before it uses `client`, the same check-then-use race as `mqtt_app_publish` (`ApiCheck`/`ApiCall`). |
| The `response` object leaked by `process_json_command` when `publish_json_message` fails before taking ownership (418) | CommandDispatch does not model cJSON heap allocation inside `process_json_command`; the hazard list records it. |
| `generate_client_id`, `handle_mqtt_error`, `log_error_if_nonzero` | Formatting and logging. Only the failure early return matters, and it is modelled. |
| `part_001`, `part_002`, `part_003` | Constants and declarations, with no behaviour. |

The following are modelled, but no run checks them:
- the stale IP in the will;
- the missing retry when cJSON allocation fails in the CONNECTED handler.

The hazard list says why.

## Plan

1. Compose StatusPublisher with MqttSession, so that the status races and the session races are seen together in one instance.
2. Larger instances of StatusPublisher, with three IPs and a deeper outbox, under a state constraint.

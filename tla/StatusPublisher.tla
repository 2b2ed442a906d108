--------------------------- MODULE StatusPublisher ---------------------------
(***************************************************************************)
(* The device's status announcements in src/main/mqtt_app.c and what the  *)
(* broker keeps of them: publish_json_status (with its static             *)
(* last_update_time), mqtt_app_publish_status, the "online" publish of    *)
(* the CONNECTED handler, the "offline" publish of mqtt_app_stop, the     *)
(* last-will message built by mqtt_app_start, and mqtt_app_set_ip.        *)
(*                                                                         *)
(* Two tasks call publish_json_status with no lock: the application task  *)
(* (mqtt_app_publish_status, mqtt_app_stop) and the esp-mqtt task (the    *)
(* CONNECTED handler).  The collaborators are esp-mqtt, whose QoS 1       *)
(* publishes are sent at once while connected and queued in its outbox    *)
(* (resent after the next connection) otherwise, and the broker, which    *)
(* retains the last message on /device/status and publishes the will on  *)
(* an unclean loss.  Timer and retry handling are MqttSession's.          *)
(***************************************************************************)
EXTENDS Naturals, Sequences

CONSTANTS
  IPs,                 \* values mqtt_app_set_ip may be given
  DefaultIp,           \* "0.0.0.0", its initial value
  Environments,        \* the environments a behaviour may run in
  MaxTime,             \* uptime in seconds covered by a behaviour
  MaxOutbox,           \* messages the esp-mqtt outbox can hold
  Uint32Modulus        \* 2^32, the wrap of uint32_t arithmetic

ASSUME DefaultIp \in IPs
\* app: the application calls mqtt_app_publish_status; cjson_fail:
\* cJSON_CreateObject / cJSON_Print may return NULL.
ASSUME Environments \subseteq [app : BOOLEAN, cjson_fail : BOOLEAN]
ASSUME MaxTime \in Nat /\ MaxOutbox \in Nat \ {0}
\* TLC's integers are 32-bit, so an instance may take a smaller modulus; any
\* modulus above MaxTime wraps a negative difference past every uptime.
ASSUME Uint32Modulus \in Nat /\ Uint32Modulus > MaxTime

Tasks == {"app", "mqtt"}
Statuses == {"online", "offline"}
\* What device_ip holds while strncpy is overwriting one address with
\* another: bytes of both, which is neither.
TornIp == "torn"
Addr == IPs \cup {TornIp}
\* A retained status message: the status and ip members of its JSON.
Msg == [status : Statuses, ip : Addr]
NoMsg == [status |-> "none", ip |-> DefaultIp]
\* The locals of a task with no call in progress.
IdleMsg == [status |-> "offline", ip |-> DefaultIp]
NoCopy == "none"

VARIABLES
  now,              \* esp_timer_get_time() / 1000000
  last_update_time, \* static uint32_t in publish_json_status
  mqtt_connected,   \* static bool mqtt_connected
  device_ip,        \* static char device_ip[16]
  conn,             \* the client: "none" (client == NULL), "down",
                    \* "up", or "closing" after esp_mqtt_client_disconnect
  lwt,              \* the last-will message of the current client
  outbox,           \* QoS 1 status messages queued while not connected
  retained,         \* the broker's retained message on /device/status
  pc,               \* where each task is in publish_json_status / stop
  cur,              \* local current_time of each task's call
  tsl,              \* local time_since_last of each task's call
  msg,              \* the status and ip each task's call put in its JSON
  said,             \* history: the last status message said, in real time
                    \* order (published or queued by the device, or the
                    \* will published by the broker)
  lastReport,       \* history: uptime and time_since_last_update of the
                    \* last status JSON printed
  ipCopy,           \* the address a call of mqtt_app_set_ip is copying
                    \* into device_ip, or NoCopy
  env               \* the environment of this behaviour

vars == <<now, last_update_time, mqtt_connected, device_ip, conn, lwt,
          outbox, retained, pc, cur, tsl, msg, said, lastReport, ipCopy, env>>

TypeOK ==
  /\ now \in 0..MaxTime
  /\ last_update_time \in 0..MaxTime
  /\ mqtt_connected \in BOOLEAN
  /\ device_ip \in Addr
  /\ conn \in {"none", "down", "up", "closing"}
  /\ lwt \in Msg
  /\ outbox \in Seq(Msg) /\ Len(outbox) <= MaxOutbox
  /\ retained \in Msg \cup {NoMsg}
  /\ pc \in [Tasks -> {"idle", "diff", "write", "stop_destroy", "set_ip"}]
  /\ cur \in [Tasks -> 0..MaxTime]
  /\ tsl \in [Tasks -> 0..(Uint32Modulus - 1)]
  /\ msg \in [Tasks -> Msg]
  /\ said \in Msg \cup {NoMsg}
  /\ lastReport \in [at : 0..MaxTime, tsl : 0..(Uint32Modulus - 1)]
  /\ ipCopy \in IPs \cup {NoCopy}
  /\ env \in Environments

-----------------------------------------------------------------------------
\* esp_mqtt_client_publish(client, "/device/status", m, qos 1, retain 1):
\* a NULL client is rejected; a connected client sends at once; otherwise
\* the message is queued in the outbox while there is room for it.
Publish(m) ==
  CASE conn = "none" -> UNCHANGED <<retained, outbox, said>>
    [] conn = "up" -> retained' = m /\ said' = m /\ UNCHANGED outbox
    [] Len(outbox) < MaxOutbox ->
         outbox' = Append(outbox, m) /\ said' = m /\ UNCHANGED retained
    [] OTHER -> UNCHANGED <<retained, outbox, said>>

\* publish_json_status(s), lines 371-394: a status other than "offline" is
\* refused while not connected (an early return, no step); the JSON takes
\* device_ip and current_time.  A NULL cJSON_CreateObject returns early
\* (no step either).
StatusBegin(p, s) ==
  /\ pc[p] = "idle"
  /\ mqtt_connected \/ s = "offline"
  /\ pc' = [pc EXCEPT ![p] = "diff"]
  /\ cur' = [cur EXCEPT ![p] = now]
  /\ msg' = [msg EXCEPT ![p] = [status |-> s, ip |-> device_ip]]

\* Mutant: the difference is taken as a signed int.
StatusDiff_signed(p) ==
  /\ pc[p] = "diff"
  /\ pc' = [pc EXCEPT ![p] = "write"]
  /\ tsl' = [tsl EXCEPT ![p] =
               IF last_update_time > 0 THEN cur[p] - last_update_time ELSE 0]
  /\ UNCHANGED <<ipCopy, env, now, last_update_time, mqtt_connected, device_ip, conn, lwt,
                 outbox, retained, cur, msg, said, lastReport>>

\* lines 395-396: time_since_last = last_update_time > 0 ?
\* current_time - last_update_time : 0, in uint32_t.
StatusDiff(p) ==
  /\ pc[p] = "diff"
  /\ pc' = [pc EXCEPT ![p] = "write"]
  /\ tsl' = [tsl EXCEPT ![p] =
               IF last_update_time > 0
                 THEN (cur[p] - last_update_time) % Uint32Modulus ELSE 0]
  /\ UNCHANGED <<ipCopy, env, now, last_update_time, mqtt_connected, device_ip, conn, lwt,
                 outbox, retained, cur, msg, said, lastReport>>

\* lines 397-409: last_update_time = current_time, then cJSON_Print (which
\* may fail, skipping the publish) and esp_mqtt_client_publish; the call's
\* locals end with it.
StatusWrite(p) ==
  /\ pc[p] = "write"
  /\ pc' = [pc EXCEPT ![p] = "idle"]
  /\ last_update_time' = cur[p]
  /\ \/ /\ env.cjson_fail
        /\ UNCHANGED <<outbox, retained, said, lastReport>>
     \/ /\ Publish(msg[p])
        /\ lastReport' = [at |-> cur[p], tsl |-> tsl[p]]
  /\ cur' = [cur EXCEPT ![p] = 0]
  /\ tsl' = [tsl EXCEPT ![p] = 0]
  /\ msg' = [msg EXCEPT ![p] = IdleMsg]
  /\ UNCHANGED <<ipCopy, env, now, mqtt_connected, device_ip, conn, lwt>>

-----------------------------------------------------------------------------
(* The application task.                                                   *)

\* mqtt_app_set_ip, lines 360-365 (a NULL ip is a no-op), on the task that
\* also starts and stops the client: strncpy is partway through (unless
\* the new address is the old one) ...
SetIpBegin(ip) ==
  /\ pc["app"] = "idle"
  /\ pc' = [pc EXCEPT !["app"] = "set_ip"]
  /\ ipCopy' = ip
  /\ device_ip' = IF ip = device_ip THEN ip ELSE TornIp
  /\ UNCHANGED <<env, now, last_update_time, mqtt_connected, conn, lwt, outbox,
                 retained, cur, tsl, msg, said, lastReport>>

\* ... and then the rest, and the terminating NUL.
SetIpEnd ==
  /\ pc["app"] = "set_ip"
  /\ pc' = [pc EXCEPT !["app"] = "idle"]
  /\ ipCopy' = NoCopy
  /\ device_ip' = ipCopy
  /\ UNCHANGED <<env, now, last_update_time, mqtt_connected, conn, lwt, outbox,
                 retained, cur, tsl, msg, said, lastReport>>

\* mqtt_app_start, lines 206-223: the will announces "offline" with the
\* device_ip of this moment.  Its failure paths leave no client (no step).
Start ==
  /\ pc["app"] = "idle"
  /\ conn = "none"
  /\ conn' = "down"
  /\ lwt' = [status |-> "offline", ip |-> device_ip]
  /\ UNCHANGED <<ipCopy, env, now, last_update_time, mqtt_connected, device_ip, outbox,
                 retained, pc, cur, tsl, msg, said, lastReport>>

\* mqtt_app_publish_status(s), lines 516-518.
PublishStatus(s) ==
  /\ env.app
  /\ StatusBegin("app", s)
  /\ UNCHANGED <<ipCopy, env, now, last_update_time, mqtt_connected, device_ip, conn, lwt,
                 outbox, retained, tsl, said, lastReport>>

\* mqtt_app_stop, lines 326-349: if mqtt_connected, publish the retained
\* offline message and esp_mqtt_client_disconnect (which only succeeds on
\* a connected client: no will is published after it).
StopPublish ==
  /\ pc["app"] = "idle"
  /\ conn /= "none"
  /\ pc' = [pc EXCEPT !["app"] = "stop_destroy"]
  /\ IF mqtt_connected
       THEN /\ Publish([status |-> "offline", ip |-> device_ip])
            /\ conn' = IF conn = "up" THEN "closing" ELSE conn
       ELSE UNCHANGED <<outbox, retained, said, conn>>
  /\ UNCHANGED <<ipCopy, env, now, last_update_time, mqtt_connected, device_ip, lwt, cur,
                 tsl, msg, lastReport>>

\* lines 351-357: esp_mqtt_client_stop waits for the esp-mqtt task to leave
\* the handler, disconnects cleanly and ends the task; destroy drops the
\* outbox; client = NULL.  mqtt_connected is left as it was.  (What the
\* dropped messages said is unsaid: the broker's message stands.)
StopDestroy ==
  /\ pc["app"] = "stop_destroy"
  /\ pc["mqtt"] = "idle"
  /\ pc' = [pc EXCEPT !["app"] = "idle"]
  /\ conn' = "none"
  /\ outbox' = <<>>
  /\ said' = IF outbox = <<>> THEN said ELSE retained
  /\ UNCHANGED <<ipCopy, env, now, last_update_time, mqtt_connected, device_ip, lwt,
                 retained, cur, tsl, msg, lastReport>>

-----------------------------------------------------------------------------
(* The esp-mqtt task and the broker.                                       *)

\* Mutant: "online" is published before mqtt_connected is set, so the
\* gate of publish_json_status sees the old flag.
Connected_publish_first ==
  /\ pc["mqtt"] = "idle"
  /\ conn = "down"
  /\ conn' = "up"
  /\ mqtt_connected' = TRUE
  /\ IF mqtt_connected
       THEN /\ pc' = [pc EXCEPT !["mqtt"] = "diff"]
            /\ cur' = [cur EXCEPT !["mqtt"] = now]
            /\ msg' = [msg EXCEPT !["mqtt"] = [status |-> "online", ip |-> device_ip]]
       ELSE UNCHANGED <<pc, cur, msg>>
  /\ UNCHANGED <<ipCopy, env, now, last_update_time, device_ip, lwt, outbox, retained,
                 tsl, said, lastReport>>

\* The connection is established (the broker holds the will) and
\* MQTT_EVENT_CONNECTED runs, lines 112-121: mqtt_connected = true, the
\* subscribe, then publish_json_status("online").
Connected ==
  /\ pc["mqtt"] = "idle"
  /\ conn = "down"
  /\ conn' = "up"
  /\ mqtt_connected' = TRUE
  /\ \/ /\ env.cjson_fail
        /\ UNCHANGED <<pc, cur, msg>>
     \/ /\ pc' = [pc EXCEPT !["mqtt"] = "diff"]
        /\ cur' = [cur EXCEPT !["mqtt"] = now]
        /\ msg' = [msg EXCEPT !["mqtt"] = [status |-> "online", ip |-> device_ip]]
  /\ UNCHANGED <<ipCopy, env, now, last_update_time, device_ip, lwt, outbox, retained,
                 tsl, said, lastReport>>

\* The connection is lost: the broker publishes the retained will and
\* MQTT_EVENT_DISCONNECTED clears mqtt_connected (lines 124-126).
ConnectionLost ==
  /\ pc["mqtt"] = "idle"
  /\ conn = "up"
  /\ conn' = "down"
  /\ mqtt_connected' = FALSE
  /\ retained' = lwt
  /\ said' = lwt
  /\ UNCHANGED <<ipCopy, env, now, last_update_time, device_ip, lwt, outbox, pc, cur, tsl,
                 msg, lastReport>>

\* The esp-mqtt task resends the oldest queued message once connected.
Resend ==
  /\ pc["mqtt"] = "idle"
  /\ conn = "up"
  /\ outbox /= <<>>
  /\ retained' = Head(outbox)
  /\ outbox' = Tail(outbox)
  /\ UNCHANGED <<ipCopy, env, now, last_update_time, mqtt_connected, device_ip, conn, lwt,
                 pc, cur, tsl, msg, said, lastReport>>

\* Uptime advances.
Tick ==
  /\ now < MaxTime
  /\ now' = now + 1
  /\ UNCHANGED <<ipCopy, env, last_update_time, mqtt_connected, device_ip, conn, lwt,
                 outbox, retained, pc, cur, tsl, msg, said, lastReport>>

\* A step of the call to publish_json_status in progress on task p.
StatusStep(p) ==
  /\ \/ StatusDiff(p)
     \/ StatusWrite(p)

-----------------------------------------------------------------------------
\* Lines 26-32 and 395: the file-scope state at boot.
Init ==
  /\ now = 0
  /\ last_update_time = 0
  /\ mqtt_connected = FALSE
  /\ device_ip = DefaultIp
  /\ conn = "none"
  /\ lwt = [status |-> "offline", ip |-> DefaultIp]
  /\ outbox = <<>>
  /\ retained = NoMsg
  /\ pc = [p \in Tasks |-> "idle"]
  /\ cur = [p \in Tasks |-> 0]
  /\ tsl = [p \in Tasks |-> 0]
  /\ msg = [p \in Tasks |-> IdleMsg]
  /\ said = NoMsg
  /\ lastReport = [at |-> 0, tsl |-> 0]
  /\ ipCopy = NoCopy
  /\ env \in Environments

Next ==
  \/ \E ip \in IPs : SetIpBegin(ip)
  \/ SetIpEnd
  \/ Start
  \/ \E s \in Statuses : PublishStatus(s)
  \/ StopPublish
  \/ StopDestroy
  \/ Connected
  \/ ConnectionLost
  \/ Resend
  \/ \E p \in Tasks : StatusStep(p)
  \/ Tick

(* A call in progress runs to its end on its task, stop included once the *)
(* handler has returned; esp-mqtt resends its outbox while connected.     *)
(* Nothing forces a new call, a connection, a loss or time to pass.       *)
Fairness ==
  /\ \A p \in Tasks : WF_vars(StatusStep(p))
  /\ WF_vars(StopDestroy)
  /\ WF_vars(Resend)
  /\ WF_vars(SetIpEnd)

Spec == Init /\ [][Next]_vars /\ Fairness

-----------------------------------------------------------------------------
(* Properties.                                                             *)

\* Every status JSON's time_since_last_update is at most the uptime it is
\* reported at: publish_json_status's read of last_update_time (line 396)
\* never sees a later time than its own current_time (line 394).
TimeSinceLastWithinUptime ==
  lastReport.tsl <= lastReport.at

\* Once connected with nothing left in the outbox, the broker retains the
\* status the device said last: queued publishes are not delivered after a
\* later one.
RetainedIsLatest ==
  (conn = "up" /\ outbox = <<>>) => retained = said

\* After mqtt_app_stop, a device that has announced any status is left
\* announced "offline" on the broker (its final retained status).
StopLeavesOffline ==
  (conn = "none" /\ retained /= NoMsg) => retained.status = "offline"

\* Every connection is announced: when only the CONNECTED handler
\* announces status and cJSON does not fail, then while the client stays
\* connected the broker eventually retains "online" (the handler's
\* publish, line 120, against stop, loss and outbox resends).
ConnectedEventuallyOnline ==
  (~env.app /\ ~env.cjson_fail) =>
    ((conn = "up") ~> (conn /= "up" \/ retained.status = "online"))

\* Every address the device gives out, in the will (line 208), in a status
\* JSON (line 385) or in stop's offline message (line 346), is one that
\* mqtt_app_set_ip was given: none is copied from device_ip while its
\* strncpy (line 362) is halfway through.
IpsAreWhole ==
  \A m \in {lwt, retained, said} \cup {outbox[i] : i \in DOMAIN outbox} :
    m.ip /= TornIp

=============================================================================

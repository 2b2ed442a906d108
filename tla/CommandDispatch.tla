---------------------------- MODULE CommandDispatch ----------------------------
(***************************************************************************)
(* The command protocol of src/main/mqtt_app.c: the MQTT_EVENT_DATA case   *)
(* of mqtt_event_handler and process_json_command, which it calls on the  *)
(* esp-mqtt task; and the one-character protocol of the MQTT_EVENT_DATA    *)
(* case of src/unnamed/part_000 (the build is one variant or the other).  *)
(* esp-mqtt hands a message longer than its receive buffer to the handler *)
(* as several MQTT_EVENT_DATA events; only the first carries the topic    *)
(* (topic NULL, topic_len 0 in the others).  Messages are abstracted to what the dispatcher tells   *)
(* apart: the channel a topic starts with (and whether more characters    *)
(* follow), whether the payload parses, and the type / payload / cmd      *)
(* members it looks up.  The LED executor process_led_command is external *)
(* and recorded as the sequence of codes it receives.                     *)
(***************************************************************************)
EXTENDS Naturals, Sequences, SequencesExt

CONSTANTS
  Cmds,          \* cmd strings a client may send
  Chars,         \* one-character payloads a client may send
  Variants,      \* builds checked: "json" (mqtt_app.c), "raw" (part_000)
  Fragmenting,   \* messages may exceed esp-mqtt's receive buffer
  MaxDeliveries  \* MQTT_EVENT_DATA events in one behaviour

ASSUME {"led_a", "led_b", "led_c"} \subseteq Cmds
ASSUME MaxDeliveries \in Nat \ {0}
ASSUME Variants \subseteq {"json", "raw"} /\ Variants /= {}
ASSUME Fragmenting \in BOOLEAN

\* A topic: the /device/<chan> it starts with and whether characters follow.
Topic == [chan : {"commands", "status"}, suffix : BOOLEAN]
\* A received payload: the members the dispatcher reads ("absent" when the
\* member is missing), or NotJson when cJSON_Parse fails.
Json == [type : {"absent", "non_string", "ping", "command", "status"},
         payload : {"absent", "no_cmd", "non_string_cmd"} \cup Cmds]
NotJson == [type |-> "parse_error", payload |-> "absent"]
Data == Json \cup {NotJson}
\* One MQTT_EVENT_DATA: its topic (NullTopic in a continuation), how the
\* payload parses, and the payload as one character when data_len == 1
\* ("none" otherwise; a single character never parses as an envelope).
NullTopic == [chan |-> "null", suffix |-> FALSE]
Event == {e \in [topic : Topic \cup {NullTopic}, data : Data,
                 char : Chars \cup {"none"}] :
            e.char = "none" \/ e.data = NotJson}
Delivery == {e \in Event : e.topic /= NullTopic}
\* No continuation pending.
NoEvent == [topic |-> [chan |-> "none", suffix |-> FALSE], data |-> NotJson,
            char |-> "none"]

\* A publication: topic, envelope type, echoed cmd, reported active_led.
Publication == [topic : {"/device/response"}, type : {"pong", "response"},
                cmd : Cmds \cup {"none"}, active_led : Nat]

VARIABLES
  variant,            \* the build: "json" or "raw"
  current_active_led, \* static int current_active_led
  handled,            \* history: deliveries passed to process_json_command
  ledCalls,           \* history: codes passed to process_led_command
  published,          \* history: publications, in order
  delivered,          \* MQTT_EVENT_DATA events so far
  rest,               \* the continuation esp-mqtt still has to deliver
  misread,            \* history: the handler acted on a continuation
  panicked            \* the handler dereferenced a NULL topic

vars == <<variant, current_active_led, handled, ledCalls, published,
          delivered, rest, misread, panicked>>

TypeOK ==
  /\ current_active_led \in Nat
  /\ variant \in Variants
  /\ handled \in Seq(Event)
  /\ ledCalls \in Seq({"A", "B", "C"} \cup Chars)
  /\ published \in Seq(Publication)
  /\ delivered \in 0..MaxDeliveries
  /\ rest \in Event \cup {NoEvent}
  /\ misread \in BOOLEAN /\ panicked \in BOOLEAN

-----------------------------------------------------------------------------
\* strncmp(event->topic, MQTT_TOPIC_DEVICE_COMMANDS, strlen(...)) == 0
IsCommandsTopic(t) == t.chan = "commands"

\* Mutant: the codes are shifted by one letter.
LedCode_shifted == [led_a |-> "B", led_b |-> "C", led_c |-> "D"]

\* The cmd strings process_json_command maps to an LED code.
LedCode == [led_a |-> "A", led_b |-> "B", led_c |-> "C"]

\* A parsed payload whose "type" member is a string.
HasType(data) == data.type \notin {"parse_error", "absent", "non_string"}

\* A "command" whose payload has a string "cmd" member.
HasCmd(data) ==
  /\ HasType(data)
  /\ data.type = "command"
  /\ data.payload \in Cmds

\* process_json_command, lines 489-502: the codes given to
\* process_led_command.
LedCalls(data) ==
  IF HasCmd(data) /\ data.payload \in DOMAIN LedCode
    THEN <<LedCode[data.payload]>>
    ELSE <<>>

\* Mutant: only recognised LED commands are acknowledged.
Replies_known_only(data) ==
  IF HasType(data) /\ data.type = "ping"
    THEN <<[topic |-> "/device/response", type |-> "pong", cmd |-> "none",
            active_led |-> current_active_led]>>
  ELSE IF HasCmd(data) /\ data.payload \in DOMAIN LedCode
    THEN <<[topic |-> "/device/response", type |-> "response",
            cmd |-> data.payload, active_led |-> 0]>>
  ELSE <<>>

\* process_json_command, lines 440-514: a parse error, a missing or
\* non-string type, a command without payload or without a string cmd,
\* and any other type are dropped; "ping" is answered with a pong carrying
\* current_active_led (lines 455-478); a command with a string cmd is
\* acknowledged through publish_json_message (lines 504-509, 413-437),
\* whose mqtt_connected test holds on the esp-mqtt task while data flows.
Replies(data) ==
  IF HasType(data) /\ data.type = "ping"
    THEN <<[topic |-> "/device/response", type |-> "pong", cmd |-> "none",
            active_led |-> current_active_led]>>
  ELSE IF HasCmd(data)
    THEN <<[topic |-> "/device/response", type |-> "response",
            cmd |-> data.payload, active_led |-> 0]>>
  ELSE <<>>

-----------------------------------------------------------------------------
\* mqtt_app.c MQTT_EVENT_DATA, lines 152-170: a NUL-terminated copy of the
\* payload is made (malloc may fail, dropping the message) and handed to
\* process_json_command when the topic starts with /device/commands.  In
\* a continuation event strncmp reads the NULL topic: the load faults and
\* the device panics.
OnDataJson(e) ==
  \/ \* malloc(event->data_len + 1) returns NULL
     UNCHANGED <<handled, ledCalls, published, misread, panicked>>
  \/ /\ e.topic = NullTopic
     /\ misread' = TRUE /\ panicked' = TRUE
     /\ UNCHANGED <<handled, ledCalls, published>>
  \/ /\ e.topic /= NullTopic /\ ~IsCommandsTopic(e.topic)
     /\ UNCHANGED <<handled, ledCalls, published, misread, panicked>>
  \/ /\ e.topic /= NullTopic /\ IsCommandsTopic(e.topic)
     /\ handled' = Append(handled, e)
     /\ ledCalls' = ledCalls \o LedCalls(e.data)
     /\ published' = published \o Replies(e.data)
     /\ UNCHANGED <<misread, panicked>>

\* part_000 MQTT_EVENT_DATA, lines 134-143: whatever the topic, a payload
\* of exactly one character goes to process_led_command; the topic is
\* only printed with its length, so a continuation is read without fault.
OnDataRaw(e) ==
  /\ IF e.char /= "none"
       THEN /\ handled' = Append(handled, e)
            /\ ledCalls' = Append(ledCalls, e.char)
            /\ misread' = (misread \/ e.topic = NullTopic)
       ELSE UNCHANGED <<handled, ledCalls, misread>>
  /\ UNCHANGED <<published, panicked>>

\* mqtt_event_handler runs the MQTT_EVENT_DATA case of the build.
OnData(e) ==
  /\ ~panicked
  /\ delivered < MaxDeliveries
  /\ delivered' = delivered + 1
  /\ IF variant = "json" THEN OnDataJson(e) ELSE OnDataRaw(e)
  /\ UNCHANGED <<variant, current_active_led>>

\* esp-mqtt delivers a message that fits its buffer in one event.
DeliverWhole(d) ==
  /\ rest = NoEvent
  /\ OnData(d)
  /\ UNCHANGED rest

\* A longer message: the first event has the topic and a prefix of the
\* payload (longer than one character, and without the closing brace an
\* envelope ends with, so it does not parse); the continuation, whose
\* length may be one, is delivered next.
DeliverFirst(d, tail) ==
  /\ Fragmenting
  /\ rest = NoEvent
  /\ OnData([topic |-> d.topic, data |-> NotJson, char |-> "none"])
  /\ rest' = [topic |-> NullTopic, data |-> NotJson, char |-> tail]

DeliverRest ==
  /\ rest /= NoEvent
  /\ OnData(rest)
  /\ rest' = NoEvent

\* Lines 26-32: the file-scope state at boot, in either build.
Init ==
  /\ variant \in Variants
  /\ current_active_led = 0
  /\ handled = <<>>
  /\ ledCalls = <<>>
  /\ published = <<>>
  /\ delivered = 0
  /\ rest = NoEvent
  /\ misread = FALSE
  /\ panicked = FALSE

Next ==
  \/ \E d \in Delivery : DeliverWhole(d)
  \/ \E d \in Delivery, tail \in Chars \cup {"none"} : DeliverFirst(d, tail)
  \/ DeliverRest

Spec == Init /\ [][Next]_vars

-----------------------------------------------------------------------------
(* Properties.                                                             *)

\* The spec's dispatch table (section 4.4): what one envelope must cause,
\* as <<reply type, echoed cmd>> pairs and LED codes.
SpecLedCode == [led_a |-> "A", led_b |-> "B", led_c |-> "C"]
SpecAnswers(data) ==
  CASE data.type = "ping"                         -> <<<<"pong", "none">>>>
    [] data.type = "command" /\ data.payload \in Cmds
                                                  -> <<<<"response", data.payload>>>>
    [] OTHER                                      -> <<>>
SpecActions(data) ==
  IF data.type = "command"
     /\ data.payload \in DOMAIN SpecLedCode
    THEN <<SpecLedCode[data.payload]>> ELSE <<>>
\* part_000's protocol: a one-character message is that LED command.
RawActions(e) == <<e.char>>

\* Over every sequence of messages the esp-mqtt task hands to
\* process_json_command, the LED codes it executes and the replies it
\* publishes, in order, are those the spec's table gives message by
\* message: one acknowledgement per string cmd, recognised or not, one
\* pong per ping, nothing for malformed or unhandled envelopes.  In the
\* part_000 build each dispatched message is one LED command, no reply.
DispatchFollowsSpec ==
  IF variant = "json"
    THEN /\ ledCalls = FoldLeft(LAMBDA acc, d : acc \o SpecActions(d.data),
                                <<>>, handled)
         /\ [i \in 1..Len(published) |-> <<published[i].type, published[i].cmd>>]
              = FoldLeft(LAMBDA acc, d : acc \o SpecAnswers(d.data), <<>>, handled)
    ELSE /\ ledCalls = FoldLeft(LAMBDA acc, e : acc \o RawActions(e), <<>>, handled)
         /\ published = <<>>

\* The handler only ever acts on whole messages, as the spec's "data
\* received" row assumes (a topic and a payload per event): the
\* continuation events esp-mqtt emits for a message longer than its buffer
\* neither fault the handler (mqtt_app.c: strncmp on the NULL topic) nor
\* reach the LED executor as a command of their own (part_000: a
\* one-byte tail).  "No error in this core terminates the process."
ContinuationsIgnored ==
  ~misread

=============================================================================

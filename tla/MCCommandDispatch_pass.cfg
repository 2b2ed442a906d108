\* Two MQTT_EVENT_DATA events over every topic / payload shape, whole or
\* fragmented, in both builds.
CONSTANTS
  Cmds <- MCCmds
  Chars <- MCChars
  Variants = {"json", "raw"}
  Fragmenting = TRUE
  MaxDeliveries = 2
SPECIFICATION Spec
INVARIANT TypeOK
INVARIANT DispatchFollowsSpec
\* Every behaviour ends once the message stream (MaxDeliveries) is consumed,
\* or when the handler has faulted and the device panics.
CHECK_DEADLOCK FALSE

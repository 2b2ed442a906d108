\* A command message longer than the esp-mqtt receive buffer, in the mqtt_app.c build.
CONSTANTS
  Cmds <- MCCmds
  Chars <- MCChars
  Variants = {"json"}
  Fragmenting = TRUE
  MaxDeliveries = 2
SPECIFICATION Spec
\* Every behaviour ends once the message stream (MaxDeliveries) is consumed,
\* or when the handler has faulted and the device panics.
CHECK_DEADLOCK FALSE
INVARIANT ContinuationsIgnored

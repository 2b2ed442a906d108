\* The application and the CONNECTED handler both publish status.
CONSTANTS
  ip0 = ip0
  ip1 = ip1
  IPs <- MCIPs
  DefaultIp = ip0
  Environments <- MCAppPublishing
  MaxTime = 3
  MaxOutbox = 2
  Uint32Modulus <- MCUint32Modulus
SPECIFICATION Spec
INVARIANT TimeSinceLastWithinUptime

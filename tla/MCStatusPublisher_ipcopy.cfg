\* Only the CONNECTED handler publishes status; mqtt_app_set_ip may be called at any time.
CONSTANTS
  ip0 = ip0
  ip1 = ip1
  IPs <- MCIPs
  DefaultIp = ip0
  Environments <- MCHandlerOnly
  MaxTime = 3
  MaxOutbox = 2
  Uint32Modulus <- MCUint32Modulus
SPECIFICATION Spec
INVARIANT IpsAreWhole

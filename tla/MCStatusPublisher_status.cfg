\* Each behaviour runs either with only the CONNECTED handler announcing status, or with the application also calling mqtt_app_publish_status and cJSON allowed to fail.
CONSTANTS
  ip0 = ip0
  ip1 = ip1
  IPs <- MCOneIp
  DefaultIp = ip0
  Environments <- MCAllEnvironments
  MaxTime = 3
  MaxOutbox = 2
  Uint32Modulus <- MCUint32Modulus
SPECIFICATION Spec
INVARIANT TypeOK
PROPERTY ConnectedEventuallyOnline

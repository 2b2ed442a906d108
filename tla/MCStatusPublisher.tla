-------------------------- MODULE MCStatusPublisher --------------------------
EXTENDS StatusPublisher

CONSTANTS ip0, ip1

MCIPs == {ip0, ip1}
\* One address: mqtt_app_set_ip rewrites device_ip with the value it holds.
MCOneIp == {ip0}

\* Stands for 2^32, which TLC's 32-bit integers cannot hold; every clock
\* value of the instance is far below it.
MCUint32Modulus == 65536

\* The environments of the instance, by who announces status and whether
\* cJSON may fail.
HandlerOnly == [app |-> FALSE, cjson_fail |-> FALSE]
AppPublishing == [app |-> TRUE, cjson_fail |-> FALSE]
AppAndFaults == [app |-> TRUE, cjson_fail |-> TRUE]
MCHandlerOnly == {HandlerOnly}
MCAppPublishing == {AppPublishing}
MCAppAndFaults == {AppAndFaults}
MCAllEnvironments == {HandlerOnly, AppAndFaults}
=============================================================================

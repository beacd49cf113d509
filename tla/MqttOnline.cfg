SPECIFICATION Spec
CONSTANTS
  Hosts = {home}
  Off = off
  Topics = {rack, den}
  MaxClients = 2
  MaxQueue = 1
INVARIANT OnlineIsCovered
CHECK_DEADLOCK FALSE

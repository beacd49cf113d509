SPECIFICATION FairSpec
CONSTANTS
  Hosts = {home, lab}
  Off = off
  Topics = {rack, den}
  MaxClients = 2
  MaxQueue = 1
INVARIANT TypeOK
INVARIANT OneThread
INVARIANT OkIsConnected
INVARIANT RunsAsSet
PROPERTY StopsEnd
PROPERTY LossIsNoticed
\* After the shutdown nothing is left to do.
CHECK_DEADLOCK FALSE

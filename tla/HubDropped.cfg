SPECIFICATION Spec
CONSTANTS
  s1 = s1
  s2 = s2
  Sockets <- MCSockets
  Filters = {all, errors}
  Unfiltered = all
  MaxTicks = 3
INVARIANT EveryConnectedBrowser
\* Once every browser is gone and MaxTicks snapshots are out, nothing is left.
CHECK_DEADLOCK FALSE

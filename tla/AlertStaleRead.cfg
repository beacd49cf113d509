SPECIFICATION Spec
CONSTANTS
  crit = crit
  Loop = loop
  Alarms <- MCAlarms
  Rank <- MCRank
  Callers = {hook}
  Settings <- MCSettings
  MaxAge = 2
  Retention = 1
  MaxFaults = 0
PROPERTY MemoryIsObeyed

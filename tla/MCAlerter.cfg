SPECIFICATION FairSpec
CONSTANTS
  warn = warn
  crit = crit
  Loop = loop
  Alarms <- MCAlarms
  Rank <- MCRank
  Callers = {hook}
  Settings <- MCSettings
  MaxAge = 2
  Retention = 1
  MaxFaults = 1
INVARIANT TypeOK
INVARIANT TimesAreReal
PROPERTY SilenceIsEarned
PROPERTY NoRepeatWhileRemembered
PROPERTY StuckAlarmsRepeat

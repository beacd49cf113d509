SPECIFICATION FairSpec
CONSTANTS
  Settings = {calm, eager}
  Hour = 2
  MaxFailures = 2
INVARIANT TypeOK
INVARIANT NothingAfterClose
PROPERTY KeepsServing
PROPERTY SettingsTakeEffect
PROPERTY ExpiredArePurged
PROPERTY ShutdownEnds

SPECIFICATION FairSpec
CONSTANTS
  Plugins = {mqtt, call}
  mqtt = mqtt
  call = call
  InitLimit = 4
  TTL = 8
  Period = 3
  MaxMisses = 1
  MaxRestarts = 1
INVARIANT NoPrematureAlarm
PROPERTIES TimelyAlarm StuckPluginKeepsAlarming

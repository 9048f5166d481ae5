\* A monitor whose examination never returns has no next step.
CHECK_DEADLOCK FALSE
SPECIFICATION FairSpec
CONSTANTS
  MaxDevices = 2
  Devicesize = 2
  Undialable = {2}
PROPERTY MonitoredDevicesReported

SPECIFICATION Spec
CONSTANTS
  MaxVersion = 3
  MaxChecks = 2
  Installers = {i1, i2}
  MaxEvents = 3
INVARIANTS CurrentWhole PluginSafe
PROPERTIES RunningSpared InstallEnds
CHECK_DEADLOCK FALSE

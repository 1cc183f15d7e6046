SPECIFICATION Spec
CONSTANTS
  UpSize = 2
  PacketBytes = {1}
  SyncBytes = 2
  DownSize = 3
  Command = {1, 2, 128}
  Mask = {{}, {"std", "start", "stop", "info"}}
  ModuleId = {0}
  MaxModules = 1
  TimeMod = 2
VIEW Memory
INVARIANTS
  TypeOK
  HostClockRight
  CommandsOnce
  RecursesOnce
  LastRequestWinsUnlessUndone
PROPERTIES
  GapsMarkedUnlessMuted

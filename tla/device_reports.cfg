SPECIFICATION FairSpec
CONSTANTS
  low = low
  full = full
  eos = eos
  nikon = nikon
  Threads = {h1, h2}
  Calls <- KioskCalls
  Readings = {low, full}
  Names = {eos, nikon}
  Blank = Blank
  AdminCameras <- OldCameras
  MaxRequests = 3
  Null = Null
INVARIANTS
  TypeOK
  OnlineIsPassing
  NoStrayProfile
  
  LoggedOnce
  DeletedIsRefused
  NoLockCycle
PROPERTIES
  AloneIsExact
  OnlineEnds
CHECK_DEADLOCK FALSE

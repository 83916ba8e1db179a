SPECIFICATION Spec
CONSTANTS
  kioskA = kioskA
  kioskB = kioskB
  s1 = s1
  s2 = s2
  frame1 = frame1
  frame2 = frame2
  h1 = h1
  h2 = h2
  Null = Null
  Devices = {kioskA, kioskB}
  LiveDevices = {kioskA, kioskB}
  Assigned = {kioskA}
  SessionIds = {s1, s2}
  LocalIds = {s2}
  Frames = {frame1, frame2}
  Offered <- OneCampaign
  Patches <- StatePatches
  Pushes <- None
  Handlers = {h1, h2}
  MaxRequests = 5
PROPERTIES
  ActionsFollowLifecycle
CHECK_DEADLOCK FALSE
